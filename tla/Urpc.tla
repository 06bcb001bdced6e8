-------------------------------- MODULE Urpc --------------------------------
(***************************************************************************)
(* The remote procedure calls of urpc.c (the board, server) and            *)
(* pybmw/urpc.py (the host, client) over a serial line that may lose any   *)
(* byte.  A frame is 55 ab 55 cd CCCC MM RR LLLL <data> in both directions. *)
(*                                                                         *)
(* Both ends read frames alike, byte by byte: they hunt for the header,    *)
(* read six bytes, check the length, read the data and verify the          *)
(* checksum.  `Reader' is that reading; what an end does with the outcome  *)
(* is its own.  A write and what a handler computes take no time: the      *)
(* reader at the other end is delayed instead.                             *)
(*                                                                         *)
(* A byte is tagged: header bytes, numbers (method, return code, length,   *)
(* data), the two halves of a checksum, and what a handler returns, which  *)
(* tells its executions apart.  The checksum is the very content it is     *)
(* computed over: it detects every mixture a loss makes of a frame.        *)
(*                                                                         *)
(* A definition marked "Fault" is a wrong version of one further down; the *)
(* specification does not use it.                                          *)
(***************************************************************************)
EXTENDS Naturals, Sequences

CONSTANTS
    Known,          \* the ids in RPC_Handlers
    Requests,       \* the calls the host makes: [method, data]
    BufferSize,     \* URPC_BUFFER_SIZE
    Radix,          \* values of a byte
    MaxRetries,     \* max_retries, the attempts of a call
    MaxCalls,       \* calls the host makes
    MaxLosses       \* bytes the line loses

Header == <<<<"h", "55">>, <<"h", "ab">>, <<"h", "55">>, <<"h", "cd">>>>
Num(k) == <<"n", k>>

(* The host sends no more than the board's buffer takes.                    *)
ASSUME RequestsAssumption ==
    \A q \in Requests :
        /\ q = [method |-> q.method, data |-> q.data]
        /\ q.method \in {Num(k) : k \in 0 .. Radix - 1}
        /\ q.data \in Seq({Num(k) : k \in 0 .. Radix - 1})
        /\ Len(q.data) <= BufferSize
ASSUME BoundsAssumption ==
    /\ BufferSize \in Nat \ {0} /\ BufferSize < Radix * Radix
    /\ Radix \in Nat \ {0} /\ MaxRetries \in Nat \ {0}
    /\ MaxCalls \in Nat /\ MaxLosses \in Nat

VARIABLES
    toServer, toClient,     \* bytes on the line
    server, client,         \* the reader at each end
    request, attempt,       \* of the latest call
    outcome,                \* <<>> while the call is underway
    sent, executed,         \* history: requests written, handler calls
    since, clean, owed,     \* history: executions before the call; it is
                            \*   made on a quiet line that loses nothing;
                            \*   the board may take that many bytes of it
                            \*   for the rest of an earlier frame
    calls, losses,
    patient                 \* the timeout exceeds any answer's delay

lines == <<toServer, toClient>>
call == <<request, attempt, outcome>>
history == <<sent, executed, since, clean, owed, calls, losses>>
vars == <<toServer, toClient, server, client, request, attempt, outcome, sent,
          executed, since, clean, owed, calls, losses, patient>>
----------------------------------------------------------------------------
(* Frames.                                                                  *)

Body(m, rc, d) ==
    <<m, rc, Num(Len(d) % Radix), Num(Len(d) \div Radix)>> \o d
Frame(body) == Header \o <<<<"lo", body>>, <<"hi", body>>>> \o body

RequestBody(q) == Body(q.method, Num(0), q.data)

(* A handler's answer is one byte here; `n' counts the handler calls.       *)
Answer(m, n) == <<"answer", m, n>>
AnswerBody(m, n) == Body(m, Num(0), <<Answer(m, n)>>)
NotFound == <<"rc", "-128">>
NotFoundBody(m) == Body(m, NotFound, <<>>)
----------------------------------------------------------------------------
(* Reading.                                                                 *)

(* `head': the latest four bytes; `found': they are the header; `got': the  *)
(* bytes after it; `need': the length, once read.                           *)
Hunting == [head |-> <<>>, found |-> FALSE, got |-> <<>>, need |-> 0]

Latest(head, b) ==
    IF Len(head) < 4 THEN Append(head, b) ELSE Append(Tail(head), b)

(* The value of a byte read as a number: half a checksum may be anything.   *)
Value(b) == IF b[1] = "n" THEN {b[2]} ELSE 0 .. Radix - 1

(* The length, once byte b is there.                                        *)
Needs(r, b) ==
    IF Len(r.got) = 5
    THEN {lo + Radix * hi : lo \in Value(r.got[5]), hi \in Value(b)}
    ELSE {r.need}

Read(r, b) ==
    IF ~r.found
    THEN {[head |-> Latest(r.head, b), found |-> Latest(r.head, b) = Header,
           got |-> r.got, need |-> r.need]}
    ELSE {[head |-> r.head, found |-> TRUE, got |-> Append(r.got, b), need |-> n] :
              n \in Needs(r, b)}

(* Fault: no length is refused.                                             *)
RefusesNone(r) == FALSE

TooLong(r) == Len(r.got) = 6 /\ r.need > BufferSize
InFull(r) == Len(r.got) >= 6 /\ Len(r.got) = 6 + r.need /\ ~TooLong(r)

ReadBody(r) == SubSeq(r.got, 3, Len(r.got))
ChecksumMatches(r) ==
    r.got[1] = <<"lo", ReadBody(r)>> /\ r.got[2] = <<"hi", ReadBody(r)>>

(* How many bytes a reader still takes for the frame it is in, at most.     *)
Owed(r) ==
    IF ~r.found THEN 0
    ELSE 6 + (IF Len(r.got) < 6 THEN BufferSize ELSE r.need) - Len(r.got)

Accepted(r) == InFull(r) /\ ChecksumMatches(r)
Refused(r) == TooLong(r) \/ (InFull(r) /\ ~ChecksumMatches(r))

MethodOf(r) == r.got[3]
RetcodeOf(r) == r.got[4]
DataOf(r) == SubSeq(r.got, 7, Len(r.got))
----------------------------------------------------------------------------
Init ==
    /\ toServer = <<>> /\ toClient = <<>>
    /\ server = Hunting /\ client = Hunting
    /\ request \in Requests /\ attempt = 0 /\ outcome = <<"none">>
    /\ sent = <<>> /\ executed = <<>>
    /\ since = 0 /\ clean = TRUE /\ owed = 0 /\ calls = 0 /\ losses = 0
    /\ patient \in BOOLEAN

(* What the reader at the end of a line makes of the next byte.             *)
Received(line, reader) ==
    IF line = <<>> THEN {} ELSE Read(reader, Head(line))
----------------------------------------------------------------------------
(* The board: urpc_server, byte by byte.                                    *)

ServerTakes ==
    /\ toServer' = Tail(toServer)
    /\ UNCHANGED <<client, call, sent, since, clean, owed, calls, losses, patient>>

ServerWaits ==
    \E r \in Received(toServer, server) :
        /\ ~Accepted(r) /\ ~Refused(r)
        /\ server' = r
        /\ ServerTakes
        /\ UNCHANGED <<toClient, executed>>

(* Faults: a request that is refused is served all the same; or answered    *)
(* with a failure.                                                          *)
ServerServesRefused ==
    \E r \in Received(toServer, server) :
        /\ Refused(r)
        /\ server' = Hunting
        /\ ServerTakes
        /\ executed' = Append(executed, [method |-> MethodOf(r), data |-> DataOf(r)])
        /\ UNCHANGED toClient
ServerAnswersRefused ==
    \E r \in Received(toServer, server) :
        /\ Refused(r)
        /\ server' = Hunting
        /\ ServerTakes
        /\ toClient' = toClient \o Frame(NotFoundBody(MethodOf(r)))
        /\ UNCHANGED executed

(* rpc_read_request fails: back to hunting, without a word.                 *)
ServerRefuses ==
    \E r \in Received(toServer, server) :
        /\ Refused(r)
        /\ server' = Hunting
        /\ ServerTakes
        /\ UNCHANGED <<toClient, executed>>

(* The handler runs and its answer is written, or there is none and the     *)
(* return code says so.                                                     *)
ServerServes ==
    \E r \in Received(toServer, server) :
        /\ Accepted(r)
        /\ server' = Hunting
        /\ ServerTakes
        /\ IF MethodOf(r) \in Known
           THEN /\ executed' = Append(executed, [method |-> MethodOf(r),
                                                 data |-> DataOf(r)])
                /\ toClient' = toClient \o
                      Frame(AnswerBody(MethodOf(r), Len(executed) + 1))
           ELSE /\ toClient' = toClient \o Frame(NotFoundBody(MethodOf(r)))
                /\ UNCHANGED executed

Server == ServerWaits \/ ServerRefuses \/ ServerServes
----------------------------------------------------------------------------
(* The host: RPC.call.                                                      *)

Underway == outcome = <<>>

Write(q) ==
    /\ toServer' = toServer \o Frame(RequestBody(q))
    /\ sent' = Append(sent, q)

Call(q) ==
    /\ ~Underway /\ calls < MaxCalls
    /\ request' = q /\ attempt' = 0 /\ outcome' = <<>>
    /\ client' = Hunting
    /\ Write(q)
    /\ since' = Len(executed)
    /\ clean' = (toServer = <<>> /\ toClient = <<>>)
    /\ owed' = IF clean' THEN Owed(server) ELSE 0
    /\ calls' = calls + 1
    /\ UNCHANGED <<toClient, server, executed, losses, patient>>

ClientTakes ==
    /\ toClient' = Tail(toClient)
    /\ UNCHANGED <<server, request, executed, since, clean, owed, calls, losses, patient>>

ClientWaits ==
    \E r \in Received(toClient, client) :
        /\ Underway /\ ~Accepted(r) /\ ~Refused(r)
        /\ client' = r
        /\ ClientTakes
        /\ UNCHANGED <<toServer, attempt, outcome, sent>>

(* Fault: the next attempt only reads again.                                *)
RetrySilently ==
    /\ client' = Hunting
    /\ attempt' = attempt + 1
    /\ IF attempt + 1 < MaxRetries THEN UNCHANGED outcome ELSE outcome' = <<"exhausted">>
    /\ UNCHANGED <<toServer, sent>>

(* An RPC_Exception in an attempt: the next one, if any is left.            *)
Retry ==
    /\ client' = Hunting
    /\ attempt' = attempt + 1
    /\ IF attempt + 1 < MaxRetries
       THEN Write(request) /\ UNCHANGED outcome
       ELSE outcome' = <<"exhausted">> /\ UNCHANGED <<toServer, sent>>

ClientRefuses ==
    \E r \in Received(toClient, client) :
        /\ Underway /\ Refused(r)
        /\ Retry
        /\ ClientTakes

(* Fault: the method of the response is not compared.                       *)
ResultUnchecked(r) ==
    IF RetcodeOf(r) = NotFound THEN <<"not found">>
    ELSE <<"answer", DataOf(r)>>

(* What call makes of a response: the return code comes first.              *)
Result(r) ==
    IF RetcodeOf(r) = NotFound THEN <<"not found">>
    ELSE IF MethodOf(r) # request.method THEN <<"mismatch">>
    ELSE <<"answer", DataOf(r)>>

ClientAccepts ==
    \E r \in Received(toClient, client) :
        /\ Underway /\ Accepted(r)
        /\ client' = Hunting
        /\ outcome' = Result(r)
        /\ ClientTakes
        /\ UNCHANGED <<toServer, attempt, sent>>

(* Fault: the port is opened without a timeout.                             *)
NoTimeout == FALSE

(* self.ser.read returns less than it was asked for: nothing comes for as   *)
(* long as the timeout, or, to an impatient host, not yet.                  *)
ClientTimeout ==
    /\ Underway
    /\ patient => toServer = <<>> /\ toClient = <<>>
    /\ Retry
    /\ UNCHANGED <<toClient, server, request, executed, since, clean, owed, calls,
                   losses, patient>>

Client == ClientWaits \/ ClientRefuses \/ ClientAccepts
----------------------------------------------------------------------------
(* The line, the board's 16-byte receive FIFO included, loses a byte.       *)
Lose ==
    /\ losses < MaxLosses
    /\ \/ toServer # <<>> /\ toServer' = Tail(toServer) /\ UNCHANGED toClient
       \/ toClient # <<>> /\ toClient' = Tail(toClient) /\ UNCHANGED toServer
    /\ losses' = losses + 1
    /\ clean' = FALSE
    /\ UNCHANGED <<server, client, call, sent, executed, since, owed, calls,
                   patient>>

Next ==
    \/ \E q \in Requests : Call(q)
    \/ Server
    \/ Client
    \/ ClientTimeout
    \/ Lose

Spec == Init /\ [][Next]_vars

(* The board reads what arrives; the host does, or its timeout passes.      *)
FairSpec == Spec /\ WF_vars(Server) /\ WF_vars(Client \/ ClientTimeout)
----------------------------------------------------------------------------
Reader(r) ==
    /\ r.found \in BOOLEAN
    /\ Len(r.head) <= 4
    /\ r.found <=> r.head = Header
    /\ ~r.found => r.got = <<>>
    /\ Len(r.got) < 6 + BufferSize

(* Each end's reader keeps its shape: in particular no byte is stored past  *)
(* the end of a buffer (urpc.c:72-78).                                      *)
TypeOK ==
    /\ Reader(server) /\ Reader(client)
    /\ request \in Requests /\ attempt \in 0 .. MaxRetries
    /\ calls \in 0 .. MaxCalls /\ losses \in 0 .. MaxLosses

(* Whatever the line loses and however late answers are, a handler runs     *)
(* only for a request that was made, and what a call returns was computed   *)
(* by a run of the handler it called (urpc.c:80-90, urpc.py:78-83, 140).    *)
NothingInvented ==
    /\ \A i \in DOMAIN executed : \E j \in DOMAIN sent : executed[i] = sent[j]
    /\ outcome # <<>> /\ outcome[1] = "answer" =>
          \E i \in DOMAIN executed :
              /\ outcome = <<"answer", <<Answer(request.method, i)>>>>
              /\ executed[i].method = request.method

(* Handlers run in the order the requests were written and at most once for *)
(* each attempt: executed is a subsequence of sent (urpc.c:134-165).        *)
ExecutedAsSent ==
    \E place \in [DOMAIN executed -> DOMAIN sent] :
        /\ \A i \in DOMAIN executed : executed[i] = sent[place[i]]
        /\ \A i, j \in DOMAIN executed : i < j => place[i] < place[j]

(* What a call should return.                                               *)
Fresh(result) ==
    IF request.method \in Known
    THEN \E i \in since + 1 .. Len(executed) :
            executed[i] = request /\ result = <<"answer", <<Answer(request.method, i)>>>>
    ELSE result = <<"not found">>

(* Requests carry no number, so that only the timeout tells an old response *)
(* from a new one.  When no answer is later than it, whatever a call        *)
(* returns is about this call, although bytes get lost in the middle of     *)
(* frames and requests are repeated (urpc.py:115-143).  Up to six losses,   *)
(* that is: with seven, the rest of a frame can complete one that was       *)
(* given up before.                                                         *)
AnswerIsFresh ==
    patient => outcome \in {<<"none">>, <<>>, <<"exhausted">>} \/ Fresh(outcome)

(* A call on a line that is quiet and loses nothing is answered at its      *)
(* first attempt when the board is hunting for a header, even with a part   *)
(* of one in hand.  An earlier loss may have left the board in the middle   *)
(* of a frame, though, whose rest it awaits without a timeout (urpc.c:59-78)*)
(* and takes from the requests of this call.  No more attempts fail than    *)
(* that rest is long, in requests, the last one in part: so that framing    *)
(* recovers, and the call runs out of attempts only when all of them        *)
(* together are shorter than that rest, or end within the next request.     *)
CleanCallAnswered ==
    LET length == Len(Frame(RequestBody(request)))
    IN  patient /\ clean /\ ~Underway /\ outcome # <<"none">> =>
            /\ attempt * length < owed + length
            /\ Fresh(outcome) \/ (outcome = <<"exhausted">> /\ attempt = MaxRetries)

(* Every call returns or raises, however much is lost (urpc.py:117, 128).   *)
CallReturns == Underway ~> ~Underway
============================================================================
