----------------------------- MODULE UrpcProofs -----------------------------
(***************************************************************************)
(* Whatever the serial line loses, neither end of Urpc takes in more bytes *)
(* than its buffer holds or acts on a frame that the other has not sent:   *)
(* for all requests, handlers and buffers, any number of attempts, calls   *)
(* and losses.  Handlers run in the order of the requests.  What a patient *)
(* host gets back is about its call as long as no more than six bytes are  *)
(* lost; and a call on quiet lines is answered once the board is through   *)
(* with the rest of an earlier frame that it awaits.                       *)
(***************************************************************************)
EXTENDS Urpc, SequenceTheorems, TLAPS

Number == {Num(k) : k \in Nat}
HeaderByte == {<<"h", "55">>, <<"h", "ab">>, <<"h", "cd">>}
Half == {"lo", "hi"}

(* The bytes of the requests in s.                                          *)
RequestByte(s) ==
    HeaderByte \cup Number \cup
    {<<h, RequestBody(s[j])>> : h \in Half, j \in DOMAIN s}

(* The bytes of the responses there have been after the handler calls in e. *)
ResponseByte(e) ==
    HeaderByte \cup Number \cup {NotFound} \cup
    {Answer(e[i].method, i) : i \in DOMAIN e} \cup
    {<<h, AnswerBody(e[i].method, i)>> : h \in Half, i \in DOMAIN e} \cup
    {<<h, NotFoundBody(m)>> : h \in Half, m \in Number}

(* A reader that has taken in bytes of B, and not yet a whole frame.        *)
Shape(r) ==
    /\ Len(r.head) <= 4
    /\ r.found <=> r.head = Header
    /\ ~r.found => r.got = <<>>
    /\ Len(r.got) < 6 \/ (r.need <= BufferSize /\ Len(r.got) < 6 + r.need)

ReaderOf(B) == [head : Seq(B), found : BOOLEAN, got : Seq(B), need : Nat]

(* What is on the line and in the readers comes from frames.                *)
Bytes ==
    /\ toServer \in Seq(RequestByte(sent)) /\ server \in ReaderOf(RequestByte(sent))
    /\ toClient \in Seq(ResponseByte(executed))
    /\ client \in ReaderOf(ResponseByte(executed))

Records ==
    /\ sent \in Seq(Requests) /\ executed \in Seq(Requests)
    /\ request \in Requests
    /\ calls \in 0 .. MaxCalls /\ losses \in 0 .. MaxLosses
    /\ attempt \in 0 .. MaxRetries /\ (Underway => attempt < MaxRetries)

IInv ==
    /\ Bytes /\ Records
    /\ Shape(server) /\ Shape(client)
    /\ NothingInvented
----------------------------------------------------------------------------
(* Frames.                                                                  *)

LEMMA Digits ==
    ASSUME NEW x \in Nat
    PROVE  Num(x % Radix) \in Number /\ Num(x \div Radix) \in Number
  <1>1. x % Radix \in Nat /\ x \div Radix \in Nat
    BY BoundsAssumption, SMT
  <1> QED
    BY <1>1 DEF Number

LEMMA BodyShape ==
    ASSUME NEW B, NEW m \in B, NEW rc \in B, NEW d \in Seq(B), Number \subseteq B
    PROVE  /\ Body(m, rc, d) \in Seq(B)
           /\ Len(Body(m, rc, d)) = 4 + Len(d)
           /\ Body(m, rc, d)[1] = m /\ Body(m, rc, d)[2] = rc
           /\ \A i \in 1 .. Len(d) : Body(m, rc, d)[4 + i] = d[i]
  <1>1. Len(d) \in Nat
    OBVIOUS
  <1>2. Num(Len(d) % Radix) \in B /\ Num(Len(d) \div Radix) \in B
    BY <1>1, Digits
  <1>3. PICK a \in B, b \in B : a = Num(Len(d) % Radix) /\ b = Num(Len(d) \div Radix)
    BY <1>2
  <1>4. Body(m, rc, d) = <<m, rc, a, b>> \o d
    BY <1>3 DEF Body
  <1>5. <<m, rc, a, b>> \in Seq(B) /\ Len(<<m, rc, a, b>>) = 4
    OBVIOUS
  <1> QED
    BY <1>4, <1>5

LEMMA FrameBytes ==
    ASSUME NEW B, NEW body \in Seq(B), HeaderByte \subseteq B,
           \A h \in Half : <<h, body>> \in B
    PROVE  Frame(body) \in Seq(B)
  <1>1. Header \in Seq(B)
    BY DEF Header, HeaderByte
  <1>2. <<<<"lo", body>>, <<"hi", body>>>> \in Seq(B)
    BY DEF Half
  <1> QED
    BY <1>1, <1>2 DEF Frame

LEMMA RequestFacts ==
    ASSUME NEW q \in Requests
    PROVE  /\ q = [method |-> q.method, data |-> q.data]
           /\ q.method \in Number /\ q.data \in Seq(Number)
  <1>1. {Num(k) : k \in 0 .. Radix - 1} \subseteq Number
    BY BoundsAssumption DEF Number
  <1>2. q.data \in Seq({Num(k) : k \in 0 .. Radix - 1})
    BY RequestsAssumption
  <1>3. q.data \in Seq(Number)
    BY <1>1, <1>2
  <1> QED
    BY <1>1, <1>3, RequestsAssumption

LEMMA RequestFrame ==
    ASSUME NEW s \in Seq(Requests), NEW j \in DOMAIN s
    PROVE  Frame(RequestBody(s[j])) \in Seq(RequestByte(s))
  <1>1. s[j] \in Requests
    OBVIOUS
  <1>2. Number \subseteq RequestByte(s) /\ HeaderByte \subseteq RequestByte(s)
    BY DEF RequestByte
  <1>3. Num(0) \in RequestByte(s) /\ s[j].method \in RequestByte(s)
    BY <1>1, <1>2, RequestFacts DEF Number
  <1>4. s[j].data \in Seq(RequestByte(s))
    BY <1>1, <1>2, RequestFacts
  <1>5. RequestBody(s[j]) \in Seq(RequestByte(s))
    BY <1>2, <1>3, <1>4, BodyShape DEF RequestBody
  <1>6. \A h \in Half : <<h, RequestBody(s[j])>> \in RequestByte(s)
    BY DEF RequestByte
  <1> QED
    BY <1>2, <1>5, <1>6, FrameBytes

LEMMA AnswerFrame ==
    ASSUME NEW e \in Seq(Requests), NEW i \in DOMAIN e
    PROVE  Frame(AnswerBody(e[i].method, i)) \in Seq(ResponseByte(e))
  <1>1. e[i] \in Requests
    OBVIOUS
  <1>2. Number \subseteq ResponseByte(e) /\ HeaderByte \subseteq ResponseByte(e)
    BY DEF ResponseByte
  <1>3. Num(0) \in ResponseByte(e) /\ e[i].method \in ResponseByte(e)
    BY <1>1, <1>2, RequestFacts DEF Number
  <1>4. Answer(e[i].method, i) \in ResponseByte(e)
    BY DEF ResponseByte
  <1>5. <<Answer(e[i].method, i)>> \in Seq(ResponseByte(e))
    BY <1>4
  <1>6. AnswerBody(e[i].method, i) \in Seq(ResponseByte(e))
    BY <1>2, <1>3, <1>5, BodyShape DEF AnswerBody
  <1>7. \A h \in Half : <<h, AnswerBody(e[i].method, i)>> \in ResponseByte(e)
    BY DEF ResponseByte
  <1> QED
    BY <1>2, <1>6, <1>7, FrameBytes

LEMMA NotFoundFrame ==
    ASSUME NEW e, NEW m \in Number
    PROVE  Frame(NotFoundBody(m)) \in Seq(ResponseByte(e))
  <1>1. Number \subseteq ResponseByte(e) /\ HeaderByte \subseteq ResponseByte(e)
    BY DEF ResponseByte
  <1>2. NotFound \in ResponseByte(e) /\ m \in ResponseByte(e)
    BY <1>1 DEF ResponseByte
  <1>3. NotFoundBody(m) \in Seq(ResponseByte(e))
    <2>1. <<>> \in Seq(ResponseByte(e))
      BY EmptySeq
    <2>2. Body(m, NotFound, <<>>) \in Seq(ResponseByte(e))
      BY <1>1, <1>2, <2>1, BodyShape
    <2> QED
      BY <2>2 DEF NotFoundBody
  <1>4. \A h \in Half : <<h, NotFoundBody(m)>> \in ResponseByte(e)
    BY DEF ResponseByte
  <1> QED
    BY <1>1, <1>3, <1>4, FrameBytes

(* The alphabets grow with the histories.                                   *)
LEMMA MoreRequests ==
    ASSUME NEW s \in Seq(Requests), NEW q \in Requests
    PROVE  RequestByte(s) \subseteq RequestByte(Append(s, q))
  <1>1. \A j \in DOMAIN s : j \in DOMAIN Append(s, q) /\ Append(s, q)[j] = s[j]
    OBVIOUS
  <1> QED
    BY <1>1 DEF RequestByte

LEMMA MoreResponses ==
    ASSUME NEW e \in Seq(Requests), NEW q \in Requests
    PROVE  ResponseByte(e) \subseteq ResponseByte(Append(e, q))
  <1>1. \A j \in DOMAIN e : j \in DOMAIN Append(e, q) /\ Append(e, q)[j] = e[j]
    OBVIOUS
  <1> QED
    BY <1>1 DEF ResponseByte

LEMMA ReaderGrows ==
    ASSUME NEW B, NEW C, B \subseteq C
    PROVE  Seq(B) \subseteq Seq(C) /\ ReaderOf(B) \subseteq ReaderOf(C)
  BY DEF ReaderOf
----------------------------------------------------------------------------
(* Reading.                                                                 *)

Numeric(B) == \A b \in B : b[1] = "n" => b[2] \in Nat

LEMMA Octets == 0 .. Radix - 1 \subseteq Nat
  BY BoundsAssumption

LEMMA Sizes ==
    /\ BufferSize \in Nat \ {0} /\ Radix \in Nat \ {0} /\ MaxRetries \in Nat \ {0}
    /\ MaxCalls \in Nat /\ MaxLosses \in Nat
  BY BoundsAssumption

LEMMA Alphabets ==
    ASSUME NEW s, NEW e
    PROVE  Numeric(RequestByte(s)) /\ Numeric(ResponseByte(e))
  <1>1. \A b \in HeaderByte : b[1] # "n"
    BY DEF HeaderByte
  <1>2. \A b \in Number : b[2] \in Nat
    BY DEF Number, Num
  <1>3. Numeric(RequestByte(s))
    BY <1>1, <1>2 DEF Numeric, RequestByte, Half
  <1>4. Numeric(ResponseByte(e))
    BY <1>1, <1>2 DEF Numeric, ResponseByte, Half, NotFound, Answer
  <1> QED
    BY <1>3, <1>4

LEMMA ReadType ==
    ASSUME NEW B, Numeric(B), NEW r \in ReaderOf(B), NEW b \in B, Shape(r),
           NEW n \in Read(r, b)
    PROVE  /\ n \in ReaderOf(B)
           /\ Len(n.head) <= 4
           /\ n.found <=> n.head = Header
           /\ ~n.found => n.got = <<>>
           /\ n.got = r.got \/ (n.got = Append(r.got, b) /\
                                (n.need = r.need \/ Len(r.got) = 5))
           /\ n.got = r.got => n.got = <<>>
  <1>0. /\ r.head \in Seq(B) /\ r.got \in Seq(B) /\ r.need \in Nat /\ r.found \in BOOLEAN
        /\ r = [head |-> r.head, found |-> r.found, got |-> r.got, need |-> r.need]
    BY DEF ReaderOf
  <1>1. CASE ~r.found
    <2>2. Latest(r.head, b) \in Seq(B) /\ Len(Latest(r.head, b)) <= 4
      BY <1>0 DEF Latest, Shape
    <2>3. n = [head |-> Latest(r.head, b), found |-> (Latest(r.head, b) = Header),
               got |-> r.got, need |-> r.need]
      BY <1>1, Zenon DEF Read
    <2>4. n \in ReaderOf(B)
      BY <1>0, <2>2, <2>3 DEF ReaderOf
    <2>5. r.got = <<>>
      BY <1>1 DEF Shape
    <2> QED
      BY <2>2, <2>3, <2>4, <2>5
  <1>2. CASE r.found
    <2>1. PICK k \in Needs(r, b) :
            n = [head |-> r.head, found |-> TRUE, got |-> Append(r.got, b), need |-> k]
      BY <1>2, Zenon DEF Read
    <2>2. \A x \in B : Value(x) \subseteq Nat
      <3> TAKE x \in B
      <3>1. CASE x[1] = "n"
        BY <3>1 DEF Value, Numeric
      <3>2. CASE x[1] # "n"
        BY <3>2, Octets DEF Value
      <3> QED
        BY <3>1, <3>2
    <2>3. CASE Len(r.got) = 5
      <3>1. r.got[5] \in B
        BY <1>0, <2>3
      <3>2. PICK lo \in Nat, hi \in Nat : k = lo + Radix * hi
        BY <2>1, <2>2, <2>3, <3>1 DEF Needs
      <3>3. k \in Nat
        BY <3>2, BoundsAssumption
      <3> QED
        BY <1>0, <1>2, <2>1, <2>3, <3>3 DEF ReaderOf, Shape
    <2>4. CASE Len(r.got) # 5
      <3>1. k = r.need
        BY <2>1, <2>4 DEF Needs
      <3> QED
        BY <1>0, <1>2, <2>1, <3>1 DEF ReaderOf, Shape
    <2> QED
      BY <2>3, <2>4
  <1> QED
    BY <1>0, <1>1, <1>2

(* A reader that neither accepts nor refuses what it has got goes on.       *)
LEMMA ReadShape ==
    ASSUME NEW B, Numeric(B), NEW r \in ReaderOf(B), NEW b \in B, Shape(r),
           NEW n \in Read(r, b), ~Accepted(n), ~Refused(n)
    PROVE  n \in ReaderOf(B) /\ Shape(n)
  <1>1. n \in ReaderOf(B) /\ n.got \in Seq(B) /\ n.need \in Nat
    BY ReadType DEF ReaderOf
  <1>2. r.got \in Seq(B) /\ r.need \in Nat /\ Len(r.got) \in Nat
    BY DEF ReaderOf
  <1>3. ~TooLong(n) /\ ~InFull(n)
    BY DEF Accepted, Refused
  <1>4. n.got = r.got => n.got = <<>>
    BY ReadType
  <1>5. n.got = r.got \/ (n.got = Append(r.got, b) /\
                          (n.need = r.need \/ Len(r.got) = 5))
    BY ReadType
  <1>6. Len(n.got) < 6 \/ (n.need <= BufferSize /\ Len(n.got) < 6 + n.need)
    <2>1. CASE n.got = r.got
      BY <1>4, <2>1
    <2>2. CASE n.got = Append(r.got, b)
      <3>1. Len(n.got) = Len(r.got) + 1
        BY <1>2, <2>2
      <3>2. n.need = r.need \/ Len(r.got) = 5
        BY <1>2, <1>5, <3>1
      <3>3. Len(n.got) = 6 => n.need <= BufferSize /\ 6 # 6 + n.need
        BY <1>1, <1>3, BoundsAssumption DEF TooLong, InFull
      <3>4. Len(n.got) > 6 => Len(n.got) # 6 + n.need
        BY <1>1, <1>2, <1>3, <3>1 DEF TooLong, InFull
      <3>5. Len(r.got) < 6 \/ (r.need <= BufferSize /\ Len(r.got) < 6 + r.need)
        BY DEF Shape
      <3> QED
        <4>1. PICK x \in Nat, y \in Nat, u \in Nat, v \in Nat :
                x = Len(n.got) /\ y = Len(r.got) /\ u = n.need /\ v = r.need
          BY <1>1, <1>2, <3>1
        <4>2. /\ x = y + 1
              /\ u = v \/ y = 5
              /\ x = 6 => u <= BufferSize /\ 6 # 6 + u
              /\ x > 6 => x # 6 + u
              /\ y < 6 \/ (v <= BufferSize /\ y < 6 + v)
          BY <3>1, <3>2, <3>3, <3>4, <3>5, <4>1
        <4>3. x < 6 \/ (u <= BufferSize /\ x < 6 + u)
          BY <4>2, Sizes
        <4> QED
          BY <4>1, <4>3
    <2> QED
      BY <1>5, <2>1, <2>2
  <1> QED
    BY <1>1, <1>6, ReadType DEF Shape

(* What is accepted is one body, with its parts in their places.            *)
LEMMA AcceptedBody ==
    ASSUME NEW B, NEW n \in ReaderOf(B), Accepted(n),
           NEW m, NEW rc, NEW d \in Seq(B), m \in B, rc \in B, Number \subseteq B,
           ReadBody(n) = Body(m, rc, d)
    PROVE  MethodOf(n) = m /\ RetcodeOf(n) = rc /\ DataOf(n) = d
  <1>1. n.got \in Seq(B) /\ Len(n.got) \in Nat /\ Len(n.got) >= 6
    BY DEF ReaderOf, Accepted, InFull
  <1>2. /\ Len(ReadBody(n)) = Len(n.got) - 2
        /\ \A i \in 1 .. Len(n.got) - 2 : ReadBody(n)[i] = n.got[i + 2]
    BY <1>1 DEF ReadBody
  <1>3. /\ Len(ReadBody(n)) = 4 + Len(d)
        /\ ReadBody(n)[1] = m /\ ReadBody(n)[2] = rc
        /\ \A i \in 1 .. Len(d) : ReadBody(n)[4 + i] = d[i]
    BY BodyShape
  <1>4. MethodOf(n) = m /\ RetcodeOf(n) = rc
    <2>1. 1 \in 1 .. Len(n.got) - 2 /\ 2 \in 1 .. Len(n.got) - 2
      BY <1>1
    <2>2. ReadBody(n)[1] = n.got[1 + 2] /\ ReadBody(n)[2] = n.got[2 + 2]
      BY <1>2, <2>1
    <2>3. ReadBody(n)[1] = n.got[3] /\ ReadBody(n)[2] = n.got[4]
      BY <2>2
    <2> QED
      BY <1>3, <2>3 DEF MethodOf, RetcodeOf
  <1>5. /\ DataOf(n) \in Seq(B) /\ Len(DataOf(n)) = Len(n.got) - 6
        /\ \A i \in 1 .. Len(n.got) - 6 : DataOf(n)[i] = n.got[i + 6]
    BY <1>1 DEF DataOf
  <1>6. Len(d) \in Nat /\ Len(d) = Len(n.got) - 6
    BY <1>1, <1>2, <1>3
  <1>7. \A i \in 1 .. Len(d) : DataOf(n)[i] = d[i]
    <2> TAKE i \in 1 .. Len(d)
    <2>1. ReadBody(n)[4 + i] = d[i]
      BY <1>3
    <2>2. ReadBody(n)[4 + i] = n.got[4 + i + 2]
      BY <1>1, <1>2, <1>6
    <2> QED
      BY <1>1, <1>5, <1>6, <2>1, <2>2
  <1>8. DataOf(n) = d
    BY <1>5, <1>6, <1>7, SeqEqual
  <1> QED
    BY <1>4, <1>8

(* What the board has accepted is the request whose checksum it read.       *)
LEMMA RequestRead ==
    ASSUME NEW s \in Seq(Requests), NEW n \in ReaderOf(RequestByte(s)), Accepted(n),
           NEW j \in DOMAIN s, ReadBody(n) = RequestBody(s[j])
    PROVE  [method |-> MethodOf(n), data |-> DataOf(n)] = s[j]
  <1>1. s[j] \in Requests
    OBVIOUS
  <1>2. Number \subseteq RequestByte(s)
    BY DEF RequestByte
  <1>3. /\ s[j].method \in RequestByte(s) /\ Num(0) \in RequestByte(s)
        /\ s[j].data \in Seq(RequestByte(s))
    <2>1. s[j].method \in Number /\ s[j].data \in Seq(Number)
      BY <1>1, RequestFacts
    <2>2. Seq(Number) \subseteq Seq(RequestByte(s))
      BY <1>2, ReaderGrows
    <2>3. Num(0) \in Number
      BY DEF Number
    <2> QED
      BY <1>2, <2>1, <2>2, <2>3
  <1>4. ReadBody(n) = Body(s[j].method, Num(0), s[j].data)
    BY DEF RequestBody
  <1>5. MethodOf(n) = s[j].method /\ DataOf(n) = s[j].data
    BY <1>2, <1>3, <1>4, AcceptedBody
  <1> QED
    BY <1>1, <1>5, RequestFacts

(* The checksum that the board has accepted is that of a request.           *)
LEMMA SumOfRequest ==
    ASSUME NEW s \in Seq(Requests), NEW n \in ReaderOf(RequestByte(s)), Accepted(n)
    PROVE  \E j \in DOMAIN s : ReadBody(n) = RequestBody(s[j])
  <1>1. n.got \in Seq(RequestByte(s)) /\ Len(n.got) >= 6
    BY DEF ReaderOf, Accepted, InFull
  <1>2. <<"lo", ReadBody(n)>> \in RequestByte(s)
    <2>1. n.got[1] \in RequestByte(s)
      BY <1>1
    <2>2. n.got[1] = <<"lo", ReadBody(n)>>
      BY DEF Accepted, ChecksumMatches
    <2> QED
      BY <2>1, <2>2
  <1>3. <<"lo", ReadBody(n)>> \notin HeaderByte \cup Number
    BY DEF HeaderByte, Number, Num
  <1>4. PICK h \in Half, j \in DOMAIN s :
          <<"lo", ReadBody(n)>> = <<h, RequestBody(s[j])>>
    BY <1>2, <1>3 DEF RequestByte
  <1> QED
    BY <1>4

LEMMA ServerAccepts ==
    ASSUME NEW s \in Seq(Requests), NEW n \in ReaderOf(RequestByte(s)), Accepted(n)
    PROVE  \E j \in DOMAIN s : [method |-> MethodOf(n), data |-> DataOf(n)] = s[j]
  BY SumOfRequest, RequestRead

LEMMA ClientAcceptsAnswer ==
    ASSUME NEW e \in Seq(Requests), NEW n \in ReaderOf(ResponseByte(e)), Accepted(n),
           RetcodeOf(n) # NotFound
    PROVE  \E i \in DOMAIN e : /\ MethodOf(n) = e[i].method
                               /\ DataOf(n) = <<Answer(e[i].method, i)>>
  <1>1. n.got \in Seq(ResponseByte(e)) /\ Len(n.got) >= 6
    BY DEF ReaderOf, Accepted, InFull
  <1>2. <<"lo", ReadBody(n)>> \in ResponseByte(e)
    <2>1. n.got[1] \in ResponseByte(e)
      BY <1>1
    <2>2. n.got[1] = <<"lo", ReadBody(n)>>
      BY DEF Accepted, ChecksumMatches
    <2> QED
      BY <2>1, <2>2
  <1>3. Number \subseteq ResponseByte(e) /\ NotFound \in ResponseByte(e)
    BY DEF ResponseByte
  <1>4. \A m \in Number : ReadBody(n) # NotFoundBody(m)
    <2> SUFFICES ASSUME NEW m \in Number, ReadBody(n) = NotFoundBody(m)
                 PROVE  FALSE
      OBVIOUS
    <2>1. <<>> \in Seq(ResponseByte(e))
      BY EmptySeq
    <2>2. ReadBody(n) = Body(m, NotFound, <<>>)
      BY DEF NotFoundBody
    <2> QED
      BY <1>3, <2>1, <2>2, AcceptedBody
  <1>5. PICK i \in DOMAIN e : ReadBody(n) = AnswerBody(e[i].method, i)
    <2>1. <<"lo", ReadBody(n)>> \notin HeaderByte \cup Number \cup {NotFound}
      BY DEF HeaderByte, Number, Num, NotFound
    <2>2. \A i \in DOMAIN e : <<"lo", ReadBody(n)>> # Answer(e[i].method, i)
      BY DEF Answer
    <2>3. \A h \in Half, m \in Number : <<"lo", ReadBody(n)>> # <<h, NotFoundBody(m)>>
      BY <1>4
    <2>4. PICK h \in Half, i \in DOMAIN e :
            <<"lo", ReadBody(n)>> = <<h, AnswerBody(e[i].method, i)>>
      BY <1>2, <2>1, <2>2, <2>3 DEF ResponseByte
    <2> QED
      BY <2>4
  <1>6. e[i] \in Requests
    OBVIOUS
  <1>7. e[i].method \in ResponseByte(e) /\ Num(0) \in ResponseByte(e)
    BY <1>3, <1>6, RequestFacts DEF Number
  <1>8. Answer(e[i].method, i) \in ResponseByte(e)
    BY DEF ResponseByte
  <1>9. <<Answer(e[i].method, i)>> \in Seq(ResponseByte(e))
    BY <1>8
  <1>10. ReadBody(n) = Body(e[i].method, Num(0), <<Answer(e[i].method, i)>>)
    BY <1>5 DEF AnswerBody
  <1>11. MethodOf(n) = e[i].method /\ DataOf(n) = <<Answer(e[i].method, i)>>
    <2>1. PICK d \in Seq(ResponseByte(e)) : d = <<Answer(e[i].method, i)>>
      BY <1>9
    <2>2. ReadBody(n) = Body(e[i].method, Num(0), d)
      BY <1>10, <2>1
    <2>3. MethodOf(n) = e[i].method /\ DataOf(n) = d
      BY <1>3, <1>7, <2>2, AcceptedBody
    <2> QED
      BY <2>1, <2>3
  <1> QED
    BY <1>11
----------------------------------------------------------------------------
(* The invariant.                                                           *)

ExecutedSent == \A i \in DOMAIN executed : \E j \in DOMAIN sent : executed[i] = sent[j]

OutcomeComputed ==
    outcome # <<>> /\ outcome[1] = "answer" =>
        \E i \in DOMAIN executed :
            /\ outcome = <<"answer", <<Answer(request.method, i)>>>>
            /\ executed[i].method = request.method

LEMMA Soundness == NothingInvented <=> ExecutedSent /\ OutcomeComputed
  BY DEF NothingInvented, ExecutedSent, OutcomeComputed

LEMMA HuntingReader ==
    ASSUME NEW B
    PROVE  Hunting \in ReaderOf(B) /\ Shape(Hunting)
  <1>1. <<>> \in Seq(B)
    BY EmptySeq
  <1>2. Len(<<>>) = 0 /\ <<>> # Header
    BY DEF Header
  <1> QED
    BY <1>1, <1>2 DEF Hunting, ReaderOf, Shape

LEMMA InitIInv == Init => IInv
  <1> SUFFICES ASSUME Init PROVE IInv
    OBVIOUS
  <1>1. Bytes
    BY HuntingReader, EmptySeq DEF Init, Bytes
  <1>2. Records
    BY EmptySeq, Sizes DEF Init, Records, Underway
  <1>3. Shape(server) /\ Shape(client)
    BY HuntingReader DEF Init
  <1>4. NothingInvented
    BY DEF Init, NothingInvented
  <1> QED
    BY <1>1, <1>2, <1>3, <1>4 DEF IInv

LEMMA TailBytes == ASSUME NEW B, NEW s \in Seq(B), s # <<>>
                   PROVE  Tail(s) \in Seq(B) /\ Head(s) \in B
  OBVIOUS

(* The next byte of a line, read by the reader at its end.                  *)
LEMMA NextRead ==
    ASSUME NEW B, NEW line \in Seq(B), NEW r \in ReaderOf(B), Numeric(B), Shape(r),
           NEW n \in Received(line, r)
    PROVE  /\ line # <<>> /\ Tail(line) \in Seq(B)
           /\ n \in ReaderOf(B)
           /\ ~Accepted(n) /\ ~Refused(n) => Shape(n)
  <1>1. line # <<>> /\ n \in Read(r, Head(line))
    BY DEF Received
  <1>2. Tail(line) \in Seq(B) /\ Head(line) \in B
    BY <1>1, TailBytes
  <1> QED
    BY <1>1, <1>2, ReadType, ReadShape

(* A request that is written.                                               *)
LEMMA Written ==
    ASSUME IInv, NEW q \in Requests, Write(q), UNCHANGED executed
    PROVE  /\ sent' \in Seq(Requests)
           /\ toServer' \in Seq(RequestByte(sent'))
           /\ RequestByte(sent) \subseteq RequestByte(sent')
           /\ ExecutedSent'
  <1>1. sent \in Seq(Requests) /\ executed \in Seq(Requests)
    BY DEF IInv, Records
  <1>2. sent' = Append(sent, q) /\ toServer' = toServer \o Frame(RequestBody(q))
    BY DEF Write
  <1>3. /\ sent' \in Seq(Requests) /\ Len(sent) + 1 \in DOMAIN sent'
        /\ sent'[Len(sent) + 1] = q
        /\ \A j \in DOMAIN sent : j \in DOMAIN sent' /\ sent'[j] = sent[j]
    BY <1>1, <1>2
  <1>4. RequestByte(sent) \subseteq RequestByte(sent')
    BY <1>1, <1>2, MoreRequests
  <1>5. toServer \in Seq(RequestByte(sent'))
    BY <1>4, ReaderGrows DEF IInv, Bytes
  <1>6. Frame(RequestBody(q)) \in Seq(RequestByte(sent'))
    BY <1>3, RequestFrame
  <1>7. toServer' \in Seq(RequestByte(sent'))
    BY <1>2, <1>5, <1>6
  <1>8. ExecutedSent
    BY Soundness DEF IInv
  <1>9. ExecutedSent'
    BY <1>3, <1>8 DEF ExecutedSent
  <1> QED
    BY <1>3, <1>4, <1>7, <1>9
----------------------------------------------------------------------------
LEMMA NextServer == IInv /\ Server => IInv'
  <1> SUFFICES ASSUME IInv, Server PROVE IInv'
    OBVIOUS
  <1>1. /\ sent \in Seq(Requests) /\ executed \in Seq(Requests)
        /\ toServer \in Seq(RequestByte(sent)) /\ server \in ReaderOf(RequestByte(sent))
        /\ toClient \in Seq(ResponseByte(executed))
        /\ client \in ReaderOf(ResponseByte(executed))
        /\ Shape(server) /\ Shape(client) /\ Records
        /\ ExecutedSent /\ OutcomeComputed
    BY Soundness DEF IInv, Bytes, Records
  <1>2. ServerTakes
    BY DEF Server, ServerWaits, ServerRefuses, ServerServes
  <1>3. PICK n \in Received(toServer, server) :
          \/ ~Accepted(n) /\ ~Refused(n) /\ server' = n
             /\ UNCHANGED <<toClient, executed>>
          \/ server' = Hunting /\ UNCHANGED <<toClient, executed>>
          \/ /\ Accepted(n) /\ server' = Hunting
             /\ IF MethodOf(n) \in Known
                THEN /\ executed' = Append(executed, [method |-> MethodOf(n),
                                                      data |-> DataOf(n)])
                     /\ toClient' = toClient \o
                           Frame(AnswerBody(MethodOf(n), Len(executed) + 1))
                ELSE /\ toClient' = toClient \o Frame(NotFoundBody(MethodOf(n)))
                     /\ UNCHANGED executed
    BY DEF Server, ServerWaits, ServerRefuses, ServerServes
  <1>4. /\ Tail(toServer) \in Seq(RequestByte(sent))
        /\ n \in ReaderOf(RequestByte(sent))
        /\ ~Accepted(n) /\ ~Refused(n) => Shape(n)
    BY <1>1, Alphabets, NextRead
  <1>5. /\ toServer' = Tail(toServer) /\ client' = client /\ sent' = sent
        /\ request' = request /\ attempt' = attempt /\ outcome' = outcome
        /\ calls' = calls /\ losses' = losses
    BY <1>2 DEF ServerTakes, call
  <1>6. toServer' \in Seq(RequestByte(sent'))
    BY <1>4, <1>5
  <1>7. server' \in ReaderOf(RequestByte(sent')) /\ Shape(server')
    BY <1>3, <1>4, <1>5, HuntingReader
  <1>8. CASE UNCHANGED <<toClient, executed>>
    <2>1. Bytes' /\ Records'
      BY <1>1, <1>5, <1>6, <1>7, <1>8 DEF Bytes, Records, Underway
    <2>2. ExecutedSent' /\ OutcomeComputed'
      BY <1>1, <1>5, <1>8 DEF ExecutedSent, OutcomeComputed
    <2> QED
      BY <1>1, <1>5, <1>7, <2>1, <2>2, Soundness DEF IInv, NothingInvented, ExecutedSent, OutcomeComputed
  <1>9. ASSUME Accepted(n) PROVE \E j \in DOMAIN sent :
            [method |-> MethodOf(n), data |-> DataOf(n)] = sent[j]
    BY <1>1, <1>4, <1>9, ServerAccepts
  <1>10. CASE /\ Accepted(n) /\ MethodOf(n) \notin Known
              /\ toClient' = toClient \o Frame(NotFoundBody(MethodOf(n)))
              /\ UNCHANGED executed
    <2>1. PICK j \in DOMAIN sent : [method |-> MethodOf(n), data |-> DataOf(n)] = sent[j]
      BY <1>9, <1>10
    <2>2. sent[j] \in Requests
      BY <1>1
    <2>3. MethodOf(n) \in Number
      BY <2>1, <2>2, RequestFacts
    <2>4. Frame(NotFoundBody(MethodOf(n))) \in Seq(ResponseByte(executed))
      BY <2>3, NotFoundFrame
    <2>5. toClient' \in Seq(ResponseByte(executed'))
      BY <1>1, <1>10, <2>4
    <2>6. Bytes' /\ Records'
      BY <1>1, <1>5, <1>6, <1>7, <1>10, <2>5 DEF Bytes, Records, Underway
    <2>7. ExecutedSent' /\ OutcomeComputed'
      BY <1>1, <1>5, <1>10 DEF ExecutedSent, OutcomeComputed
    <2> QED
      BY <1>1, <1>5, <1>7, <2>6, <2>7 DEF IInv, NothingInvented, ExecutedSent, OutcomeComputed
  <1>11. CASE /\ Accepted(n) /\ MethodOf(n) \in Known
              /\ executed' = Append(executed, [method |-> MethodOf(n), data |-> DataOf(n)])
              /\ toClient' = toClient \o
                    Frame(AnswerBody(MethodOf(n), Len(executed) + 1))
    <2>1. PICK j \in DOMAIN sent : [method |-> MethodOf(n), data |-> DataOf(n)] = sent[j]
      BY <1>9, <1>11
    <2>2. sent[j] \in Requests
      BY <1>1
    <2>3. executed' = Append(executed, sent[j])
      BY <1>11, <2>1
    <2>4. MethodOf(n) = sent[j].method
      BY <2>1
    <2>5. /\ executed' \in Seq(Requests) /\ Len(executed) + 1 \in DOMAIN executed'
          /\ executed'[Len(executed) + 1] = sent[j]
          /\ \A i \in DOMAIN executed : i \in DOMAIN executed' /\ executed'[i] = executed[i]
          /\ \A i \in DOMAIN executed' : i \in DOMAIN executed \/ i = Len(executed) + 1
      BY <1>1, <2>2, <2>3
    <2>6. ResponseByte(executed) \subseteq ResponseByte(executed')
      BY <1>1, <2>2, <2>3, MoreResponses
    <2>7. Frame(AnswerBody(MethodOf(n), Len(executed) + 1)) \in Seq(ResponseByte(executed'))
      BY <2>4, <2>5, AnswerFrame
    <2>8. toClient \in Seq(ResponseByte(executed')) /\ client \in ReaderOf(ResponseByte(executed'))
      BY <1>1, <2>6, ReaderGrows
    <2>9. toClient' \in Seq(ResponseByte(executed'))
      BY <1>11, <2>7, <2>8
    <2>10. Bytes'
      BY <1>5, <1>6, <1>7, <2>8, <2>9 DEF Bytes
    <2>11. Records'
      BY <1>1, <1>5, <2>5 DEF Records, Underway
    <2>12. ExecutedSent'
      BY <1>1, <1>5, <2>5 DEF ExecutedSent
    <2>13. OutcomeComputed'
      BY <1>1, <1>5, <2>5 DEF OutcomeComputed
    <2> QED
      BY <1>1, <1>5, <1>7, <2>10, <2>11, <2>12, <2>13
      DEF IInv, NothingInvented, ExecutedSent, OutcomeComputed
  <1> QED
    BY <1>3, <1>8, <1>10, <1>11

(* The next byte of a response, read by the client.                         *)
LEMMA ClientReads ==
    ASSUME IInv, NEW n \in Received(toClient, client)
    PROVE  /\ Tail(toClient) \in Seq(ResponseByte(executed))
           /\ n \in ReaderOf(ResponseByte(executed))
           /\ ~Accepted(n) /\ ~Refused(n) => Shape(n)
  <1>1. /\ toClient \in Seq(ResponseByte(executed))
        /\ client \in ReaderOf(ResponseByte(executed)) /\ Shape(client)
    BY DEF IInv, Bytes
  <1> QED
    BY <1>1, Alphabets, NextRead

(* An attempt fails: Retry, whatever becomes of the bytes that have come.   *)
LEMMA NextRetry ==
    ASSUME IInv, Underway, Retry,
           toClient' \in Seq(ResponseByte(executed)),
           UNCHANGED <<server, request, executed, calls, losses>>
    PROVE  IInv'
  <1>1. /\ sent \in Seq(Requests) /\ executed \in Seq(Requests) /\ request \in Requests
        /\ toServer \in Seq(RequestByte(sent)) /\ server \in ReaderOf(RequestByte(sent))
        /\ Shape(server) /\ Records /\ ExecutedSent
        /\ attempt \in 0 .. MaxRetries /\ attempt < MaxRetries
    BY Soundness DEF IInv, Bytes, Records
  <1>2. client' = Hunting /\ attempt' = attempt + 1
    BY DEF Retry
  <1>3. /\ client' \in ReaderOf(ResponseByte(executed')) /\ Shape(client')
        /\ toClient' \in Seq(ResponseByte(executed'))
    BY <1>2, HuntingReader
  <1>4. attempt' \in 0 .. MaxRetries
    BY <1>1, <1>2, Sizes
  <1>5. CASE attempt + 1 < MaxRetries
    <2>1. Write(request) /\ outcome' = <<>>
      BY <1>5 DEF Retry, Underway
    <2>2. /\ sent' \in Seq(Requests) /\ toServer' \in Seq(RequestByte(sent'))
          /\ RequestByte(sent) \subseteq RequestByte(sent') /\ ExecutedSent'
      BY <1>1, <2>1, Written
    <2>3. server' \in ReaderOf(RequestByte(sent'))
      BY <1>1, <2>2, ReaderGrows
    <2>4. Bytes'
      BY <1>3, <2>2, <2>3 DEF Bytes
    <2>5. Records'
      BY <1>1, <1>2, <1>4, <1>5, <2>2 DEF Records, Underway
    <2> QED
      BY <1>1, <1>3, <2>1, <2>2, <2>4, <2>5 DEF IInv, NothingInvented, ExecutedSent
  <1>6. CASE attempt + 1 >= MaxRetries
    <2>1. outcome' = <<"exhausted">> /\ UNCHANGED <<toServer, sent>>
      BY <1>1, <1>6, Sizes DEF Retry
    <2>2. Bytes'
      BY <1>1, <1>3, <2>1 DEF Bytes
    <2>3. Records'
      BY <1>1, <1>4, <2>1 DEF Records, Underway
    <2>4. ExecutedSent' /\ OutcomeComputed'
      BY <1>1, <2>1 DEF ExecutedSent, OutcomeComputed
    <2> QED
      BY <1>1, <1>3, <2>2, <2>3, <2>4 DEF IInv, NothingInvented, ExecutedSent, OutcomeComputed
  <1> QED
    BY <1>1, <1>5, <1>6, Sizes

LEMMA NextClient == IInv /\ Client => IInv'
  <1> SUFFICES ASSUME IInv, Client PROVE IInv'
    OBVIOUS
  <1>1. ClientTakes /\ Underway
    BY DEF Client, ClientWaits, ClientRefuses, ClientAccepts
  <1>2. /\ toClient' = Tail(toClient) /\ server' = server /\ request' = request
        /\ executed' = executed /\ calls' = calls /\ losses' = losses
    BY <1>1 DEF ClientTakes
  <1>3. /\ sent \in Seq(Requests) /\ executed \in Seq(Requests)
        /\ toServer \in Seq(RequestByte(sent)) /\ server \in ReaderOf(RequestByte(sent))
        /\ Shape(server) /\ Records /\ ExecutedSent /\ OutcomeComputed
    BY Soundness DEF IInv, Bytes, Records
  <1>4. CASE ClientWaits
    <2>1. PICK n \in Received(toClient, client) :
            /\ ~Accepted(n) /\ ~Refused(n) /\ client' = n
            /\ UNCHANGED <<toServer, attempt, outcome, sent>>
      BY <1>4 DEF ClientWaits
    <2>2. Bytes' /\ Shape(client')
      BY <1>2, <1>3, <2>1, ClientReads DEF Bytes
    <2>3. Records'
      BY <1>2, <1>3, <2>1 DEF Records, Underway
    <2>4. ExecutedSent' /\ OutcomeComputed'
      BY <1>2, <1>3, <2>1 DEF ExecutedSent, OutcomeComputed
    <2> QED
      BY <1>2, <1>3, <2>2, <2>3, <2>4 DEF IInv, NothingInvented, ExecutedSent, OutcomeComputed
  <1>5. CASE ClientRefuses
    <2>1. PICK n \in Received(toClient, client) : Retry
      BY <1>5 DEF ClientRefuses
    <2>2. toClient' \in Seq(ResponseByte(executed))
      BY <1>2, ClientReads
    <2> QED
      BY <1>1, <1>2, <2>1, <2>2, NextRetry
  <1>6. CASE ClientAccepts
    <2>1. PICK n \in Received(toClient, client) :
            /\ Accepted(n) /\ client' = Hunting /\ outcome' = Result(n)
            /\ UNCHANGED <<toServer, attempt, sent>>
      BY <1>6 DEF ClientAccepts
    <2>2. toClient' \in Seq(ResponseByte(executed)) /\ n \in ReaderOf(ResponseByte(executed))
      BY <1>2, ClientReads
    <2>3. Bytes' /\ Shape(client')
      BY <1>2, <1>3, <2>1, <2>2, HuntingReader DEF Bytes
    <2>4. Records'
      <3>1. attempt' = attempt /\ sent' = sent /\ attempt < MaxRetries
        BY <1>1, <1>3, <2>1 DEF Records
      <3> QED
        BY <1>2, <1>3, <3>1 DEF Records
    <2>5. ExecutedSent'
      BY <1>2, <1>3, <2>1 DEF ExecutedSent
    <2>6. OutcomeComputed'
      <3> SUFFICES ASSUME Result(n) # <<>>, Result(n)[1] = "answer"
                   PROVE  \E i \in DOMAIN executed :
                             /\ Result(n) = <<"answer", <<Answer(request.method, i)>>>>
                             /\ executed[i].method = request.method
        BY <1>2, <2>1 DEF OutcomeComputed
      <3>1. RetcodeOf(n) # NotFound /\ MethodOf(n) = request.method
        BY DEF Result
      <3>2. PICK i \in DOMAIN executed : /\ MethodOf(n) = executed[i].method
                                         /\ DataOf(n) = <<Answer(executed[i].method, i)>>
        BY <1>3, <2>1, <2>2, <3>1, ClientAcceptsAnswer
      <3>3. Result(n) = <<"answer", DataOf(n)>>
        BY <3>1 DEF Result
      <3>4. Result(n) = <<"answer", <<Answer(request.method, i)>>>>
        BY <3>1, <3>2, <3>3
      <3> QED
        BY <3>1, <3>2, <3>4
    <2> QED
      BY <1>2, <1>3, <2>3, <2>4, <2>5, <2>6 DEF IInv, NothingInvented, ExecutedSent, OutcomeComputed
  <1> QED
    BY <1>4, <1>5, <1>6 DEF Client

LEMMA NextTimeout == IInv /\ ClientTimeout => IInv'
  <1> SUFFICES ASSUME IInv, ClientTimeout PROVE IInv'
    OBVIOUS
  <1>1. /\ Underway /\ Retry
        /\ UNCHANGED <<toClient, server, request, executed, calls, losses>>
    BY DEF ClientTimeout
  <1>2. toClient' \in Seq(ResponseByte(executed))
    BY <1>1 DEF IInv, Bytes
  <1> QED
    BY <1>1, <1>2, NextRetry

LEMMA NextCall == ASSUME IInv, NEW q \in Requests, Call(q) PROVE IInv'
  <1>1. /\ executed \in Seq(Requests) /\ server \in ReaderOf(RequestByte(sent))
        /\ toClient \in Seq(ResponseByte(executed)) /\ Shape(server) /\ Records
    BY DEF IInv, Bytes, Records
  <1>2. /\ Write(q) /\ UNCHANGED <<toClient, server, executed, losses>>
        /\ request' = q /\ attempt' = 0 /\ outcome' = <<>> /\ client' = Hunting
        /\ calls' = calls + 1 /\ calls < MaxCalls
    BY DEF Call
  <1>3. /\ sent' \in Seq(Requests) /\ toServer' \in Seq(RequestByte(sent'))
        /\ RequestByte(sent) \subseteq RequestByte(sent') /\ ExecutedSent'
    BY <1>2, Written
  <1>4. server' \in ReaderOf(RequestByte(sent'))
    BY <1>1, <1>2, <1>3, ReaderGrows
  <1>5. Bytes' /\ Shape(client')
    BY <1>1, <1>2, <1>3, <1>4, HuntingReader DEF Bytes
  <1>6. Records'
    BY <1>1, <1>2, <1>3, Sizes DEF Records, Underway
  <1> QED
    BY <1>1, <1>2, <1>3, <1>5, <1>6 DEF IInv, NothingInvented, ExecutedSent

LEMMA NextLose == IInv /\ Lose => IInv'
  <1> SUFFICES ASSUME IInv, Lose PROVE IInv'
    OBVIOUS
  <1>1. /\ toServer \in Seq(RequestByte(sent)) /\ toClient \in Seq(ResponseByte(executed))
        /\ Records /\ ExecutedSent /\ OutcomeComputed
    BY Soundness DEF IInv, Bytes
  <1>2. /\ UNCHANGED <<server, client, request, attempt, outcome, sent, executed, calls>>
        /\ losses < MaxLosses /\ losses' = losses + 1
    BY DEF Lose, call
  <1>3. /\ toServer' \in Seq(RequestByte(sent)) /\ toClient' \in Seq(ResponseByte(executed))
    BY <1>1, TailBytes DEF Lose
  <1>4. Bytes'
    BY <1>2, <1>3 DEF IInv, Bytes
  <1>5. Records'
    BY <1>1, <1>2, Sizes DEF Records, Underway
  <1>6. ExecutedSent' /\ OutcomeComputed'
    BY <1>1, <1>2 DEF ExecutedSent, OutcomeComputed
  <1> QED
    BY <1>2, <1>4, <1>5, <1>6 DEF IInv, NothingInvented, ExecutedSent, OutcomeComputed

LEMMA NextIInv == IInv /\ [Next]_vars => IInv'
  <1>1. IInv /\ UNCHANGED vars => IInv'
    <2> SUFFICES ASSUME IInv, UNCHANGED vars PROVE IInv'
      OBVIOUS
    <2>1. /\ Bytes' /\ Records' /\ Shape(server') /\ Shape(client')
      BY DEF vars, IInv, Bytes, Records, Underway
    <2>2. NothingInvented'
      BY DEF vars, IInv, NothingInvented
    <2> QED
      BY <2>1, <2>2 DEF IInv
  <1> QED
    BY <1>1, NextServer, NextClient, NextTimeout, NextCall, NextLose DEF Next
----------------------------------------------------------------------------
(* The invariant that the theorems below rest on.                           *)
THEOREM Inductive == Spec => []IInv
  BY InitIInv, NextIInv, PTL DEF Spec

LEMMA InvTypeOK == IInv => TypeOK
  <1> SUFFICES ASSUME IInv PROVE TypeOK
    OBVIOUS
  <1>1. /\ server \in ReaderOf(RequestByte(sent)) /\ client \in ReaderOf(ResponseByte(executed))
        /\ Shape(server) /\ Shape(client) /\ Records
    BY DEF IInv, Bytes
  <1>2. ASSUME NEW B, NEW r \in ReaderOf(B), Shape(r) PROVE Reader(r)
    <2>1. Len(r.got) \in Nat /\ r.need \in Nat /\ r.found \in BOOLEAN
      BY DEF ReaderOf
    <2>2. Len(r.got) < 6 + BufferSize
      BY <1>2, <2>1, Sizes DEF Shape
    <2> QED
      BY <1>2, <2>1, <2>2 DEF Shape, Reader
  <1> QED
    BY <1>1, <1>2 DEF TypeOK, Records

(* No reader ever takes more bytes than its buffer holds, whatever becomes  *)
(* of the frames on the line.                                               *)
THEOREM TypeCorrect == Spec => []TypeOK
  BY Inductive, InvTypeOK, PTL

(* Handlers run only for requests that were made, and what a call returns   *)
(* was computed by a run of its handler, for any losses and any timeouts.   *)
THEOREM NoInvention == Spec => []NothingInvented
  <1>1. IInv => NothingInvented
    BY DEF IInv
  <1> QED
    BY <1>1, Inductive, PTL
----------------------------------------------------------------------------
(***************************************************************************)
(* The board runs handlers in the order in which requests were written, at *)
(* most once for each writing, whatever the line loses.  A request can     *)
(* only be accepted by means of the first half of its checksum, of which   *)
(* each writing puts one on the line.  These halves are never duplicated   *)
(* and never overtake each other: those that executions have used come     *)
(* first, then the one the board is reading after, then those on the line. *)
(*                                                                         *)
(* A request that finds the board hunting is read position by position,    *)
(* and so is its response: no reader finds the header early, refuses, or   *)
(* ends too soon.                                                          *)
(***************************************************************************)

IsHalf(b) == b[1] = "lo"

(* The executions e used up the requests at `place' of s, up to `last'.     *)
InOrder(e, s, place, last) ==
    /\ place \in [DOMAIN e -> 1 .. last]
    /\ \A i \in DOMAIN e : e[i] = s[place[i]]
    /\ \A i, j \in DOMAIN e : i < j => place[i] < place[j]

(* The half a reader has begun with is that of request `next', not used yet.*)
Held(r, s, last, next) ==
    /\ next \in last .. Len(s)
    /\ r.got # <<>> /\ IsHalf(r.got[1]) =>
          next > last /\ r.got[1][2] = RequestBody(s[next])

(* The halves on a line are those of later requests, in order.              *)
Queued(line, s, next, at) ==
    /\ at \in [DOMAIN line -> Nat]
    /\ \A p \in DOMAIN line : IsHalf(line[p]) =>
          at[p] \in next + 1 .. Len(s) /\ line[p][2] = RequestBody(s[at[p]])
    /\ \A p, q \in DOMAIN line :
          p < q /\ IsHalf(line[p]) /\ IsHalf(line[q]) => at[p] < at[q]

Ordered ==
    \E last \in 0 .. Len(sent), next \in 0 .. Len(sent) :
        /\ \E place \in [DOMAIN executed -> 1 .. last] :
              InOrder(executed, sent, place, last)
        /\ Held(server, sent, last, next)
        /\ \E at \in [DOMAIN toServer -> Nat] : Queued(toServer, sent, next, at)
----------------------------------------------------------------------------
LEMMA FourAndTwo ==
    ASSUME NEW B, NEW four \in Seq(B), NEW two \in Seq(B), Len(four) = 4, Len(two) = 2
    PROVE  /\ four \o two \in Seq(B) /\ Len(four \o two) = 6
           /\ \A i \in 1 .. 4 : (four \o two)[i] = four[i]
           /\ (four \o two)[5] = two[1] /\ (four \o two)[6] = two[2]
  <1> DEFINE all == four \o two
  <1>1. all \in Seq(B)
    BY ConcatProperties
  <1>2. Len(all) = Len(four) + Len(two)
    BY ConcatProperties
  <1>3. \A i \in 1 .. Len(four) + Len(two) :
           all[i] = IF i <= Len(four) THEN four[i] ELSE two[i - Len(four)]
    BY ConcatProperties
  <1> HIDE DEF all
  <1>4. \A i \in 1 .. 4 + 2 : all[i] = IF i <= 4 THEN four[i] ELSE two[i - 4]
    BY <1>3
  <1>5. all[5] = two[1] /\ all[6] = two[2]
    BY <1>4
  <1>6. \A i \in 1 .. 4 : all[i] = four[i]
    BY <1>4
  <1> QED
    BY <1>1, <1>2, <1>5, <1>6 DEF all

(* A request has one such half.                                             *)
LEMMA OneHalf ==
    ASSUME NEW q \in Requests, NEW p \in DOMAIN Frame(RequestBody(q)),
           IsHalf(Frame(RequestBody(q))[p])
    PROVE  p = 5 /\ Frame(RequestBody(q))[p][2] = RequestBody(q)
  <1>1. RequestBody(q) \in Seq(Number)
    <2>1. q.method \in Number /\ q.data \in Seq(Number) /\ Num(0) \in Number
      BY RequestFacts DEF Number
    <2> QED
      BY <2>1, BodyShape DEF RequestBody
  <1> DEFINE body == RequestBody(q)
             sum == <<<<"lo", body>>, <<"hi", body>>>>
  <1>2. Header \in Seq(HeaderByte) /\ Len(Header) = 4
    BY DEF Header, HeaderByte
  <1>3. sum \in Seq({<<h, body>> : h \in Half}) /\ Len(sum) = 2
    BY DEF Half
  <1> DEFINE Any == HeaderByte \cup Number \cup {<<h, body>> : h \in Half}
  <1>4. Header \in Seq(Any) /\ sum \in Seq(Any) /\ body \in Seq(Any)
    BY <1>1, <1>2, <1>3, ReaderGrows
  <1>5. Frame(body) = (Header \o sum) \o body
    BY DEF Frame
  <1>6. /\ Header \o sum \in Seq(Any) /\ Len(Header \o sum) = 6
        /\ \A i \in 1 .. 4 : (Header \o sum)[i] = Header[i]
        /\ (Header \o sum)[5] = <<"lo", body>> /\ (Header \o sum)[6] = <<"hi", body>>
    <2>1. sum[1] = <<"lo", body>> /\ sum[2] = <<"hi", body>>
      OBVIOUS
    <2> HIDE DEF Any, sum
    <2> QED
      BY <1>2, <1>3, <1>4, <2>1, FourAndTwo
  <1>7. p \in 1 .. 6 + Len(body)
    BY <1>4, <1>5, <1>6
  <1>8. Frame(body)[p] = IF p <= 6 THEN (Header \o sum)[p] ELSE body[p - 6]
    BY <1>4, <1>5, <1>6, <1>7
  <1>9. CASE p \in 1 .. 4
    <2>1. Frame(body)[p] \in HeaderByte
      BY <1>2, <1>6, <1>8, <1>9
    <2> QED
      BY <2>1 DEF IsHalf, HeaderByte
  <1>10. CASE p = 5
    BY <1>6, <1>8, <1>10
  <1>11. CASE p = 6
    BY <1>6, <1>8, <1>11 DEF IsHalf
  <1>12. CASE p > 6
    <2>1. Frame(body)[p] \in Number
      BY <1>1, <1>7, <1>8, <1>12
    <2> QED
      BY <2>1 DEF IsHalf, Number, Num
  <1> QED
    BY <1>7, <1>9, <1>10, <1>11, <1>12

(* The next byte leaves the line.                                           *)
LEMMA QueuedTail ==
    ASSUME NEW B, NEW line \in Seq(B), line # <<>>, NEW s \in Seq(Requests),
           NEW next \in Nat, NEW at \in [DOMAIN line -> Nat], Queued(line, s, next, at)
    PROVE  /\ \E at2 \in [DOMAIN Tail(line) -> Nat] : Queued(Tail(line), s, next, at2)
           /\ IsHalf(Head(line)) =>
                 \E k \in next + 1 .. Len(s) :
                    /\ Head(line)[2] = RequestBody(s[k])
                    /\ \E at2 \in [DOMAIN Tail(line) -> Nat] : Queued(Tail(line), s, k, at2)
  <1> DEFINE at2 == [p \in DOMAIN Tail(line) |-> at[p + 1]]
  <1>1. /\ Tail(line) \in Seq(B) /\ Head(line) = line[1] /\ 1 \in DOMAIN line
        /\ \A p \in DOMAIN Tail(line) :
              /\ p \in Nat /\ p + 1 \in DOMAIN line /\ p + 1 > 1
              /\ Tail(line)[p] = line[p + 1]
    OBVIOUS
  <1>2. at2 \in [DOMAIN Tail(line) -> Nat] /\ Len(s) \in Nat
    BY <1>1
  <1>3. Queued(Tail(line), s, next, at2)
    BY <1>1, <1>2 DEF Queued
  <1>4. ASSUME IsHalf(Head(line))
        PROVE  /\ at[1] \in next + 1 .. Len(s) /\ Head(line)[2] = RequestBody(s[at[1]])
               /\ Queued(Tail(line), s, at[1], at2)
    <2>1. at[1] \in next + 1 .. Len(s) /\ Head(line)[2] = RequestBody(s[at[1]])
      BY <1>1, <1>4 DEF Queued
    <2>2. \A p \in DOMAIN Tail(line) : IsHalf(Tail(line)[p]) =>
             at2[p] > at[1] /\ at2[p] \in next + 1 .. Len(s)
      BY <1>1, <1>4 DEF Queued
    <2>3. \A p \in DOMAIN Tail(line) : IsHalf(Tail(line)[p]) =>
             /\ at2[p] \in at[1] + 1 .. Len(s)
             /\ Tail(line)[p][2] = RequestBody(s[at2[p]])
      <3>1. \A p \in DOMAIN Tail(line) : IsHalf(Tail(line)[p]) =>
               Tail(line)[p][2] = RequestBody(s[at2[p]])
        BY <1>3 DEF Queued
      <3>2. at[1] \in Nat
        BY <2>1
      <3> HIDE DEF at2
      <3> QED
        BY <1>2, <2>2, <3>1, <3>2
    <2>4. \A p, q \in DOMAIN Tail(line) :
             p < q /\ IsHalf(Tail(line)[p]) /\ IsHalf(Tail(line)[q]) => at2[p] < at2[q]
      BY <1>3 DEF Queued
    <2> HIDE DEF at2
    <2>5. Queued(Tail(line), s, at[1], at2)
      BY <1>2, <2>3, <2>4 DEF Queued
    <2> QED
      BY <2>1, <2>5
  <1> QED
    BY <1>2, <1>3, <1>4

(* A request is written.                                                    *)
LEMMA QueuedWrite ==
    ASSUME NEW B, NEW line \in Seq(B), NEW s \in Seq(Requests), NEW q \in Requests,
           NEW next \in 0 .. Len(s), NEW at \in [DOMAIN line -> Nat],
           Queued(line, s, next, at)
    PROVE  \E at2 \in [DOMAIN (line \o Frame(RequestBody(q))) -> Nat] :
              Queued(line \o Frame(RequestBody(q)), Append(s, q), next, at2)
  <1> DEFINE F == Frame(RequestBody(q))
             L == line \o F
             at2 == [p \in DOMAIN L |-> IF p \in DOMAIN line THEN at[p] ELSE Len(s) + 1]
  <1>1. PICK C : F \in Seq(C)
    <2>1. <<q>> \in Seq(Requests) /\ 1 \in DOMAIN <<q>> /\ <<q>>[1] = q
      OBVIOUS
    <2> QED
      BY <2>1, RequestFrame
  <1>2. /\ Len(line) \in Nat /\ Len(F) \in Nat /\ Len(s) \in Nat
        /\ DOMAIN line = 1 .. Len(line) /\ DOMAIN L = 1 .. Len(line) + Len(F)
        /\ \A p \in DOMAIN L :
              IF p \in DOMAIN line THEN L[p] = line[p]
              ELSE p - Len(line) \in DOMAIN F /\ L[p] = F[p - Len(line)]
    BY <1>1
  <1>3. at2 \in [DOMAIN L -> Nat]
    BY <1>2
  <1>4. \A k \in 1 .. Len(s) : Append(s, q)[k] = s[k]
    OBVIOUS
  <1>5. Len(Append(s, q)) = Len(s) + 1 /\ Append(s, q)[Len(s) + 1] = q
    OBVIOUS
  <1>6. ASSUME NEW p \in DOMAIN L, IsHalf(L[p])
        PROVE  /\ at2[p] \in next + 1 .. Len(s) + 1
               /\ L[p][2] = RequestBody(Append(s, q)[at2[p]])
               /\ p \in DOMAIN line => at2[p] = at[p] /\ at[p] <= Len(s) /\ IsHalf(line[p])
               /\ p \notin DOMAIN line => p = Len(line) + 5 /\ at2[p] = Len(s) + 1
    <2>1. CASE p \in DOMAIN line
      BY <1>2, <1>4, <1>6, <2>1 DEF Queued
    <2>2. CASE p \notin DOMAIN line
      <3>1. p - Len(line) \in DOMAIN F /\ IsHalf(F[p - Len(line)]) /\ L[p] = F[p - Len(line)]
        BY <1>2, <1>6, <2>2
      <3>2. p - Len(line) = 5 /\ L[p][2] = RequestBody(q)
        BY <3>1, OneHalf
      <3> QED
        BY <1>2, <1>5, <2>2, <3>2
    <2> QED
      BY <2>1, <2>2
  <1>7. ASSUME NEW p \in DOMAIN L, NEW r \in DOMAIN L, p < r, IsHalf(L[p]), IsHalf(L[r])
        PROVE  at2[p] < at2[r]
    <2>1. CASE r \in DOMAIN line
      <3>1. p \in DOMAIN line
        BY <1>2, <1>7, <2>1
      <3> QED
        BY <1>6, <1>7, <2>1, <3>1 DEF Queued
    <2>2. CASE r \notin DOMAIN line
      <3>1. at2[r] = Len(s) + 1 /\ r = Len(line) + 5
        BY <1>6, <1>7, <2>2
      <3>2. p \in DOMAIN line
        BY <1>2, <1>6, <1>7, <3>1
      <3>3. at2[p] = at[p] /\ at[p] <= Len(s) /\ at[p] \in Nat
        BY <1>6, <1>7, <3>2
      <3> QED
        BY <1>2, <3>1, <3>3
    <2> QED
      BY <2>1, <2>2
  <1>8. Queued(L, Append(s, q), next, at2)
    BY <1>3, <1>5, <1>6, <1>7 DEF Queued
  <1> QED
    BY <1>3, <1>8
----------------------------------------------------------------------------
LEMMA OrderedInitially == Init => Ordered
  <1> SUFFICES ASSUME Init
               PROVE  Ordered
    OBVIOUS
  <1>1. Len(sent) = 0 /\ DOMAIN executed = {} /\ DOMAIN toServer = {} /\ server.got = <<>>
    BY DEF Init, Hunting
  <1> DEFINE place == [i \in DOMAIN executed |-> 1]
             at == [p \in DOMAIN toServer |-> 0]
  <1>2. place \in [DOMAIN executed -> 1 .. 0] /\ InOrder(executed, sent, place, 0)
    BY <1>1 DEF InOrder
  <1>3. at \in [DOMAIN toServer -> Nat] /\ Queued(toServer, sent, 0, at)
    BY <1>1 DEF Queued
  <1>4. Held(server, sent, 0, 0)
    BY <1>1 DEF Held
  <1>5. 0 \in 0 .. Len(sent)
    BY <1>1
  <1> HIDE DEF place, at
  <1> QED
    BY <1>2, <1>3, <1>4, <1>5 DEF Ordered

(* What a reader has begun with after one more byte.                        *)
LEMMA FirstByte ==
    ASSUME NEW B, NEW r \in ReaderOf(B), Shape(r), NEW b \in B, NEW n \in Read(r, b)
    PROVE  \/ n.got = <<>>
           \/ r.got = <<>> /\ n.got # <<>> /\ n.got[1] = b
           \/ r.got # <<>> /\ n.got # <<>> /\ n.got[1] = r.got[1]
  <1>1. r.got \in Seq(B) /\ r.found \in BOOLEAN
    BY DEF ReaderOf
  <1>2. CASE ~r.found
    <2>1. n = [head |-> Latest(r.head, b), found |-> Latest(r.head, b) = Header,
               got |-> r.got, need |-> r.need]
      BY <1>2, Zenon DEF Read
    <2>2. r.got = <<>>
      BY <1>2 DEF Shape
    <2> QED
      BY <2>1, <2>2
  <1>3. CASE r.found
    <2>1. PICK k \in Needs(r, b) :
             n = [head |-> r.head, found |-> TRUE, got |-> Append(r.got, b), need |-> k]
      BY <1>3, Zenon DEF Read
    <2>2. n.got = Append(r.got, b)
      BY <2>1
    <2> QED
      BY <1>1, <2>2
  <1> QED
    BY <1>1, <1>2, <1>3

LEMMA OrderedServer == IInv /\ Ordered /\ Server => Ordered'
  <1> SUFFICES ASSUME IInv, Ordered, Server
               PROVE  Ordered'
    OBVIOUS
  <1>1. /\ sent \in Seq(Requests) /\ executed \in Seq(Requests)
        /\ toServer \in Seq(RequestByte(sent)) /\ server \in ReaderOf(RequestByte(sent))
        /\ Shape(server) /\ Len(sent) \in Nat
    BY DEF IInv, Bytes, Records
  <1>2. PICK last \in 0 .. Len(sent), next \in 0 .. Len(sent) :
           /\ \E place \in [DOMAIN executed -> 1 .. last] :
                 InOrder(executed, sent, place, last)
           /\ Held(server, sent, last, next)
           /\ \E at \in [DOMAIN toServer -> Nat] : Queued(toServer, sent, next, at)
    BY DEF Ordered
  <1>3. toServer' = Tail(toServer) /\ sent' = sent
    BY DEF Server, ServerWaits, ServerRefuses, ServerServes, ServerTakes
  <1>4. PICK n \in Received(toServer, server) :
           \/ /\ ~Accepted(n)
              /\ server' \in {n, Hunting} /\ executed' = executed
           \/ /\ Accepted(n)
              /\ server' = Hunting
              /\ \/ executed' = executed
                 \/ executed' = Append(executed, [method |-> MethodOf(n),
                                                  data |-> DataOf(n)])
    BY DEF Server, ServerWaits, ServerRefuses, ServerServes, Refused, Accepted
  <1>5. /\ toServer # <<>> /\ n \in Read(server, Head(toServer))
        /\ Head(toServer) \in RequestByte(sent)
    BY <1>1, TailBytes DEF Received
  <1>6. /\ n \in ReaderOf(RequestByte(sent)) /\ n.got \in Seq(RequestByte(sent))
    BY <1>1, <1>5, Alphabets, ReadType DEF ReaderOf
  <1>7. PICK now \in 0 .. Len(sent) :
           /\ Held(n, sent, last, now)
           /\ now >= next
           /\ \E at \in [DOMAIN Tail(toServer) -> Nat] : Queued(Tail(toServer), sent, now, at)
    <2>1. PICK at \in [DOMAIN toServer -> Nat] : Queued(toServer, sent, next, at)
      BY <1>2
    <2>2. next \in Nat
      BY <1>1, <1>2
    <2>3. \E at2 \in [DOMAIN Tail(toServer) -> Nat] : Queued(Tail(toServer), sent, next, at2)
      BY <1>1, <1>5, <2>1, <2>2, QueuedTail
    <2>4. IsHalf(Head(toServer)) =>
             \E k \in next + 1 .. Len(sent) :
                /\ Head(toServer)[2] = RequestBody(sent[k])
                /\ \E at2 \in [DOMAIN Tail(toServer) -> Nat] :
                      Queued(Tail(toServer), sent, k, at2)
      BY <1>1, <1>5, <2>1, <2>2, QueuedTail
    <2>5. next \in last .. Len(sent)
      BY <1>2 DEF Held
    <2>6. \/ n.got = <<>>
          \/ server.got = <<>> /\ n.got # <<>> /\ n.got[1] = Head(toServer)
          \/ server.got # <<>> /\ n.got # <<>> /\ n.got[1] = server.got[1]
      BY <1>1, <1>5, FirstByte
    <2>7. CASE n.got = <<>>
      BY <2>3, <2>5, <2>7 DEF Held
    <2>8. CASE server.got # <<>> /\ n.got # <<>> /\ n.got[1] = server.got[1]
      BY <1>2, <2>3, <2>5, <2>8 DEF Held
    <2>9. CASE n.got # <<>> /\ n.got[1] = Head(toServer) /\ ~IsHalf(Head(toServer))
      BY <2>3, <2>5, <2>9 DEF Held
    <2>10. CASE n.got # <<>> /\ n.got[1] = Head(toServer) /\ IsHalf(Head(toServer))
      <3>1. PICK k \in next + 1 .. Len(sent) :
               /\ Head(toServer)[2] = RequestBody(sent[k])
               /\ \E at2 \in [DOMAIN Tail(toServer) -> Nat] :
                     Queued(Tail(toServer), sent, k, at2)
        BY <2>4, <2>10
      <3>2. k \in last .. Len(sent) /\ k > last /\ k >= next /\ k \in 0 .. Len(sent)
        BY <1>1, <1>2, <2>5
      <3>3. Held(n, sent, last, k)
        BY <2>10, <3>1, <3>2 DEF Held
      <3> QED
        BY <3>1, <3>2, <3>3
    <2> QED
      BY <2>6, <2>7, <2>8, <2>9, <2>10
  <1>8. Hunting.got = <<>>
    BY DEF Hunting
  <1>9. CASE executed' = executed /\ server' \in {n, Hunting}
    <2>1. Held(server', sent, last, now)
      BY <1>7, <1>8, <1>9 DEF Held
    <2>2. \E place \in [DOMAIN executed' -> 1 .. last] :
             InOrder(executed', sent', place, last)
      BY <1>2, <1>3, <1>9
    <2>3. \E at \in [DOMAIN toServer' -> Nat] : Queued(toServer', sent', now, at)
      BY <1>3, <1>7
    <2> QED
      BY <1>2, <1>3, <1>7, <2>1, <2>2, <2>3 DEF Ordered
  <1>10. CASE /\ Accepted(n) /\ server' = Hunting
              /\ executed' = Append(executed, [method |-> MethodOf(n), data |-> DataOf(n)])
    <2>1. n.got # <<>> /\ n.got[1] = <<"lo", ReadBody(n)>>
      BY <1>6, <1>10 DEF Accepted, InFull, ChecksumMatches
    <2>2. now > last /\ now \in DOMAIN sent /\ ReadBody(n) = RequestBody(sent[now])
      BY <1>1, <1>2, <1>7, <2>1 DEF Held, IsHalf
    <2>3. executed' = Append(executed, sent[now])
      BY <1>1, <1>6, <1>10, <2>2, RequestRead
    <2>4. PICK place \in [DOMAIN executed -> 1 .. last] :
             InOrder(executed, sent, place, last)
      BY <1>2
    <2> DEFINE place2 == [i \in DOMAIN executed' |->
                             IF i \in DOMAIN executed THEN place[i] ELSE now]
    <2>5. /\ \A i \in DOMAIN executed' : i \in DOMAIN executed \/ i = Len(executed) + 1
          /\ \A i \in DOMAIN executed : i < Len(executed) + 1 /\ executed'[i] = executed[i]
          /\ executed'[Len(executed) + 1] = sent[now]
          /\ Len(executed) + 1 \notin DOMAIN executed /\ Len(executed) \in Nat
          /\ DOMAIN executed = 1 .. Len(executed)
      BY <1>1, <2>2, <2>3
    <2>6. place2 \in [DOMAIN executed' -> 1 .. now]
      BY <1>1, <1>2, <2>2, <2>4
    <2>7. \A i \in DOMAIN executed' : executed'[i] = sent[place2[i]]
      BY <2>4, <2>5 DEF InOrder
    <2>8. \A i, j \in DOMAIN executed' : i < j => place2[i] < place2[j]
      <3> SUFFICES ASSUME NEW i \in DOMAIN executed', NEW j \in DOMAIN executed', i < j
                   PROVE  place2[i] < place2[j]
        OBVIOUS
      <3>1. i \in DOMAIN executed
        BY <2>5
      <3>2. CASE j \in DOMAIN executed
        BY <2>4, <3>1, <3>2 DEF InOrder
      <3>3. CASE j \notin DOMAIN executed
        <4>1. place[i] \in 1 .. last
          BY <2>4, <3>1
        <4> QED
          BY <1>1, <1>2, <2>2, <3>1, <3>3, <4>1
      <3> QED
        BY <3>2, <3>3
    <2>9. InOrder(executed', sent', place2, now)
      BY <1>3, <2>6, <2>7, <2>8 DEF InOrder
    <2>10. Held(server', sent', now, now)
      BY <1>1, <1>3, <1>8, <1>10, <2>2 DEF Held
    <2>11. \E at \in [DOMAIN toServer' -> Nat] : Queued(toServer', sent', now, at)
      BY <1>3, <1>7
    <2>12. now \in 0 .. Len(sent')
      BY <1>3
    <2> QED
      BY <2>6, <2>9, <2>10, <2>11, <2>12 DEF Ordered
  <1> QED
    BY <1>4, <1>9, <1>10

LEMMA OrderedWrite ==
    ASSUME IInv, Ordered, NEW q \in Requests, Write(q), UNCHANGED <<server, executed>>
    PROVE  Ordered'
  <1>1. /\ sent \in Seq(Requests) /\ Len(sent) \in Nat
        /\ toServer \in Seq(RequestByte(sent))
    BY DEF IInv, Bytes, Records
  <1>2. PICK last \in 0 .. Len(sent), next \in 0 .. Len(sent) :
           /\ \E place \in [DOMAIN executed -> 1 .. last] :
                 InOrder(executed, sent, place, last)
           /\ Held(server, sent, last, next)
           /\ \E at \in [DOMAIN toServer -> Nat] : Queued(toServer, sent, next, at)
    BY DEF Ordered
  <1>3. sent' = Append(sent, q) /\ toServer' = toServer \o Frame(RequestBody(q))
    BY DEF Write
  <1>4. /\ Len(sent') = Len(sent) + 1
        /\ \A k \in 1 .. Len(sent) : sent'[k] = sent[k]
    BY <1>1, <1>3
  <1>5. PICK place \in [DOMAIN executed -> 1 .. last] :
           InOrder(executed, sent, place, last)
    BY <1>2
  <1>6. \A i \in DOMAIN executed : place[i] \in 1 .. Len(sent)
    BY <1>1, <1>5
  <1>7. InOrder(executed', sent', place, last)
    BY <1>4, <1>5, <1>6 DEF InOrder
  <1>8. Held(server', sent', last, next)
    <2>1. next \in last .. Len(sent')
      BY <1>1, <1>2, <1>4 DEF Held
    <2>2. next > last => sent'[next] = sent[next]
      BY <1>1, <1>2, <1>4
    <2> QED
      BY <1>2, <2>1, <2>2 DEF Held
  <1>9. \E at \in [DOMAIN toServer' -> Nat] : Queued(toServer', sent', next, at)
    BY <1>1, <1>2, <1>3, QueuedWrite
  <1>10. last \in 0 .. Len(sent') /\ next \in 0 .. Len(sent')
    BY <1>1, <1>2, <1>4
  <1>11. place \in [DOMAIN executed' -> 1 .. last]
    OBVIOUS
  <1> QED
    BY <1>7, <1>8, <1>9, <1>10, <1>11 DEF Ordered

LEMMA OrderedLose == IInv /\ Ordered /\ Lose => Ordered'
  <1> SUFFICES ASSUME IInv, Ordered, Lose
               PROVE  Ordered'
    OBVIOUS
  <1>1. sent \in Seq(Requests) /\ toServer \in Seq(RequestByte(sent))
    BY DEF IInv, Bytes, Records
  <1>2. UNCHANGED <<server, sent, executed>>
    BY DEF Lose
  <1>3. CASE toServer' = toServer
    BY <1>2, <1>3 DEF Ordered
  <1>4. CASE toServer # <<>> /\ toServer' = Tail(toServer)
    <2>1. \A next \in 0 .. Len(sent) :
             (\E at \in [DOMAIN toServer -> Nat] : Queued(toServer, sent, next, at)) =>
                \E at \in [DOMAIN toServer' -> Nat] : Queued(toServer', sent, next, at)
      BY <1>1, <1>4, QueuedTail
    <2> QED
      BY <1>2, <2>1 DEF Ordered
  <1> QED
    BY <1>3, <1>4 DEF Lose

LEMMA OrderedStep == IInv /\ Ordered /\ [Next]_vars => Ordered'
  <1> SUFFICES ASSUME IInv, Ordered, [Next]_vars
               PROVE  Ordered'
    OBVIOUS
  <1>1. CASE UNCHANGED <<toServer, server, sent, executed>>
    BY <1>1 DEF Ordered
  <1>2. ASSUME Retry, UNCHANGED <<server, request, executed>>
        PROVE  Ordered'
    <2>1. CASE Write(request)
      BY <1>2, <2>1, OrderedWrite DEF IInv, Records
    <2>2. CASE UNCHANGED <<toServer, sent>>
      BY <1>1, <1>2, <2>2
    <2> QED
      BY <1>2, <2>1, <2>2 DEF Retry
  <1>3. ASSUME NEW q \in Requests, Call(q)
        PROVE  Ordered'
    BY <1>3, OrderedWrite DEF Call
  <1>4. CASE Client
    <2>1. CASE ClientWaits \/ ClientAccepts
      BY <1>1, <2>1 DEF ClientWaits, ClientAccepts, ClientTakes
    <2>2. CASE ClientRefuses
      BY <1>2, <2>2 DEF ClientRefuses, ClientTakes
    <2> QED
      BY <1>4, <2>1, <2>2 DEF Client
  <1>5. CASE ClientTimeout
    BY <1>2, <1>5 DEF ClientTimeout
  <1>6. CASE UNCHANGED vars
    BY <1>1, <1>6 DEF vars
  <1> QED
    BY <1>3, <1>4, <1>5, <1>6, OrderedServer, OrderedLose DEF Next
----------------------------------------------------------------------------
(* Handlers run in the order of the requests and at most once for each      *)
(* writing, for all requests and buffers and any number of calls, attempts  *)
(* and losses.                                                              *)
THEOREM RunsInOrder == Spec => []ExecutedAsSent
  <1>1. IInv /\ Ordered => ExecutedAsSent
    <2> SUFFICES ASSUME IInv, Ordered
                 PROVE  ExecutedAsSent
      OBVIOUS
    <2>1. sent \in Seq(Requests)
      BY DEF IInv, Records
    <2>2. PICK last \in 0 .. Len(sent) :
             \E place \in [DOMAIN executed -> 1 .. last] :
                InOrder(executed, sent, place, last)
      BY DEF Ordered
    <2>3. PICK place \in [DOMAIN executed -> 1 .. last] :
             InOrder(executed, sent, place, last)
      BY <2>2
    <2>4. place \in [DOMAIN executed -> DOMAIN sent]
      BY <2>1, <2>3
    <2> QED
      BY <2>3, <2>4 DEF InOrder, ExecutedAsSent
  <1> QED
    BY <1>1, Inductive, OrderedInitially, OrderedStep, PTL DEF Spec
----------------------------------------------------------------------------
(* F is the frame of `body', which carries `size' bytes of data.            *)
FrameOf(F, body, size) ==
    /\ \E C : F \in Seq(C)
    /\ Len(F) = 10 + size
    /\ \A i \in 1 .. 4 : F[i] = Header[i]
    /\ F[5] = <<"lo", body>> /\ F[6] = <<"hi", body>>
    /\ Len(body) = 4 + size /\ \A i \in 1 .. 4 + size : F[6 + i] = body[i]
    /\ F[9] = Num(size % Radix) /\ F[10] = Num(size \div Radix)

(* The latest bytes are the first k of the header.                          *)
EndsWith(window, k) ==
    /\ Len(window) >= k
    /\ \A i \in 1 .. k : window[Len(window) - k + i] = Header[i]

(* A reader has taken in the first k bytes of F, the rest is on the line.   *)
HasRead(r, F, k, size) ==
    /\ k < 4 => ~r.found /\ EndsWith(r.head, k)
    /\ k >= 4 => /\ r.found /\ Len(r.got) = k - 4
                 /\ \A i \in 1 .. k - 4 : r.got[i] = F[4 + i]
    /\ k >= 10 => r.need = size

OnLine(line, F, k) ==
    /\ Len(line) = Len(F) - k
    /\ \A i \in 1 .. Len(line) : line[i] = F[k + i]

(* What the host waits for.                                                 *)
Response(q, n) ==
    IF q.method \in Known THEN AnswerBody(q.method, n) ELSE NotFoundBody(q.method)
ResponseSize(q) == IF q.method \in Known THEN 1 ELSE 0

Asking ==
    /\ \E k \in 0 .. 9 + Len(request.data) :
          /\ OnLine(toServer, Frame(RequestBody(request)), k)
          /\ HasRead(server, Frame(RequestBody(request)), k, Len(request.data))
    /\ toClient = <<>> /\ client = Hunting /\ since = Len(executed)

Answering ==
    /\ \E k \in 0 .. 9 + ResponseSize(request) :
          /\ OnLine(toClient, Frame(Response(request, since + 1)), k)
          /\ HasRead(client, Frame(Response(request, since + 1)), k,
                     ResponseSize(request))
    /\ toServer = <<>>
    /\ request.method \in Known =>
          since + 1 \in DOMAIN executed /\ executed[since + 1] = request

----------------------------------------------------------------------------
LEMMA FrameParts ==
    ASSUME NEW B, NEW m \in B, NEW rc \in B, NEW d \in Seq(B), Number \subseteq B
    PROVE  FrameOf(Frame(Body(m, rc, d)), Body(m, rc, d), Len(d))
  <1> DEFINE body == Body(m, rc, d)
             sum == <<<<"lo", body>>, <<"hi", body>>>>
             Any == B \cup HeaderByte \cup {<<h, body>> : h \in Half}
  <1>1. body \in Seq(B) /\ Len(body) = 4 + Len(d) /\ Len(d) \in Nat
    BY BodyShape
  <1>2. body[3] = Num(Len(d) % Radix) /\ body[4] = Num(Len(d) \div Radix)
    <2>1. Num(Len(d) % Radix) \in B /\ Num(Len(d) \div Radix) \in B
      BY <1>1, Digits
    <2>2. PICK x \in B, y \in B : x = Num(Len(d) % Radix) /\ y = Num(Len(d) \div Radix)
      BY <2>1
    <2>3. body = <<m, rc, x, y>> \o d
      BY <2>2 DEF Body
    <2>4. /\ <<m, rc, x, y>> \in Seq(B) /\ Len(<<m, rc, x, y>>) = 4
          /\ <<m, rc, x, y>>[3] = x /\ <<m, rc, x, y>>[4] = y
      OBVIOUS
    <2> HIDE DEF body
    <2>5. body[3] = x /\ body[4] = y
      BY <1>1, <2>3, <2>4
    <2> QED
      BY <2>2, <2>5
  <1>3. Header \in Seq(HeaderByte) /\ Len(Header) = 4
    BY DEF Header, HeaderByte
  <1>4. sum \in Seq({<<h, body>> : h \in Half}) /\ Len(sum) = 2
    BY DEF Half
  <1>5. Header \in Seq(Any) /\ sum \in Seq(Any) /\ body \in Seq(Any)
    BY <1>1, <1>3, <1>4, ReaderGrows
  <1>6. Frame(body) = (Header \o sum) \o body
    BY DEF Frame
  <1>7. /\ Header \o sum \in Seq(Any) /\ Len(Header \o sum) = 6
        /\ \A i \in 1 .. 4 : (Header \o sum)[i] = Header[i]
        /\ (Header \o sum)[5] = <<"lo", body>> /\ (Header \o sum)[6] = <<"hi", body>>
    <2>1. sum[1] = <<"lo", body>> /\ sum[2] = <<"hi", body>>
      OBVIOUS
    <2> HIDE DEF Any, sum
    <2> QED
      BY <1>3, <1>4, <1>5, <2>1, FourAndTwo
  <1> DEFINE start == Header \o sum
             F == Frame(body)
  <1> HIDE DEF Any, sum, body, start
  <1>8. F \in Seq(Any) /\ Len(F) = 10 + Len(d)
    BY <1>1, <1>5, <1>6, <1>7 DEF start
  <1>9. /\ \A i \in 1 .. 6 : F[i] = start[i]
        /\ \A i \in 1 .. 4 + Len(d) : F[6 + i] = body[i]
    <2>1. start \in Seq(Any) /\ Len(start) = 6 /\ F = start \o body
      BY <1>6, <1>7 DEF start
    <2>2. \A i \in 1 .. Len(start) + Len(body) :
             F[i] = IF i <= Len(start) THEN start[i] ELSE body[i - Len(start)]
      <3>1. \A i \in 1 .. Len(start) + Len(body) :
               (start \o body)[i] =
                  IF i <= Len(start) THEN start[i] ELSE body[i - Len(start)]
        BY <1>5, <2>1, ConcatProperties
      <3> QED
        BY <2>1, <3>1
    <2> HIDE DEF F
    <2>3. Len(start) = 6 /\ Len(body) = 4 + Len(d)
      BY <1>1, <2>1
    <2>4. \A i \in 1 .. 6 + (4 + Len(d)) : F[i] = IF i <= 6 THEN start[i] ELSE body[i - 6]
      BY <2>2, <2>3
    <2>5. \A i \in 1 .. 4 + Len(d) : 6 + i \in 1 .. 6 + (4 + Len(d)) /\ 6 + i > 6 /\ 6 + i - 6 = i
      BY <1>1
    <2>6. \A i \in 1 .. 4 + Len(d) : F[6 + i] = body[i]
      BY <2>4, <2>5
    <2>7. \A i \in 1 .. 6 : i \in 1 .. 6 + (4 + Len(d))
      BY <1>1
    <2> QED
      BY <2>4, <2>6, <2>7
  <1> HIDE DEF F
  <1>10. \A i \in 1 .. 4 : F[i] = Header[i]
    BY <1>7, <1>9 DEF start
  <1>11. F[5] = <<"lo", body>> /\ F[6] = <<"hi", body>>
    BY <1>7, <1>9 DEF start
  <1>12. F[9] = body[3] /\ F[10] = body[4]
    <2>1. F[6 + 3] = body[3] /\ F[6 + 4] = body[4]
      BY <1>1, <1>9
    <2> QED
      BY <2>1
  <1>13. FrameOf(F, body, Len(d))
    BY <1>1, <1>2, <1>8, <1>9, <1>10, <1>11, <1>12 DEF FrameOf
  <1> QED
    BY <1>13 DEF F, body

(* The bytes of the header, and none of them before the last, end a search. *)
LEMMA HeaderFacts ==
    /\ Header \in Seq(HeaderByte) /\ Len(Header) = 4
    /\ \A i \in 1 .. 3 : Header[i] # Header[Len(Header)]
  BY DEF Header, HeaderByte

(* L is the window of the latest bytes, o at most four, after byte b.       *)
Shifted(L, window, o, b) ==
    /\ o < 4 => /\ Len(L) = o + 1 /\ L[o + 1] = b
                /\ \A i \in 1 .. o : L[i] = window[i]
    /\ o >= 4 => /\ Len(L) = o /\ L[o] = b
                 /\ \A i \in 1 .. o - 1 : L[i] = window[i + 1]

LEMMA LatestByte ==
    ASSUME NEW B, NEW window \in Seq(B), NEW o \in Nat, Len(window) = o, NEW b \in B
    PROVE  Latest(window, b) \in Seq(B) /\ Shifted(Latest(window, b), window, o, b)
  <1>1. CASE o < 4
    <2>1. Latest(window, b) = Append(window, b)
      BY <1>1 DEF Latest
    <2> QED
      BY <1>1, <2>1 DEF Shifted
  <1>2. CASE o >= 4
    <2>1. Latest(window, b) = Append(Tail(window), b)
      BY <1>2 DEF Latest
    <2>2. window # <<>>
      BY <1>2
    <2>3. /\ Tail(window) \in Seq(B) /\ Len(Tail(window)) = o - 1
          /\ \A i \in 1 .. o - 1 : Tail(window)[i] = window[i + 1]
      BY <2>2
    <2> DEFINE t == Tail(window)
    <2> HIDE DEF t
    <2>4. t \in Seq(B) /\ Len(t) = o - 1 /\ \A i \in 1 .. o - 1 : t[i] = window[i + 1]
      BY <2>3 DEF t
    <2>5. /\ Append(t, b) \in Seq(B) /\ Len(Append(t, b)) = o - 1 + 1
          /\ Append(t, b)[o - 1 + 1] = b
          /\ \A i \in 1 .. o - 1 : Append(t, b)[i] = t[i]
      BY <1>2, <2>4
    <2>6. o - 1 + 1 = o
      OBVIOUS
    <2>7. Latest(window, b) = Append(t, b)
      BY <2>1 DEF t
    <2> QED
      BY <1>2, <2>4, <2>5, <2>6, <2>7 DEF Shifted
  <1> QED
    BY <1>1, <1>2

LEMMA Hunts ==
    ASSUME NEW B, NEW window \in Seq(B), Len(window) <= 4, NEW k \in 0 .. 3,
           EndsWith(window, k), NEW b \in B, b = Header[k + 1]
    PROVE  /\ EndsWith(Latest(window, b), k + 1)
           /\ Latest(window, b) = Header <=> k = 3
  <1>1. PICK o \in Nat : Len(window) = o /\ o <= 4
    OBVIOUS
  <1> DEFINE L == Latest(window, b)
  <1>2. L \in Seq(B) /\ Shifted(L, window, o, b)
    BY <1>1, LatestByte
  <1> HIDE DEF L
  <1>3. PICK n \in Nat :
           /\ Len(L) = n /\ L[n] = b
           /\ o < 4 => n = o + 1 /\ \A i \in 1 .. n - 1 : L[i] = window[i]
           /\ o >= 4 => n = o /\ \A i \in 1 .. n - 1 : L[i] = window[i + 1]
    <2>1. CASE o < 4
      <3>1. o + 1 \in Nat /\ o + 1 - 1 = o
        OBVIOUS
      <3> QED
        BY <1>2, <2>1, <3>1 DEF Shifted
    <2>2. CASE o >= 4
      BY <1>2, <2>2 DEF Shifted
    <2>3. o < 4 \/ o >= 4
      OBVIOUS
    <2> QED
      BY <2>1, <2>2, <2>3, Zenon
  <1>4. o >= k /\ \A i \in 1 .. k : window[o - k + i] = Header[i]
    BY <1>1 DEF EndsWith
  <1>5. /\ n >= k + 1 /\ n <= 4
        /\ o < 4 => n = o + 1
        /\ o >= 4 => n = o
    BY <1>1, <1>3, <1>4
  <1>6. ASSUME NEW i \in 1 .. k + 1
        PROVE  L[n - (k + 1) + i] = Header[i]
    <2>1. CASE i <= k
      <3>1. window[o - k + i] = Header[i]
        BY <1>4, <2>1
      <3>2. CASE o < 4
        <4>1. n - (k + 1) + i = o - k + i /\ o - k + i \in 1 .. n - 1
          BY <1>4, <1>5, <2>1, <3>2
        <4> QED
          BY <1>3, <3>1, <3>2, <4>1
      <3>3. CASE o >= 4
        <4>1. /\ n - (k + 1) + i \in 1 .. n - 1
              /\ n - (k + 1) + i + 1 = o - k + i
          BY <1>4, <1>5, <2>1, <3>3
        <4>2. L[n - (k + 1) + i] = window[n - (k + 1) + i + 1]
          BY <1>3, <3>3, <4>1
        <4> QED
          BY <3>1, <4>1, <4>2
      <3> QED
        BY <3>2, <3>3
    <2>2. CASE i > k
      <3>1. n - (k + 1) + i = n /\ i = k + 1
        BY <2>2
      <3> QED
        BY <1>3, <3>1
    <2> QED
      BY <2>1, <2>2
  <1>7. EndsWith(L, k + 1)
    BY <1>3, <1>5, <1>6 DEF EndsWith
  <1>8. ASSUME k >= 3
        PROVE  L = Header
    <2>1. \A i \in 1 .. n : L[i] = Header[i]
      <3> TAKE i \in 1 .. n
      <3>1. i \in 1 .. k + 1 /\ n - (k + 1) + i = i
        BY <1>5, <1>8
      <3> QED
        BY <1>6, <3>1
    <2>2. L \in Seq(B \cup HeaderByte) /\ Header \in Seq(B \cup HeaderByte)
      BY <1>2, HeaderFacts, ReaderGrows
    <2>3. Len(Header) = n
      BY <1>5, <1>8, HeaderFacts
    <2> QED
      BY <1>3, <1>2, <2>1, <2>2, <2>3, SeqEqual
  <1>9. ASSUME k < 3
        PROVE  L # Header
    <2>1. k + 1 \in 1 .. 3 /\ Header[k + 1] # Header[Len(Header)]
      BY <1>9, HeaderFacts
    <2> QED
      BY <1>3, <2>1
  <1> QED
    BY <1>7, <1>8, <1>9 DEF L

(* The length is read as it was written.                                    *)
LEMMA LengthRead ==
    ASSUME NEW size \in Nat, NEW lo \in Value(Num(size % Radix)),
           NEW hi \in Value(Num(size \div Radix))
    PROVE  lo + Radix * hi = size
  <1>1. /\ Value(Num(size % Radix)) = {size % Radix}
        /\ Value(Num(size \div Radix)) = {size \div Radix}
    BY DEF Value, Num
  <1>2. (size % Radix) + Radix * (size \div Radix) = size
    BY Sizes
  <1> QED
    BY <1>1, <1>2

(* A frame that loses nothing is read to its end, and then accepted.        *)
LEMMA ReadsOn ==
    ASSUME NEW B, Numeric(B), NEW r \in ReaderOf(B), Shape(r),
           NEW body \in Seq(B), NEW size \in Nat, size <= BufferSize,
           NEW F, FrameOf(F, body, size),
           NEW k \in Nat, k <= 9 + size, HasRead(r, F, k, size),
           NEW b \in B, b = F[k + 1], NEW n \in Read(r, b)
    PROVE  /\ k < 9 + size => ~Accepted(n) /\ ~Refused(n) /\ HasRead(n, F, k + 1, size)
           /\ k >= 9 + size => Accepted(n) /\ ReadBody(n) = body
  <1>1. /\ r.head \in Seq(B) /\ r.got \in Seq(B) /\ r.found \in BOOLEAN
        /\ Len(r.head) <= 4
    BY DEF ReaderOf, Shape
  <1>2. CASE k < 4
    <2>1. ~r.found /\ EndsWith(r.head, k) /\ r.got = <<>>
      BY <1>2 DEF HasRead, Shape
    <2>2. n = [head |-> Latest(r.head, b), found |-> Latest(r.head, b) = Header,
               got |-> r.got, need |-> r.need]
      BY <2>1, Zenon DEF Read
    <2>3. k \in 0 .. 3 /\ k + 1 \in 1 .. 4
      BY <1>2
    <2>4. b = Header[k + 1]
      BY <2>3 DEF FrameOf
    <2>5. /\ EndsWith(Latest(r.head, b), k + 1)
          /\ Latest(r.head, b) = Header <=> k = 3
      BY <1>1, <2>1, <2>3, <2>4, Hunts
    <2>6. /\ n.head = Latest(r.head, b) /\ n.got = <<>>
          /\ n.found <=> k = 3
      BY <2>1, <2>2, <2>5
    <2>7. Len(n.got) = 0
      BY <2>6
    <2>8. ~Accepted(n) /\ ~Refused(n)
      BY <2>7 DEF Accepted, Refused, InFull, TooLong
    <2>9. HasRead(n, F, k + 1, size)
      <3>1. k + 1 < 4 => ~n.found /\ EndsWith(n.head, k + 1)
        BY <2>5, <2>6
      <3>2. k + 1 >= 4 => /\ n.found /\ Len(n.got) = k + 1 - 4
                          /\ \A i \in 1 .. k + 1 - 4 : n.got[i] = F[4 + i]
        <4>1. k + 1 >= 4 => k = 3 /\ k + 1 - 4 = 0
          BY <2>3
        <4> QED
          BY <2>6, <2>7, <4>1
      <3>3. k + 1 >= 10 => n.need = size
        BY <2>3
      <3>4. CASE k < 3
        <4>1. k + 1 < 4 /\ ~(k + 1 >= 4)
          BY <3>4
        <4> QED
          BY <3>1, <3>3, <4>1 DEF HasRead
      <3>5. CASE k >= 3
        <4>1. k + 1 >= 4 /\ ~(k + 1 < 4)
          BY <3>5
        <4> QED
          BY <3>2, <3>3, <4>1 DEF HasRead
      <3> QED
        BY <3>4, <3>5
    <2>10. k < 9 + size
      BY <2>3
    <2> QED
      BY <2>8, <2>9, <2>10
  <1>3. CASE k >= 4
    <2>1. /\ r.found /\ Len(r.got) = k - 4
          /\ \A i \in 1 .. k - 4 : r.got[i] = F[4 + i]
          /\ k >= 10 => r.need = size
      BY <1>3 DEF HasRead
    <2>2. PICK j \in Needs(r, b) :
             n = [head |-> r.head, found |-> TRUE, got |-> Append(r.got, b), need |-> j]
      BY <2>1, Zenon DEF Read
    <2>3. n.found /\ n.got = Append(r.got, b) /\ n.need = j
      BY <2>2
    <2>4. /\ n.got \in Seq(B) /\ Len(n.got) = k - 4 + 1
          /\ \A i \in 1 .. k - 4 : n.got[i] = r.got[i]
          /\ n.got[k - 4 + 1] = b
      BY <1>1, <1>3, <2>1, <2>3
    <2>5. PICK x \in Nat : x = k - 3
      BY <1>3
    <2>6. Len(n.got) = x
      BY <2>4, <2>5
    <2>7. \A i \in 1 .. x : n.got[i] = F[4 + i]
      <3> TAKE i \in 1 .. x
      <3>1. CASE i <= k - 4
        BY <2>1, <2>4, <3>1
      <3>2. CASE i > k - 4
        <4>1. k - 4 + 1 = i /\ k + 1 = 4 + i
          BY <2>5, <3>2
        <4>2. n.got[i] = b /\ F[4 + i] = b
          BY <2>4, <4>1
        <4> QED
          BY <4>2
      <3> QED
        BY <1>3, <3>1, <3>2
    <2>8. k >= 9 => n.need = size
      <3>1. CASE k >= 10
        <4>1. Len(r.got) # 5
          <5>1. k - 4 # 5
            BY <3>1
          <5> QED
            BY <2>1, <5>1
        <4> QED
          BY <2>1, <2>2, <2>3, <3>1, <4>1 DEF Needs
      <3>2. CASE k = 9
        <4>1. Len(r.got) = 5 /\ r.got[5] = F[9] /\ b = F[10]
          BY <2>1, <3>2
        <4>2. r.got[5] = Num(size % Radix) /\ b = Num(size \div Radix)
          BY <4>1 DEF FrameOf
        <4>3. PICK lo \in Value(r.got[5]), hi \in Value(b) : j = lo + Radix * hi
          BY <2>2, <4>1 DEF Needs
        <4>4. j = size
          BY <4>2, <4>3, LengthRead
        <4> QED
          BY <2>3, <4>4
      <3> QED
        BY <3>1, <3>2
    <2>9. HasRead(n, F, k + 1, size)
      <3>1. ~(k + 1 < 4) /\ k + 1 - 4 = x /\ (k + 1 >= 10 => k >= 9)
        BY <1>3, <2>5
      <3> QED
        BY <2>3, <2>6, <2>7, <2>8, <3>1 DEF HasRead
    <2>10. ~TooLong(n)
      <3>1. CASE x < 6
        BY <2>6, <3>1 DEF TooLong
      <3>2. CASE x >= 6
        <4>1. n.need = size
          BY <2>5, <2>8, <3>2
        <4>2. ~(size > BufferSize)
          BY Sizes
        <4> QED
          BY <4>1, <4>2 DEF TooLong
      <3> QED
        BY <3>1, <3>2
    <2>11. ASSUME k < 9 + size
           PROVE  ~InFull(n)
      <3>1. CASE x < 6
        BY <2>6, <3>1 DEF InFull
      <3>2. CASE x >= 6
        <4>1. n.need = size /\ x # 6 + size
          BY <2>5, <2>8, <2>11, <3>2
        <4> QED
          BY <2>6, <4>1 DEF InFull
      <3> QED
        BY <3>1, <3>2
    <2>12. ASSUME k >= 9 + size
           PROVE  Accepted(n) /\ ReadBody(n) = body
      <3>1. x = 6 + size /\ n.need = size /\ x >= 6
        BY <2>5, <2>8, <2>12
      <3>2. InFull(n)
        BY <2>6, <2>10, <3>1 DEF InFull
      <3>3. /\ ReadBody(n) \in Seq(B) /\ Len(ReadBody(n)) = x - 2
            /\ \A i \in 1 .. x - 2 : ReadBody(n)[i] = n.got[i + 2]
        <4>1. /\ n.got \in Seq(B) /\ Len(n.got) \in Nat /\ Len(n.got) >= 6
          BY <2>4, <2>6, <3>1
        <4>2. /\ ReadBody(n) \in Seq(B) /\ Len(ReadBody(n)) = Len(n.got) - 2
              /\ \A i \in 1 .. Len(n.got) - 2 : ReadBody(n)[i] = n.got[i + 2]
          BY <4>1 DEF ReadBody
        <4> QED
          BY <2>6, <4>2
      <3>4. Len(body) = x - 2 /\ \A i \in 1 .. x - 2 : F[6 + i] = body[i]
        <4>1. x - 2 = 4 + size
          BY <3>1
        <4> QED
          BY <4>1 DEF FrameOf
      <3>5. \A i \in 1 .. x - 2 : ReadBody(n)[i] = body[i]
        <4> TAKE i \in 1 .. x - 2
        <4>1. i + 2 \in 1 .. x /\ 4 + (i + 2) = 6 + i
          BY <3>1
        <4> QED
          BY <2>7, <3>3, <3>4, <4>1
      <3>6. ReadBody(n) = body
        BY <3>3, <3>4, <3>5, SeqEqual
      <3>7. 1 \in 1 .. x /\ 2 \in 1 .. x /\ 4 + 1 = 5 /\ 4 + 2 = 6
        BY <3>1
      <3>8. n.got[1] = F[5] /\ n.got[2] = F[6]
        BY <2>7, <3>7
      <3>9. ChecksumMatches(n)
        BY <3>6, <3>8 DEF ChecksumMatches, FrameOf
      <3> QED
        BY <3>2, <3>6, <3>9 DEF Accepted
    <2> QED
      BY <2>9, <2>10, <2>11, <2>12 DEF Accepted, Refused
  <1> QED
    BY <1>2, <1>3
----------------------------------------------------------------------------
(* The next byte of F is the first on the line.                             *)
LEMMA NextByte ==
    ASSUME NEW B, NEW line \in Seq(B), NEW F, NEW size \in Nat, Len(F) = 10 + size,
           NEW k \in Nat, k <= 9 + size, OnLine(line, F, k)
    PROVE  /\ line # <<>> /\ Head(line) = F[k + 1] /\ OnLine(Tail(line), F, k + 1)
           /\ k >= 9 + size => Tail(line) = <<>>
  <1>1. PICK x \in Nat : x = 10 + size - k
    OBVIOUS
  <1>2. Len(line) = x /\ x >= 1 /\ \A i \in 1 .. x : line[i] = F[k + i]
    BY <1>1 DEF OnLine
  <1>3. line # <<>>
    BY <1>2
  <1>4. /\ Head(line) = line[1]
        /\ Tail(line) \in Seq(B) /\ Len(Tail(line)) = x - 1
        /\ \A i \in 1 .. x - 1 : Tail(line)[i] = line[i + 1]
    BY <1>2, <1>3
  <1>5. line[1] = F[k + 1]
    BY <1>2
  <1>6. OnLine(Tail(line), F, k + 1)
    <2>1. x - 1 = Len(F) - (k + 1)
      BY <1>1
    <2>2. \A i \in 1 .. x - 1 : Tail(line)[i] = F[k + 1 + i]
      <3> TAKE i \in 1 .. x - 1
      <3>1. i + 1 \in 1 .. x /\ k + (i + 1) = k + 1 + i
        BY <1>2
      <3> QED
        BY <1>2, <1>4, <3>1
    <2> QED
      BY <1>4, <2>1, <2>2 DEF OnLine
  <1>7. ASSUME k >= 9 + size
        PROVE  Tail(line) = <<>>
    <2>1. x - 1 = 0
      BY <1>1, <1>2, <1>7
    <2>2. Len(Tail(line)) = 0
      BY <1>4, <2>1
    <2> QED
      BY <1>4, <2>2, EmptySeq
  <1> QED
    BY <1>3, <1>4, <1>5, <1>6, <1>7

LEMMA WholeFrame ==
    ASSUME NEW F, NEW body, NEW size \in Nat, FrameOf(F, body, size)
    PROVE  <<>> \o F = F /\ OnLine(F, F, 0)
  <1>1. PICK C : F \in Seq(C)
    BY DEF FrameOf
  <1>2. <<>> \o F = F
    BY <1>1, ConcatEmptySeq
  <1>3. OnLine(F, F, 0)
    BY <1>1 DEF OnLine
  <1> QED
    BY <1>2, <1>3

(* Any reader that hunts is ready for a frame, whatever it has seen.        *)
LEMMA ReadyFor ==
    ASSUME NEW B, NEW r \in ReaderOf(B), ~r.found, NEW F, NEW size
    PROVE  HasRead(r, F, 0, size)
  <1>1. r.head \in Seq(B)
    BY DEF ReaderOf
  <1>2. EndsWith(r.head, 0)
    BY <1>1 DEF EndsWith
  <1> QED
    BY <1>2 DEF HasRead

LEMMA RequestParts ==
    ASSUME NEW q \in Requests
    PROVE  /\ RequestBody(q) \in Seq(Number)
           /\ Len(q.data) \in Nat /\ Len(q.data) <= BufferSize
           /\ FrameOf(Frame(RequestBody(q)), RequestBody(q), Len(q.data))
  <1>1. q.method \in Number /\ q.data \in Seq(Number) /\ Num(0) \in Number
    BY RequestFacts DEF Number
  <1>2. Len(q.data) <= BufferSize
    BY RequestsAssumption
  <1>3. RequestBody(q) = Body(q.method, Num(0), q.data)
    BY DEF RequestBody
  <1>4. Body(q.method, Num(0), q.data) \in Seq(Number)
    BY <1>1, BodyShape
  <1>5. FrameOf(Frame(Body(q.method, Num(0), q.data)), Body(q.method, Num(0), q.data),
                Len(q.data))
    BY <1>1, FrameParts
  <1>6. Len(q.data) \in Nat
    BY <1>1
  <1> QED
    BY <1>2, <1>3, <1>4, <1>5, <1>6

LEMMA ResponseParts ==
    ASSUME NEW q \in Requests, NEW n \in Nat
    PROVE  /\ ResponseSize(q) \in Nat /\ ResponseSize(q) <= BufferSize
           /\ FrameOf(Frame(Response(q, n)), Response(q, n), ResponseSize(q))
  <1> DEFINE B == Number \cup {NotFound, Answer(q.method, n)}
  <1>1. q.method \in B /\ Num(0) \in B /\ NotFound \in B /\ Number \subseteq B
    BY RequestFacts DEF Number
  <1>2. CASE q.method \in Known
    <2> DEFINE d == <<Answer(q.method, n)>>
    <2>1. d \in Seq(B) /\ Len(d) = 1
      OBVIOUS
    <2> HIDE DEF d, B
    <2>2. FrameOf(Frame(Body(q.method, Num(0), d)), Body(q.method, Num(0), d), 1)
      BY <1>1, <2>1, FrameParts
    <2>3. ResponseSize(q) = 1 /\ Response(q, n) = Body(q.method, Num(0), d)
      BY <1>2 DEF ResponseSize, Response, AnswerBody, d
    <2> QED
      BY <2>2, <2>3, Sizes
  <1>3. CASE q.method \notin Known
    <2>1. <<>> \in Seq(B) /\ Len(<<>>) = 0
      BY EmptySeq
    <2> HIDE DEF B
    <2>2. FrameOf(Frame(Body(q.method, NotFound, <<>>)),
                  Body(q.method, NotFound, <<>>), 0)
      BY <1>1, <2>1, FrameParts
    <2>3. ResponseSize(q) = 0 /\ Response(q, n) = Body(q.method, NotFound, <<>>)
      BY <1>3 DEF ResponseSize, Response, NotFoundBody
    <2> QED
      BY <2>2, <2>3, Sizes
  <1> QED
    BY <1>2, <1>3

(* What the host accepts is the answer to its request.                      *)
LEMMA ResponseRead ==
    ASSUME request \in Requests, executed \in Seq(Requests), since \in Nat,
           NEW i \in Nat,
           request.method \in Known => since < i /\ i \in DOMAIN executed
                                       /\ executed[i] = request
    PROVE  /\ Response(request, i) \in Seq(ResponseByte(executed))
           /\ \A n \in ReaderOf(ResponseByte(executed)) :
                 Accepted(n) /\ ReadBody(n) = Response(request, i) => Fresh(Result(n))
  <1> DEFINE B == ResponseByte(executed)
  <1>1. /\ Number \subseteq B /\ request.method \in B /\ Num(0) \in B /\ NotFound \in B
        /\ request.method \in Known => Answer(request.method, i) \in B
    <2>1. Number \subseteq B /\ NotFound \in B
      BY DEF ResponseByte
    <2>2. request.method \in Number /\ Num(0) \in Number
      BY RequestFacts DEF Number
    <2>3. ASSUME request.method \in Known
          PROVE  Answer(request.method, i) \in B
      <3>1. PICK j \in DOMAIN executed : j = i /\ executed[j].method = request.method
        BY <2>3
      <3>2. Answer(executed[j].method, j) \in B
        BY DEF ResponseByte
      <3> QED
        BY <3>1, <3>2
    <2> QED
      BY <2>1, <2>2, <2>3
  <1>2. CASE request.method \in Known
    <2> DEFINE a == Answer(request.method, i)
    <2>1. a \in B
      BY <1>1, <1>2
    <2> HIDE DEF B, a
    <2>2. <<a>> \in Seq(B)
      BY <2>1
    <2>3. Response(request, i) = Body(request.method, Num(0), <<a>>)
      BY <1>2 DEF Response, AnswerBody, a
    <2>4. Body(request.method, Num(0), <<a>>) \in Seq(B)
      BY <1>1, <2>2, BodyShape
    <2>5. Response(request, i) \in Seq(B)
      BY <2>3, <2>4
    <2>6. ASSUME NEW n \in ReaderOf(B), Accepted(n), ReadBody(n) = Response(request, i)
          PROVE  Fresh(Result(n))
      <3>1. MethodOf(n) = request.method /\ RetcodeOf(n) = Num(0) /\ DataOf(n) = <<a>>
        BY <1>1, <2>2, <2>3, <2>6, AcceptedBody
      <3>2. RetcodeOf(n) # NotFound
        BY <3>1 DEF Num, NotFound
      <3>3. Result(n) = <<"answer", <<Answer(request.method, i)>>>>
        BY <3>1, <3>2 DEF Result, a
      <3>4. i \in since + 1 .. Len(executed)
        BY <1>2
      <3> QED
        BY <1>2, <3>3, <3>4 DEF Fresh
    <2> QED
      BY <2>5, <2>6 DEF B
  <1>3. CASE request.method \notin Known
    <2>1. <<>> \in Seq(B)
      BY EmptySeq
    <2> HIDE DEF B
    <2>2. Response(request, i) = Body(request.method, NotFound, <<>>)
      BY <1>3 DEF Response, NotFoundBody
    <2>3. Body(request.method, NotFound, <<>>) \in Seq(B)
      BY <1>1, <2>1, BodyShape
    <2>4. Response(request, i) \in Seq(B)
      BY <2>2, <2>3
    <2>5. ASSUME NEW n \in ReaderOf(B), Accepted(n), ReadBody(n) = Response(request, i)
          PROVE  Fresh(Result(n))
      <3>1. PICK d \in Seq(B) : d = <<>>
        BY <2>1
      <3>2. ReadBody(n) = Body(request.method, NotFound, d)
        BY <2>2, <2>5, <3>1
      <3>3. RetcodeOf(n) = NotFound
        BY <1>1, <2>5, <3>2, AcceptedBody
      <3> QED
        BY <1>3, <3>3 DEF Result, Fresh
    <2> QED
      BY <2>4, <2>5 DEF B
  <1> QED
    BY <1>2, <1>3

(* The board has written its response.                                      *)
LEMMA AnswerBegins ==
    ASSUME NEW q \in Requests, NEW n \in Nat
    PROVE  /\ 0 \in 0 .. 9 + ResponseSize(q)
           /\ <<>> \o Frame(Response(q, n)) = Frame(Response(q, n))
           /\ OnLine(Frame(Response(q, n)), Frame(Response(q, n)), 0)
           /\ HasRead(Hunting, Frame(Response(q, n)), 0, ResponseSize(q))
  <1>1. /\ ResponseSize(q) \in Nat
        /\ FrameOf(Frame(Response(q, n)), Response(q, n), ResponseSize(q))
    BY ResponseParts
  <1>2. /\ <<>> \o Frame(Response(q, n)) = Frame(Response(q, n))
        /\ OnLine(Frame(Response(q, n)), Frame(Response(q, n)), 0)
    BY <1>1, WholeFrame
  <1>3. ~Hunting.found /\ Hunting \in ReaderOf({})
    BY HuntingReader DEF Hunting
  <1>4. HasRead(Hunting, Frame(Response(q, n)), 0, ResponseSize(q))
    BY <1>3, ReadyFor
  <1> QED
    BY <1>1, <1>2, <1>4
----------------------------------------------------------------------------
(* A request that the board accepts while it is asked is run, if there is a *)
(* handler, and answered.                                                   *)
LEMMA Served ==
    ASSUME IInv, toClient = <<>>, NEW n \in ReaderOf(RequestByte(sent)),
           Accepted(n), ReadBody(n) = RequestBody(request),
           IF MethodOf(n) \in Known
           THEN /\ executed' = Append(executed, [method |-> MethodOf(n),
                                                 data |-> DataOf(n)])
                /\ toClient' = toClient \o
                      Frame(AnswerBody(MethodOf(n), Len(executed) + 1))
           ELSE /\ toClient' = toClient \o Frame(NotFoundBody(MethodOf(n)))
                /\ UNCHANGED executed
    PROVE  /\ \A i \in Nat : i = Len(executed) + 1 \/ request.method \notin Known =>
                 toClient' = <<>> \o Frame(Response(request, i))
           /\ request.method \in Known => executed' = Append(executed, request)
           /\ request.method \notin Known => executed' = executed
  <1>1. request \in Requests /\ sent \in Seq(Requests)
    BY DEF IInv, Records
  <1>2. [method |-> MethodOf(n), data |-> DataOf(n)] = request
    <2> DEFINE s == Append(sent, request)
    <2>1. s \in Seq(Requests) /\ Len(sent) \in Nat
      BY <1>1
    <2>2. /\ RequestByte(sent) \subseteq RequestByte(s)
          /\ Len(sent) + 1 \in DOMAIN s /\ s[Len(sent) + 1] = request
      BY <1>1, MoreRequests
    <2> HIDE DEF s
    <2>3. n \in ReaderOf(RequestByte(s))
      BY <2>2, ReaderGrows
    <2> QED
      BY <2>1, <2>2, <2>3, RequestRead
  <1>3. MethodOf(n) = request.method
    BY <1>2
  <1>4. CASE request.method \in Known
    <2>1. executed' = Append(executed, request)
      BY <1>2, <1>3, <1>4
    <2>2. toClient' = <<>> \o Frame(AnswerBody(request.method, Len(executed) + 1))
      BY <1>3, <1>4
    <2>3. \A i \in Nat : i = Len(executed) + 1 =>
             toClient' = <<>> \o Frame(Response(request, i))
      BY <1>4, <2>2 DEF Response
    <2> QED
      BY <1>4, <2>1, <2>3
  <1>5. CASE request.method \notin Known
    <2>1. executed' = executed /\ toClient' = <<>> \o Frame(NotFoundBody(request.method))
      BY <1>3, <1>5
    <2>2. \A i \in Nat : toClient' = <<>> \o Frame(Response(request, i))
      BY <1>5, <2>1 DEF Response
    <2> QED
      BY <1>5, <2>1, <2>2
  <1> QED
    BY <1>4, <1>5

(* The board reads the next byte of the request, or answers it.             *)
LEMMA AskingServer ==
    ASSUME IInv, since \in Nat, Asking, Server
    PROVE  Asking' \/ Answering'
  <1> DEFINE F == Frame(RequestBody(request))
             size == Len(request.data)
  <1>1. /\ request \in Requests /\ sent \in Seq(Requests) /\ executed \in Seq(Requests)
        /\ toServer \in Seq(RequestByte(sent)) /\ server \in ReaderOf(RequestByte(sent))
        /\ Shape(server) /\ Number \subseteq RequestByte(sent)
    BY DEF IInv, Bytes, Records, RequestByte
  <1>2. /\ RequestBody(request) \in Seq(RequestByte(sent))
        /\ size \in Nat /\ size <= BufferSize /\ FrameOf(F, RequestBody(request), size)
    BY <1>1, RequestParts, ReaderGrows
  <1>3. /\ toClient = <<>> /\ client = Hunting /\ since = Len(executed)
        /\ \E k \in 0 .. 9 + size : OnLine(toServer, F, k) /\ HasRead(server, F, k, size)
    BY DEF Asking
  <1>4. /\ toServer' = Tail(toServer) /\ client' = client /\ request' = request
        /\ since' = since
    BY DEF Server, ServerWaits, ServerRefuses, ServerServes, ServerTakes, call
  <1>5. PICK n \in Received(toServer, server) :
           \/ /\ ~Accepted(n) /\ ~Refused(n)
              /\ server' = n /\ UNCHANGED <<toClient, executed>>
           \/ Refused(n)
           \/ /\ Accepted(n) /\ server' = Hunting
              /\ IF MethodOf(n) \in Known
                 THEN /\ executed' = Append(executed, [method |-> MethodOf(n),
                                                       data |-> DataOf(n)])
                      /\ toClient' = toClient \o
                            Frame(AnswerBody(MethodOf(n), Len(executed) + 1))
                 ELSE /\ toClient' = toClient \o Frame(NotFoundBody(MethodOf(n)))
                      /\ UNCHANGED executed
    BY DEF Server, ServerWaits, ServerRefuses, ServerServes
  <1>6. n \in Read(server, Head(toServer)) /\ n \in ReaderOf(RequestByte(sent))
    BY <1>1, Alphabets, NextRead DEF Received
  <1> HIDE DEF F, size
  <1>7. PICK k \in Nat : k <= 9 + size /\ OnLine(toServer, F, k) /\ HasRead(server, F, k, size)
    BY <1>2, <1>3
  <1>8. Len(F) = 10 + size
    BY <1>2 DEF FrameOf
  <1>9. /\ toServer # <<>> /\ Head(toServer) = F[k + 1] /\ OnLine(Tail(toServer), F, k + 1)
        /\ k >= 9 + size => Tail(toServer) = <<>>
    BY <1>1, <1>2, <1>7, <1>8, NextByte
  <1>10. /\ k < 9 + size => ~Accepted(n) /\ ~Refused(n) /\ HasRead(n, F, k + 1, size)
         /\ k >= 9 + size => Accepted(n) /\ ReadBody(n) = RequestBody(request)
    <2>1. Head(toServer) \in RequestByte(sent)
      BY <1>1, <1>9, TailBytes
    <2> QED
      BY <1>1, <1>2, <1>6, <1>7, <1>9, <2>1, Alphabets, ReadsOn
  <1>11. CASE k < 9 + size
    <2>1. server' = n /\ toClient' = <<>> /\ executed' = executed
      BY <1>3, <1>5, <1>10, <1>11
    <2>2. k + 1 \in 0 .. 9 + size
      BY <1>2, <1>7, <1>11
    <2>3. OnLine(toServer', F, k + 1) /\ HasRead(server', F, k + 1, size)
      BY <1>4, <1>9, <1>10, <1>11, <2>1
    <2>4. Asking'
      BY <1>3, <1>4, <2>1, <2>2, <2>3 DEF Asking, F, size
    <2> QED
      BY <2>4
  <1>12. CASE k >= 9 + size
    <2>1. Accepted(n) /\ ~Refused(n) /\ ReadBody(n) = RequestBody(request)
      BY <1>10, <1>12 DEF Accepted, Refused, InFull
    <2>2. /\ toClient' = <<>> \o Frame(Response(request, since + 1))
          /\ request.method \in Known => executed' = Append(executed, request)
      BY <1>3, <1>5, <1>6, <2>1, Served
    <2>3. toServer' = <<>> /\ client' = Hunting
      BY <1>3, <1>4, <1>5, <1>9, <1>12
    <2>4. request.method \in Known =>
             since + 1 \in DOMAIN executed' /\ executed'[since + 1] = request
      BY <1>1, <1>3, <2>2
    <2> DEFINE G == Frame(Response(request, since + 1))
    <2>5. /\ 0 \in 0 .. 9 + ResponseSize(request) /\ toClient' = G /\ OnLine(G, G, 0)
          /\ HasRead(Hunting, G, 0, ResponseSize(request))
      BY <1>1, <2>2, AnswerBegins
    <2> QED
      BY <1>4, <2>3, <2>4, <2>5 DEF Answering
  <1> QED
    BY <1>2, <1>7, <1>11, <1>12

(* The host reads the next byte of the response, or returns its result.     *)
LEMMA AnsweringClient ==
    ASSUME IInv, since \in Nat, Answering, Client
    PROVE  /\ attempt' = attempt
           /\ outcome' # <<"none">>
           /\ \/ outcome' = <<>> /\ Answering'
              \/ outcome' # <<>> /\ Fresh(outcome)'
  <1> DEFINE body == Response(request, since + 1)
             F == Frame(body)
             size == ResponseSize(request)
  <1>1. /\ request \in Requests /\ executed \in Seq(Requests)
        /\ toClient \in Seq(ResponseByte(executed))
        /\ client \in ReaderOf(ResponseByte(executed)) /\ Shape(client)
    BY DEF IInv, Bytes, Records
  <1>2. /\ size \in Nat /\ size <= BufferSize /\ FrameOf(F, body, size)
    BY <1>1, ResponseParts
  <1>3. /\ toServer = <<>>
        /\ request.method \in Known =>
              since + 1 \in DOMAIN executed /\ executed[since + 1] = request
        /\ \E k \in 0 .. 9 + size : OnLine(toClient, F, k) /\ HasRead(client, F, k, size)
    BY DEF Answering
  <1>4. /\ toClient' = Tail(toClient) /\ request' = request /\ executed' = executed
        /\ since' = since /\ outcome = <<>>
    BY DEF Client, ClientWaits, ClientRefuses, ClientAccepts, ClientTakes, Underway
  <1>5. PICK n \in Received(toClient, client) :
           \/ /\ ~Accepted(n) /\ ~Refused(n)
              /\ client' = n /\ UNCHANGED <<toServer, attempt, outcome>>
           \/ Refused(n)
           \/ Accepted(n) /\ outcome' = Result(n) /\ attempt' = attempt
    BY DEF Client, ClientWaits, ClientRefuses, ClientAccepts
  <1>6. n \in Read(client, Head(toClient)) /\ n \in ReaderOf(ResponseByte(executed))
    BY <1>1, Alphabets, NextRead DEF Received
  <1>7. body \in Seq(ResponseByte(executed))
    BY <1>1, <1>3, ResponseRead
  <1> HIDE DEF F, size, body
  <1>8. PICK k \in Nat : k <= 9 + size /\ OnLine(toClient, F, k) /\ HasRead(client, F, k, size)
    BY <1>2, <1>3
  <1>9. Len(F) = 10 + size
    BY <1>2 DEF FrameOf
  <1>10. /\ toClient # <<>> /\ Head(toClient) = F[k + 1] /\ OnLine(Tail(toClient), F, k + 1)
    BY <1>1, <1>2, <1>8, <1>9, NextByte
  <1>11. /\ k < 9 + size => ~Accepted(n) /\ ~Refused(n) /\ HasRead(n, F, k + 1, size)
         /\ k >= 9 + size => Accepted(n) /\ ReadBody(n) = body
    <2>1. Head(toClient) \in ResponseByte(executed)
      BY <1>1, <1>10, TailBytes
    <2> QED
      BY <1>1, <1>2, <1>6, <1>7, <1>8, <1>10, <2>1, Alphabets, ReadsOn
  <1>12. CASE k < 9 + size
    <2>1. client' = n /\ UNCHANGED <<toServer, attempt, outcome>>
      BY <1>5, <1>11, <1>12
    <2>2. k + 1 \in 0 .. 9 + size
      BY <1>2, <1>8, <1>12
    <2>3. OnLine(toClient', F, k + 1) /\ HasRead(client', F, k + 1, size)
      BY <1>4, <1>10, <1>11, <1>12, <2>1
    <2>4. Answering'
      BY <1>3, <1>4, <2>1, <2>2, <2>3 DEF Answering, F, size, body
    <2>5. attempt' = attempt /\ outcome' = <<>> /\ <<>> # <<"none">>
      BY <1>4, <2>1
    <2> QED
      BY <2>4, <2>5
  <1>13. CASE k >= 9 + size
    <2>1. Accepted(n) /\ ~Refused(n) /\ ReadBody(n) = body
      BY <1>11, <1>13 DEF Accepted, Refused, InFull
    <2>2. outcome' = Result(n) /\ attempt' = attempt
      BY <1>5, <2>1
    <2>3. Fresh(Result(n))
      BY <1>1, <1>3, <1>6, <2>1, ResponseRead DEF body
    <2>4. Fresh(outcome)'
      BY <1>4, <2>2, <2>3 DEF Fresh
    <2>5. Result(n) # <<>> /\ Result(n) # <<"none">>
      BY DEF Result
    <2> QED
      BY <2>2, <2>4, <2>5
  <1> QED
    BY <1>2, <1>8, <1>12, <1>13

LEMMA LinesBusy ==
    ASSUME IInv, since \in Nat, Asking \/ Answering
    PROVE  ~(toServer = <<>> /\ toClient = <<>>)
  <1>1. request \in Requests
    BY DEF IInv, Records
  <1>2. CASE Asking
    <2>1. PICK k \in 0 .. 9 + Len(request.data) :
             OnLine(toServer, Frame(RequestBody(request)), k)
      BY <1>2 DEF Asking
    <2>2. /\ Len(request.data) \in Nat
          /\ Len(Frame(RequestBody(request))) = 10 + Len(request.data)
      BY <1>1, RequestParts DEF FrameOf
    <2>3. Len(toServer) = 10 + Len(request.data) - k
      BY <2>1, <2>2 DEF OnLine
    <2> QED
      BY <2>2, <2>3
  <1>3. CASE Answering
    <2>1. PICK k \in 0 .. 9 + ResponseSize(request) :
             OnLine(toClient, Frame(Response(request, since + 1)), k)
      BY <1>3 DEF Answering
    <2>2. /\ ResponseSize(request) \in Nat
          /\ Len(Frame(Response(request, since + 1))) = 10 + ResponseSize(request)
      BY <1>1, ResponseParts DEF FrameOf
    <2>3. Len(toClient) = 10 + ResponseSize(request) - k
      BY <2>1, <2>2 DEF OnLine
    <2> QED
      BY <2>2, <2>3
  <1> QED
    BY <1>2, <1>3

(* A result stays about its call whatever the board does afterwards.        *)
LEMMA StaysFresh ==
    ASSUME IInv, since \in Nat, Fresh(outcome),
           UNCHANGED <<request, outcome, since>>,
           executed' = executed \/ \E q \in Requests : executed' = Append(executed, q)
    PROVE  Fresh(outcome)'
  <1>1. executed \in Seq(Requests) /\ Len(executed) \in Nat
    BY DEF IInv, Records
  <1>2. /\ \A i \in 1 .. Len(executed) : i \in 1 .. Len(executed') /\ executed'[i] = executed[i]
        /\ Len(executed') \in Nat
    BY <1>1
  <1>3. CASE request.method \in Known
    <2>1. PICK i \in since + 1 .. Len(executed) :
             executed[i] = request /\ outcome = <<"answer", <<Answer(request.method, i)>>>>
      BY <1>3 DEF Fresh
    <2>2. i \in 1 .. Len(executed) /\ i \in since + 1 .. Len(executed')
      BY <1>1, <1>2
    <2>3. executed'[i] = request
      BY <1>2, <2>1, <2>2
    <2> QED
      BY <1>3, <2>1, <2>2, <2>3 DEF Fresh
  <1>4. CASE request.method \notin Known
    BY <1>4 DEF Fresh
  <1> QED
    BY <1>3, <1>4

----------------------------------------------------------------------------
(* With few losses.                                                         *)

(* Bytes as a frame has them after its header.                              *)
Plausible(got) ==
    \A i \in 1 .. Len(got) :
        got[i][1] = (IF i = 1 THEN "lo" ELSE IF i = 2 THEN "hi" ELSE "n")

(* A reader has found the header of F and got some of the k - 4 bytes that  *)
(* have followed it so far.                                                 *)
Partly(r, F, body, k, size) ==
    /\ k >= 4 /\ Len(r.got) <= k - 4
    /\ \A i \in 1 .. Len(r.got) : r.got[i][1] = "lo" => r.got[i] = <<"lo", body>>
    /\ Len(r.got) = k - 4 => HasRead(r, F, k, size)

(* A reader has found an earlier header, and k bytes of the frame after it  *)
(* are gone: what it gets is no frame, `lost' losses being too few.         *)
Doomed(r, lost, k) ==
    \/ ~Plausible(r.got)
    \/ lost >= k + 1 /\ lost + Len(r.got) >= k + 6

Listens(r, lost, F, body, k, size) ==
    r.found => \/ Doomed(r, lost, k)
               \/ Partly(r, F, body, k, size) /\ lost + Len(r.got) >= k - 4

Asked ==
    /\ \E k \in 0 .. 10 + Len(request.data) :
          /\ OnLine(toServer, Frame(RequestBody(request)), k)
          /\ Listens(server, losses, Frame(RequestBody(request)), RequestBody(request), k,
                     Len(request.data))
    /\ toClient = <<>> /\ client = Hunting

(* The latest execution, if any, is the one that is answered.               *)
Answered ==
    /\ \E k \in 0 .. 10 + ResponseSize(request) :
          /\ OnLine(toClient, Frame(Response(request, Len(executed))), k)
          /\ client.found => Partly(client, Frame(Response(request, Len(executed))),
                                    Response(request, Len(executed)), k,
                                    ResponseSize(request))
    /\ toServer = <<>> /\ ~server.found
    /\ request.method \in Known =>
          since < Len(executed) /\ executed[Len(executed)] = request

Quiet ==
    /\ toServer = <<>> /\ toClient = <<>>
    /\ server.found => Doomed(server, losses, 0)

Timely ==
    /\ since \in Nat /\ since <= Len(executed)
    /\ patient => /\ Underway => Asked \/ Answered
                  /\ ~Underway => Quiet
                  /\ outcome \in {<<"none">>, <<>>, <<"exhausted">>} \/ Fresh(outcome)

(* Nothing that a frame carries looks like its header or its checksum.      *)
Contents(body) == \A i \in 1 .. Len(body) : body[i][1] \notin {"h", "lo", "hi"}

(* Too few losses to make one frame of two: that takes a byte of the first, *)
(* and the six of the second before the byte that stands in for it.         *)
FewLosses == MaxLosses <= 6
----------------------------------------------------------------------------
(* What the tag of a byte of a frame says of its place.                     *)
LEMMA Tags ==
    ASSUME NEW F, NEW body, NEW size \in Nat, FrameOf(F, body, size), Contents(body),
           NEW k \in Nat, k <= 9 + size
    PROVE  /\ k < 4 => F[k + 1][1] = "h"
           /\ k = 4 => F[k + 1] = <<"lo", body>>
           /\ k = 5 => F[k + 1] = <<"hi", body>>
           /\ k >= 6 => F[k + 1][1] \notin {"h", "lo", "hi"}
           /\ F[k + 1] = <<"h", "cd">> => k = 3
  <1>1. ASSUME k < 4
        PROVE  F[k + 1][1] = "h" /\ (F[k + 1] = <<"h", "cd">> => k = 3)
    <2>1. k = 0 \/ k = 1 \/ k = 2 \/ k = 3
      BY <1>1
    <2>2. F[k + 1] = Header[k + 1]
      BY <1>1 DEF FrameOf
    <2>3. /\ Header[0 + 1] = <<"h", "55">> /\ Header[1 + 1] = <<"h", "ab">>
          /\ Header[2 + 1] = <<"h", "55">> /\ Header[3 + 1] = <<"h", "cd">>
      BY DEF Header
    <2>4. <<"h", "55">> # <<"h", "cd">> /\ <<"h", "ab">> # <<"h", "cd">>
      OBVIOUS
    <2> QED
      BY <2>1, <2>2, <2>3, <2>4
  <1>2. ASSUME k = 4
        PROVE  F[k + 1] = <<"lo", body>> /\ F[k + 1] # <<"h", "cd">>
    BY <1>2 DEF FrameOf
  <1>3. ASSUME k = 5
        PROVE  F[k + 1] = <<"hi", body>> /\ F[k + 1] # <<"h", "cd">>
    BY <1>3 DEF FrameOf
  <1>4. ASSUME k >= 6
        PROVE  F[k + 1][1] \notin {"h", "lo", "hi"} /\ F[k + 1] # <<"h", "cd">>
    <2>1. PICK i \in 1 .. 4 + size : i = k - 5
      BY <1>4
    <2>2. F[6 + i] = body[i] /\ 6 + i = k + 1
      BY <2>1 DEF FrameOf
    <2>3. body[i][1] \notin {"h", "lo", "hi"}
      BY <2>1 DEF FrameOf, Contents
    <2> QED
      BY <2>2, <2>3
  <1> QED
    BY <1>1, <1>2, <1>3, <1>4

(* What a reader makes of a byte, by cases.                                 *)
LEMMA Taken ==
    ASSUME NEW B, Numeric(B), NEW r \in ReaderOf(B), Shape(r), NEW b \in B,
           NEW n \in Read(r, b)
    PROVE  /\ ~r.found => /\ n.got = <<>> /\ ~Accepted(n) /\ ~Refused(n)
                          /\ n.found => b = <<"h", "cd">>
           /\ r.found => n.found /\ n.got = Append(r.got, b)
  <1>1. ASSUME ~r.found
        PROVE  /\ n.got = <<>> /\ ~Accepted(n) /\ ~Refused(n)
               /\ n.found => b = <<"h", "cd">>
    <2>1. n = [head |-> Latest(r.head, b), found |-> Latest(r.head, b) = Header,
               got |-> r.got, need |-> r.need]
      BY <1>1, Zenon DEF Read
    <2>2. n.got = <<>> /\ n.found = (Latest(r.head, b) = Header)
      BY <1>1, <2>1 DEF Shape
    <2>3. Len(n.got) = 0
      BY <2>2
    <2>4. ~Accepted(n) /\ ~Refused(n)
      BY <2>3 DEF Accepted, Refused, InFull, TooLong
    <2>5. ASSUME Latest(r.head, b) = Header
          PROVE  b = <<"h", "cd">>
      <3>1. PICK o \in Nat : Len(r.head) = o /\ o <= 4 /\ r.head \in Seq(B)
        BY DEF ReaderOf, Shape
      <3>2. Shifted(Latest(r.head, b), r.head, o, b)
        BY <3>1, LatestByte
      <3>3. Shifted(Header, r.head, o, b)
        BY <2>5, <3>2
      <3>4. Len(Header) = 4 /\ Header[3 + 1] = <<"h", "cd">>
        BY DEF Header
      <3>5. o = 4 \/ o + 1 = 4
        BY <3>1, <3>3, <3>4 DEF Shifted
      <3>6. CASE o = 4
        <4>1. Header[o] = b
          BY <3>3, <3>6 DEF Shifted
        <4>2. Header[4] = <<"h", "cd">>
          BY DEF Header
        <4> QED
          BY <3>6, <4>1, <4>2
      <3>7. CASE o = 3
        <4>1. Header[o + 1] = b
          BY <3>3, <3>7 DEF Shifted
        <4> QED
          BY <3>4, <3>7, <4>1
      <3> QED
        BY <3>1, <3>5, <3>6, <3>7
    <2> QED
      BY <2>2, <2>4, <2>5
  <1>2. ASSUME r.found
        PROVE  n.found /\ n.got = Append(r.got, b)
    <2>1. PICK x \in Needs(r, b) :
            n = [head |-> r.head, found |-> TRUE, got |-> Append(r.got, b), need |-> x]
      BY <1>2, Zenon DEF Read
    <2> QED
      BY <2>1
  <1> QED
    BY <1>1, <1>2

(* A byte more.                                                             *)
LEMMA Longer ==
    ASSUME NEW B, NEW s \in Seq(B), NEW b \in B
    PROVE  /\ Append(s, b) \in Seq(B) /\ Len(Append(s, b)) = Len(s) + 1
           /\ \A i \in 1 .. Len(s) : Append(s, b)[i] = s[i]
           /\ Append(s, b)[Len(s) + 1] = b
  OBVIOUS

(* Of a frame that has lost a byte the reader accepts nothing, of one that  *)
(* has not just the whole; and what it refuses is at the end, if short.     *)
LEMMA PartlyReads ==
    ASSUME NEW B, Numeric(B), NEW r \in ReaderOf(B), Shape(r),
           NEW body \in Seq(B), Contents(body), NEW size \in Nat, size <= BufferSize,
           NEW F, FrameOf(F, body, size),
           NEW k \in Nat, k <= 9 + size, r.found, Partly(r, F, body, k, size),
           NEW b \in B, b = F[k + 1], NEW n \in Read(r, b)
    PROVE  /\ Accepted(n) => k = 9 + size /\ ReadBody(n) = body
           /\ Refused(n) => k >= 10
           /\ ~Accepted(n) /\ ~Refused(n) => n.found /\ Partly(n, F, body, k + 1, size)
  <1>1. /\ r.got \in Seq(B) /\ n.found /\ n.got = Append(r.got, b)
        /\ n.got \in Seq(B) /\ Len(r.got) \in Nat
    <2>1. r.got \in Seq(B)
      BY DEF ReaderOf
    <2>2. n.found /\ n.got = Append(r.got, b)
      BY Taken
    <2> QED
      BY <2>1, <2>2, Longer
  <1>2. PICK x \in Nat : Len(r.got) = x /\ Len(n.got) = x + 1 /\ x <= k - 4
    BY <1>1, Longer DEF Partly
  <1>3. CASE x = k - 4
    <2>1. HasRead(r, F, k, size)
      BY <1>2, <1>3 DEF Partly
    <2>2. /\ k < 9 + size => ~Accepted(n) /\ ~Refused(n) /\ HasRead(n, F, k + 1, size)
          /\ k >= 9 + size => Accepted(n) /\ ReadBody(n) = body
      BY <2>1, ReadsOn
    <2> DEFINE got == n.got
    <2>3. ASSUME ~Accepted(n)
          PROVE  Partly(n, F, body, k + 1, size)
      <3>1. k < 9 + size /\ HasRead(n, F, k + 1, size)
        BY <2>2, <2>3
      <3>2. k >= 4
        BY DEF Partly
      <3>3. \A i \in 1 .. x + 1 : n.got[i][1] = "lo" => n.got[i] = <<"lo", body>>
        <4>1. \A i \in 1 .. x : n.got[i] = r.got[i]
          BY <1>1, <1>2, Longer
        <4>2. n.got[x + 1] = b
          BY <1>1, <1>2, Longer
        <4>3. b[1] = "lo" => b = <<"lo", body>>
          BY Tags, <3>2
        <4>4. \A i \in 1 .. x : r.got[i][1] = "lo" => r.got[i] = <<"lo", body>>
          BY <1>2 DEF Partly
        <4> QED
          BY <4>1, <4>2, <4>3, <4>4
      <3> QED
        BY <1>2, <1>3, <3>1, <3>2, <3>3 DEF Partly
    <2>4. Refused(n) => ~Accepted(n)
      BY DEF Accepted, Refused, InFull
    <2> QED
      BY <1>1, <2>2, <2>3, <2>4
  <1>4. CASE x # k - 4
    <2>1. x <= k - 5 /\ k >= 4
      BY <1>2, <1>4 DEF Partly
    <2>2. \A i \in 1 .. x + 1 : n.got[i][1] = "lo" => n.got[i] = <<"lo", body>>
      <3>1. \A i \in 1 .. x : n.got[i] = r.got[i]
        BY <1>1, <1>2, Longer
      <3>2. n.got[x + 1] = b
        BY <1>1, <1>2, Longer
      <3>3. b[1] = "lo" => b = <<"lo", body>>
        BY Tags, <2>1
      <3>4. \A i \in 1 .. x : r.got[i][1] = "lo" => r.got[i] = <<"lo", body>>
        BY <1>2 DEF Partly
      <3> QED
        BY <3>1, <3>2, <3>3, <3>4
    <2>3. ~Accepted(n)
      <3> SUFFICES ASSUME Accepted(n)
                   PROVE  FALSE
        OBVIOUS
      <3>1. x + 1 >= 6 /\ n.got[1] = <<"lo", ReadBody(n)>>
        BY <1>2 DEF Accepted, InFull, ChecksumMatches
      <3>2. n.got[1][1] = "lo" /\ n.got[1] = <<"lo", body>>
        BY <2>2, <3>1
      <3>3. ReadBody(n) = body
        BY <3>1, <3>2
      <3>4. Len(ReadBody(n)) = x + 1 - 2
        BY <1>1, <1>2, <3>1 DEF ReadBody
      <3>5. Len(body) = 4 + size
        BY DEF FrameOf
      <3> QED
        BY <2>1, <3>3, <3>4, <3>5
    <2>4. Refused(n) => x + 1 >= 6
      BY <1>2 DEF Refused, InFull, TooLong
    <2>5. Partly(n, F, body, k + 1, size)
      BY <1>2, <2>1, <2>2 DEF Partly
    <2> QED
      BY <1>1, <2>1, <2>3, <2>4, <2>5
  <1> QED
    BY <1>3, <1>4

(* A reader that hunts finds a header where there is one.                   *)
LEMMA FindsHeader ==
    ASSUME NEW B, Numeric(B), NEW r \in ReaderOf(B), Shape(r), ~r.found,
           NEW body \in Seq(B), Contents(body), NEW size \in Nat,
           NEW F, FrameOf(F, body, size),
           NEW k \in Nat, k <= 9 + size,
           NEW b \in B, b = F[k + 1], NEW n \in Read(r, b)
    PROVE  /\ ~Accepted(n) /\ ~Refused(n)
           /\ n.found => k = 3 /\ n.got = <<>> /\ Partly(n, F, body, k + 1, size)
  <1>1. n.got = <<>> /\ ~Accepted(n) /\ ~Refused(n)
    BY Taken
  <1>2. ASSUME n.found
        PROVE  k = 3 /\ Partly(n, F, body, k + 1, size)
    <2>1. k = 3
      BY <1>2, Taken, Tags
    <2>2. Len(n.got) = 0
      BY <1>1
    <2>3. HasRead(n, F, k + 1, size)
      BY <1>2, <2>1, <2>2 DEF HasRead
    <2> QED
      BY <2>1, <2>2, <2>3 DEF Partly
  <1> QED
    BY <1>1, <1>2

LEMMA StaysImplausible ==
    ASSUME NEW B, NEW got \in Seq(B), NEW b \in B, ~Plausible(got)
    PROVE  ~Plausible(Append(got, b))
  <1>1. PICK i \in 1 .. Len(got) :
           got[i][1] # (IF i = 1 THEN "lo" ELSE IF i = 2 THEN "hi" ELSE "n")
    BY DEF Plausible
  <1>2. PICK x \in Nat : x = Len(got)
    OBVIOUS
  <1>3. Len(Append(got, b)) = x + 1 /\ Append(got, b)[i] = got[i]
    BY <1>2, Longer
  <1>4. i \in 1 .. x + 1
    BY <1>1, <1>2
  <1> QED
    BY <1>1, <1>3, <1>4 DEF Plausible

(* The next byte of the frame gives the doomed reader away.                 *)
LEMMA DoomedReads ==
    ASSUME NEW B, Numeric(B), NEW r \in ReaderOf(B), Shape(r), r.found,
           NEW body \in Seq(B), Contents(body), NEW size \in Nat,
           NEW F, FrameOf(F, body, size),
           NEW k \in Nat, k <= 9 + size, losses \in Nat, losses <= 6, Doomed(r, losses, k),
           NEW b \in B, b = F[k + 1], NEW n \in Read(r, b)
    PROVE  ~Plausible(n.got)
  <1>1. r.got \in Seq(B) /\ n.got = Append(r.got, b)
    BY Taken DEF ReaderOf
  <1>2. CASE ~Plausible(r.got)
    BY <1>1, <1>2, StaysImplausible
  <1>3. CASE losses >= k + 1 /\ losses + Len(r.got) >= k + 6
    <2>1. PICK x \in Nat : x = Len(r.got)
      BY <1>1
    <2>2. k <= 5 /\ x >= k
      BY <1>3, <2>1
    <2>3. Len(n.got) = x + 1 /\ n.got[x + 1] = b /\ x + 1 \in 1 .. x + 1
      BY <1>1, <2>1, Longer
    <2>4. /\ k < 4 => b[1] = "h"
          /\ k = 4 => b = <<"lo", body>>
          /\ k = 5 => b = <<"hi", body>>
      BY Tags
    <2>5. b[1] # (IF x + 1 = 1 THEN "lo" ELSE IF x + 1 = 2 THEN "hi" ELSE "n")
      <3>1. CASE k < 4
        BY <2>4, <3>1
      <3>2. CASE k = 4
        <4>1. b = <<"lo", body>>
          BY <2>4, <3>2
        <4> QED
          BY <2>2, <3>2, <4>1
      <3>3. CASE k = 5
        <4>1. b = <<"hi", body>>
          BY <2>4, <3>3
        <4> QED
          BY <2>2, <3>3, <4>1
      <3> QED
        BY <2>2, <3>1, <3>2, <3>3
    <2> QED
      BY <2>3, <2>5 DEF Plausible
  <1> QED
    BY <1>2, <1>3 DEF Doomed

(* No board accepts what no frame can be.                                   *)
LEMMA AcceptedPlausible ==
    ASSUME NEW s \in Seq(Requests), NEW n \in ReaderOf(RequestByte(s)), Accepted(n)
    PROVE  Plausible(n.got)
  <1>1. n.got \in Seq(RequestByte(s)) /\ Len(n.got) >= 6
    BY DEF ReaderOf, Accepted, InFull
  <1>2. n.got[1] = <<"lo", ReadBody(n)>> /\ n.got[2] = <<"hi", ReadBody(n)>>
    BY DEF Accepted, ChecksumMatches
  <1>3. PICK j \in DOMAIN s : ReadBody(n) = RequestBody(s[j])
    BY SumOfRequest
  <1>4. ReadBody(n) \in Seq(Number)
    BY <1>3, RequestParts
  <1>5. PICK x \in Nat : Len(n.got) = x + 2
    <2>1. Len(n.got) \in Nat
      BY <1>1
    <2>2. Len(n.got) - 2 \in Nat /\ Len(n.got) = (Len(n.got) - 2) + 2
      BY <1>1, <2>1
    <2> QED
      BY <2>2
  <1>6. Len(ReadBody(n)) = x /\ \A i \in 1 .. x : ReadBody(n)[i] = n.got[i + 2]
    BY <1>1, <1>5 DEF ReadBody
  <1>7. \A i \in 1 .. x : ReadBody(n)[i][1] = "n"
    <2>1. \A c \in Number : c[1] = "n"
      BY DEF Number, Num
    <2> QED
      BY <1>4, <1>6, <2>1
  <1>8. ASSUME NEW i \in 1 .. x + 2
        PROVE  n.got[i][1] = (IF i = 1 THEN "lo" ELSE IF i = 2 THEN "hi" ELSE "n")
    <2>1. CASE i = 1
      BY <1>2, <2>1
    <2>2. CASE i = 2
      BY <1>2, <2>2
    <2>3. CASE i > 2
      <3>1. PICK k \in 1 .. x : i = k + 2
        BY <2>3
      <3>2. n.got[k + 2][1] = "n"
        BY <1>6, <1>7
      <3> QED
        BY <2>3, <3>1, <3>2
    <2> QED
      BY <2>1, <2>2, <2>3
  <1> QED
    BY <1>5, <1>8 DEF Plausible

(* What the frames carry.                                                   *)
LEMMA RequestContents == ASSUME NEW q \in Requests PROVE Contents(RequestBody(q))
  <1>1. RequestBody(q) \in Seq(Number)
    BY RequestParts
  <1>2. \A b \in Number : b[1] = "n"
    BY DEF Number, Num
  <1>3. \A i \in 1 .. Len(RequestBody(q)) : RequestBody(q)[i] \in Number
    BY <1>1
  <1> QED
    BY <1>2, <1>3 DEF Contents

LEMMA ResponseContents ==
    ASSUME NEW q \in Requests, NEW i \in Nat
    PROVE  Contents(Response(q, i))
  <1> DEFINE B == Number \cup {NotFound, Answer(q.method, i)}
  <1>1. \A b \in B : b[1] \notin {"h", "lo", "hi"}
    BY DEF Number, Num, NotFound, Answer
  <1>2. q.method \in B /\ Num(0) \in B /\ NotFound \in B /\ Number \subseteq B
    BY RequestFacts DEF Number
  <1>3. <<Answer(q.method, i)>> \in Seq(B) /\ <<>> \in Seq(B)
    OBVIOUS
  <1> HIDE DEF B
  <1>4. AnswerBody(q.method, i) \in Seq(B)
    BY <1>2, <1>3, BodyShape DEF AnswerBody
  <1>5. NotFoundBody(q.method) \in Seq(B)
    BY <1>2, <1>3, BodyShape DEF NotFoundBody
  <1>6. Response(q, i) \in Seq(B)
    BY <1>4, <1>5 DEF Response
  <1> QED
    BY <1>1, <1>6 DEF Contents

(* A line that is not empty has not been read to the end of its frame.      *)
LEMMA AllRead ==
    ASSUME NEW B, NEW line \in Seq(B), NEW F, NEW size \in Nat, Len(F) = 10 + size,
           NEW k \in Nat, k <= 10 + size, OnLine(line, F, k)
    PROVE  /\ line = <<>> => k = 10 + size
           /\ line # <<>> => k <= 9 + size
  <1>1. PICK x \in Nat : x = 10 + size - k
    OBVIOUS
  <1>2. Len(line) = x
    BY <1>1 DEF OnLine
  <1>3. line = <<>> <=> x = 0
    BY <1>2, EmptySeq
  <1> QED
    BY <1>1, <1>3

(* How the board reads a request, with few losses.                          *)
LEMMA Heard ==
    ASSUME NEW s \in Seq(Requests), NEW r \in ReaderOf(RequestByte(s)), Shape(r),
           NEW body \in Seq(RequestByte(s)), Contents(body),
           NEW size \in Nat, size <= BufferSize,
           NEW F, FrameOf(F, body, size),
           NEW k \in Nat, k <= 9 + size, losses \in Nat, losses <= 6,
           Listens(r, losses, F, body, k, size),
           NEW b \in RequestByte(s), b = F[k + 1], NEW n \in Read(r, b)
    PROVE  /\ Accepted(n) => k = 9 + size /\ ReadBody(n) = body
           /\ ~Accepted(n) /\ ~Refused(n) => Listens(n, losses, F, body, k + 1, size)
  <1> DEFINE B == RequestByte(s)
  <1>1. Numeric(B) /\ n \in ReaderOf(B)
    BY Alphabets, ReadType
  <1>2. n.got \in Seq(B) /\ r.got \in Seq(B) /\ Len(r.got) \in Nat
    BY <1>1 DEF ReaderOf
  <1>3. CASE ~r.found
    <2>1. /\ ~Accepted(n)
          /\ n.found => k = 3 /\ n.got = <<>> /\ Partly(n, F, body, k + 1, size)
      BY <1>1, <1>3, FindsHeader
    <2>2. n.found => losses + Len(n.got) >= (k + 1) - 4
      BY <2>1
    <2> QED
      BY <2>1, <2>2 DEF Listens
  <1>4. CASE r.found /\ Partly(r, F, body, k, size) /\ losses + Len(r.got) >= k - 4
    <2>1. /\ Accepted(n) => k = 9 + size /\ ReadBody(n) = body
          /\ ~Accepted(n) /\ ~Refused(n) => Partly(n, F, body, k + 1, size)
      BY <1>1, <1>4, PartlyReads
    <2>2. n.got = Append(r.got, b)
      BY <1>1, <1>4, Taken
    <2>3. Len(n.got) = Len(r.got) + 1
      BY <1>2, <2>2, Longer
    <2>4. losses + Len(n.got) >= (k + 1) - 4
      BY <1>2, <1>4, <2>3
    <2> QED
      BY <2>1, <2>4 DEF Listens
  <1>5. CASE r.found /\ Doomed(r, losses, k)
    <2>1. ~Plausible(n.got)
      BY <1>1, <1>5, DoomedReads
    <2>2. ~Accepted(n)
      BY <1>1, <2>1, AcceptedPlausible
    <2> QED
      BY <2>1, <2>2 DEF Listens, Doomed
  <1> QED
    BY <1>3, <1>4, <1>5 DEF Listens

LEMMA Lost == ASSUME IInv, FewLosses PROVE losses \in Nat /\ losses <= 6
  <1>1. losses \in 0 .. MaxLosses
    BY DEF IInv, Records
  <1> QED
    BY <1>1, Sizes DEF FewLosses

LEMMA DoomedFromTheStart ==
    ASSUME NEW k \in Nat, NEW B, server.got \in Seq(B), losses \in Nat,
           Doomed(server, losses, k)
    PROVE  Doomed(server, losses, 0)
  <1>1. PICK x \in Nat : x = Len(server.got)
    OBVIOUS
  <1> QED
    BY <1>1 DEF Doomed

(* A request is gone and the board has not answered it: either it hunts, or *)
(* it has too little for a frame.                                           *)
LEMMA AskedThenQuiet ==
    ASSUME IInv, Asked, toServer = <<>>
    PROVE  Quiet
  <1> DEFINE body == RequestBody(request)
             F == Frame(body)
             size == Len(request.data)
  <1>1. /\ request \in Requests /\ toServer \in Seq(RequestByte(sent))
        /\ server \in ReaderOf(RequestByte(sent)) /\ Shape(server) /\ losses \in Nat
    BY Sizes DEF IInv, Bytes, Records
  <1>2. /\ toClient = <<>>
        /\ \E k \in 0 .. 10 + size : /\ OnLine(toServer, F, k)
                                     /\ Listens(server, losses, F, body, k, size)
    BY DEF Asked
  <1>3. size \in Nat /\ FrameOf(F, body, size)
    BY <1>1, RequestParts
  <1> HIDE DEF F, body, size
  <1>4. PICK k \in Nat : /\ k <= 10 + size /\ OnLine(toServer, F, k)
                         /\ Listens(server, losses, F, body, k, size)
    BY <1>2, <1>3
  <1>5. k = 10 + size
    BY <1>1, <1>3, <1>4, AllRead DEF FrameOf
  <1>6. server.got \in Seq(RequestByte(sent)) /\ server.need \in Nat
    BY <1>1 DEF ReaderOf
  <1>7. ASSUME server.found
        PROVE  Doomed(server, losses, 0)
    <2>1. CASE Doomed(server, losses, k)
      BY <1>1, <1>6, <2>1, DoomedFromTheStart
    <2>2. CASE Partly(server, F, body, k, size) /\ losses + Len(server.got) >= k - 4
      <3>1. PICK x \in Nat : x = Len(server.got)
        BY <1>6
      <3>2. x <= 6 + size /\ losses + x >= 6 + size
        BY <1>3, <1>5, <2>2, <3>1 DEF Partly
      <3>3. x # 6 + size
        <4> SUFFICES ASSUME x = 6 + size
                     PROVE  FALSE
          OBVIOUS
        <4>1. HasRead(server, F, k, size)
          BY <1>3, <1>5, <2>2, <3>1 DEF Partly
        <4>2. server.need = size
          BY <1>3, <1>5, <4>1 DEF HasRead
        <4>3. x < 6 \/ x < 6 + size
          BY <1>1, <1>6, <3>1, <4>2 DEF Shape
        <4> QED
          BY <1>3, <4>3
      <3>4. losses >= 1 /\ losses + x >= 6
        BY <1>1, <1>3, <3>2, <3>3
      <3> QED
        BY <3>1, <3>4 DEF Doomed
    <2> QED
      BY <1>4, <1>7, <2>1, <2>2 DEF Listens
  <1> QED
    BY <1>2, <1>7 DEF Quiet

LEMMA AnsweredThenQuiet == Answered /\ toClient = <<>> => Quiet
  BY DEF Answered, Quiet

(* The host writes a request when nothing is on the lines.                  *)
LEMMA AskBegins ==
    ASSUME IInv, toServer = <<>>, server.found => Doomed(server, losses, 0),
           NEW q \in Requests, Write(q), request' = q, toClient' = <<>>,
           client' = Hunting, UNCHANGED <<server, losses>>
    PROVE  Asked'
  <1> DEFINE F == Frame(RequestBody(q))
  <1>1. Len(q.data) \in Nat /\ FrameOf(F, RequestBody(q), Len(q.data))
    BY RequestParts
  <1>2. <<>> \o F = F /\ OnLine(F, F, 0)
    BY <1>1, WholeFrame
  <1>3. toServer' = F
    BY <1>2 DEF Write
  <1>4. Listens(server, losses, F, RequestBody(q), 0, Len(q.data))'
    BY DEF Listens, Doomed
  <1>5. 0 \in 0 .. 10 + Len(q.data)
    BY <1>1
  <1>6. OnLine(toServer', F, 0)
    BY <1>2, <1>3
  <1> HIDE DEF F
  <1>7. \E k \in 0 .. 10 + Len(q.data) :
           OnLine(toServer', F, k) /\ Listens(server, losses, F, RequestBody(q), k, Len(q.data))'
    BY <1>4, <1>5, <1>6
  <1> QED
    BY <1>7 DEF Asked, F

(* An attempt that fails when nothing is on the lines any more.             *)
LEMMA TriesAgain ==
    ASSUME IInv, Underway, toServer = <<>>, server.found => Doomed(server, losses, 0), Retry,
           toClient' = <<>>, UNCHANGED <<server, request, losses>>
    PROVE  \/ outcome' = <<>> /\ Asked'
           \/ outcome' = <<"exhausted">> /\ Quiet'
  <1>1. request \in Requests
    BY DEF IInv, Records
  <1>2. CASE attempt + 1 < MaxRetries
    <2>1. Write(request) /\ outcome' = <<>> /\ client' = Hunting
      BY <1>2 DEF Retry, Underway
    <2>2. Asked'
      BY <1>1, <2>1, AskBegins
    <2> QED
      BY <2>1, <2>2
  <1>3. CASE ~(attempt + 1 < MaxRetries)
    <2>1. outcome' = <<"exhausted">> /\ toServer' = <<>>
      BY <1>3 DEF Retry
    <2> QED
      BY <2>1 DEF Quiet, Doomed
  <1> QED
    BY <1>2, <1>3

(* The board reads on, gives the frame up, or answers it.                   *)
LEMMA AskedServer ==
    ASSUME IInv, FewLosses, since \in Nat, since <= Len(executed), Asked, Server
    PROVE  Asked' \/ Answered'
  <1> DEFINE body == RequestBody(request)
             F == Frame(body)
             size == Len(request.data)
  <1>1. /\ request \in Requests /\ sent \in Seq(Requests) /\ executed \in Seq(Requests)
        /\ toServer \in Seq(RequestByte(sent)) /\ server \in ReaderOf(RequestByte(sent))
        /\ Shape(server) /\ Number \subseteq RequestByte(sent)
    BY DEF IInv, Bytes, Records, RequestByte
  <1>2. /\ body \in Seq(RequestByte(sent)) /\ Contents(body)
        /\ size \in Nat /\ size <= BufferSize /\ FrameOf(F, body, size)
    BY <1>1, RequestParts, RequestContents, ReaderGrows
  <1>3. /\ toClient = <<>> /\ client = Hunting
        /\ \E k \in 0 .. 10 + size : /\ OnLine(toServer, F, k)
                                     /\ Listens(server, losses, F, body, k, size)
    BY DEF Asked
  <1>4. /\ toServer' = Tail(toServer) /\ client' = client /\ request' = request
        /\ since' = since /\ losses' = losses
    BY DEF Server, ServerWaits, ServerRefuses, ServerServes, ServerTakes, call
  <1>5. PICK n \in Received(toServer, server) :
           \/ /\ ~Accepted(n) /\ ~Refused(n)
              /\ server' = n /\ UNCHANGED <<toClient, executed>>
           \/ /\ Refused(n)
              /\ server' = Hunting /\ UNCHANGED <<toClient, executed>>
           \/ /\ Accepted(n) /\ server' = Hunting
              /\ IF MethodOf(n) \in Known
                 THEN /\ executed' = Append(executed, [method |-> MethodOf(n),
                                                       data |-> DataOf(n)])
                      /\ toClient' = toClient \o
                            Frame(AnswerBody(MethodOf(n), Len(executed) + 1))
                 ELSE /\ toClient' = toClient \o Frame(NotFoundBody(MethodOf(n)))
                      /\ UNCHANGED executed
    BY DEF Server, ServerWaits, ServerRefuses, ServerServes
  <1>6. /\ n \in Read(server, Head(toServer)) /\ n \in ReaderOf(RequestByte(sent))
        /\ toServer # <<>>
    BY <1>1, Alphabets, NextRead DEF Received
  <1> HIDE DEF F, size, body
  <1>7. PICK k \in Nat : /\ k <= 10 + size /\ OnLine(toServer, F, k)
                         /\ Listens(server, losses, F, body, k, size)
    BY <1>2, <1>3
  <1>8. Len(F) = 10 + size
    BY <1>2 DEF FrameOf
  <1>9. k <= 9 + size
    BY <1>1, <1>2, <1>6, <1>7, <1>8, AllRead
  <1>10. /\ Head(toServer) = F[k + 1] /\ OnLine(Tail(toServer), F, k + 1)
         /\ k >= 9 + size => Tail(toServer) = <<>>
    BY <1>1, <1>2, <1>7, <1>8, <1>9, NextByte
  <1>11. /\ Accepted(n) => k = 9 + size /\ ReadBody(n) = body
         /\ ~Accepted(n) /\ ~Refused(n) => Listens(n, losses, F, body, k + 1, size)
    <2>1. Head(toServer) \in RequestByte(sent)
      BY <1>1, <1>6, TailBytes
    <2>2. losses \in Nat /\ losses <= 6
      BY Lost
    <2> QED
      BY <1>1, <1>2, <1>6, <1>7, <1>9, <1>10, <2>1, <2>2, Heard
  <1>12. ASSUME ~Accepted(n)
         PROVE  Asked'
    <2>1. toClient' = <<>> /\ client' = Hunting
      BY <1>3, <1>4, <1>5, <1>12
    <2>2. Listens(server', losses, F, body, k + 1, size)
      <3>1. CASE ~Refused(n)
        BY <1>5, <1>11, <1>12, <3>1
      <3>2. CASE Refused(n)
        <4>1. ~server'.found
          BY <1>5, <1>12, <3>2 DEF Hunting
        <4> QED
          BY <4>1 DEF Listens
      <3> QED
        BY <3>1, <3>2
    <2>3. k + 1 \in 0 .. 10 + size
      BY <1>2, <1>9
    <2>4. OnLine(toServer', F, k + 1)
      BY <1>4, <1>10
    <2>5. Listens(server', losses', F, body, k + 1, size)
      BY <1>4, <2>2
    <2> QED
      BY <1>4, <2>1, <2>3, <2>4, <2>5 DEF Asked, F, size, body
  <1>13. ASSUME Accepted(n)
         PROVE  Answered'
    <2>1. k = 9 + size /\ ReadBody(n) = body
      BY <1>11, <1>13
    <2>2. ~Refused(n)
      BY <1>13 DEF Accepted, Refused, InFull
    <2>3. toServer' = <<>> /\ client' = Hunting /\ server' = Hunting
      BY <1>2, <1>3, <1>4, <1>5, <1>10, <1>13, <2>1, <2>2
    <2>4. /\ \A i \in Nat : i = Len(executed) + 1 \/ request.method \notin Known =>
                 toClient' = <<>> \o Frame(Response(request, i))
          /\ request.method \in Known => executed' = Append(executed, request)
          /\ request.method \notin Known => executed' = executed
      BY <1>3, <1>5, <1>6, <1>13, <2>1, <2>2, Served DEF body
    <2>5. PICK i \in Nat : i = Len(executed')
      BY <1>1, <2>4
    <2>6. i = Len(executed) + 1 \/ request.method \notin Known
      BY <1>1, <2>4, <2>5
    <2> DEFINE G == Frame(Response(request, i))
    <2>7. /\ toClient' = G /\ OnLine(G, G, 0)
      BY <1>1, <2>4, <2>6, AnswerBegins
    <2>8. request.method \in Known => since < i /\ executed'[i] = request
      BY <1>1, <2>4, <2>6
    <2>9. 0 \in 0 .. 10 + ResponseSize(request)
      BY DEF ResponseSize
    <2>10. ~Hunting.found
      BY DEF Hunting
    <2> QED
      BY <1>4, <2>3, <2>5, <2>7, <2>8, <2>9, <2>10 DEF Answered
  <1> QED
    BY <1>12, <1>13

(* The host reads on, tries again at the end of the response, or returns    *)
(* what it says.                                                            *)
LEMMA AnsweredClient ==
    ASSUME IInv, since \in Nat, Answered, Client
    PROVE  \/ outcome' = <<>> /\ (Asked' \/ Answered')
           \/ outcome' = <<"exhausted">> /\ Quiet'
           \/ outcome' # <<>> /\ Fresh(outcome)' /\ Quiet'
  <1> DEFINE last == Len(executed)
             body == Response(request, last)
             F == Frame(body)
             size == ResponseSize(request)
  <1>1. /\ request \in Requests /\ executed \in Seq(Requests)
        /\ toClient \in Seq(ResponseByte(executed))
        /\ client \in ReaderOf(ResponseByte(executed)) /\ Shape(client)
    BY DEF IInv, Bytes, Records
  <1>2. last \in Nat
    BY <1>1
  <1>3. /\ toServer = <<>> /\ ~server.found
        /\ request.method \in Known =>
              since < last /\ last \in DOMAIN executed /\ executed[last] = request
        /\ \E k \in 0 .. 10 + size : /\ OnLine(toClient, F, k)
                                     /\ client.found => Partly(client, F, body, k, size)
    <2>1. since < last => last \in 1 .. last
      BY <1>2
    <2> QED
      BY <1>1, <2>1 DEF Answered
  <1>4. /\ size \in Nat /\ size <= BufferSize /\ size <= 1 /\ FrameOf(F, body, size)
        /\ Contents(body)
    <2>1. size <= 1
      BY DEF ResponseSize
    <2> QED
      BY <1>1, <1>2, <2>1, ResponseParts, ResponseContents
  <1>5. body \in Seq(ResponseByte(executed))
    BY <1>1, <1>2, <1>3, ResponseRead
  <1>6. /\ toClient' = Tail(toClient) /\ UNCHANGED <<request, executed, since, server, losses>>
        /\ outcome = <<>>
    BY DEF Client, ClientWaits, ClientRefuses, ClientAccepts, ClientTakes, Underway
  <1>7. PICK n \in Received(toClient, client) :
           \/ /\ ~Accepted(n) /\ ~Refused(n)
              /\ client' = n /\ UNCHANGED <<toServer, outcome>>
           \/ Refused(n) /\ Retry
           \/ Accepted(n) /\ outcome' = Result(n) /\ UNCHANGED toServer
    BY DEF Client, ClientWaits, ClientRefuses, ClientAccepts
  <1>8. /\ n \in Read(client, Head(toClient)) /\ n \in ReaderOf(ResponseByte(executed))
        /\ toClient # <<>>
    BY <1>1, Alphabets, NextRead DEF Received
  <1> HIDE DEF F, size, body, last
  <1>9. PICK k \in Nat : /\ k <= 10 + size /\ OnLine(toClient, F, k)
                         /\ client.found => Partly(client, F, body, k, size)
    BY <1>3, <1>4
  <1>10. Len(F) = 10 + size
    BY <1>4 DEF FrameOf
  <1>11. k <= 9 + size
    BY <1>1, <1>4, <1>8, <1>9, <1>10, AllRead
  <1>12. /\ Head(toClient) = F[k + 1] /\ OnLine(Tail(toClient), F, k + 1)
         /\ k >= 9 + size => Tail(toClient) = <<>>
    BY <1>1, <1>4, <1>9, <1>10, <1>11, NextByte
  <1>13. /\ Accepted(n) => k = 9 + size /\ ReadBody(n) = body
         /\ Refused(n) => k >= 10
         /\ ~Accepted(n) /\ ~Refused(n) /\ n.found => Partly(n, F, body, k + 1, size)
    <2>1. Head(toClient) \in ResponseByte(executed)
      BY <1>1, <1>8, TailBytes
    <2>2. CASE ~client.found
      <3>1. ~Accepted(n) /\ ~Refused(n)
        BY <1>1, <1>8, <2>1, <2>2, Alphabets, Taken
      <3>2. PICK B : B = ResponseByte(executed) /\ Numeric(B)
        BY Alphabets
      <3>3. PICK b \in B : b = F[k + 1] /\ n \in Read(client, b)
        BY <1>8, <1>12, <2>1, <3>2
      <3>4. client \in ReaderOf(B) /\ body \in Seq(B)
        BY <1>1, <1>5, <3>2
      <3>5. n.found => Partly(n, F, body, k + 1, size)
        BY <1>1, <1>4, <1>11, <2>2, <3>2, <3>3, <3>4, FindsHeader
      <3> QED
        BY <3>1, <3>5
    <2>3. CASE client.found
      BY <1>1, <1>4, <1>5, <1>8, <1>9, <1>11, <1>12, <2>1, <2>3, Alphabets, PartlyReads
    <2> QED
      BY <2>2, <2>3
  <1>14. CASE ~Accepted(n) /\ ~Refused(n)
    <2>1. client' = n /\ toServer' = <<>> /\ outcome' = <<>>
      BY <1>3, <1>6, <1>7, <1>14
    <2>2. k + 1 \in 0 .. 10 + size
      BY <1>4, <1>11
    <2>3. OnLine(toClient', F, k + 1)
      BY <1>6, <1>12
    <2>4. client'.found => Partly(client', F, body, k + 1, size)
      BY <1>13, <1>14, <2>1
    <2>5. Answered'
      BY <1>3, <1>6, <2>1, <2>2, <2>3, <2>4 DEF Answered, F, size, body, last
    <2> QED
      BY <2>1, <2>5
  <1>15. CASE Refused(n)
    <2>1. ~Accepted(n)
      BY <1>15 DEF Accepted, Refused, InFull
    <2>2. k >= 9 + size
      BY <1>4, <1>13, <1>15
    <2>3. toClient' = <<>> /\ Retry
      BY <1>6, <1>7, <1>12, <1>15, <2>1, <2>2
    <2> QED
      BY <1>3, <1>6, <2>3, TriesAgain DEF Underway
  <1>16. CASE Accepted(n)
    <2>1. ~Refused(n) /\ ReadBody(n) = body /\ k = 9 + size
      BY <1>13, <1>16 DEF Accepted, Refused, InFull
    <2>2. outcome' = Result(n) /\ toServer' = <<>> /\ toClient' = <<>>
      BY <1>3, <1>4, <1>6, <1>7, <1>12, <1>16, <2>1
    <2>3. Fresh(Result(n))
      BY <1>1, <1>2, <1>3, <1>8, <1>16, <2>1, ResponseRead DEF body
    <2>4. Fresh(outcome)'
      BY <1>6, <2>2, <2>3 DEF Fresh
    <2>5. Result(n) # <<>>
      BY DEF Result
    <2>6. Quiet'
      BY <1>3, <1>6, <2>2 DEF Quiet
    <2> QED
      BY <2>2, <2>4, <2>5, <2>6
  <1> QED
    BY <1>14, <1>15, <1>16

(* A byte is lost from the head of the only line with bytes on it.          *)
LEMMA AskedLoses ==
    ASSUME IInv, Asked, toServer # <<>>, toServer' = Tail(toServer), losses' = losses + 1,
           UNCHANGED <<toClient, client, server, request>>
    PROVE  Asked'
  <1> DEFINE body == RequestBody(request)
             F == Frame(body)
             size == Len(request.data)
  <1>1. /\ request \in Requests /\ toServer \in Seq(RequestByte(sent))
        /\ server \in ReaderOf(RequestByte(sent)) /\ losses \in Nat
    BY Sizes DEF IInv, Bytes, Records
  <1>2. size \in Nat /\ FrameOf(F, body, size)
    BY <1>1, RequestParts
  <1>3. /\ toClient = <<>> /\ client = Hunting
        /\ \E k \in 0 .. 10 + size : /\ OnLine(toServer, F, k)
                                     /\ Listens(server, losses, F, body, k, size)
    BY DEF Asked
  <1> HIDE DEF F, body, size
  <1>4. PICK k \in Nat : /\ k <= 10 + size /\ OnLine(toServer, F, k)
                         /\ Listens(server, losses, F, body, k, size)
    BY <1>2, <1>3
  <1>5. Len(F) = 10 + size
    BY <1>2 DEF FrameOf
  <1>6. k <= 9 + size
    BY <1>1, <1>2, <1>4, <1>5, AllRead
  <1>7. OnLine(Tail(toServer), F, k + 1)
    BY <1>1, <1>2, <1>4, <1>5, <1>6, NextByte
  <1>8. PICK x \in Nat : x = Len(server.got)
    BY <1>1 DEF ReaderOf
  <1>9. Listens(server, losses + 1, F, body, k + 1, size)
    <2>1. ASSUME Doomed(server, losses, k)
          PROVE  Doomed(server, losses + 1, k + 1)
      <3>1. ~Plausible(server.got) \/ (losses >= k + 1 /\ losses + x >= k + 6)
        BY <1>8, <2>1 DEF Doomed
      <3>2. losses >= k + 1 /\ losses + x >= k + 6 =>
               losses + 1 >= (k + 1) + 1 /\ (losses + 1) + x >= (k + 1) + 6
        BY <1>1
      <3> QED
        BY <1>8, <3>1, <3>2 DEF Doomed
    <2>2. ASSUME Partly(server, F, body, k, size), losses + Len(server.got) >= k - 4
          PROVE  /\ Partly(server, F, body, k + 1, size)
                 /\ (losses + 1) + Len(server.got) >= (k + 1) - 4
      <3>1. k >= 4 /\ x <= k - 4 /\ losses + x >= k - 4
        BY <1>8, <2>2 DEF Partly
      <3>2. k + 1 >= 4 /\ x <= (k + 1) - 4 /\ x # (k + 1) - 4
            /\ (losses + 1) + x >= (k + 1) - 4
        BY <1>1, <3>1
      <3>3. Partly(server, F, body, k + 1, size)
        BY <1>8, <2>2, <3>2 DEF Partly
      <3> QED
        BY <1>8, <3>2, <3>3
    <2>3. server.found => \/ Doomed(server, losses, k)
                          \/ /\ Partly(server, F, body, k, size)
                             /\ losses + Len(server.got) >= k - 4
      BY <1>4 DEF Listens
    <2> QED
      BY <2>1, <2>2, <2>3 DEF Listens
  <1>10. k + 1 \in 0 .. 10 + size
    BY <1>2, <1>6
  <1> QED
    BY <1>3, <1>7, <1>9, <1>10 DEF Asked, F, body, size

LEMMA AnsweredLoses ==
    ASSUME IInv, Answered, toClient # <<>>, toClient' = Tail(toClient),
           UNCHANGED <<toServer, client, server, request, executed, since>>
    PROVE  Answered'
  <1> DEFINE body == Response(request, Len(executed))
             F == Frame(body)
             size == ResponseSize(request)
  <1>1. /\ request \in Requests /\ executed \in Seq(Requests)
        /\ toClient \in Seq(ResponseByte(executed))
        /\ client \in ReaderOf(ResponseByte(executed))
    BY DEF IInv, Bytes, Records
  <1>2. size \in Nat /\ FrameOf(F, body, size)
    BY <1>1, ResponseParts
  <1>3. \E k \in 0 .. 10 + size : /\ OnLine(toClient, F, k)
                                  /\ client.found => Partly(client, F, body, k, size)
    BY DEF Answered
  <1>4. /\ toServer = <<>> /\ ~server.found
        /\ request.method \in Known =>
              since < Len(executed) /\ executed[Len(executed)] = request
    BY DEF Answered
  <1> HIDE DEF F, body, size
  <1>5. PICK k \in Nat : /\ k <= 10 + size /\ OnLine(toClient, F, k)
                         /\ client.found => Partly(client, F, body, k, size)
    BY <1>2, <1>3
  <1>6. Len(F) = 10 + size
    BY <1>2 DEF FrameOf
  <1>7. k <= 9 + size
    BY <1>1, <1>2, <1>5, <1>6, AllRead
  <1>8. OnLine(Tail(toClient), F, k + 1)
    BY <1>1, <1>2, <1>5, <1>6, <1>7, NextByte
  <1>9. PICK x \in Nat : x = Len(client.got)
    BY <1>1 DEF ReaderOf
  <1>10. client.found => Partly(client, F, body, k + 1, size)
    BY <1>5, <1>9 DEF Partly
  <1>11. k + 1 \in 0 .. 10 + size
    BY <1>2, <1>7
  <1> QED
    BY <1>4, <1>8, <1>10, <1>11 DEF Answered, F, body, size
----------------------------------------------------------------------------
LEMMA TimelyInitially == Init => Timely
  BY DEF Init, Timely, Underway, Quiet, Hunting

LEMMA TimelyServer ==
    ASSUME IInv, FewLosses, Timely, Server
    PROVE  Timely'
  <1>1. /\ UNCHANGED <<request, outcome, since, patient>> /\ toServer # <<>>
        /\ \/ executed' = executed
           \/ \E q : executed' = Append(executed, q)
    BY DEF Server, ServerWaits, ServerRefuses, ServerServes, ServerTakes, call, Received
  <1>2. since' \in Nat /\ since' <= Len(executed')
    <2>1. executed \in Seq(Requests) /\ Len(executed) \in Nat
      BY DEF IInv, Records
    <2> QED
      BY <1>1, <2>1 DEF Timely
  <1>3. ASSUME patient
        PROVE  outcome = <<>> /\ (Asked' \/ Answered')
    <2>1. Underway /\ Asked
      BY <1>1, <1>3 DEF Timely, Quiet, Answered
    <2> QED
      BY <2>1, AskedServer DEF Timely, Underway
  <1> QED
    BY <1>1, <1>2, <1>3 DEF Timely, Underway

LEMMA TimelyClient ==
    ASSUME IInv, Timely, Client
    PROVE  Timely'
  <1>1. /\ UNCHANGED <<executed, since, patient>> /\ outcome = <<>>
        /\ toClient # <<>>
    BY DEF Client, ClientWaits, ClientRefuses, ClientAccepts, ClientTakes, Received,
           Underway
  <1>2. ASSUME patient
        PROVE  Answered
    BY <1>1, <1>2 DEF Timely, Underway, Asked
  <1>3. ASSUME patient
        PROVE  \/ outcome' = <<>> /\ (Asked' \/ Answered')
               \/ outcome' = <<"exhausted">> /\ Quiet'
               \/ outcome' # <<>> /\ Fresh(outcome)' /\ Quiet'
    BY <1>2, <1>3, AnsweredClient DEF Timely
  <1>4. <<>> # <<"exhausted">>
    OBVIOUS
  <1> QED
    BY <1>1, <1>3, <1>4 DEF Timely, Underway

LEMMA TimelyCall ==
    ASSUME IInv, Timely, NEW q \in Requests, Call(q)
    PROVE  Timely'
  <1>1. /\ ~Underway /\ Write(q) /\ request' = q /\ outcome' = <<>> /\ client' = Hunting
        /\ since' = Len(executed)
        /\ UNCHANGED <<toClient, server, executed, losses, patient>>
    BY DEF Call
  <1>2. since' \in Nat /\ since' <= Len(executed')
    BY <1>1 DEF IInv, Records
  <1>3. ASSUME patient
        PROVE  Asked'
    <2>1. toServer = <<>> /\ toClient = <<>> /\ (server.found => Doomed(server, losses, 0))
      BY <1>1, <1>3 DEF Timely, Quiet
    <2> QED
      BY <1>1, <2>1, AskBegins
  <1> QED
    BY <1>1, <1>2, <1>3 DEF Timely, Underway

LEMMA TimelyTimeout ==
    ASSUME IInv, Timely, ClientTimeout
    PROVE  Timely'
  <1>1. /\ Underway /\ Retry /\ (patient => toServer = <<>> /\ toClient = <<>>)
        /\ UNCHANGED <<toClient, server, request, executed, since, losses, patient>>
    BY DEF ClientTimeout
  <1>2. ASSUME patient
        PROVE  \/ outcome' = <<>> /\ Asked'
               \/ outcome' = <<"exhausted">> /\ Quiet'
    <2>1. Quiet
      BY <1>1, <1>2, AskedThenQuiet, AnsweredThenQuiet DEF Timely
    <2> QED
      BY <1>1, <2>1, TriesAgain DEF Quiet
  <1>3. <<>> # <<"exhausted">>
    OBVIOUS
  <1> QED
    BY <1>1, <1>2, <1>3 DEF Timely, Underway

LEMMA TimelyLose ==
    ASSUME IInv, Timely, Lose
    PROVE  Timely'
  <1>1. /\ losses' = losses + 1
        /\ UNCHANGED <<server, client, request, outcome, executed, since, patient>>
        /\ \/ toServer # <<>> /\ toServer' = Tail(toServer) /\ toClient' = toClient
           \/ toClient # <<>> /\ toClient' = Tail(toClient) /\ toServer' = toServer
    BY DEF Lose, call
  <1>2. ASSUME patient
        PROVE  outcome = <<>> /\ (Asked' \/ Answered')
    <2>1. Underway /\ (Asked \/ Answered)
      BY <1>1, <1>2 DEF Timely, Quiet
    <2>2. CASE Asked
      <3>1. toServer # <<>> /\ toServer' = Tail(toServer) /\ toClient' = toClient
        BY <1>1, <2>2 DEF Asked
      <3> QED
        BY <1>1, <2>1, <2>2, <3>1, AskedLoses DEF Underway
    <2>3. CASE Answered
      <3>1. toClient # <<>> /\ toClient' = Tail(toClient) /\ toServer' = toServer
        BY <1>1, <2>3 DEF Answered
      <3> QED
        BY <1>1, <2>1, <2>3, <3>1, AnsweredLoses DEF Underway
    <2> QED
      BY <2>1, <2>2, <2>3
  <1> QED
    BY <1>1, <1>2 DEF Timely, Underway

LEMMA TimelyStep ==
    ASSUME IInv, FewLosses, Timely, [Next]_vars
    PROVE  Timely'
  <1>1. CASE UNCHANGED vars
    BY <1>1 DEF vars, lines, call, history, Timely, Asked, Answered, Quiet, Fresh, Underway
  <1> QED
    BY <1>1, TimelyServer, TimelyClient, TimelyCall, TimelyTimeout, TimelyLose DEF Next

(* While no more than six bytes are lost, whatever a call returns to a      *)
(* patient host is about this call: for all requests, handlers and buffers  *)
(* and any number of calls and attempts.  A seventh loss is one too many.   *)
THEOREM FewLossesStayFresh == ASSUME FewLosses PROVE Spec => []AnswerIsFresh
  <1>1. Timely => AnswerIsFresh
    BY DEF Timely, AnswerIsFresh
  <1>2. IInv /\ Timely /\ [Next]_vars => Timely'
    BY TimelyStep
  <1> QED
    BY <1>1, <1>2, Inductive, TimelyInitially, PTL DEF Spec
----------------------------------------------------------------------------
(***************************************************************************)
(* A call that finds both lines quiet and loses nothing.  A board that is  *)
(* in the middle of a frame takes bytes of its requests for the rest of    *)
(* that frame: none of them can make it accept the frame, and with each it *)
(* is nearer to the end.  What is left of the request in which it gives up *)
(* holds no header, so that it reads the next request from the start.      *)
(***************************************************************************)

Wide == Len(Frame(RequestBody(request)))

(* The bytes of the attempts that have failed.                              *)
Supplied == attempt * Wide

(* The board takes the request for the rest of an earlier frame.            *)
Supplying ==
    /\ \E k \in 0 .. 10 + Len(request.data) :
          /\ OnLine(toServer, Frame(RequestBody(request)), k)
          /\ Supplied + k + Owed(server) <= owed
          /\ (attempt = 0 /\ k = 0) \/ ~Plausible(server.got)
    /\ server.found
    /\ toClient = <<>> /\ client = Hunting /\ since = Len(executed)

(* It has given that frame up in the middle of the request.                 *)
Passing ==
    /\ \E k \in 1 .. 10 + Len(request.data) :
          /\ OnLine(toServer, Frame(RequestBody(request)), k)
          /\ k < 4 => Len(server.head) < k
    /\ ~server.found /\ Supplied < owed
    /\ toClient = <<>> /\ client = Hunting /\ since = Len(executed)

Undisturbed ==
    /\ since \in Nat /\ owed \in Nat
    /\ patient /\ clean =>
          /\ outcome # <<"none">> => Supplied < owed + Wide
          /\ Underway => Supplying \/ Passing \/ Asking \/ Answering
          /\ ~Underway /\ outcome # <<"none">> =>
                Fresh(outcome) \/ (outcome = <<"exhausted">> /\ attempt = MaxRetries)
----------------------------------------------------------------------------
LEMMA Width ==
    ASSUME IInv
    PROVE  /\ request \in Requests /\ Len(request.data) \in Nat
           /\ Wide \in Nat /\ Wide = 10 + Len(request.data)
           /\ attempt \in Nat /\ Supplied \in Nat
  <1>1. request \in Requests /\ attempt \in Nat
    BY Sizes DEF IInv, Records
  <1>2. /\ Len(request.data) \in Nat
        /\ Len(Frame(RequestBody(request))) = 10 + Len(request.data)
    BY <1>1, RequestParts DEF FrameOf
  <1>3. Wide \in Nat /\ Wide = 10 + Len(request.data)
    BY <1>2 DEF Wide
  <1>4. attempt * Wide \in Nat
    BY <1>1, <1>3
  <1> QED
    BY <1>1, <1>2, <1>3, <1>4 DEF Supplied

LEMMA SameSupply ==
    ASSUME UNCHANGED <<request, attempt>>
    PROVE  Wide' = Wide /\ Supplied' = Supplied
  BY DEF Wide, Supplied

LEMMA MoreSupplied ==
    ASSUME IInv, request' = request, attempt' = attempt + 1
    PROVE  Wide' = Wide /\ Supplied' = Supplied + Wide
  <1>1. Wide' = Wide
    BY DEF Wide
  <1>2. PICK a \in Nat, w \in Nat : attempt = a /\ Wide = w
    BY Width
  <1>3. (a + 1) * w = a * w + w
    OBVIOUS
  <1>4. Supplied = a * w /\ Supplied' = (a + 1) * w
    BY <1>1, <1>2 DEF Supplied
  <1> QED
    BY <1>1, <1>2, <1>3, <1>4

(* What a board still takes for a frame, and less with every byte.          *)
LEMMA OwedLess ==
    ASSUME NEW B, Numeric(B), NEW r \in ReaderOf(B), Shape(r)
    PROVE  /\ Owed(r) \in Nat
           /\ r.found => Owed(r) >= 1
           /\ \A b \in B : \A n \in Read(r, b) :
                 r.found /\ ~Accepted(n) /\ ~Refused(n) =>
                    Owed(n) \in Nat /\ Owed(n) + 1 <= Owed(r)
  <1>1. PICK x \in Nat, y \in Nat, z \in Nat :
           x = Len(r.got) /\ y = r.need /\ z = BufferSize
    BY Sizes DEF ReaderOf
  <1>2. x < 6 \/ (y <= z /\ x < 6 + y)
    BY <1>1 DEF Shape
  <1>3. Owed(r) = IF ~r.found THEN 0 ELSE 6 + (IF x < 6 THEN z ELSE y) - x
    BY <1>1 DEF Owed
  <1>4. Owed(r) \in Nat /\ (r.found => Owed(r) >= 1)
    BY <1>2, <1>3
  <1>5. ASSUME NEW b \in B, NEW n \in Read(r, b), r.found, ~Accepted(n), ~Refused(n)
        PROVE  Owed(n) \in Nat /\ Owed(n) + 1 <= Owed(r)
    <2>1. n \in ReaderOf(B) /\ Shape(n) /\ n.found /\ n.got = Append(r.got, b)
      BY <1>5, ReadShape, Taken
    <2>2. n.got = r.got \/ (n.got = Append(r.got, b) /\
                            (n.need = r.need \/ Len(r.got) = 5))
      BY <1>5, ReadType
    <2>3. r.got \in Seq(B)
      BY DEF ReaderOf
    <2>4. Len(n.got) = x + 1
      BY <1>1, <2>1, <2>3, Longer
    <2>5. n.got # r.got
      BY <1>1, <2>4
    <2>6. PICK u \in Nat : u = n.need
      BY <2>1 DEF ReaderOf
    <2>7. u = y \/ x = 5
      BY <1>1, <2>2, <2>5, <2>6
    <2>8. x + 1 < 6 \/ (u <= z /\ x + 1 < 6 + u)
      BY <1>1, <2>1, <2>4, <2>6 DEF Shape
    <2>9. Owed(n) = 6 + (IF x + 1 < 6 THEN z ELSE u) - (x + 1)
      BY <1>1, <2>1, <2>4, <2>6 DEF Owed
    <2>10. Owed(r) = 6 + (IF x < 6 THEN z ELSE y) - x
      BY <1>3, <1>5
    <2> QED
      BY <1>2, <2>7, <2>8, <2>9, <2>10
  <1> QED
    BY <1>4, <1>5

(* The next byte of a request is no byte of an earlier frame at its place:  *)
(* the first one is of a header.                                            *)
LEMMA Intruding ==
    ASSUME NEW B, Numeric(B), NEW r \in ReaderOf(B), Shape(r), r.found,
           NEW F, NEW body, NEW size \in Nat, FrameOf(F, body, size), Contents(body),
           NEW k \in Nat, k <= 9 + size, k = 0 \/ ~Plausible(r.got),
           NEW b \in B, b = F[k + 1], NEW n \in Read(r, b)
    PROVE  ~Plausible(n.got)
  <1>1. r.got \in Seq(B) /\ n.got = Append(r.got, b)
    BY Taken DEF ReaderOf
  <1>2. CASE ~Plausible(r.got)
    BY <1>1, <1>2, StaysImplausible
  <1>3. CASE k = 0
    <2>1. PICK x \in Nat : x = Len(r.got)
      BY <1>1
    <2>2. Len(n.got) = x + 1 /\ n.got[x + 1] = b /\ x + 1 \in 1 .. x + 1
      BY <1>1, <2>1, Longer
    <2>3. b[1] = "h"
      BY <1>3, Tags
    <2>4. b[1] # (IF x + 1 = 1 THEN "lo" ELSE IF x + 1 = 2 THEN "hi" ELSE "n")
      BY <2>3
    <2> QED
      BY <2>2, <2>4 DEF Plausible
  <1> QED
    BY <1>2, <1>3

(* The rest of a request holds no header.                                   *)
LEMMA PassesOn ==
    ASSUME NEW B, Numeric(B), NEW r \in ReaderOf(B), Shape(r), ~r.found,
           NEW F, NEW body, NEW size \in Nat, FrameOf(F, body, size), Contents(body),
           NEW k \in Nat, k <= 9 + size, k < 4 => Len(r.head) < k,
           NEW b \in B, b = F[k + 1], NEW n \in Read(r, b)
    PROVE  /\ ~Accepted(n) /\ ~Refused(n) /\ ~n.found
           /\ k + 1 < 4 => Len(n.head) < k + 1
  <1>1. ~Accepted(n) /\ ~Refused(n) /\ (n.found => b = <<"h", "cd">>)
    BY Taken
  <1>2. PICK o \in Nat : o = Len(r.head) /\ o <= 4 /\ r.head \in Seq(B)
    BY DEF ReaderOf, Shape
  <1>3. n.head = Latest(r.head, b)
    <2>1. n = [head |-> Latest(r.head, b), found |-> Latest(r.head, b) = Header,
               got |-> r.got, need |-> r.need]
      BY Zenon DEF Read
    <2> QED
      BY <2>1
  <1>4. Shifted(Latest(r.head, b), r.head, o, b)
    BY <1>2, LatestByte
  <1>5. k < 4 => o < k /\ Len(n.head) = o + 1
    BY <1>2, <1>3, <1>4 DEF Shifted
  <1>6. ASSUME n.found
        PROVE  FALSE
    <2>1. k = 3
      BY <1>1, <1>6, Tags
    <2>2. n.head = Header
      BY <1>6, ReadType
    <2> QED
      BY <1>2, <1>5, <2>1, <2>2, HeaderFacts
  <1> QED
    BY <1>1, <1>5, <1>6
----------------------------------------------------------------------------
LEMMA UndisturbedInitially == Init => Undisturbed
  BY DEF Init, Undisturbed, Underway

(* The board takes one more byte for the earlier frame, or gives it up.     *)
LEMMA SupplyingServer ==
    ASSUME IInv, owed \in Nat, Supplying, Server
    PROVE  Supplying' \/ Passing'
  <1> DEFINE body == RequestBody(request)
             F == Frame(body)
             size == Len(request.data)
  <1>1. /\ request \in Requests /\ sent \in Seq(Requests)
        /\ toServer \in Seq(RequestByte(sent)) /\ server \in ReaderOf(RequestByte(sent))
        /\ Shape(server) /\ Numeric(RequestByte(sent))
    BY Alphabets DEF IInv, Bytes, Records
  <1>2. size \in Nat /\ FrameOf(F, body, size) /\ Contents(body)
    BY <1>1, RequestParts, RequestContents
  <1>3. /\ toClient = <<>> /\ client = Hunting /\ since = Len(executed) /\ server.found
        /\ \E k \in 0 .. 10 + size :
              /\ OnLine(toServer, F, k)
              /\ Supplied + k + Owed(server) <= owed
              /\ (attempt = 0 /\ k = 0) \/ ~Plausible(server.got)
    BY DEF Supplying
  <1>4. /\ toServer' = Tail(toServer)
        /\ UNCHANGED <<client, request, attempt, since, owed>>
    BY DEF Server, ServerWaits, ServerRefuses, ServerServes, ServerTakes, call
  <1>5. PICK n \in Received(toServer, server) :
           \/ /\ ~Accepted(n) /\ ~Refused(n)
              /\ server' = n /\ UNCHANGED <<toClient, executed>>
           \/ Refused(n) /\ server' = Hunting /\ UNCHANGED <<toClient, executed>>
           \/ Accepted(n)
    BY DEF Server, ServerWaits, ServerRefuses, ServerServes
  <1>6. /\ n \in Read(server, Head(toServer)) /\ n \in ReaderOf(RequestByte(sent))
        /\ toServer # <<>> /\ Head(toServer) \in RequestByte(sent)
    BY <1>1, NextRead, TailBytes DEF Received
  <1> HIDE DEF F, size, body
  <1>7. PICK k \in Nat : /\ k <= 10 + size /\ OnLine(toServer, F, k)
                         /\ Supplied + k + Owed(server) <= owed
                         /\ k = 0 \/ ~Plausible(server.got)
    BY <1>2, <1>3
  <1>8. Len(F) = 10 + size
    BY <1>2 DEF FrameOf
  <1>9. k <= 9 + size
    BY <1>1, <1>2, <1>6, <1>7, <1>8, AllRead
  <1>10. Head(toServer) = F[k + 1] /\ OnLine(toServer', F, k + 1)
    BY <1>1, <1>2, <1>4, <1>7, <1>8, <1>9, NextByte
  <1>11. ~Plausible(n.got)
    BY <1>1, <1>2, <1>3, <1>6, <1>7, <1>9, <1>10, Intruding
  <1>12. ~Accepted(n)
    BY <1>1, <1>6, <1>11, AcceptedPlausible
  <1>13. /\ Supplied \in Nat /\ Supplied' = Supplied
         /\ Owed(server) \in Nat /\ Owed(server) >= 1
    BY <1>1, <1>3, <1>4, Width, SameSupply, OwedLess
  <1>14. CASE ~Refused(n)
    <2>1. server' = n /\ UNCHANGED <<toClient, executed>>
      BY <1>5, <1>12, <1>14
    <2>2. Owed(n) \in Nat /\ Owed(n) + 1 <= Owed(server)
      BY <1>1, <1>3, <1>6, <1>12, <1>14, OwedLess
    <2>3. n.found
      BY <1>1, <1>3, <1>6, Taken
    <2>4. Supplied + (k + 1) + Owed(n) <= owed
      BY <1>7, <1>13, <2>2
    <2>5. Owed(server)' = Owed(n)
      BY <2>1
    <2>6. Supplied' + (k + 1) + Owed(server)' <= owed'
      BY <1>4, <1>13, <2>4, <2>5
    <2>7. ~Plausible(server.got)'
      BY <1>11, <2>1
    <2>8. k + 1 \in 0 .. 10 + size
      BY <1>2, <1>9
    <2>9. \E j \in 0 .. 10 + size :
             /\ OnLine(toServer', F, j)
             /\ Supplied' + j + Owed(server)' <= owed'
             /\ (attempt' = 0 /\ j = 0) \/ ~Plausible(server.got)'
      BY <1>10, <2>6, <2>7, <2>8
    <2> QED
      BY <1>3, <1>4, <2>1, <2>3, <2>9 DEF Supplying, F, size, body
  <1>15. CASE Refused(n)
    <2>1. server' = Hunting /\ UNCHANGED <<toClient, executed>>
      BY <1>5, <1>12, <1>15
    <2>2. Supplied' < owed'
      BY <1>4, <1>7, <1>13
    <2>3. k + 1 \in 1 .. 10 + size /\ Len(Hunting.head) < k + 1 /\ ~Hunting.found
      BY <1>2, <1>9 DEF Hunting
    <2>4. \E j \in 1 .. 10 + size :
             OnLine(toServer', F, j) /\ (j < 4 => Len(server'.head) < j)
      BY <1>10, <2>1, <2>3
    <2> QED
      BY <1>3, <1>4, <2>1, <2>2, <2>3, <2>4 DEF Passing, F, size, body
  <1> QED
    BY <1>14, <1>15

(* The board hunts through the rest of the request.                         *)
LEMMA PassingServer ==
    ASSUME IInv, Passing, Server
    PROVE  Passing'
  <1> DEFINE body == RequestBody(request)
             F == Frame(body)
             size == Len(request.data)
  <1>1. /\ request \in Requests /\ sent \in Seq(Requests)
        /\ toServer \in Seq(RequestByte(sent)) /\ server \in ReaderOf(RequestByte(sent))
        /\ Shape(server) /\ Numeric(RequestByte(sent))
    BY Alphabets DEF IInv, Bytes, Records
  <1>2. size \in Nat /\ FrameOf(F, body, size) /\ Contents(body)
    BY <1>1, RequestParts, RequestContents
  <1>3. /\ toClient = <<>> /\ client = Hunting /\ since = Len(executed) /\ ~server.found
        /\ Supplied < owed
        /\ \E k \in 1 .. 10 + size :
              OnLine(toServer, F, k) /\ (k < 4 => Len(server.head) < k)
    BY DEF Passing
  <1>4. /\ toServer' = Tail(toServer)
        /\ UNCHANGED <<client, request, attempt, since, owed>>
    BY DEF Server, ServerWaits, ServerRefuses, ServerServes, ServerTakes, call
  <1>5. PICK n \in Received(toServer, server) :
           \/ /\ ~Accepted(n) /\ ~Refused(n)
              /\ server' = n /\ UNCHANGED <<toClient, executed>>
           \/ Refused(n)
           \/ Accepted(n)
    BY DEF Server, ServerWaits, ServerRefuses, ServerServes
  <1>6. /\ n \in Read(server, Head(toServer))
        /\ toServer # <<>> /\ Head(toServer) \in RequestByte(sent)
    BY <1>1, NextRead, TailBytes DEF Received
  <1> HIDE DEF F, size, body
  <1>7. PICK k \in Nat : /\ 1 <= k /\ k <= 10 + size /\ OnLine(toServer, F, k)
                         /\ k < 4 => Len(server.head) < k
    BY <1>2, <1>3
  <1>8. Len(F) = 10 + size
    BY <1>2 DEF FrameOf
  <1>9. k <= 9 + size
    BY <1>1, <1>2, <1>6, <1>7, <1>8, AllRead
  <1>10. Head(toServer) = F[k + 1] /\ OnLine(toServer', F, k + 1)
    BY <1>1, <1>2, <1>4, <1>7, <1>8, <1>9, NextByte
  <1>11. /\ ~Accepted(n) /\ ~Refused(n) /\ ~n.found
         /\ k + 1 < 4 => Len(n.head) < k + 1
    BY <1>1, <1>2, <1>3, <1>6, <1>7, <1>9, <1>10, PassesOn
  <1>12. server' = n /\ UNCHANGED <<toClient, executed>>
    BY <1>5, <1>11
  <1>13. Supplied' < owed'
    BY <1>3, <1>4, SameSupply
  <1>14. k + 1 \in 1 .. 10 + size
    BY <1>2, <1>7, <1>9
  <1>15. \E j \in 1 .. 10 + size :
            OnLine(toServer', F, j) /\ (j < 4 => Len(server'.head) < j)
    BY <1>10, <1>11, <1>12, <1>14
  <1> QED
    BY <1>3, <1>4, <1>11, <1>12, <1>13, <1>15 DEF Passing, F, size, body

(* A request begins on a quiet line while the board hunts.                  *)
LEMMA AskingBegins ==
    ASSUME IInv, toServer = <<>>, ~server.found, NEW q \in Requests, Write(q),
           request' = q, toClient' = <<>>, client' = Hunting, since' = Len(executed'),
           UNCHANGED server
    PROVE  Asking'
  <1> DEFINE F == Frame(RequestBody(q))
  <1>1. server \in ReaderOf(RequestByte(sent))
    BY DEF IInv, Bytes
  <1>2. Len(q.data) \in Nat /\ FrameOf(F, RequestBody(q), Len(q.data))
    BY RequestParts
  <1>3. <<>> \o F = F /\ OnLine(F, F, 0)
    BY <1>2, WholeFrame
  <1>4. HasRead(server, F, 0, Len(q.data))
    BY <1>1, <1>2, ReadyFor
  <1>5. toServer' = F /\ 0 \in 0 .. 9 + Len(q.data)
    BY <1>2, <1>3 DEF Write
  <1> HIDE DEF F
  <1>6. OnLine(toServer', F, 0) /\ HasRead(server', F, 0, Len(q.data))
    BY <1>3, <1>4, <1>5
  <1> QED
    BY <1>5, <1>6 DEF Asking, F

(* A request begins on a quiet line in the middle of an earlier frame.      *)
LEMMA SupplyingBegins ==
    ASSUME IInv, toServer = <<>>, server.found, NEW q \in Requests, Write(q),
           request' = q, toClient' = <<>>, client' = Hunting, since' = Len(executed'),
           UNCHANGED server, Supplied' + Owed(server) <= owed', Supplied' \in Nat,
           attempt' = 0 \/ ~Plausible(server.got)
    PROVE  Supplying'
  <1> DEFINE F == Frame(RequestBody(q))
  <1>1. Owed(server) \in Nat
    BY Alphabets, OwedLess DEF IInv, Bytes
  <1>2. Len(q.data) \in Nat /\ FrameOf(F, RequestBody(q), Len(q.data))
    BY RequestParts
  <1>3. <<>> \o F = F /\ OnLine(F, F, 0)
    BY <1>2, WholeFrame
  <1>4. toServer' = F /\ 0 \in 0 .. 10 + Len(q.data)
    BY <1>2, <1>3 DEF Write
  <1>5. Supplied' + 0 + Owed(server)' <= owed'
    BY <1>1
  <1> HIDE DEF F
  <1>6. \E k \in 0 .. 10 + Len(q.data) :
           /\ OnLine(toServer', F, k)
           /\ Supplied' + k + Owed(server)' <= owed'
           /\ (attempt' = 0 /\ k = 0) \/ ~Plausible(server.got)'
    BY <1>3, <1>4, <1>5
  <1> QED
    BY <1>6 DEF Supplying, F

(* The host's next attempt, after one that the board has not answered.      *)
LEMMA QuietRetry ==
    ASSUME IInv, owed \in Nat, Underway, toServer = <<>>, toClient = <<>>,
           Supplying \/ Passing, Retry,
           UNCHANGED <<toClient, server, request, executed, since, owed>>
    PROVE  /\ Supplied' < owed' + Wide'
           /\ \/ outcome' = <<>> /\ (Supplying' \/ Asking')
              \/ outcome' = <<"exhausted">> /\ attempt' = MaxRetries
  <1>1. /\ request \in Requests /\ Len(request.data) \in Nat
        /\ Wide \in Nat /\ Wide = 10 + Len(request.data) /\ Supplied \in Nat
        /\ toServer \in Seq(RequestByte(sent)) /\ server \in ReaderOf(RequestByte(sent))
        /\ Shape(server)
    BY Width DEF IInv, Bytes
  <1>2. client' = Hunting /\ Wide' = Wide /\ Supplied' = Supplied + Wide
    BY MoreSupplied DEF Retry
  <1>3. since' = Len(executed')
    BY DEF Supplying, Passing
  <1>4. ASSUME Supplying
        PROVE  /\ server.found /\ ~Plausible(server.got)
               /\ Supplied' + Owed(server) <= owed /\ Supplied < owed
    <2> DEFINE F == Frame(RequestBody(request))
               size == Len(request.data)
    <2>1. PICK k \in Nat :
             /\ k <= 10 + size /\ OnLine(toServer, F, k) /\ Supplied + k + Owed(server) <= owed
             /\ (attempt = 0 /\ k = 0) \/ ~Plausible(server.got)
      BY <1>1, <1>4 DEF Supplying
    <2>2. Len(F) = 10 + size
      BY <1>1 DEF Wide
    <2>3. k = 10 + size
      BY <1>1, <2>1, <2>2, AllRead
    <2>4. server.found
      BY <1>4 DEF Supplying
    <2>5. Owed(server) \in Nat /\ Owed(server) >= 1
      BY <1>1, <2>4, Alphabets, OwedLess
    <2> HIDE DEF F
    <2>6. k = Wide /\ k # 0
      BY <1>1, <2>3
    <2>7. ~Plausible(server.got)
      BY <2>1, <2>6
    <2>8. Supplied + Wide + Owed(server) <= owed
      BY <2>1, <2>6
    <2> QED
      BY <1>1, <1>2, <2>4, <2>5, <2>7, <2>8
  <1>5. ASSUME Passing
        PROVE  ~server.found /\ Supplied < owed
    BY <1>5 DEF Passing
  <1>6. Supplied' < owed' + Wide'
    BY <1>1, <1>2, <1>4, <1>5
  <1>7. CASE attempt + 1 < MaxRetries
    <2>1. Write(request) /\ outcome' = <<>>
      BY <1>7 DEF Retry, Underway
    <2>2. CASE Supplying
      <3>1. Supplied' \in Nat
        BY <1>1, <1>2
      <3>2. Supplied' + Owed(server) <= owed'
        BY <1>4, <2>2
      <3>3. Supplying'
        BY <1>1, <1>2, <1>3, <1>4, <2>1, <2>2, <3>1, <3>2, SupplyingBegins
      <3> QED
        BY <1>6, <2>1, <3>3
    <2>3. CASE Passing
      <3>1. Asking'
        BY <1>1, <1>2, <1>3, <1>5, <2>1, <2>3, AskingBegins
      <3> QED
        BY <1>6, <2>1, <3>1
    <2> QED
      BY <2>2, <2>3
  <1>8. CASE ~(attempt + 1 < MaxRetries)
    <2>1. attempt' = MaxRetries
      <3>1. attempt \in 0 .. MaxRetries /\ attempt < MaxRetries /\ MaxRetries \in Nat
        BY Sizes DEF IInv, Records
      <3>2. attempt' = attempt + 1
        BY DEF Retry
      <3> QED
        BY <1>8, <3>1, <3>2
    <2>2. outcome' = <<"exhausted">>
      BY <1>8 DEF Retry
    <2> QED
      BY <1>6, <2>1, <2>2
  <1> QED
    BY <1>7, <1>8

(* A call on quiet lines.                                                   *)
LEMMA UndisturbedCall ==
    ASSUME IInv, NEW q \in Requests, Call(q)
    PROVE  Undisturbed'
  <1>1. /\ executed \in Seq(Requests) /\ server \in ReaderOf(RequestByte(sent))
        /\ Shape(server)
    BY DEF IInv, Bytes, Records
  <1>2. /\ request' = q /\ attempt' = 0 /\ outcome' = <<>> /\ client' = Hunting
        /\ Write(q) /\ since' = Len(executed)
        /\ owed' = IF clean' THEN Owed(server) ELSE 0
        /\ UNCHANGED <<toClient, server, executed, patient>>
        /\ clean' => toServer = <<>> /\ toClient = <<>>
    BY DEF Call
  <1>3. since' \in Nat /\ owed' \in Nat
    BY <1>1, <1>2, Alphabets, OwedLess
  <1>4. Supplied' = 0 /\ Supplied' < owed' + Wide'
    <2>1. Len(q.data) \in Nat /\ Len(Frame(RequestBody(q))) = 10 + Len(q.data)
      BY RequestParts DEF FrameOf
    <2>2. Wide' \in Nat /\ Wide' >= 10
      BY <1>2, <2>1 DEF Wide
    <2>3. PICK w \in Nat : Wide' = w
      BY <2>2
    <2>4. 0 * w = 0
      OBVIOUS
    <2>5. Supplied' = 0
      BY <1>2, <2>3, <2>4 DEF Supplied
    <2>6. PICK o \in Nat : owed' = o
      BY <1>3
    <2> QED
      BY <2>2, <2>3, <2>5, <2>6
  <1>5. ASSUME clean'
        PROVE  Supplying' \/ Asking'
    <2>1. toServer = <<>> /\ toClient' = <<>> /\ since' = Len(executed')
      BY <1>2, <1>5
    <2>2. CASE server.found
      <3>1. Supplied' + Owed(server) <= owed' /\ Supplied' \in Nat
        BY <1>2, <1>3, <1>4, <1>5
      <3> QED
        BY <1>2, <2>1, <2>2, <3>1, SupplyingBegins
    <2>3. CASE ~server.found
      BY <1>2, <2>1, <2>3, AskingBegins
    <2> QED
      BY <2>2, <2>3
  <1>6. (outcome = <<>>)'
    BY <1>2
  <1> QED
    BY <1>2, <1>3, <1>4, <1>5, <1>6 DEF Undisturbed, Underway

LEMMA UndisturbedServer == IInv /\ Undisturbed /\ Server => Undisturbed'
  <1> SUFFICES ASSUME IInv, Undisturbed, Server
               PROVE  Undisturbed'
    OBVIOUS
  <1>1. /\ UNCHANGED <<request, attempt, outcome, since, owed, patient, clean>>
        /\ executed' = executed \/ \E q \in Requests : executed' = Append(executed, q)
    <2>1. UNCHANGED <<request, attempt, outcome, since, owed, patient, clean>>
      BY DEF Server, ServerWaits, ServerRefuses, ServerServes, ServerTakes, call
    <2>2. /\ sent \in Seq(Requests) /\ toServer \in Seq(RequestByte(sent))
          /\ server \in ReaderOf(RequestByte(sent)) /\ Shape(server)
      BY DEF IInv, Bytes, Records
    <2>3. ASSUME NEW n \in Received(toServer, server), Accepted(n)
          PROVE  [method |-> MethodOf(n), data |-> DataOf(n)] \in Requests
      <3>1. n \in ReaderOf(RequestByte(sent))
        BY <2>2, Alphabets, NextRead
      <3>2. PICK j \in DOMAIN sent : [method |-> MethodOf(n), data |-> DataOf(n)] = sent[j]
        BY <2>2, <2>3, <3>1, ServerAccepts
      <3> QED
        BY <2>2, <3>2
    <2>4. executed' = executed \/ \E n \in Received(toServer, server) :
             /\ Accepted(n)
             /\ executed' = Append(executed, [method |-> MethodOf(n), data |-> DataOf(n)])
      BY DEF Server, ServerWaits, ServerRefuses, ServerServes
    <2> QED
      BY <2>1, <2>3, <2>4
  <1>2. since \in Nat /\ owed \in Nat
    BY DEF Undisturbed
  <1>3. ASSUME Underway, Supplying \/ Passing \/ Asking \/ Answering
        PROVE  Supplying' \/ Passing' \/ Asking' \/ Answering'
    <2>1. CASE Supplying
      BY <1>2, <2>1, SupplyingServer
    <2>2. CASE Passing
      BY <2>2, PassingServer
    <2>3. CASE Asking
      BY <1>2, <2>3, AskingServer
    <2>4. CASE Answering
      <3>1. toServer = <<>>
        BY <2>4 DEF Answering
      <3> QED
        BY <3>1 DEF Server, ServerWaits, ServerRefuses, ServerServes, Received
    <2> QED
      BY <1>3, <2>1, <2>2, <2>3, <2>4
  <1>4. ASSUME Fresh(outcome)
        PROVE  Fresh(outcome)'
    BY <1>1, <1>2, <1>4, StaysFresh
  <1>5. Wide' = Wide /\ Supplied' = Supplied
    BY <1>1, SameSupply
  <1> QED
    BY <1>1, <1>2, <1>3, <1>4, <1>5 DEF Undisturbed, Underway

LEMMA UndisturbedClient == IInv /\ Undisturbed /\ Client => Undisturbed'
  <1> SUFFICES ASSUME IInv, Undisturbed, Client
               PROVE  Undisturbed'
    OBVIOUS
  <1>1. /\ UNCHANGED <<request, since, owed, patient, clean>> /\ outcome = <<>>
        /\ toClient # <<>>
    BY DEF Client, ClientWaits, ClientRefuses, ClientAccepts, ClientTakes, Received,
           Underway
  <1>2. since \in Nat /\ owed \in Nat
    BY DEF Undisturbed
  <1>3. ASSUME patient, clean
        PROVE  /\ Supplied' < owed' + Wide'
               /\ \/ outcome' = <<>> /\ Answering'
                  \/ outcome' # <<>> /\ Fresh(outcome)'
    <2>1. Supplied < owed + Wide /\ (Supplying \/ Passing \/ Asking \/ Answering)
      BY <1>1, <1>3 DEF Undisturbed, Underway
    <2>2. Answering
      BY <1>1, <2>1 DEF Supplying, Passing, Asking
    <2>3. /\ attempt' = attempt
          /\ \/ outcome' = <<>> /\ Answering'
             \/ outcome' # <<>> /\ Fresh(outcome)'
      BY <1>2, <2>2, AnsweringClient
    <2>4. Wide' = Wide /\ Supplied' = Supplied
      BY <1>1, <2>3, SameSupply
    <2> QED
      BY <1>1, <2>1, <2>3, <2>4
  <1> QED
    BY <1>1, <1>2, <1>3 DEF Undisturbed, Underway

LEMMA UndisturbedTimeout ==
    ASSUME IInv, Undisturbed, ClientTimeout
    PROVE  Undisturbed'
  <1>1. /\ UNCHANGED <<toClient, server, request, executed, since, owed, patient, clean>>
        /\ Underway /\ Retry /\ (patient => toServer = <<>> /\ toClient = <<>>)
    BY DEF ClientTimeout
  <1>2. since \in Nat /\ owed \in Nat
    BY DEF Undisturbed
  <1>3. ASSUME patient, clean
        PROVE  /\ Supplied' < owed' + Wide'
               /\ \/ outcome' = <<>> /\ (Supplying' \/ Asking')
                  \/ outcome' = <<"exhausted">> /\ attempt' = MaxRetries
    <2>1. Supplying \/ Passing
      BY <1>1, <1>2, <1>3, LinesBusy DEF Undisturbed
    <2> QED
      BY <1>1, <1>2, <1>3, <2>1, QuietRetry
  <1>4. <<>> # <<"exhausted">>
    OBVIOUS
  <1> QED
    BY <1>1, <1>2, <1>3, <1>4 DEF Undisturbed, Underway

LEMMA UndisturbedStep == IInv /\ Undisturbed /\ [Next]_vars => Undisturbed'
  <1> SUFFICES ASSUME IInv, Undisturbed, [Next]_vars
               PROVE  Undisturbed'
    OBVIOUS
  <1>1. CASE Lose
    <2>1. UNCHANGED <<since, owed>> /\ clean' = FALSE
      BY <1>1 DEF Lose
    <2> QED
      BY <2>1 DEF Undisturbed
  <1>2. CASE UNCHANGED vars
    BY <1>2 DEF vars, Undisturbed, Supplying, Passing, Asking, Answering, Fresh, Underway,
                Supplied, Wide
  <1> QED
    BY <1>1, <1>2, UndisturbedServer, UndisturbedClient, UndisturbedTimeout,
       UndisturbedCall DEF Next

(* A call that finds both lines quiet and loses no byte, made by a patient  *)
(* host, returns the answer to it, at the first attempt if the board hunts  *)
(* for a header.  If an earlier loss has left the board in the middle of a  *)
(* frame, the attempts that fail are no longer together than what it may    *)
(* still take for that frame and one request less a byte; the call fails    *)
(* only when those are all its attempts.  This holds for all requests,      *)
(* handlers and buffers and any number of calls, attempts and losses.       *)
THEOREM CleanCalls == Spec => []CleanCallAnswered
  <1>1. Undisturbed => CleanCallAnswered
    BY DEF Undisturbed, CleanCallAnswered, Supplied, Wide
  <1> QED
    BY <1>1, Inductive, UndisturbedInitially, UndisturbedStep, PTL DEF Spec
==============================================================================
