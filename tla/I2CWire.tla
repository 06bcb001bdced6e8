------------------------------ MODULE I2CWire ------------------------------
(***************************************************************************)
(* What the I2C master puts on the bus, against the transcripts that the   *)
(* comments of io/i2c_reg.c give of its transactions, for instance         *)
(*   [S] [Addr W|A] [Reg|A] [S] [Addr|R] [Data|N] [P]                      *)
(* (i2c_reg.c:23), and what a complete transaction therefore means.        *)
(***************************************************************************)
EXTENDS I2CMaster, SequencesExt

(* The transactions of the register helpers.                                *)
DetectMsgs == <<WriteMsg(0)>>
RegReadMsgs == <<WriteMsg(1), ReadMsg(1)>>
RegWriteMsgs == <<WriteMsg(2)>>
RegReadMultipleMsgs(len) == <<WriteMsg(1), ReadMsg(len)>>

(* One message: START or repeated START, address, bytes.  The slave         *)
(* acknowledges what is sent to it, the master every byte it reads but the  *)
(* last.                                                                    *)
FrameTranscript(t, i) ==
    LET m == Msgs[t][i] IN
    << IF i = 1 THEN <<"S">> ELSE <<"Sr">>, <<"A", m.read, TRUE>> >>
        \o [k \in 1 .. m.len |-> IF m.read THEN <<"R", i - 1, k - 1, k < m.len>>
                                           ELSE <<"W", i - 1, k - 1, TRUE>>]

Transcript(t) == FlattenSeq([i \in 1 .. Count(t) |-> FrameTranscript(t, i)])

(* Whether the slave refused this.                                          *)
Refused(event) == event[1] \in {"A", "W"} /\ ~Last(event)
Asked(event) == IF event[1] \in {"A", "W"} THEN Front(event) ELSE event
AskedOf(s) == [k \in DOMAIN s |-> Asked(s[k])]

(* From START to STOP the bus only ever sees the active transaction, its    *)
(* messages in order and every byte once, whatever was refused and retried  *)
(* before; after a NACK nothing follows but the STOP.                       *)
WireFollowsTransaction ==
    wire # <<>> /\ "STO" \notin con =>
        /\ active # NULL
        /\ IsPrefix(AskedOf(wire), AskedOf(Transcript(active)))
        /\ \A k \in 1 .. Len(wire) - 1 : ~Refused(wire[k])

Completes(t, e) == ~complete[t] /\ complete'[t] /\ error'[t] = e

Delivered(t) ==
    UNION {{<<i - 1, k - 1, <<"R", i - 1, k - 1>>>> : k \in 1 .. Msgs[t][i].len} :
              i \in {j \in 1 .. Count(t) : Msgs[t][j].read}}

(* A transaction that is complete without error went over the bus in full,  *)
(* every byte acknowledged as it should, and each byte that was read lies   *)
(* in its own place of its own buffer.                                      *)
SuccessMeansTransferred ==
    [][\A t \in Transaction :
          Completes(t, "ok") => wire = Transcript(t) /\ buf'[t] = Delivered(t)]_vars

(* I2C_ERROR_TIMEOUT says that the first address was refused on the first   *)
(* attempt and on I2C_NUM_RETRIES more, counted afresh per transaction;     *)
(* I2C_ERROR_NACK, that something later was refused, which is never tried   *)
(* again; the other two, that the controller reported such a fault.         *)
ErrorMeansFailure ==
    [][\A t \in Transaction :
          /\ Completes(t, "timeout") =>
                /\ attempts = NumRetries + 1
                /\ wire = << <<"S">>, <<"A", Msgs[t][1].read, FALSE>> >>
          /\ Completes(t, "nack") => Len(wire) > 2 /\ Refused(Last(wire))
          /\ Completes(t, "arbitration") => stat = "0x38"
          /\ Completes(t, "unknown") => stat = "0x00"]_vars
============================================================================
