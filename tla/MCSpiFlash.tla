----------------------------- MODULE MCSpiFlash -----------------------------
(* Small instances of SpiFlash: two sectors of two pages of two bytes.      *)
EXTENDS SpiFlash

(* Every call, to places past the capacity too, whose end does not wrap     *)
(* around the word.                                                         *)
AllCalls == {<<a, n>> \in (0 .. 9) \X (0 .. 9) : a + n < Word}

(* One byte into either of the two sectors.                                 *)
OneByteCalls == {<<0, 1>>, <<4, 1>>}

(* From the second sector as far as an address goes.                        *)
ToTheEndOfMemory == {<<SectorSize, Word - SectorSize>>}
=============================================================================
