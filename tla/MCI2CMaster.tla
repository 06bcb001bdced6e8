---------------------------- MODULE MCI2CMaster ----------------------------
(* Small instance of I2CMaster: three transactions at a time, as in         *)
(* test_i2c.c, reduced to their shapes.                                     *)
EXTENDS I2CMaster, TLC

CONSTANTS t1, t2, t3
AsyncTransaction == {t1, t2, t3}
AsyncMsgs ==
    (t1 :> <<WriteMsg(1), ReadMsg(1)>>) @@
    (t2 :> <<WriteMsg(0)>>) @@
    (t3 :> <<ReadMsg(2)>>)
============================================================================
