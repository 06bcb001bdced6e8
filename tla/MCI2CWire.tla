----------------------------- MODULE MCI2CWire -----------------------------
(* Small instance of I2CWire: one transaction at a time, as i2c_transfer    *)
(* issues them, of every shape found in io/i2c_reg.c, and two longer ones.  *)
EXTENDS I2CWire

CONSTANTS detect, reg_read, reg_write, read_multiple, write_write, combined
SyncTransaction ==
    {detect, reg_read, reg_write, read_multiple, write_write, combined}
SyncMsgs ==
    (detect :> DetectMsgs) @@
    (reg_read :> RegReadMsgs) @@
    (reg_write :> RegWriteMsgs) @@
    (read_multiple :> RegReadMultipleMsgs(3)) @@
    (write_write :> RegWriteMsgs \o RegWriteMsgs) @@
    (combined :> RegReadMsgs \o RegReadMultipleMsgs(2))
============================================================================
