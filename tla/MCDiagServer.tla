---------------------------- MODULE MCDiagServer ----------------------------
(***************************************************************************)
(* Small instances of DiagServer: level 1 (the one the access table asks   *)
(* for) and level 3, two attempts, a lockout of 2 ms, S3 of 3 ms: long     *)
(* enough for requests, ticks and a timeout to fall in every order around  *)
(* an unlock and a lockout.                                                *)
(***************************************************************************)
EXTENDS DiagServer

MCSeedLevels == {1, 3}
MCSubFunctions == {1, 2, 3, 4}
MCMaxAttempts == 2
MCLockoutMs == 2
MCForever == 2
MCS3Ms == 3
MCCommModes == {"ENABLE_RX_TX", "DISABLE_RX_TX"}

=============================================================================
