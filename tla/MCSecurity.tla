----------------------------- MODULE MCSecurity -----------------------------
(***************************************************************************)
(* Small instances of Security.  Two seed levels and an unsupported one    *)
(* (sub-function 5), the keys of both, a key for no level at all (0); a    *)
(* lockout of 3 ms, so that it can be cut by a power loss at its start, in *)
(* the middle and at its last tick; Forever (UINT32_MAX) only has to be    *)
(* longer than that.                                                       *)
(***************************************************************************)
EXTENDS Security

MCSubFunctions == {0, 1, 2, 3, 4, 5}
MCSeedLevels == {1, 3}
MCMaxAttempts == 3
MCLockoutMs == 3
MCForever == 5

=============================================================================
