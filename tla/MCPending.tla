------------------------------ MODULE MCPending ------------------------------
(***************************************************************************)
(* A small instance of Pending.  P2* of 6 ms and an S3 of 5 ms give a      *)
(* keep-alive every 2 ms (S3 / 2); jobs with steps shorter than that, of   *)
(* about that, and the longest that still fits P2* are tried; the cap of   *)
(* 9 ms is reached by several short steps or in the middle of a long one.  *)
(***************************************************************************)
EXTENDS Pending

MCP2Star == 6
MCS3 == 5
MCMaxPending == 9
MCClockMax == 15
MCStepMaxes == {1, 2, 3, 5, 6}

=============================================================================
