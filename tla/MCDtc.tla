------------------------------- MODULE MCDtc -------------------------------
(***************************************************************************)
(* A small instance of Dtc: two trouble codes, both in the mirror, and one *)
(* status bit, hence two records.  Nothing else is bounded.                *)
(***************************************************************************)
EXTENDS Dtc

CONSTANTS d1, d2

MCTable == <<d1, d2>>
MCPersistMax == 2
MCBits == {"failed"}
MCRecordOrder == <<<<"first", "failed">>, <<"recent", "failed">>>>

=============================================================================
