---------------------------- MODULE MCNvmAppend ----------------------------
(***************************************************************************)
(* Small instances of NvmAppend: the schema, the security record and one   *)
(* more key, two payloads, a bank of four records, so that three writes    *)
(* force a compaction of two or three live records.                        *)
(***************************************************************************)
EXTENDS NvmAppend

CONSTANTS schema, sec, app, v1, v2

MCKeys == {schema, sec, app}
MCVals == {v1, v2}
MCWrites == {<<sec, v1>>, <<sec, v2>>, <<app, v1>>}
MCCap == 4

=============================================================================
