------------------------------ MODULE MCIsoTp ------------------------------
(***************************************************************************)
(* Small instances of IsoTp: an ECU that sends a long and a short message, *)
(* and a tester that sends one; blocks of two frames towards the tester,   *)
(* a sequence number that wraps at 3.                                      *)
(***************************************************************************)
EXTENDS IsoTp, TLC

CONSTANTS ecu, tester, long, short, ask, load

MCNodes == {ecu, tester}
MCMsgs == {long, short, ask, load}
MCPlans == {ecu :> {long, short} @@ tester :> {m} : m \in {ask, load}}
MCCells == long :> 4 @@ short :> 3 @@ ask :> 1 @@ load :> 5
MCBlockSize == ecu :> 0 @@ tester :> 2
MCStMin == ecu :> 0 @@ tester :> 1

=============================================================================
