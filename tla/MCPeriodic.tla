----------------------------- MODULE MCPeriodic -----------------------------
(***************************************************************************)
(* A small instance of Periodic: three slots for four identifiers, one of  *)
(* them secured and one that only a later session has; the fast interval   *)
(* is the number of slots, which is tighter than the code's 10 ms for 8.   *)
(***************************************************************************)
EXTENDS Periodic

CONSTANTS i1, i2, i3, i4, fast, slow

MCIds == {i1, i2, i3, i4}
MCMinSession == [i \in MCIds |-> IF i = i4 THEN 3 ELSE 2]
MCSecured == {i1}
MCRequests == {<<i4, i2>>, <<i3, i1, i2>>}
MCModes == {fast, slow}
MCInterval == [m \in MCModes |-> IF m = fast THEN 3 ELSE 4]
MCSessions == 1..3

=============================================================================
