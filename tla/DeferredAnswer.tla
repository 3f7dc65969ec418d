--------------------------- MODULE DeferredAnswer ---------------------------
(***************************************************************************)
(* What the server promises a tester whose request it answered with        *)
(* NRC 0x78 (core/uds_server.h:110-166, 395-450): the work is carried out  *)
(* or given up, then one final answer follows, unless the session ends     *)
(* first; and one of the two does happen.                                  *)
(***************************************************************************)

VARIABLE phase      \* "idle", "working" or "owing" (only the answer is missing)

Init == phase = "idle"

Accept == phase = "idle" /\ phase' = "working"
Finish == phase = "working" /\ phase' = "owing"
Answer == phase = "owing" /\ phase' = "idle"
Drop   == phase # "idle" /\ phase' = "idle"     \* the session ended

Next == Accept \/ Finish \/ Answer \/ Drop

Spec == Init /\ [][Next]_phase

FairSpec == Spec /\ WF_phase(Finish \/ Answer \/ Drop)

=============================================================================
