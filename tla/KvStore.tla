------------------------------ MODULE KvStore ------------------------------
(***************************************************************************)
(* What a caller of platform/nvm_store.h may rely on across power losses   *)
(* with the append-only store behind it: a dictionary.  A write or a       *)
(* delete takes effect at one instant or not at all, and a fault outside   *)
(* of a reclamation takes nothing away.  Two windows are left open: while  *)
(* the store reclaims its flash a fault may leave anything, and a store    *)
(* that went on over a misread or torn flash is "broken" until its next    *)
(* boot.                                                                   *)
(***************************************************************************)
EXTENDS Naturals

CONSTANTS Keys, Vals, None, Kept      \* Kept: the keys an erase-all leaves alone

VARIABLES
    kv,         \* what the next boot would find
    goal,       \* what the reclamation under way has to leave, None outside of one
    mode,       \* "whole", "torn" (a fault cut a write) or "broken"
    faults      \* faults so far

kvVars == <<kv, goal, mode, faults>>

Store == [Keys -> Vals \cup {None}]

Empty == [k \in Keys |-> None]

Sound == goal = None /\ mode # "broken"

Init == kv = Empty /\ goal = None /\ mode = "whole" /\ faults = 0

\* A write or a delete: one key changes.
Put ==
    /\ Sound
    /\ UNCHANGED <<goal, mode, faults>>
    /\ kv' \in Store
    /\ \E k \in Keys : \A j \in Keys \ {k} : kv'[j] = kv[j]

\* A power loss or a flash error outside of a reclamation changes no content.
Fault ==
    /\ Sound
    /\ faults' > faults
    /\ mode' \in {mode, "torn"}
    /\ UNCHANGED <<kv, goal>>

\* A reclamation has to keep everything, or (erase-all) only the kept keys;
\* what a boot would find meanwhile is open.
Reclaim ==
    /\ Sound
    /\ goal' \in {kv, [k \in Keys |-> IF k \in Kept THEN kv[k] ELSE None]}
    /\ kv' \in Store
    /\ mode' \in {"whole", "torn"}
    /\ UNCHANGED faults

Shuffle ==
    /\ goal # None
    /\ kv' \in Store
    /\ mode' \in {"whole", "torn"}
    /\ UNCHANGED <<goal, faults>>

Reclaimed ==
    goal # None /\ kv' = goal /\ goal' = None /\ mode' = "whole" /\ UNCHANGED faults

\* A fault ends it with whatever the flash holds then.
Interrupted == goal # None /\ faults' > faults /\ kv' \in Store /\ goal' = None

\* A write over a torn one, or a boot that misreads the flash.
Break ==
    /\ goal = None
    /\ mode = "torn" \/ faults' > faults
    /\ mode' = "broken"
    /\ UNCHANGED <<kv, goal>>

Broken == mode = "broken" /\ kv' \in Store

Next ==
    \/ Put \/ Fault \/ Reclaim \/ Shuffle \/ Reclaimed \/ Interrupted \/ Break \/ Broken

Spec == Init /\ [][Next]_kvVars

=============================================================================
