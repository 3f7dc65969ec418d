--------------------------- MODULE PeriodicProofs ---------------------------
(***************************************************************************)
(* Proofs about Periodic.  The argument for NoPeriodLost is about a busy   *)
(* stretch: the turns since a slot came due while none was.  Every turn    *)
(* serves one slot, and within as many turns as there are slots no slot    *)
(* comes due twice, so a stretch is over before that.                      *)
(***************************************************************************)
EXTENDS Periodic, FiniteSetTheorems, WellFoundedInduction, TLAPS

USE SlotsAssumption, IntervalAssumption, SessionAssumption

\* No interval is shorter than the number of slots.
Roomy == \A m \in Modes : Slots <= Interval[m]

\* F are the slots that came due in the stretch so far, turn is the number of its
\* turns, the current one included: each of them serves a slot, and the counter of a
\* slot that came due in it has been counting for no longer.
Stretch(F, turn) ==
    /\ Due \subseteq F
    /\ IF draining /\ room > 0 THEN Cardinality(F \ Due) + 1 >= turn
                               ELSE Cardinality(F \ Due) >= turn
    /\ \A i \in F : i \in Active => subs[i].counter + turn > Slots

Busy == calm /\ Roomy /\ Due # {} => \E F \in SUBSET (1..Slots), turn \in Nat : Stretch(F, turn)

IInv == TypeOK /\ QuietInDefault /\ Busy

-----------------------------------------------------------------------------
\* A set of slots has a first one.
LEMMA FirstOf ==
    ASSUME NEW S \in SUBSET (1..Slots), S # {}
    PROVE First(S) \in S
<1> DEFINE Less == {pair \in Nat \X Nat : pair[1] < pair[2]}
<1>1. PICK x \in S : \A y \in S : <<y, x>> \notin Less
  <2>1. IsWellFoundedOn(Less, Nat) BY NatLessThanWellFounded, SMT DEF OpToRel
  <2>2. S \subseteq Nat OBVIOUS
  <2> HIDE DEF Less
  <2> QED BY <2>1, <2>2, WFMin
<1>2. ASSUME NEW y \in S, y < x PROVE FALSE
  <2>1. /\ <<y, x>> \in Nat \X Nat
        /\ <<y, x>>[1] = y /\ <<y, x>>[2] = x
    OBVIOUS
  <2>2. <<y, x>> \in Less BY <1>2, <2>1, Zenon
  <2> QED BY <1>1, <2>2, Zenon
<1>3. \A y \in S : x <= y
  BY <1>2
<1> QED BY <1>3 DEF First

\* Sets of slots are finite, and smaller than all the slots if one is missing.
LEMMA Sizes ==
    ASSUME NEW F \in SUBSET (1..Slots)
    PROVE /\ IsFiniteSet(F) /\ Cardinality(F) \in Nat
          /\ \A i \in 1..Slots : i \notin F => Cardinality(F) < Slots
          /\ \A G \in SUBSET F : Cardinality(G) \in Nat /\ Cardinality(G) <= Cardinality(F)
          /\ \A i \in F : Cardinality(F \ {i}) + 1 = Cardinality(F)
<1>1. IsFiniteSet(1..Slots) /\ Cardinality(1..Slots) = Slots
  BY FS_Interval
<1>2. IsFiniteSet(F) /\ Cardinality(F) \in Nat
  BY <1>1, FS_Subset, FS_CardinalityType
<1>3. ASSUME NEW i \in 1..Slots, i \notin F PROVE Cardinality(F) < Slots
  <2>1. IsFiniteSet((1..Slots) \ {i}) /\ Cardinality((1..Slots) \ {i}) = Slots - 1
    <3>1. /\ IsFiniteSet((1..Slots) \ {i})
          /\ Cardinality((1..Slots) \ {i}) =
                IF i \in 1..Slots THEN Cardinality(1..Slots) - 1 ELSE Cardinality(1..Slots)
      BY ONLY <1>1, FS_RemoveElement
    <3> QED BY <1>1, <3>1
  <2>2. F \in SUBSET ((1..Slots) \ {i}) BY <1>3
  <2>3. Cardinality(F) <= Cardinality((1..Slots) \ {i}) BY ONLY <2>1, <2>2, FS_Subset
  <2> QED BY <1>2, <2>1, <2>3
<1>4. ASSUME NEW G \in SUBSET F
      PROVE Cardinality(G) \in Nat /\ Cardinality(G) <= Cardinality(F)
  BY <1>2, FS_Subset, FS_CardinalityType
<1>5. ASSUME NEW i \in F PROVE Cardinality(F \ {i}) + 1 = Cardinality(F)
  <2>1. Cardinality(F \ {i}) = Cardinality(F) - 1 BY <1>2, FS_RemoveElement
  <2> QED BY <1>2, <2>1
<1> QED BY <1>2, <1>3, <1>4, <1>5

\* While slots are due, a slot of the stretch does not come due again.
LEMMA NotAgain ==
    ASSUME TypeOK, ~draining, NEW F \in SUBSET (1..Slots), NEW turn \in Nat, Stretch(F, turn),
           Due # {}, NEW i \in F, i \in Active
    PROVE subs[i].counter > 1
<1>1. PICK k \in Due : TRUE OBVIOUS
<1>2. k \in 1..Slots /\ k \notin F \ Due BY DEF Due, Active
<1>3. Cardinality(F \ Due) < Slots /\ Cardinality(F \ Due) \in Nat BY <1>2, Sizes
<1>4. turn < Slots BY <1>3 DEF Stretch
<1>5. subs[i].counter \in Nat BY DEF TypeOK, Slot
<1>6. subs[i].counter + turn > Slots BY DEF Stretch
<1> QED BY <1>4, <1>5, <1>6

-----------------------------------------------------------------------------
LEMMA InitIInv == Init => IInv
<1> SUFFICES ASSUME Init PROVE IInv OBVIOUS
<1>1. Active = {} /\ Due = {} BY DEF Init, Active, Due, Free
<1>2. TypeOK BY <1>1 DEF Init, TypeOK, Slot, Free
<1> QED BY <1>1, <1>2 DEF IInv, QuietInDefault, Busy

\* A change that leaves no slot due and none active in the default session.
LEMMA NoneDueLeft ==
    ASSUME TypeOK', Due' = {}, session' = Default => Active' = {}
    PROVE IInv'
BY DEF IInv, QuietInDefault, Busy

LEMMA StartOK ==
    ASSUME IInv, NEW order \in Requests, NEW mode \in Modes, Start(order, mode)
    PROVE IInv'
<1> USE DEF IInv
<1> DEFINE asked == {k \in DOMAIN order : InSession(order[k])}
           ids   == {order[k] : k \in asked}
<1>1. /\ ~draining /\ (calm => Due = {}) /\ session # Default /\ calm' = calm
      /\ UNCHANGED <<session, unlocked, draining, room, calm>>
      /\ subs' = Subscribed(order, asked, mode) \/ subs' = subs
  BY DEF Start, MayAsk
<1>2. CASE subs' = subs
  <2>1. Active' = Active /\ Due' = Due BY <1>2 DEF Active, Due
  <2>2. TypeOK' BY <1>1, <1>2, <2>1 DEF TypeOK
  <2> QED BY <1>1, <1>2, <2>1, <2>2 DEF QuietInDefault, Busy, Stretch
<1>3. CASE subs' = Subscribed(order, asked, mode)
  <2> DEFINE free == 1..Slots \ Active
             new  == {k \in asked : order[k] \notin {subs[i].id : i \in Active}}
             Takes(k, i) == i \in free /\ Rank(new, k) = Rank(free, i)
  <2>0. \A k \in DOMAIN order : order[k] \in Ids BY RequestsAssumption
  <2>1. \A id \in Ids : /\ Begun(id, mode) \in Slot /\ ~Begun(id, mode).due
                        /\ Begun(id, mode).interval = Interval[mode]
    BY DEF Begun, Slot
  <2>2. subs' = [i \in 1..Slots |->
                   IF subs[i].id \in ids THEN Begun(subs[i].id, mode)
                   ELSE IF \E k \in new : Takes(k, i)
                        THEN Begun(order[CHOOSE k \in new : Takes(k, i)], mode)
                   ELSE subs[i]]
    BY <1>3 DEF Subscribed
  <2>3. ASSUME NEW i \in 1..Slots
        PROVE \/ subs'[i] = subs[i]
              \/ \E id \in Ids : subs'[i] = Begun(id, mode)
    <3> HIDE DEF Takes
    <3>1. CASE subs[i].id \in ids BY <2>0, <2>2, <3>1
    <3>2. CASE subs[i].id \notin ids /\ \E k \in new : Takes(k, i)
      <4>1. (CHOOSE k \in new : Takes(k, i)) \in new BY <3>2
      <4>2. order[CHOOSE k \in new : Takes(k, i)] \in Ids BY <2>0, <4>1
      <4> QED BY <2>2, <3>2, <4>2
    <3>3. CASE subs[i].id \notin ids /\ ~\E k \in new : Takes(k, i) BY <2>2, <3>3
    <3> QED BY <3>1, <3>2, <3>3
  <2> HIDE DEF asked, ids, free, new, Takes
  <2>4. TypeOK'
    <3>1. subs' \in [1..Slots -> Slot]
      <4>1. \A i \in 1..Slots : subs'[i] \in Slot BY <2>1, <2>3 DEF TypeOK
      <4>2. subs' = [i \in 1..Slots |-> subs'[i]] BY <2>2
      <4> QED BY <4>1, <4>2
    <3>2. \A i \in Active' : subs'[i].interval \in {Interval[m] : m \in Modes}
      BY <2>1, <2>3 DEF TypeOK, Active
    <3> QED BY <1>1, <3>1, <3>2 DEF TypeOK
  <2>5. Busy'
    <3>1. CASE calm
      <4>1. Due' = {} BY <1>1, <2>1, <2>3, <3>1 DEF Due, Active
      <4> QED BY <4>1 DEF Busy
    <3>2. CASE ~calm BY <1>1, <3>2 DEF Busy
    <3> QED BY <3>1, <3>2
  <2> QED BY <1>1, <2>4, <2>5 DEF QuietInDefault
<1> QED BY <1>1, <1>2, <1>3

\* What unsubscribing leaves.
LEMMA WithoutOK ==
    ASSUME TypeOK, NEW S, subs' = Without(S)
    PROVE /\ subs' \in [1..Slots -> Slot]
          /\ Active' \subseteq Active /\ Due' \subseteq Due
          /\ \A i \in Active' : subs'[i] = subs[i]
          /\ S = Ids => Active' = {}
<1>1. Free \in Slot /\ Free.id = None BY DEF Free, Slot
<1>2. \A i \in 1..Slots : subs[i] \in Slot /\ subs[i].id \in Ids \cup {None}
  BY DEF TypeOK, Slot
<1>3. /\ subs' \in [1..Slots -> Slot]
      /\ \A i \in 1..Slots : subs'[i] = IF subs[i].id \in S THEN Free ELSE subs[i]
  BY <1>1, <1>2 DEF Without
<1>4. \A i \in Active' : i \in Active /\ subs'[i] = subs[i]
  BY <1>1, <1>3 DEF Active
<1>5. S = Ids => Active' = {}
  BY <1>1, <1>2, <1>3 DEF Active
<1> QED BY <1>3, <1>4, <1>5 DEF Due

LEMMA StopOK ==
    ASSUME IInv, NEW S, Stop(S) PROVE IInv'
<1>1. /\ subs' = Without(IF S = {} THEN Ids ELSE S) /\ (calm => Due = {})
      /\ session # Default /\ UNCHANGED <<session, unlocked, draining, room, calm>>
  BY DEF Stop, MayAsk
<1>2. /\ subs' \in [1..Slots -> Slot] /\ Due' \subseteq Due /\ Active' \subseteq Active
      /\ \A i \in Active' : subs'[i] = subs[i]
  BY <1>1, WithoutOK DEF IInv
<1>3. TypeOK' BY <1>1, <1>2 DEF IInv, TypeOK
<1>4. Busy' BY <1>1, <1>2 DEF Busy
<1> QED BY <1>1, <1>3, <1>4 DEF IInv, QuietInDefault

LEMMA ChangeSessionOK ==
    ASSUME IInv, NEW new \in Sessions, ChangeSession(new) PROVE IInv'
<1>1. /\ (calm => Due = {}) /\ session' = new /\ unlocked' = FALSE
      /\ subs' = IF new = Default THEN Without(Ids) ELSE subs
      /\ UNCHANGED <<draining, room, calm>>
  BY DEF ChangeSession, SessionChanged, MayAsk
<1>2. CASE new = Default
  <2>1. /\ subs' \in [1..Slots -> Slot] /\ Active' = {}
    BY <1>1, <1>2, WithoutOK DEF IInv
  <2>2. TypeOK' BY <1>1, <2>1 DEF IInv, TypeOK
  <2>3. Due' = {} BY <2>1 DEF Due
  <2> QED BY <2>1, <2>2, <2>3, NoneDueLeft
<1>3. CASE new # Default
  <2>1. Active' = Active /\ Due' = Due BY <1>1, <1>3 DEF Active, Due
  <2>2. TypeOK' BY <1>1, <1>3, <2>1 DEF IInv, TypeOK
  <2> QED BY <1>1, <1>3, <2>1, <2>2 DEF IInv, QuietInDefault, Busy
<1> QED BY <1>2, <1>3

LEMMA UnlockOK == ASSUME IInv, Unlock PROVE IInv'
<1>1. /\ UNCHANGED <<subs, session, draining, room, calm>> /\ unlocked' = TRUE
  BY DEF Unlock
<1>2. Active' = Active /\ Due' = Due BY <1>1 DEF Active, Due
<1>3. TypeOK' BY <1>1, <1>2 DEF IInv, TypeOK
<1> QED BY <1>1, <1>2, <1>3 DEF IInv, QuietInDefault, Busy, Stretch

\* A tick begins a turn: of a new stretch, or of the one that goes on.
LEMMA TickOK == ASSUME IInv, Tick PROVE IInv'
<1> USE DEF IInv
<1>1. /\ ~draining /\ draining' = TRUE /\ room' \in Nat /\ (calm => room' > 0)
      /\ UNCHANGED <<session, unlocked, calm>>
      /\ subs' = [i \in 1..Slots |-> Ticked(subs[i])]
  BY DEF Tick
<1> DEFINE fired == {i \in Active : Fires(subs[i])}
<1>2. \A i \in 1..Slots : subs[i] \in Slot BY DEF TypeOK
<1>3. ASSUME NEW s \in Slot
      PROVE /\ Ticked(s) \in Slot /\ Ticked(s).id = s.id /\ Ticked(s).interval = s.interval
            /\ s.id # None /\ Fires(s) => Ticked(s).due /\ Ticked(s).counter = s.interval
            /\ s.id # None /\ ~Fires(s) =>
                  Ticked(s).due = s.due /\ Ticked(s).counter + 1 = s.counter
            /\ s.id = None => Ticked(s) = s
  <2>1. CASE s.id = None BY <2>1 DEF Ticked
  <2>2. CASE s.id # None /\ Fires(s) BY <2>2 DEF Ticked, Slot
  <2>3. CASE s.id # None /\ ~Fires(s)
    <3>1. s.counter \in Nat /\ s.counter - 1 \in Nat BY <2>3 DEF Fires, Slot
    <3>2. Ticked(s) = [s EXCEPT !.counter = s.counter - 1] BY <2>3 DEF Ticked
    <3> QED BY <2>3, <3>1, <3>2 DEF Slot
  <2> QED BY <2>1, <2>2, <2>3
<1>4. /\ subs' \in [1..Slots -> Slot]
      /\ \A i \in 1..Slots : subs'[i] = Ticked(subs[i])
  BY <1>1, <1>2, <1>3
<1>5. Active' = Active BY <1>2, <1>3, <1>4 DEF Active
<1>6. Due' = Due \cup fired
  BY <1>2, <1>3, <1>4, <1>5 DEF Due, Active
<1>7. \A i \in Active : subs'[i].interval = subs[i].interval
  BY <1>2, <1>3, <1>4 DEF Active
<1>8. TypeOK' BY <1>1, <1>4, <1>5, <1>7 DEF TypeOK
<1>9. QuietInDefault' BY <1>1, <1>5 DEF QuietInDefault
<1>10. ASSUME calm, Roomy PROVE \E F \in SUBSET (1..Slots), turn \in Nat : Stretch(F, turn)'
  <2>0. draining' /\ room' > 0 BY <1>1, <1>10
  <2>1. \A i \in fired : subs'[i].counter >= Slots
    <3> SUFFICES ASSUME NEW i \in fired PROVE subs'[i].counter >= Slots OBVIOUS
    <3>1. subs'[i].counter = subs[i].interval BY <1>2, <1>3, <1>4 DEF Active
    <3>2. subs[i].interval >= Slots BY <1>10 DEF TypeOK, Roomy
    <3> QED BY <3>1, <3>2
  <2>2. CASE Due = {}
    <3>1. Due' \in SUBSET (1..Slots) /\ Due' = fired BY <1>6, <2>2 DEF Active
    <3>2. Cardinality(Due' \ Due') = 0 BY FS_EmptySet
    <3>3. \A i \in Due' : subs'[i].counter + 1 > Slots
      <4>1. \A i \in Due' : subs'[i].counter \in Nat BY <1>4, <3>1 DEF Slot
      <4> QED BY <2>1, <3>1, <4>1
    <3>4. Stretch(Due, 1)' BY <2>0, <3>2, <3>3 DEF Stretch
    <3> QED BY <3>1, <3>4
  <2>3. CASE Due # {}
    <3>1. PICK F \in SUBSET (1..Slots), turn \in Nat : Stretch(F, turn)
      BY <1>10, <2>3 DEF Busy
    <3>2. \A i \in F : i \in Active => subs[i].counter > 1 BY <1>1, <2>3, <3>1, NotAgain
    <3>3. fired \cap F = {}
      <4> SUFFICES ASSUME NEW i \in fired, i \in F PROVE FALSE OBVIOUS
      <4>1. i \in Active /\ subs[i].counter <= 1 BY DEF Fires
      <4>2. subs[i].counter \in Nat BY <1>2, <4>1 DEF Active, Slot
      <4>3. subs[i].counter > 1 BY <3>2, <4>1
      <4> QED BY <4>1, <4>2, <4>3
    <3>g. PICK G : G = F \cup fired OBVIOUS
    <3>4. G \in SUBSET (1..Slots) /\ G \ Due' = F \ Due /\ Due' \subseteq G
      <4>1. Due \subseteq F BY <3>1 DEF Stretch
      <4>2. fired \in SUBSET (1..Slots) BY DEF Active
      <4> QED BY <1>6, <3>g, <3>3, <4>1, <4>2
    <3>5. Cardinality(F \ Due) >= turn /\ Cardinality(F \ Due) \in Nat
      BY <1>1, <3>1, Sizes DEF Stretch
    <3>6. \A i \in G : i \in Active => subs'[i].counter + (turn + 1) > Slots
      <4> SUFFICES ASSUME NEW i \in G, i \in Active
                   PROVE subs'[i].counter + (turn + 1) > Slots
        OBVIOUS
      <4>1. subs'[i].counter \in Nat /\ subs[i].counter \in Nat
        BY <1>2, <1>4 DEF Active, Slot
      <4>2. CASE i \in fired BY <2>1, <4>1, <4>2
      <4>3. CASE i \notin fired
        <5>0. i \in F BY <3>g, <4>3
        <5>1. subs'[i].counter + 1 = subs[i].counter BY <1>2, <1>3, <1>4, <4>3 DEF Active
        <5>2. subs[i].counter + turn > Slots BY <3>1, <5>0 DEF Stretch
        <5> QED BY <4>1, <5>1, <5>2
      <4> QED BY <4>2, <4>3
    <3>7. Stretch(G, turn + 1)' BY <1>5, <2>0, <3>4, <3>5, <3>6 DEF Stretch
    <3> QED BY <3>4, <3>7
  <2> QED BY <2>2, <2>3
<1>11. Busy' BY <1>1, <1>10 DEF Busy, Roomy
<1> QED BY <1>8, <1>9, <1>11

LEMMA S3TickOK == ASSUME IInv, S3Tick PROVE IInv'
<1>1. /\ session' = Default /\ unlocked' = FALSE /\ draining' = TRUE /\ room' = 0
      /\ calm' = calm /\ subs' = Without(Ids)
  BY DEF S3Tick, SessionChanged
<1>2. subs' \in [1..Slots -> Slot] /\ Active' = {} BY <1>1, WithoutOK DEF IInv
<1>3. TypeOK' BY <1>1, <1>2 DEF IInv, TypeOK
<1>4. Due' = {} BY <1>2 DEF Due
<1> QED BY <1>2, <1>3, <1>4, NoneDueLeft

\* One slot of the stretch is served, or loses its subscription.
LEMMA OneLess ==
    ASSUME IInv, draining, draining', UNCHANGED <<session, unlocked, calm>>, Due # {},
           room' \in Nat,
           room' = room \/ (room > 0 /\ room' = room - 1),
           subs' = [subs EXCEPT ![First(Due)] = Free] \/ subs' = Served
    PROVE IInv'
<1> USE DEF IInv
<1> DEFINE k == First(Due)
<1>1. k \in Due /\ k \in 1..Slots
  <2>1. Due \in SUBSET (1..Slots) BY DEF Due, Active
  <2> QED BY <2>1, FirstOf
<1> HIDE DEF k
<1>2. /\ Free \in Slot /\ Free.id = None /\ [subs[k] EXCEPT !.due = FALSE] \in Slot
      /\ [subs[k] EXCEPT !.due = FALSE].id = subs[k].id
      /\ [subs[k] EXCEPT !.due = FALSE].interval = subs[k].interval
      /\ [subs[k] EXCEPT !.due = FALSE].counter = subs[k].counter
      /\ ~[subs[k] EXCEPT !.due = FALSE].due
  <2>1. subs[k] \in Slot BY <1>1 DEF TypeOK
  <2> QED BY <2>1 DEF Free, Slot
<1>3. /\ subs' \in [1..Slots -> Slot]
      /\ \A i \in (1..Slots) \ {k} : subs'[i] = subs[i]
      /\ subs'[k] = Free \/ subs'[k] = [subs[k] EXCEPT !.due = FALSE]
  BY <1>1, <1>2 DEF TypeOK, Served, k
<1>4. Due' = Due \ {k} /\ Active' \subseteq Active
  <2>1. \A i \in 1..Slots : i # k => subs'[i] = subs[i] BY <1>3
  <2>2. subs'[k].id = None \/ (subs'[k].id = subs[k].id /\ ~subs'[k].due) BY <1>2, <1>3
  <2>3. Active' \subseteq Active BY <1>1, <2>1, <2>2 DEF Active, Due
  <2>4. k \notin Due' BY <2>2 DEF Due, Active
  <2>5. \A i \in 1..Slots : i # k => (i \in Due' <=> i \in Due) BY <2>1 DEF Due, Active
  <2>6. Due \subseteq 1..Slots /\ Due' \subseteq 1..Slots BY DEF Due, Active
  <2> QED BY <2>3, <2>4, <2>5, <2>6
<1>5. \A i \in Active' : subs'[i].interval = subs[i].interval /\ subs'[i].counter = subs[i].counter
  BY <1>2, <1>3 DEF Active
<1>6. TypeOK' BY <1>3, <1>4, <1>5 DEF TypeOK
<1>7. ASSUME calm, Roomy PROVE \E F \in SUBSET (1..Slots), turn \in Nat : Stretch(F, turn)'
  <2>1. PICK F \in SUBSET (1..Slots), turn \in Nat : Stretch(F, turn) BY <1>7 DEF Busy
  <2>2. k \in F \ Due' /\ F \ Due = (F \ Due') \ {k} /\ Due' \subseteq F
    BY <1>1, <1>4, <2>1 DEF Stretch
  <2>3. F \ Due' \in SUBSET (1..Slots) OBVIOUS
  <2>4. Cardinality(F \ Due) + 1 = Cardinality(F \ Due') /\ Cardinality(F \ Due) \in Nat
    <3>1. Cardinality((F \ Due') \ {k}) + 1 = Cardinality(F \ Due') BY <2>2, <2>3, Sizes
    <3>2. F \ Due \in SUBSET (1..Slots) OBVIOUS
    <3> QED BY <2>2, <3>1, <3>2, Sizes
  <2>5. Cardinality(F \ Due) + 1 >= turn
    <3>1. CASE room > 0 BY <2>1, <3>1 DEF Stretch
    <3>2. CASE ~(room > 0) BY <2>1, <2>4, <3>2 DEF Stretch
    <3> QED BY <3>1, <3>2
  <2>6. Cardinality(F \ Due') >= turn BY <2>4, <2>5
  <2>7. Cardinality(F \ Due') + 1 >= turn BY <2>4, <2>5
  <2>8. \A i \in F : i \in Active' => subs'[i].counter + turn > Slots
    BY <1>4, <1>5, <2>1 DEF Stretch
  <2>9. Stretch(F, turn)' BY <2>2, <2>6, <2>7, <2>8 DEF Stretch
  <2> QED BY <2>9
<1>8. Busy' BY <1>7 DEF Busy, Roomy
<1>9. QuietInDefault' BY <1>4 DEF QuietInDefault
<1> QED BY <1>6, <1>8, <1>9

\* The driver refuses: in a calm run it has taken a frame in this turn.
LEMMA RefusedOK == ASSUME IInv, Refused PROVE IInv'
<1>1. /\ room = 0 /\ draining' = FALSE /\ UNCHANGED <<subs, session, unlocked, room, calm>>
  BY DEF Refused
<1>2. Active' = Active /\ Due' = Due BY <1>1 DEF Active, Due
<1>3. TypeOK' BY <1>1, <1>2 DEF IInv, TypeOK
<1>4. ASSUME NEW F, NEW turn, Stretch(F, turn) PROVE Stretch(F, turn)'
  BY <1>1, <1>2, <1>4 DEF Stretch
<1>5. Busy' BY <1>1, <1>2, <1>4 DEF IInv, Busy, Roomy
<1> QED BY <1>1, <1>2, <1>3, <1>5 DEF IInv, QuietInDefault

LEMMA NoneDueOK == ASSUME IInv, NoneDue PROVE IInv'
<1>1. /\ Due = {} /\ draining' = FALSE /\ room' = 0 /\ UNCHANGED <<subs, session, unlocked, calm>>
  BY DEF NoneDue
<1>2. Active' = Active /\ Due' = Due BY <1>1 DEF Active, Due
<1>3. TypeOK' BY <1>1, <1>2 DEF IInv, TypeOK
<1> QED BY <1>1, <1>2, <1>3 DEF IInv, QuietInDefault, Busy

LEMMA NextIInv == IInv /\ [Next]_vars => IInv'
<1> SUFFICES ASSUME IInv, [Next]_vars PROVE IInv' OBVIOUS
<1>1. ASSUME NEW order \in Requests, NEW mode \in Modes, Start(order, mode) PROVE IInv'
  BY <1>1, StartOK
<1>2. ASSUME NEW S, Stop(S) PROVE IInv' BY <1>2, StopOK
<1>3. ASSUME NEW new \in Sessions, ChangeSession(new) PROVE IInv' BY <1>3, ChangeSessionOK
<1>4. CASE Unlock BY <1>4, UnlockOK
<1>5. CASE Tick BY <1>5, TickOK
<1>6. CASE S3Tick BY <1>6, S3TickOK
<1>7. room \in Nat BY DEF IInv, TypeOK
<1>8. CASE PopDenied BY <1>7, <1>8, OneLess DEF PopDenied
<1>9. CASE PopUnread BY <1>7, <1>9, OneLess DEF PopUnread
<1>10. CASE Push
  <2>1. room' \in Nat BY <1>7, <1>10 DEF Push
  <2> QED BY <1>10, <2>1, OneLess DEF Push
<1>11. CASE Refused BY <1>11, RefusedOK
<1>12. CASE NoneDue BY <1>12, NoneDueOK
<1>13. CASE UNCHANGED vars
  <2>1. Active' = Active /\ Due' = Due BY <1>13 DEF vars, Active, Due
  <2> QED BY <1>13, <2>1 DEF vars, IInv, TypeOK, QuietInDefault, Busy, Stretch
<1> QED BY <1>1, <1>2, <1>3, <1>4, <1>5, <1>6, <1>8, <1>9, <1>10, <1>11, <1>12, <1>13 DEF Next

LEMMA Invariant == Spec => []IInv
<1>1. Init => IInv BY InitIInv
<1>2. IInv /\ [Next]_vars => IInv' BY NextIInv
<1> QED BY <1>1, <1>2, PTL DEF Spec

-----------------------------------------------------------------------------
(* A start request finds a slot for each of its identifiers: the ranks of  *)
(* those without a slot, in the order of the request, are ranks of free    *)
(* slots.                                                                  *)

\* Ranks count from one up to the size of a set and tell its members apart,
LEMMA RankOf ==
    ASSUME NEW n \in Nat, NEW S \in SUBSET (1..n), NEW i \in S
    PROVE /\ Rank(S, i) \in 1..Cardinality(S)
          /\ \A j \in S : Rank(S, i) = Rank(S, j) => i = j
<1> DEFINE upTo(j) == {x \in S : x <= j}
<1>1. /\ IsFiniteSet(S) /\ Cardinality(S) \in Nat
      /\ \A T \in SUBSET S : /\ IsFiniteSet(T) /\ Cardinality(T) \in Nat
                             /\ Cardinality(T) <= Cardinality(S)
  <2>1. IsFiniteSet(1..n) BY FS_Interval
  <2>2. IsFiniteSet(S) BY ONLY <2>1, S \in SUBSET (1..n), FS_Subset
  <2> QED BY ONLY <2>2, FS_Subset, FS_CardinalityType
<1>2. ASSUME NEW j \in S, NEW k \in S, j < k PROVE Rank(S, j) < Rank(S, k)
  <2>0. /\ \A x \in S : x <= j => x <= k /\ x # k
        /\ k <= k
    BY <1>2
  <2>1. upTo(j) \in SUBSET (upTo(k) \ {k}) /\ upTo(k) \in SUBSET S /\ k \in upTo(k)
    BY ONLY <2>0, k \in S
  <2> HIDE DEF upTo
  <2>2. /\ IsFiniteSet(upTo(k) \ {k}) /\ Cardinality(upTo(k) \ {k}) = Cardinality(upTo(k)) - 1
    BY <1>1, <2>1, FS_RemoveElement
  <2>3. Cardinality(upTo(j)) <= Cardinality(upTo(k) \ {k})
    BY ONLY <2>1, <2>2, FS_Subset
  <2>4. Cardinality(upTo(j)) \in Nat /\ Cardinality(upTo(k)) \in Nat
    <3>1. upTo(j) \in SUBSET S BY <2>1
    <3> QED BY ONLY <1>1, <2>1, <3>1
  <2> QED BY <2>2, <2>3, <2>4 DEF Rank, upTo
<1>3. Rank(S, i) \in 1..Cardinality(S)
  <2>1. upTo(i) \in SUBSET S /\ i \in upTo(i) OBVIOUS
  <2> HIDE DEF upTo
  <2>2. Cardinality(upTo(i)) # 0 BY <1>1, <2>1, FS_EmptySet
  <2> QED BY <1>1, <2>1, <2>2 DEF Rank, upTo
<1>4. ASSUME NEW j \in S, Rank(S, i) = Rank(S, j) PROVE i = j
  <2>1. Rank(S, i) \in Int /\ i \in Int /\ j \in Int BY <1>3
  <2> QED BY <1>2, <1>4, <2>1
<1> QED BY <1>3, <1>4

\* and each number up to the size is the rank of a member.
LEMMA RankedSo ==
    ASSUME NEW n \in Nat, NEW S \in SUBSET (1..n), NEW r \in 1..Cardinality(S)
    PROVE \E i \in S : Rank(S, i) = r
<1> DEFINE upTo(j) == {x \in S : x <= j}
           Enough == {j \in Nat : Cardinality(upTo(j)) >= r}
           Less == {pair \in Nat \X Nat : pair[1] < pair[2]}
<1>1. \A T \in SUBSET S : IsFiniteSet(T) /\ Cardinality(T) \in Nat
  <2>1. IsFiniteSet(1..n) BY FS_Interval
  <2>2. IsFiniteSet(S) BY ONLY <2>1, S \in SUBSET (1..n), FS_Subset
  <2> QED BY ONLY <2>2, FS_Subset, FS_CardinalityType
<1>2. \A j \in Nat : upTo(j) \in SUBSET S
  OBVIOUS
<1>3. n \in Enough
  <2>0. \A x \in S : x <= n OBVIOUS
  <2>1. upTo(n) = S BY <2>0
  <2>2. Cardinality(S) \in Nat BY <1>1
  <2> QED BY <2>1, <2>2
<1>4. PICK i \in Enough : \A j \in Enough : <<j, i>> \notin Less
  <2>1. IsWellFoundedOn(Less, Nat) BY NatLessThanWellFounded, SMT DEF OpToRel
  <2>2. Enough \subseteq Nat /\ Enough # {} BY <1>3
  <2> HIDE DEF Less, Enough
  <2> QED BY <2>1, <2>2, WFMin
<1>5. i \in Nat /\ Cardinality(upTo(i)) >= r /\ Cardinality(upTo(i)) \in Nat
  <2>1. i \in Nat /\ Cardinality(upTo(i)) >= r OBVIOUS
  <2> QED BY ONLY <1>1, <1>2, <2>1
<1>6. i # 0
  <2> SUFFICES ASSUME i = 0 PROVE FALSE OBVIOUS
  <2>0. \A x \in S : ~(x <= 0) OBVIOUS
  <2>1. upTo(i) = {} BY <2>0
  <2> HIDE DEF upTo
  <2>2. Cardinality(upTo(i)) = 0 BY ONLY <2>1, FS_EmptySet
  <2>3. r \in Int /\ r > 0 OBVIOUS
  <2> QED BY <1>5, <2>2, <2>3
<1> DEFINE h == i - 1
<1>7. h \in Nat /\ Cardinality(upTo(h)) < r
  <2>1. h \in Nat /\ h < i BY <1>5, <1>6
  <2>2. Cardinality(upTo(h)) \in Nat BY ONLY <1>1, <1>2, <2>1
  <2>3. h \notin Enough
    <3> HIDE DEF h, Enough
    <3>1. /\ <<h, i>> \in Nat \X Nat /\ <<h, i>>[1] = h /\ <<h, i>>[2] = i
      BY <1>5, <2>1
    <3>2. <<h, i>> \in Less BY <2>1, <3>1, Zenon
    <3> QED BY <1>4, <3>2, Zenon
  <2> QED BY <2>1, <2>2, <2>3
<1>8. i \in S /\ upTo(i) = upTo(h) \cup {i} /\ i \notin upTo(h)
  <2>1. \A x \in S : x <= i <=> x <= h \/ x = i BY <1>5
  <2>2. i \in S
    <3> SUFFICES ASSUME i \notin S PROVE FALSE OBVIOUS
    <3>1. upTo(i) = upTo(h) BY <2>1
    <3> HIDE DEF upTo, h
    <3> QED BY <1>5, <1>7, <3>1
  <2>3. ~(i <= h) BY <1>5
  <2> QED BY ONLY <2>1, <2>2, <2>3
<1>9. Cardinality(upTo(i)) = Cardinality(upTo(h)) + 1
  <2> HIDE DEF upTo, h
  <2>1. IsFiniteSet(upTo(h)) BY <1>1, <1>2, <1>7
  <2> QED BY <1>8, <2>1, FS_AddElement
<1> HIDE DEF upTo, h
<1>10. Cardinality(upTo(h)) \in Nat BY <1>1, <1>2, <1>7
<1>11. Rank(S, i) = Cardinality(upTo(i)) BY DEF Rank, upTo
<1>12. r \in Int OBVIOUS
<1> QED BY <1>5, <1>7, <1>8, <1>9, <1>10, <1>11, <1>12

\* No two positions of a request have the same identifier, so what fits has slots enough.
LEMMA RoomForAll ==
    ASSUME NEW order \in Requests, NEW asked \in SUBSET DOMAIN order,
           Fits({order[k] : k \in asked})
    PROVE LET new == {k \in asked : order[k] \notin {subs[i].id : i \in Active}}
          IN /\ new \in SUBSET (1..Len(order)) /\ Len(order) \in Nat
             /\ Cardinality(new) \in Nat /\ Cardinality(1..Slots \ Active) \in Nat
             /\ Cardinality(new) <= Cardinality(1..Slots \ Active)
<1> DEFINE ids == {order[k] : k \in asked}
           old == {subs[i].id : i \in Active}
           new == {k \in asked : order[k] \notin old}
           f == [k \in new |-> order[k]]
<1>1. order \in Seq(Ids) /\ IsInjective(order) BY RequestsAssumption
<1>2. DOMAIN order = 1..Len(order) /\ Len(order) \in Nat BY <1>1
<1>3. new \in SUBSET (1..Len(order)) BY <1>2
<1>4. IsFiniteSet(1..Len(order)) BY <1>2, FS_Interval
<1>5. IsFiniteSet(new) /\ Cardinality(new) \in Nat BY ONLY <1>3, <1>4, FS_Subset, FS_CardinalityType
<1>6. IsFiniteSet(1..Slots) /\ Cardinality(1..Slots) = Slots BY FS_Interval
<1>7. /\ Active \in SUBSET (1..Slots)
      /\ Cardinality(1..Slots \ Active) = Slots - Cardinality(Active)
  <2>1. Active \in SUBSET (1..Slots) /\ (1..Slots) \cap Active = Active BY DEF Active
  <2>2. Cardinality(1..Slots \ Active)
           = Cardinality(1..Slots) - Cardinality((1..Slots) \cap Active)
    BY ONLY <1>6, FS_Difference
  <2> QED BY <1>6, <2>1, <2>2
<1>8. Cardinality(1..Slots \ Active) \in Nat
  <2>1. IsFiniteSet(1..Slots \ Active) BY ONLY <1>6, FS_Difference
  <2> QED BY <2>1, FS_CardinalityType
<1>9. Cardinality(new) = Cardinality(ids \ old)
  <2>1. f \in Surjection(new, ids \ old)
    <3>1. f \in [new -> ids \ old] OBVIOUS
    <3>2. \A id \in ids \ old : \E k \in new : f[k] = id OBVIOUS
    <3> QED BY ONLY <3>1, <3>2 DEF Surjection
  <2>2. f \in Injection(new, ids \ old)
    <3>1. f \in [new -> ids \ old] OBVIOUS
    <3>2. \A a, b \in new : f[a] = f[b] => a = b BY <1>1, <1>2 DEF IsInjective
    <3> QED BY ONLY <3>1, <3>2 DEF Injection, IsInjective
  <2> HIDE DEF new, f, ids, old
  <2>3. IsFiniteSet(ids \ old) BY ONLY <1>5, <2>1, FS_Surjection
  <2> QED BY ONLY <2>1, <2>2, <2>3, FS_Injection
<1>10. Cardinality(ids \ old) <= Slots - Cardinality(Active) BY DEF Fits
<1>11. Cardinality(new) <= Cardinality(1..Slots \ Active)
  <2> HIDE DEF ids, old, new
  <2> QED BY <1>7, <1>9, <1>10
<1> QED BY <1>2, <1>3, <1>5, <1>8, <1>11

\* Every identifier of the request has a slot then, and no other one has lost its own.
LEMMA AllSubscribed ==
    ASSUME TypeOK, NEW order \in Requests, NEW mode \in Modes,
           NEW asked \in SUBSET DOMAIN order, Fits({order[k] : k \in asked}),
           subs' = Subscribed(order, asked, mode)
    PROVE Listed(subs') = Listed(subs) \cup {order[k] : k \in asked}
<1> DEFINE ids  == {order[k] : k \in asked}
           free == 1..Slots \ Active
           new  == {k \in asked : order[k] \notin {subs[i].id : i \in Active}}
           Takes(k, i) == i \in free /\ Rank(new, k) = Rank(free, i)
<1>1. ids \subseteq Ids BY RequestsAssumption
<1>2. \A id \in Ids : Begun(id, mode).id = id BY DEF Begun
<1>3. \A i \in 1..Slots : subs[i].id \in Ids \cup {None} BY DEF TypeOK, Slot
<1>4. \A i \in 1..Slots :
        subs'[i] = IF subs[i].id \in ids THEN Begun(subs[i].id, mode)
                   ELSE IF \E k \in new : Takes(k, i)
                        THEN Begun(order[CHOOSE k \in new : Takes(k, i)], mode)
                   ELSE subs[i]
  BY DEF Subscribed
<1>5. /\ new \in SUBSET (1..Len(order)) /\ Len(order) \in Nat /\ free \in SUBSET (1..Slots)
      /\ Cardinality(new) \in Nat /\ Cardinality(free) \in Nat
      /\ Cardinality(new) <= Cardinality(free)
  BY RoomForAll
<1>6. \A k \in new : order[k] \in ids /\ order[k] \notin {subs[i].id : i \in Active} OBVIOUS
<1>7. \A i \in 1..Slots : i \in free <=> subs[i].id = None BY DEF Active
<1> HIDE DEF ids, new, free
<1>8. \A i \in 1..Slots : \A k \in new : Takes(k, i) => (CHOOSE x \in new : Takes(x, i)) = k
  <2> SUFFICES ASSUME NEW i \in 1..Slots, NEW k \in new, Takes(k, i)
               PROVE (CHOOSE x \in new : Takes(x, i)) = k
    OBVIOUS
  <2>1. \A x \in new : Takes(x, i) => x = k
    <3> SUFFICES ASSUME NEW x \in new, Takes(x, i) PROVE x = k OBVIOUS
    <3>1. Rank(new, x) = Rank(new, k) OBVIOUS
    <3> QED BY <1>5, <3>1, RankOf
  <2> HIDE DEF Takes
  <2> QED BY <2>1
<1>9. ASSUME NEW i \in 1..Slots, NEW k \in new, Takes(k, i)
      PROVE  subs'[i].id = order[k] /\ subs[i].id = None
  <2>1. subs[i].id = None /\ subs[i].id \notin ids BY <1>1, <1>7, <1>9
  <2>2. (CHOOSE x \in new : Takes(x, i)) = k BY <1>8, <1>9
  <2>3. subs'[i] = Begun(order[k], mode)
    <3> HIDE DEF Takes
    <3> QED BY <1>4, <1>9, <2>1, <2>2
  <2> QED BY <1>1, <1>2, <1>6, <2>1, <2>3
<1>10. ASSUME NEW i \in 1..Slots, ~\E k \in new : Takes(k, i)
       PROVE  subs'[i].id = subs[i].id
  <2> HIDE DEF Takes
  <2> QED BY <1>1, <1>2, <1>4, <1>10
<1>11. ASSUME NEW k \in new PROVE \E i \in 1..Slots : Takes(k, i)
  <2>1. Rank(new, k) \in 1..Cardinality(new) BY <1>5, RankOf
  <2>2. Rank(new, k) \in 1..Cardinality(free) BY <1>5, <2>1
  <2>3. PICK i \in free : Rank(free, i) = Rank(new, k) BY <1>5, <2>2, RankedSo
  <2> QED BY <1>5, <2>3
<1>12. \A i \in 1..Slots : subs'[i].id \in {subs[i].id} \cup ids
  <2> HIDE DEF Takes
  <2> QED BY <1>6, <1>9, <1>10
<1>13. \A i \in 1..Slots : subs[i].id # None => subs'[i].id = subs[i].id
  <2> HIDE DEF Takes
  <2> QED BY <1>9, <1>10
<1>14. \A id \in ids : \E i \in 1..Slots : subs'[i].id = id
  <2> SUFFICES ASSUME NEW k \in asked PROVE \E i \in 1..Slots : subs'[i].id = order[k]
    BY DEF ids
  <2>1. CASE k \in new
    <3>1. PICK i \in 1..Slots : Takes(k, i) BY <1>11, <2>1
    <3> HIDE DEF Takes
    <3> QED BY <1>9, <2>1, <3>1
  <2>2. CASE k \notin new
    <3>1. PICK i \in Active : subs[i].id = order[k] BY <2>2 DEF new
    <3>2. i \in 1..Slots /\ subs[i].id # None BY <3>1 DEF Active
    <3> QED BY <1>13, <3>1, <3>2
  <2> QED BY <2>1, <2>2
<1>15. None \notin ids BY <1>1
<1> QED BY <1>12, <1>13, <1>14, <1>15 DEF Listed, ids

-----------------------------------------------------------------------------
\* Types of the table and of the loop.
THEOREM TypeCorrect == Spec => []TypeOK
<1>1. IInv => TypeOK BY DEF IInv
<1> QED BY <1>1, Invariant, PTL

\* Whichever way the default session is entered, the subscriptions end with it.
THEOREM DefaultIsQuiet == Spec => []QuietInDefault
<1>1. IInv => QuietInDefault BY DEF IInv
<1> QED BY <1>1, Invariant, PTL

\* For any number of slots and any intervals not shorter than that, no slot comes due
\* twice before it is served, although the first slot due always goes first.
THEOREM NoSlotStarves == Spec => []NoPeriodLost
<1>1. IInv => NoPeriodLost
  <2> SUFFICES ASSUME IInv, calm, Roomy, ~draining, NEW i \in Due
               PROVE ~Fires(subs[i])
    BY DEF NoPeriodLost, Roomy
  <2>1. PICK F \in SUBSET (1..Slots), turn \in Nat : Stretch(F, turn) BY DEF IInv, Busy
  <2>2. i \in F /\ i \in Active BY <2>1 DEF Stretch, Due
  <2>3. subs[i].counter > 1 BY <2>1, <2>2, NotAgain DEF IInv
  <2>4. subs[i].counter \in Nat BY <2>2 DEF IInv, TypeOK, Slot, Active
  <2> QED BY <2>3, <2>4 DEF Fires
<1> QED BY <1>1, Invariant, PTL

\* A start request takes all of its identifiers or none and ends no other subscription:
\* the check of uds_svc_0x2A for room is enough for uds_periodic_subscribe never to fail.
THEOREM StartIsAllOrNone == Spec => AllOrNone
<1>1. TypeOK /\ [Next]_vars =>
        [\A order \in Requests, mode \in Modes : Start(order, mode) =>
           \/ subs' = subs
           \/ Listed(subs') = Listed(subs) \cup {id \in Range(order) : InSession(id)}]_vars
  <2> SUFFICES ASSUME TypeOK, NEW order \in Requests, NEW mode \in Modes,
                      Start(order, mode), subs' # subs
               PROVE  Listed(subs') = Listed(subs) \cup {id \in Range(order) : InSession(id)}
    OBVIOUS
  <2> DEFINE asked == {k \in DOMAIN order : InSession(order[k])}
             ids   == {order[k] : k \in asked}
  <2>1. Fits(ids) /\ subs' = Subscribed(order, asked, mode) BY DEF Start
  <2>2. ids = {id \in Range(order) : InSession(id)} BY DEF Range
  <2>3. asked \in SUBSET DOMAIN order OBVIOUS
  <2> HIDE DEF asked
  <2> QED BY <2>1, <2>2, <2>3, AllSubscribed
<1>2. IInv => TypeOK BY DEF IInv
<1> QED BY <1>1, <1>2, Invariant, PTL DEF AllOrNone, Spec

=============================================================================
