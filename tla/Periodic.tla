------------------------------ MODULE Periodic ------------------------------
(***************************************************************************)
(* Periodic data identifiers: core/uds_periodic.c, the handler of 0x2A in  *)
(* core/uds_services/service_0x2A.c, and the loop that sends the frames in *)
(* examples/basic_ecu/src/main.c.                                          *)
(*                                                                         *)
(* One thread runs everything.  A turn of its loop takes requests, ticks   *)
(* the table once and then sends what is due, slot by slot, until the CAN  *)
(* driver refuses a frame.                                                 *)
(***************************************************************************)
EXTENDS Integers, FiniteSets, Sequences, Functions

CONSTANTS
    Ids,            \* the low bytes of the 0xF2xx identifiers that can be read
    MinSession,     \* min_session of each, as an ordinal
    Secured,        \* those with a read_access_level
    Requests,       \* what a tester asks to start, in its order and without repeats
    Slots,          \* UDS_PERIODIC_MAX_SUBSCRIPTIONS
    Modes,          \* SLOW, MEDIUM, FAST
    Interval,       \* UDS_PERIODIC_..._MS of each mode
    Default, Sessions,  \* ordinals of the sessions
    MailBoxes,      \* frames the driver can take in one turn
    None

ASSUME SlotsAssumption == Slots \in Nat \ {0} /\ MailBoxes \in Nat \ {0}
ASSUME IntervalAssumption == Interval \in [Modes -> Nat \ {0}]
ASSUME RequestsAssumption ==
    \A order \in Requests : order \in Seq(Ids) /\ IsInjective(order)
ASSUME SessionAssumption ==
    /\ Default \in Sessions /\ Sessions \subseteq Nat
    /\ MinSession \in [Ids -> Sessions] /\ Secured \subseteq Ids /\ None \notin Ids

VARIABLES
    subs,           \* s_subs
    session,        \* active_session
    unlocked,       \* a security level is
    draining,       \* the loop is sending
    room,           \* frames the driver takes before it refuses one
    calm            \* chosen once: the driver takes a frame a turn, and the tester
                    \*   asks for nothing while a frame is owed

vars == <<subs, session, unlocked, draining, room, calm>>

Free == [id |-> None, interval |-> 0, counter |-> 0, due |-> FALSE]
Active == {i \in 1..Slots : subs[i].id # None}
Due == {i \in Active : subs[i].due}
First(S) == CHOOSE i \in S : \A j \in S : i <= j

Init ==
    /\ subs = [i \in 1..Slots |-> Free]
    /\ session = Default /\ unlocked = FALSE
    /\ draining = FALSE /\ room = 0
    /\ calm \in BOOLEAN

-----------------------------------------------------------------------------
(* Requests.                                                               *)

MayAsk == ~draining /\ (calm => Due = {})

\* uds_safety_validate_did_access
InSession(id) == session >= MinSession[id]
Readable(id) == InSession(id) /\ (id \in Secured => unlocked)

\* Mutant of Fits: the slots that are taken are not counted.
FitsAll(S) == Cardinality(S) <= Slots

Fits(S) ==
    Cardinality(S \ {subs[i].id : i \in Active}) <= Slots - Cardinality(Active)

\* uds_periodic_subscribe: the first frame is due with the next tick.
Begun(id, mode) == [id |-> id, interval |-> Interval[mode], counter |-> 1, due |-> FALSE]

Rank(S, i) == Cardinality({j \in S : j <= i})

\* Start or restart what the request lists at the positions asked: an identifier
\* keeps its slot, the others take the free slots, first come first.
Subscribed(order, asked, mode) ==
    LET ids  == {order[k] : k \in asked}
        free == 1..Slots \ Active
        new  == {k \in asked : order[k] \notin {subs[i].id : i \in Active}}
        Takes(k, i) == i \in free /\ Rank(new, k) = Rank(free, i)
    IN [i \in 1..Slots |->
          IF subs[i].id \in ids THEN Begun(subs[i].id, mode)
          ELSE IF \E k \in new : Takes(k, i)
               THEN Begun(order[CHOOSE k \in new : Takes(k, i)], mode)
          ELSE subs[i]]

\* Of the identifiers listed those count that this session has; a locked one, none at
\* all or too many of them, and nothing is changed.
Start(order, mode) ==
    LET asked == {k \in DOMAIN order : InSession(order[k])}
        ids   == {order[k] : k \in asked}
    IN /\ MayAsk /\ session # Default
       /\ subs' = IF asked # {} /\ Fits(ids) /\ \A id \in ids : Readable(id)
                  THEN Subscribed(order, asked, mode) ELSE subs
       /\ UNCHANGED <<session, unlocked, draining, room, calm>>

\* uds_periodic_unsubscribe
Without(S) == [i \in 1..Slots |-> IF subs[i].id \in S THEN Free ELSE subs[i]]

\* Stop those listed, or all when none is listed.
Stop(S) ==
    /\ MayAsk /\ session # Default
    /\ subs' = Without(IF S = {} THEN Ids ELSE S)
    /\ UNCHANGED <<session, unlocked, draining, room, calm>>

\* Mutant of SessionChanged: a session change keeps the subscriptions.
SessionChangedOnly(new) == session' = new /\ UNCHANGED subs

\* s_on_session_change
SessionChanged(new) ==
    /\ session' = new
    /\ subs' = IF new = Default THEN Without(Ids) ELSE subs

\* 0x10, which relocks.
ChangeSession(new) ==
    /\ MayAsk
    /\ SessionChanged(new) /\ unlocked' = FALSE
    /\ UNCHANGED <<draining, room, calm>>

\* 0x27, from right key on.
Unlock ==
    /\ MayAsk /\ session # Default
    /\ unlocked' = TRUE
    /\ UNCHANGED <<subs, session, draining, room, calm>>

-----------------------------------------------------------------------------
(* The rest of the turn.                                                   *)

\* Mutant of Fires: a slot is due one tick early.
FiresEarly(s) == s.counter <= 2

Fires(s) == s.counter <= 1

\* uds_periodic_tick_1ms
Ticked(s) ==
    IF s.id = None THEN s
    ELSE IF Fires(s) THEN [s EXCEPT !.due = TRUE, !.counter = s.interval]
    ELSE [s EXCEPT !.counter = @ - 1]

\* on_tick: the session may time out first.
Tick ==
    /\ ~draining
    /\ subs' = [i \in 1..Slots |-> Ticked(subs[i])]
    /\ draining' = TRUE
    /\ room' \in {n \in 0..MailBoxes : calm => n > 0}
    /\ UNCHANGED <<session, unlocked, calm>>

S3Tick ==
    /\ ~draining /\ session # Default
    /\ SessionChanged(Default) /\ unlocked' = FALSE
    /\ draining' = TRUE /\ room' = 0
    /\ UNCHANGED calm

\* uds_periodic_pop_due, the first due slot: its identifier may not be read any
\* more, and the subscription ends,
PopDenied ==
    /\ draining /\ Due # {} /\ ~Readable(subs[First(Due)].id)
    /\ subs' = [subs EXCEPT ![First(Due)] = Free]
    /\ UNCHANGED <<session, unlocked, draining, room, calm>>

Served == [subs EXCEPT ![First(Due)].due = FALSE]

\* ... or it cannot be read this time,
PopUnread ==
    /\ draining /\ Due # {} /\ Readable(subs[First(Due)].id)
    /\ subs' = Served
    /\ UNCHANGED <<session, unlocked, draining, room, calm>>

\* ... or its frame goes to the driver,
Push ==
    /\ draining /\ Due # {} /\ Readable(subs[First(Due)].id) /\ room > 0
    /\ subs' = Served
    /\ room' = room - 1
    /\ UNCHANGED <<session, unlocked, draining, calm>>

\* ... which refuses it: uds_periodic_requeue_last, and the loop stops sending.
Refused ==
    /\ draining /\ Due # {} /\ Readable(subs[First(Due)].id) /\ room = 0
    /\ draining' = FALSE
    /\ UNCHANGED <<subs, session, unlocked, room, calm>>

NoneDue ==
    /\ draining /\ Due = {}
    /\ draining' = FALSE /\ room' = 0
    /\ UNCHANGED <<subs, session, unlocked, calm>>

-----------------------------------------------------------------------------
Next ==
    \/ \E order \in Requests, mode \in Modes : Start(order, mode)
    \/ \E S \in {Range(order) : order \in Requests} \cup {{}} : Stop(S)
    \/ \E new \in Sessions : ChangeSession(new)
    \/ Unlock
    \/ Tick \/ S3Tick
    \/ PopDenied \/ PopUnread \/ Push \/ Refused \/ NoneDue

Spec == Init /\ [][Next]_vars

-----------------------------------------------------------------------------
(* Properties. *)

\* A slot counts down from its interval, and is free or has an identifier that can be read.
Slot == [id : Ids \cup {None}, interval : Nat, counter : Nat, due : BOOLEAN]

\* A slot in use counts down one of the three intervals.
TypeOK ==
    /\ subs \in [1..Slots -> Slot] /\ session \in Sessions
    /\ \A i \in Active : subs[i].interval \in {Interval[m] : m \in Modes}
    /\ room \in Nat /\ {unlocked, draining, calm} \subseteq BOOLEAN

\* The slots are always scanned from the first one.  All the same no slot comes due
\* twice before it is served, as long as the driver takes one frame a millisecond,
\* the tester asks for nothing while a frame is owed, and there are no more slots
\* than milliseconds in the shortest interval.
NoPeriodLost == calm /\ (\A m \in Modes : Slots <= Interval[m]) /\ ~draining
    => \A i \in Due : ~Fires(subs[i])

\* A start request takes all of its identifiers or none, as the scheduler promises
\* with "unreachable: capacity checked above", and ends no other subscription.
Listed(table) == {table[i].id : i \in 1..Slots} \ {None}

AllOrNone ==
    [][\A order \in Requests, mode \in Modes : Start(order, mode) =>
         \/ subs' = subs
         \/ Listed(subs') = Listed(subs) \cup {id \in Range(order) : InSession(id)}]_vars

\* Nothing is pushed in the default session: whichever way it is entered, the
\* subscriptions end with it.
QuietInDefault == session = Default => Active = {}

=============================================================================
