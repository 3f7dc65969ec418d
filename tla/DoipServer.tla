----------------------------- MODULE DoipServer -----------------------------
(***************************************************************************)
(* The TCP side of transport/doip/doip_server.c: testers queue for the one *)
(* connection the server holds; the connection's frames, its inactivity    *)
(* and lifetime bounds, the back-off after connections that did nothing;   *)
(* and what a lost connection leaves behind in the UDS server.             *)
(*                                                                         *)
(* One thread runs the server.  Its clock advances by one with every wait  *)
(* on a socket and every round of the pending loop, so all the bounds are  *)
(* counted in waits.  A tester may send anything, stay silent, trickle, or *)
(* close at any time, and any send may fail.                               *)
(***************************************************************************)
EXTENDS Naturals, Sequences

CONSTANTS
    Peers,              \* testers
    Backlog,            \* DOIP_MAX_CONNECTIONS, the listen backlog
    InitialPolls,       \* DOIP_INITIAL_INACTIVITY_POLLS
    GeneralPolls,       \* DOIP_GENERAL_INACTIVITY_POLLS
    IdlePolls,          \* DOIP_MAX_CONNECTION_IDLE_POLLS
    Lifetime,           \* DOIP_MAX_CONNECTION_LIFETIME_MS
    ReadAttempts,       \* DOIP_MAX_FRAME_READ_ATTEMPTS
    MaxPending,         \* DOIP_MAX_PENDING_MS
    RapidThreshold,     \* DOIP_RAPID_RECONNECT_THRESHOLD
    BackoffRejects,     \* DOIP_RECONNECT_BACKOFF_REJECTS
    Kept,               \* what requests leave in the UDS server, "job" among it
    None

ASSUME BoundsAssumption ==
    /\ {Backlog, InitialPolls, GeneralPolls, IdlePolls, Lifetime, ReadAttempts,
        MaxPending, RapidThreshold, BackoffRejects} \subseteq Nat \ {0}
ASSUME KeptAssumption ==
    "job" \in Kept /\ Kept \subseteq {"session", "security", "comm", "job", "transfer"}
ASSUME NoneAssumption == None \notin Peers

VARIABLES
    backlog,        \* connections the stack holds for accept
    c,              \* the connection and where its loop is
    rapid,          \* rapid_reconnects
    rejects,        \* backoff_rejects_remaining
    uds,            \* what requests left in the UDS server
    armed,          \* pending_reset_type: "no", or set on "this" or an "earlier" connection
    did,            \* history: on whose request the ECU was reset last
    burst           \* history: connections without work since the last one with work

vars == <<backlog, c, rapid, rejects, uds, armed, did, burst>>

\* conn_ctx, routing_active, idle_polls, conn_idle_polls, conn_age, the reads of
\* this header or payload or the rounds of the pending loop, conn_did_work.  The
\* addresses are left out: a diagnostic message is one that tester_address sent.
NoConn == [peer |-> None, at |-> "accept", routing |-> FALSE,
           idle |-> 0, connIdle |-> 0, age |-> 0, reads |-> 0, work |-> FALSE]

\* The longest a frame can go on after the last look at conn_age.
FrameMax == 2 * ReadAttempts + MaxPending - 1
AgeMax == Lifetime + FrameMax + 1       \* where age saturates

Init ==
    /\ backlog = <<>> /\ c = NoConn
    /\ rapid = 0 /\ rejects = 0 /\ burst = 0
    /\ uds = {} /\ armed = "no" /\ did = None

\* External: a tester connects; the stack completes the handshake.
Connect(p) ==
    /\ p # c.peer /\ Len(backlog) < Backlog
    /\ \A i \in DOMAIN backlog : backlog[i] # p
    /\ backlog' = Append(backlog, p)
    /\ UNCHANGED <<c, rapid, rejects, uds, armed, did, burst>>

-----------------------------------------------------------------------------
(* Accept and close.                                                       *)

Accept ==
    /\ c.at = "accept" /\ backlog # <<>> /\ rejects = 0
    /\ backlog' = Tail(backlog)
    /\ c' = [NoConn EXCEPT !.peer = Head(backlog), !.at = "idle"]
    /\ UNCHANGED <<rapid, rejects, uds, armed, did, burst>>

\* During the back-off a connection is closed at once.
Reject ==
    /\ c.at = "accept" /\ backlog # <<>> /\ rejects > 0
    /\ backlog' = Tail(backlog)
    /\ rejects' = rejects - 1
    /\ UNCHANGED <<c, rapid, uds, armed, did, burst>>

\* Default session, security locked, communication restored, the job and the
\* transfer aborted.
\* Mutant of LeftAfterClose: the transfer is not aborted.
LeftButTransfer(left) == left \cap {"transfer"}

LeftAfterClose(left) == left \ {"session", "security", "comm", "job", "transfer"}

\* Mutant of RapidAfter: work does not reset the count.
RapidAfterAny(worked) == rapid + 1

RapidAfter(worked) == IF worked THEN 0 ELSE rapid + 1

\* connection_closed.  pending_reset_type is not looked at.
Close(worked, left, reset) ==
    /\ c' = NoConn
    /\ IF RapidAfter(worked) >= RapidThreshold
       THEN rapid' = 0 /\ rejects' = BackoffRejects
       ELSE rapid' = RapidAfter(worked) /\ UNCHANGED rejects
    /\ burst' = IF worked THEN 0 ELSE IF burst < RapidThreshold THEN burst + 1 ELSE burst
    /\ uds' = LeftAfterClose(left)
    /\ armed' = IF reset = "no" THEN "no" ELSE "earlier"
    /\ UNCHANGED <<backlog, did>>

Drop == Close(c.work, uds, armed)

-----------------------------------------------------------------------------
(* Waiting for a frame and reading it.                                     *)

Older == IF c.age < AgeMax THEN c.age + 1 ELSE c.age

Waits == UNCHANGED <<backlog, rapid, rejects, uds, armed, did, burst>>

\* Mutant of Spent: only silence is counted.
SpentInSilence(age) == c.connIdle >= Lifetime

\* doip_lifetime_spent
Spent(age) == age >= Lifetime

IdleTooLong ==
    \/ ~c.routing /\ c.connIdle + 1 >= InitialPolls
    \/ c.idle + 1 >= GeneralPolls
    \/ c.connIdle + 1 >= IdlePolls
    \/ Spent(Older)

\* The read between two frames times out.
IdlePoll ==
    /\ c.at = "idle"
    /\ IF IdleTooLong THEN Drop
       ELSE /\ c' = [c EXCEPT !.idle = @ + 1, !.connIdle = @ + 1, !.age = Older]
            /\ Waits

\* The first bytes of a header.
FrameBegins ==
    /\ c.at = "idle"
    /\ c' = [c EXCEPT !.at = "header", !.reads = 1, !.age = Older, !.idle = 0]
    /\ Waits

\* Mutant of MayRead: bytes that trickle in are read for ever.
MayReadOn == TRUE

MayRead == c.reads < ReadAttempts

\* Some bytes more, but not the last.
Trickle ==
    /\ c.at \in {"header", "payload"} /\ MayRead
    /\ c' = [c EXCEPT !.reads = IF @ < ReadAttempts THEN @ + 1 ELSE @, !.age = Older]
    /\ Waits

\* The header is whole: a payload follows, or it is empty.
HeaderRead ==
    /\ c.at = "header"
    /\ \/ c' = [c EXCEPT !.at = "payload", !.reads = 0]
       \/ c' = [c EXCEPT !.at = "empty", !.reads = 0]
    /\ Waits

PayloadRead ==
    /\ c.at = "payload" /\ MayRead
    /\ c' = [c EXCEPT !.at = "frame", !.reads = 0, !.age = Older]
    /\ Waits

\* The tester closes, is silent inside of a frame, needs a read too many, or sends
\* a header that is malformed or gives a wrong length.
Broken == c.at \in {"idle", "header", "payload"} /\ Drop

-----------------------------------------------------------------------------
(* doip_handle_frame.                                                      *)

\* Back to waiting, unless the connection is too old by now.
NextFrame(conn, left, reset) ==
    IF Spent(c.age) THEN Close(conn.work, left, reset)
    ELSE /\ c' = [conn EXCEPT !.at = "idle", !.reads = 0]
         /\ uds' = left /\ armed' = reset
         /\ UNCHANGED <<backlog, rapid, rejects, did, burst>>

Worked(conn) == [conn EXCEPT !.work = TRUE]

\* A type that is not known is skipped, which is no work.
UnknownType == c.at \in {"frame", "empty"} /\ NextFrame(c, uds, armed)

\* An alive check, a diagnostic message that is not acknowledged, or an activation
\* that is denied (it overwrites tester_address).
NoEffect == c.at \in {"frame", "empty"} /\ NextFrame(Worked(c), uds, armed)

\* A routing activation of the default type, whatever was active before.
Activate ==
    /\ c.at = "frame"
    /\ NextFrame(Worked([c EXCEPT !.routing = TRUE]), uds, armed)

\* doip_run_pending_reset after the answer: nothing to do, a type the platform does
\* not support, or the ECU boots and the connections are gone.
Answered(left, reset) ==
    \/ reset = "no" /\ NextFrame(Worked(c), left, "no")
    \/ /\ reset # "no"
       /\ did' = reset
       /\ armed' = "no" /\ uds' = {}
       /\ backlog' = <<>> /\ c' = NoConn
       /\ rapid' = 0 /\ rejects' = 0 /\ burst' = 0
    \/ reset # "no" /\ NextFrame(Worked(c), left, "no")

\* External: the UDS server takes the request; it may leave anything but a job
\* behind, and record a reset.
Lefts == SUBSET (Kept \ {"job"})
Resets == {armed, "this"}

\* doip_handle_frame, a diagnostic message from the active tester: acknowledged,
\* dispatched, answered; the acknowledgement or the answer may fail.
Diagnostic ==
    /\ c.at = "frame" /\ c.routing
    /\ \/ Drop
       \/ \E left \in Lefts, reset \in Resets :
            Answered(left, reset) \/ Close(c.work, left, reset)

\* The server defers the answer.
Deferred ==
    /\ c.at = "frame" /\ c.routing
    /\ c' = [c EXCEPT !.at = "pending", !.reads = 0]
    /\ \E left \in Lefts : uds' = left \cup {"job"}
    /\ UNCHANGED <<backlog, rapid, rejects, armed, did, burst>>

\* A round of doip_run_pending_poll or doip_run_pending: nothing yet, or one more
\* 0x78.
PendingRound ==
    /\ c.at = "pending" /\ c.reads < MaxPending
    /\ c' = [c EXCEPT !.reads = @ + 1, !.age = Older]
    /\ Waits

\* The final frame, or the session ended and the job with it.
PendingOver ==
    /\ c.at = "pending" /\ c.reads < MaxPending
    /\ \E left \in Lefts : Answered(left, armed)

\* The backstop, or a frame cannot be sent.
PendingFails == c.at = "pending" /\ Drop

\* uds_server_tick_1ms in the tick task: S3 expires.
S3Expires ==
    /\ uds # {}
    /\ uds' = {}
    /\ UNCHANGED <<backlog, c, rapid, rejects, armed, did, burst>>

-----------------------------------------------------------------------------
Serve ==
    \/ Accept \/ Reject
    \/ IdlePoll \/ FrameBegins \/ Trickle \/ HeaderRead \/ PayloadRead \/ Broken
    \/ UnknownType \/ NoEffect \/ Activate \/ Diagnostic
    \/ Deferred \/ PendingRound \/ PendingOver \/ PendingFails

Next == (\E p \in Peers : Connect(p)) \/ Serve \/ S3Expires

Spec == Init /\ [][Next]_vars

\* Every wait of the server's loop ends.
FairSpec == Spec /\ WF_vars(Serve)

-----------------------------------------------------------------------------
(* Properties. *)

\* Types.
TypeOK ==
    /\ backlog \in Seq(Peers) /\ Len(backlog) <= Backlog
    /\ c \in [peer : Peers \cup {None},
              at : {"accept", "idle", "header", "payload", "empty", "frame", "pending"},
              routing : BOOLEAN, idle : Nat, connIdle : Nat,
              age : 0..AgeMax, reads : Nat, work : BOOLEAN]
    /\ rapid \in 0..(RapidThreshold - 1) /\ rejects \in 0..BackoffRejects
    /\ uds \subseteq Kept /\ armed \in {"no", "this", "earlier"}
    /\ did \in {None, "this", "earlier"} /\ burst \in 0..RapidThreshold

\* A tester starts from nothing: until its first frame is handled, no session, no
\* unlocked level, no job and no transfer of the one before is left.
NothingInherited == c.peer # None /\ ~c.work => uds = {}

\* One connection holds the only slot for its lifetime and one frame at most,
\* whatever its tester sends, trickles or waits for.
SlotIsBounded == c.age <= Lifetime + FrameMax

\* Connections are refused only after a burst of RapidThreshold connections in a
\* row that did nothing.
RefusedOnlyAfterBurst == rejects > 0 => burst = RapidThreshold

\* A tester that waits is served or refused some day.
WaitingEnds ==
    \A p \in Peers : [](p \in {backlog[i] : i \in DOMAIN backlog}
                        => <>(p \notin {backlog[i] : i \in DOMAIN backlog}))

\* doip_server.c:505-507: a reset whose answer could not be sent is not performed
\* ("the tester never got its answer, and the connection is torn down").
ResetForItsAsker == did # "earlier"

=============================================================================
