-------------------------- MODULE DoipServerProofs --------------------------
(***************************************************************************)
(* The DoIP server's bounds and its cleanup, proved for every number of    *)
(* testers and every value of the bounds.                                  *)
(***************************************************************************)
EXTENDS DoipServer, SequenceTheorems, TLAPS

\* What a connection without work yet can have left behind: nothing.  Only a
\* handled frame activates routing, and only routing lets a request through.
Clean ==
    /\ c.at = "accept" => ~c.work
    /\ ~c.work => uds = {}
    /\ c.routing => c.work
    /\ c.at # "accept" => rejects = 0

\* How old a connection can be, by where it is in its frame.
Aged ==
    /\ c.at \in {"accept", "idle"} => c.age < Lifetime
    /\ c.at = "header" => c.reads \in 1..ReadAttempts /\ c.age < Lifetime + c.reads
    /\ c.at = "payload" => /\ c.reads <= ReadAttempts
                           /\ c.age < Lifetime + ReadAttempts + c.reads
    /\ c.at \in {"empty", "frame"} => c.age < Lifetime + 2 * ReadAttempts
    /\ c.at = "pending" => /\ c.reads <= MaxPending
                           /\ c.age < Lifetime + 2 * ReadAttempts + c.reads

\* Every connection the back-off counts is one of the burst.
Bursts == rapid <= burst /\ RefusedOnlyAfterBurst

IInv == TypeOK /\ Clean /\ Aged /\ Bursts

\* The bounds are natural numbers, and the derived ones too.
LEMMA Bounds ==
    /\ Backlog \in Nat /\ Lifetime \in Nat \ {0} /\ ReadAttempts \in Nat \ {0}
    /\ MaxPending \in Nat \ {0} /\ RapidThreshold \in Nat \ {0} /\ BackoffRejects \in Nat
    /\ FrameMax \in Nat /\ AgeMax \in Nat
    /\ FrameMax = 2 * ReadAttempts + MaxPending - 1 /\ AgeMax = Lifetime + FrameMax + 1
<1>1. /\ Backlog \in Nat /\ Lifetime \in Nat \ {0} /\ ReadAttempts \in Nat \ {0}
      /\ MaxPending \in Nat \ {0} /\ RapidThreshold \in Nat \ {0} /\ BackoffRejects \in Nat
  BY BoundsAssumption
<1> QED BY <1>1 DEF FrameMax, AgeMax

\* The connection record by its fields.
Connection ==
    [peer : Peers \cup {None},
     at : {"accept", "idle", "header", "payload", "empty", "frame", "pending"},
     routing : BOOLEAN, idle : Nat, connIdle : Nat,
     age : 0..AgeMax, reads : Nat, work : BOOLEAN]

\* The state without a connection satisfies what is asked of connections.
LEMMA NoConnection ==
    NoConn \in Connection /\ ~NoConn.work /\ ~NoConn.routing
    /\ NoConn.at = "accept" /\ NoConn.age = 0
BY Bounds DEF NoConn, Connection

\* The age grows by at most one and stays in its range.
LEMMA OlderRange ==
    ASSUME c.age \in 0..AgeMax
    PROVE Older \in 0..AgeMax /\ Older <= c.age + 1
BY Bounds DEF Older

\* The cleanup of a connection leaves nothing behind.
LEMMA CleanupIsComplete ==
    ASSUME NEW left \in SUBSET Kept
    PROVE LeftAfterClose(left) = {}
BY KeptAssumption DEF LeftAfterClose

\* The initial state.
LEMMA InitOK == Init => IInv
<1> SUFFICES ASSUME Init PROVE IInv
  OBVIOUS
<1>1. TypeOK BY NoConnection, Bounds, EmptySeq DEF Init, TypeOK, Connection
<1>2. Clean BY NoConnection DEF Init, Clean
<1>3. Aged BY NoConnection, Bounds DEF Init, Aged
<1>4. Bursts BY DEF Init, Bursts, RefusedOnlyAfterBurst
<1> QED BY <1>1, <1>2, <1>3, <1>4 DEF IInv

\* Every way to lose a connection.
LEMMA CloseOK ==
    ASSUME IInv, c.at # "accept", NEW worked \in BOOLEAN, NEW left \in SUBSET Kept,
           NEW reset \in {"no", "this", "earlier"}, Close(worked, left, reset)
    PROVE IInv'
<1>1. c' = NoConn /\ uds' = {} /\ armed' \in {"no", "earlier"} /\ UNCHANGED <<backlog, did>>
  BY CleanupIsComplete DEF Close
<1>2. /\ rapid' \in 0..(RapidThreshold - 1) /\ rejects' \in 0..BackoffRejects
      /\ burst' \in 0..RapidThreshold
      /\ rapid' <= burst' /\ (rejects' > 0 => burst' = RapidThreshold)
  <2>1. /\ rapid \in 0..(RapidThreshold - 1) /\ rejects = 0 /\ burst \in 0..RapidThreshold
        /\ rapid <= burst
    BY DEF IInv, TypeOK, Clean, Bursts
  <2>2. CASE worked
    BY <2>1, <2>2, Bounds DEF Close, RapidAfter
  <2>3. CASE ~worked
    BY <2>1, <2>3, Bounds DEF Close, RapidAfter
  <2> QED BY <2>2, <2>3
<1>3. TypeOK' BY <1>1, <1>2, NoConnection DEF IInv, TypeOK, Connection
<1>4. Clean' BY <1>1, NoConnection DEF Clean
<1>5. Aged' BY <1>1, NoConnection, Bounds DEF Aged
<1>6. Bursts' BY <1>2 DEF Bursts, RefusedOnlyAfterBurst
<1> QED BY <1>3, <1>4, <1>5, <1>6 DEF IInv

\* Back to waiting after a frame.
LEMMA NextFrameOK ==
    ASSUME IInv, c.at \in {"frame", "empty", "pending"},
           NEW conn \in Connection, conn.age = c.age, conn.routing => conn.work,
           NEW left \in SUBSET Kept, ~conn.work => left = {},
           NEW reset \in {"no", "this", "earlier"}, NextFrame(conn, left, reset)
    PROVE IInv'
<1>1. CASE Spent(c.age)
  <2>1. Close(conn.work, left, reset) BY <1>1 DEF NextFrame
  <2>2. conn.work \in BOOLEAN BY DEF Connection
  <2> QED BY <2>1, <2>2, CloseOK
<1>2. CASE ~Spent(c.age)
  <2>1. /\ c' = [conn EXCEPT !.at = "idle", !.reads = 0] /\ uds' = left /\ armed' = reset
        /\ UNCHANGED <<backlog, rapid, rejects, did, burst>>
    BY <1>2 DEF NextFrame
  <2>2. /\ c' \in Connection /\ c'.at = "idle" /\ c'.age = c.age
        /\ c'.work = conn.work /\ c'.routing = conn.routing
    BY <2>1 DEF Connection
  <2>3. c.age < Lifetime BY <1>2, Bounds DEF Spent, IInv, TypeOK
  <2>4. TypeOK' BY <2>1, <2>2 DEF IInv, TypeOK, Connection
  <2>5. Clean' BY <2>1, <2>2 DEF IInv, Clean
  <2>6. Aged' BY <2>2, <2>3 DEF Aged
  <2>7. Bursts' BY <2>1 DEF IInv, Bursts, RefusedOnlyAfterBurst
  <2> QED BY <2>4, <2>5, <2>6, <2>7 DEF IInv
<1> QED BY <1>1, <1>2

\* A step inside of a connection that only moves the connection on.
LEMMA MoveOK ==
    ASSUME IInv, Waits, c.at # "accept", c' \in Connection, c'.at # "accept",
           c'.work = c.work, c'.routing = c.routing, Aged'
    PROVE IInv'
<1>1. UNCHANGED <<backlog, rapid, rejects, uds, armed, did, burst>> BY DEF Waits
<1>2. TypeOK' BY <1>1 DEF IInv, TypeOK, Connection
<1>3. Clean' BY <1>1 DEF IInv, Clean
<1>4. Bursts' BY <1>1 DEF IInv, Bursts, RefusedOnlyAfterBurst
<1> QED BY <1>2, <1>3, <1>4 DEF IInv

\* Losing the connection where it is.
LEMMA DropOK ==
    ASSUME IInv, c.at # "accept", Drop
    PROVE IInv'
<1>1. /\ c.work \in BOOLEAN /\ uds \in SUBSET Kept /\ armed \in {"no", "this", "earlier"}
  BY DEF IInv, TypeOK
<1> QED BY <1>1, CloseOK DEF Drop

\* The answer of a request, from the frame it came with or from the pending loop.
LEMMA AnsweredOK ==
    ASSUME IInv, c.at \in {"frame", "pending"}, NEW left \in SUBSET Kept,
           NEW reset \in {"no", "this", "earlier"}, Answered(left, reset)
    PROVE IInv'
<1>1. c \in Connection BY DEF IInv, TypeOK, Connection
<1>2. /\ Worked(c) \in Connection /\ Worked(c).age = c.age /\ Worked(c).work
  BY <1>1 DEF Worked, Connection
<1>3. CASE NextFrame(Worked(c), left, "no")
  BY <1>2, <1>3, NextFrameOK
<1>4. CASE /\ did' = reset /\ reset # "no" /\ armed' = "no" /\ uds' = {}
           /\ backlog' = <<>> /\ c' = NoConn /\ rapid' = 0 /\ rejects' = 0 /\ burst' = 0
  <2>1. TypeOK' BY <1>4, NoConnection, Bounds, EmptySeq DEF TypeOK, Connection
  <2>2. Clean' BY <1>4, NoConnection DEF Clean
  <2>3. Aged' BY <1>4, NoConnection, Bounds DEF Aged
  <2>4. Bursts' BY <1>4 DEF Bursts, RefusedOnlyAfterBurst
  <2> QED BY <2>1, <2>2, <2>3, <2>4 DEF IInv
<1> QED BY <1>3, <1>4 DEF Answered

\* Every wait of the server.
LEMMA WaitOK ==
    ASSUME IInv, IdlePoll \/ FrameBegins \/ Trickle \/ HeaderRead \/ PayloadRead \/ PendingRound
    PROVE IInv'
<1>0. c \in Connection /\ Aged /\ Older \in 0..AgeMax /\ Older <= c.age + 1
      /\ c.idle + 1 \in Nat /\ c.connIdle + 1 \in Nat /\ c.reads + 1 \in Nat
  BY OlderRange DEF IInv, TypeOK, Connection
<1>1. CASE IdlePoll
  <2>1. CASE IdleTooLong
    BY <1>1, <2>1, DropOK DEF IdlePoll
  <2>2. CASE ~IdleTooLong
    <3>1. /\ c' = [c EXCEPT !.idle = @ + 1, !.connIdle = @ + 1, !.age = Older] /\ Waits
          /\ c.at = "idle"
      BY <1>1, <2>2 DEF IdlePoll
    <3>2. Older < Lifetime BY <2>2, <1>0, Bounds DEF IdleTooLong, Spent
    <3>3. /\ c' \in Connection /\ c'.at = "idle" /\ c'.age = Older
          /\ c'.work = c.work /\ c'.routing = c.routing
      BY <1>0, <3>1 DEF Connection
    <3> QED BY <3>1, <3>2, <3>3, MoveOK DEF Aged
  <2> QED BY <2>1, <2>2
<1>2. CASE FrameBegins
  <2>1. /\ c' \in Connection /\ c'.at = "header" /\ c'.age = Older /\ c'.reads = 1
        /\ c'.work = c.work /\ c'.routing = c.routing /\ c.at = "idle" /\ Waits
    BY <1>0, <1>2 DEF FrameBegins, Connection
  <2>2. c.age < Lifetime BY <1>0, <2>1 DEF Aged
  <2>3. Aged' BY <1>0, <2>1, <2>2, Bounds DEF Aged, Connection
  <2> QED BY <2>1, <2>3, MoveOK
<1>3. CASE Trickle
  <2>1. /\ c.at \in {"header", "payload"} /\ c.reads < ReadAttempts /\ Waits
        /\ c' \in Connection /\ c'.at = c.at /\ c'.age = Older /\ c'.reads = c.reads + 1
        /\ c'.work = c.work /\ c'.routing = c.routing
    <3>1. /\ c.at \in {"header", "payload"} /\ c.reads < ReadAttempts /\ Waits
          /\ c' = [c EXCEPT !.reads = c.reads + 1, !.age = Older]
      BY <1>3 DEF Trickle, MayRead
    <3> QED BY <1>0, <3>1, Zenon DEF Connection
  <2>2. Aged' BY <1>0, <2>1, Bounds DEF Aged, Connection
  <2> QED BY <2>1, <2>2, MoveOK
<1>4. CASE HeaderRead
  <2>1. /\ c.at = "header" /\ Waits /\ c'.at \in {"payload", "empty"}
        /\ c' \in Connection /\ c'.age = c.age /\ c'.reads = 0
        /\ c'.work = c.work /\ c'.routing = c.routing
    <3>1. c.at = "header" /\ Waits BY <1>4 DEF HeaderRead
    <3>2. PICK next \in {"payload", "empty"} : c' = [c EXCEPT !.at = next, !.reads = 0]
      BY <1>4 DEF HeaderRead
    <3> QED BY <1>0, <3>1, <3>2 DEF Connection
  <2>2. c.age < Lifetime + ReadAttempts BY <1>0, <2>1, Bounds DEF Aged, Connection
  <2>3. Aged' BY <1>0, <2>1, <2>2, Bounds DEF Aged, Connection
  <2> QED BY <2>1, <2>3, MoveOK
<1>5. CASE PayloadRead
  <2>1. /\ c.at = "payload" /\ c.reads < ReadAttempts /\ Waits /\ c'.at = "frame"
        /\ c' \in Connection /\ c'.age = Older
        /\ c'.work = c.work /\ c'.routing = c.routing
    BY <1>0, <1>5 DEF PayloadRead, MayRead, Connection
  <2>2. Aged' BY <1>0, <2>1, Bounds DEF Aged, Connection
  <2> QED BY <2>1, <2>2, MoveOK
<1>6. CASE PendingRound
  <2>1. /\ c.at = "pending" /\ c.reads < MaxPending /\ Waits /\ c'.at = "pending"
        /\ c' \in Connection /\ c'.age = Older /\ c'.reads = c.reads + 1
        /\ c'.work = c.work /\ c'.routing = c.routing
    <3>1. /\ c.at = "pending" /\ c.reads < MaxPending /\ Waits
          /\ c' = [c EXCEPT !.reads = c.reads + 1, !.age = Older]
      BY <1>6 DEF PendingRound
    <3> QED BY <1>0, <3>1, Zenon DEF Connection
  <2>2. Aged' BY <1>0, <2>1, Bounds DEF Aged, Connection
  <2> QED BY <2>1, <2>2, MoveOK
<1> QED BY <1>1, <1>2, <1>3, <1>4, <1>5, <1>6

\* Every frame that is handled.
LEMMA FrameOK ==
    ASSUME IInv, UnknownType \/ NoEffect \/ Activate \/ Diagnostic \/ Deferred \/ PendingOver
    PROVE IInv'
<1>0. /\ c \in Connection /\ uds \in SUBSET Kept /\ armed \in {"no", "this", "earlier"}
      /\ (c.routing => c.work) /\ (~c.work => uds = {})
  BY DEF IInv, TypeOK, Connection, Clean
<1>1. CASE UnknownType
  BY <1>0, <1>1, NextFrameOK DEF UnknownType
<1>2. CASE NoEffect
  <2>1. Worked(c) \in Connection /\ Worked(c).age = c.age /\ Worked(c).work
    BY <1>0 DEF Worked, Connection
  <2> QED BY <1>0, <1>2, <2>1, NextFrameOK DEF NoEffect
<1>3. CASE Activate
  <2> DEFINE conn == Worked([c EXCEPT !.routing = TRUE])
  <2>1. conn \in Connection /\ conn.age = c.age /\ conn.work
    BY <1>0 DEF Worked, Connection
  <2>2. NextFrame(conn, uds, armed) /\ c.at = "frame" BY <1>3 DEF Activate
  <2> HIDE DEF conn
  <2> QED BY <1>0, <2>1, <2>2, NextFrameOK
<1>4. CASE Diagnostic
  <2>1. CASE Drop
    BY <1>4, <2>1, DropOK DEF Diagnostic
  <2>2. ASSUME NEW left \in Lefts, NEW reset \in Resets,
               Answered(left, reset) \/ Close(c.work, left, reset)
        PROVE IInv'
    <3>1. /\ left \in SUBSET Kept /\ reset \in {"no", "this", "earlier"}
          /\ c.at = "frame" /\ c.work \in BOOLEAN
      BY <1>0, <1>4, <2>2 DEF Lefts, Resets, Diagnostic, Connection
    <3> QED BY <2>2, <3>1, AnsweredOK, CloseOK
  <2> QED BY <1>4, <2>1, <2>2 DEF Diagnostic
<1>5. CASE Deferred
  <2>1. /\ c.at = "frame" /\ c.routing /\ c' = [c EXCEPT !.at = "pending", !.reads = 0]
        /\ UNCHANGED <<backlog, rapid, rejects, armed, did, burst>>
    BY <1>5 DEF Deferred
  <2>2. uds' \subseteq Kept BY <1>5, KeptAssumption DEF Deferred, Lefts
  <2>3. /\ c' \in Connection /\ c'.at = "pending" /\ c'.reads = 0 /\ c'.age = c.age
        /\ c'.work = c.work /\ c'.routing = c.routing
    BY <1>0, <2>1 DEF Connection
  <2>4. TypeOK' BY <2>1, <2>2, <2>3 DEF IInv, TypeOK, Connection
  <2>5. Clean' BY <1>0, <2>1, <2>3 DEF IInv, Clean
  <2>6. Aged'
    <3>1. c.age < Lifetime + 2 * ReadAttempts BY <2>1 DEF IInv, Aged
    <3> QED BY <1>0, <2>3, <3>1, Bounds DEF Aged, Connection
  <2>7. Bursts' BY <2>1 DEF IInv, Bursts, RefusedOnlyAfterBurst
  <2> QED BY <2>4, <2>5, <2>6, <2>7 DEF IInv
<1>6. CASE PendingOver
  <2>1. PICK left \in Lefts : Answered(left, armed) BY <1>6 DEF PendingOver
  <2>2. left \in SUBSET Kept /\ c.at = "pending" BY <1>6, <2>1 DEF Lefts, PendingOver
  <2> QED BY <1>0, <2>1, <2>2, AnsweredOK
<1> QED BY <1>1, <1>2, <1>3, <1>4, <1>5, <1>6

\* The steps outside of a connection: a tester connects, the listener accepts or
\* rejects it, S3 expires.
LEMMA OutsideOK ==
    ASSUME IInv, (\E p \in Peers : Connect(p)) \/ Accept \/ Reject \/ S3Expires
    PROVE IInv'
<1>1. ASSUME NEW p \in Peers, Connect(p) PROVE IInv'
  <2>1. /\ backlog' = Append(backlog, p) /\ Len(backlog) < Backlog
        /\ UNCHANGED <<c, rapid, rejects, uds, armed, did, burst>>
    BY <1>1 DEF Connect
  <2>2. backlog' \in Seq(Peers) /\ Len(backlog') <= Backlog
    BY <2>1, AppendProperties, Bounds DEF IInv, TypeOK
  <2> QED BY <2>1, <2>2
          DEF IInv, TypeOK, Clean, Aged, Bursts, RefusedOnlyAfterBurst
<1>2. ASSUME Accept \/ Reject
      PROVE backlog' \in Seq(Peers) /\ Len(backlog') <= Backlog /\ Head(backlog) \in Peers
  <2>1. backlog # <<>> /\ backlog' = Tail(backlog) /\ backlog \in Seq(Peers)
    BY <1>2 DEF Accept, Reject, IInv, TypeOK
  <2> QED BY <2>1, HeadTailProperties, Bounds DEF IInv, TypeOK
<1>3. CASE Accept
  <2>1. /\ c' = [NoConn EXCEPT !.peer = Head(backlog), !.at = "idle"] /\ rejects = 0
        /\ c.at = "accept" /\ UNCHANGED <<rapid, rejects, uds, armed, did, burst>>
    BY <1>3 DEF Accept
  <2>2. /\ c' \in Connection /\ c'.at = "idle" /\ ~c'.work /\ ~c'.routing /\ c'.age = 0
    <3>1. NoConn \in Connection /\ ~NoConn.work /\ ~NoConn.routing /\ NoConn.age = 0
          /\ Head(backlog) \in Peers
      BY <1>2, <1>3, NoConnection
    <3> QED BY <2>1, <3>1 DEF Connection
  <2>3. Clean' BY <2>1, <2>2 DEF IInv, Clean
  <2>4. TypeOK' BY <1>2, <1>3, <2>1, <2>2 DEF IInv, TypeOK, Connection
  <2>5. Aged' BY <2>2, Bounds DEF Aged
  <2>6. Bursts' BY <2>1 DEF IInv, Bursts, RefusedOnlyAfterBurst
  <2> QED BY <2>3, <2>4, <2>5, <2>6 DEF IInv
<1>4. CASE Reject
  <2>1. /\ c.at = "accept" /\ rejects' = rejects - 1 /\ rejects > 0
        /\ UNCHANGED <<c, rapid, uds, armed, did, burst>>
    BY <1>4 DEF Reject
  <2> QED BY <1>2, <1>4, <2>1, Bounds
          DEF IInv, TypeOK, Clean, Aged, Bursts, RefusedOnlyAfterBurst
<1>5. CASE S3Expires
  BY <1>5 DEF S3Expires, IInv, TypeOK, Clean, Aged, Bursts, RefusedOnlyAfterBurst
<1> QED BY <1>1, <1>3, <1>4, <1>5

\* Every step keeps the invariant.
LEMMA StepOK == IInv /\ [Next]_vars => IInv'
<1> SUFFICES ASSUME IInv, [Next]_vars PROVE IInv'
  OBVIOUS
<1>1. CASE (\E p \in Peers : Connect(p)) \/ Accept \/ Reject \/ S3Expires
  BY <1>1, OutsideOK
<1>2. CASE IdlePoll \/ FrameBegins \/ Trickle \/ HeaderRead \/ PayloadRead \/ PendingRound
  BY <1>2, WaitOK
<1>3. CASE UnknownType \/ NoEffect \/ Activate \/ Diagnostic \/ Deferred \/ PendingOver
  BY <1>3, FrameOK
<1>4. CASE Broken \/ PendingFails
  <2>1. c.at # "accept" /\ Drop BY <1>4 DEF Broken, PendingFails
  <2> QED BY <2>1, DropOK
<1>5. CASE UNCHANGED vars
  BY <1>5 DEF vars, IInv, TypeOK, Clean, Aged, Bursts, RefusedOnlyAfterBurst
<1> QED BY <1>1, <1>2, <1>3, <1>4, <1>5 DEF Next, Serve

\* The invariant holds from the start on.
THEOREM Invariant == Spec => []IInv
<1> QED BY InitOK, StepOK, PTL DEF Spec

-----------------------------------------------------------------------------
(* What it shows. *)

\* Types of the connection, the back-off and what requests leave behind.
THEOREM TypeCorrect == Spec => []TypeOK
<1>1. IInv => TypeOK BY DEF IInv
<1> QED BY <1>1, Invariant, PTL

\* Until its first frame is handled, a tester finds nothing of the one before: no
\* session, no unlocked level, no job, no transfer.
THEOREM NothingIsInherited == Spec => []NothingInherited
<1>1. IInv => NothingInherited BY DEF IInv, Clean, NothingInherited
<1> QED BY <1>1, Invariant, PTL

\* A connection's age never passes its lifetime by more than one frame, whatever
\* the tester sends and however the bounds are chosen.
THEOREM SlotAlwaysBounded == Spec => []SlotIsBounded
<1>1. ASSUME IInv PROVE SlotIsBounded
  <2>1. /\ c.at \in {"accept", "idle", "header", "payload", "empty", "frame", "pending"}
        /\ c.age \in 0..AgeMax /\ c.reads \in Nat /\ Aged
    BY <1>1 DEF IInv, TypeOK
  <2> QED BY <2>1, Bounds DEF Aged, SlotIsBounded
<1> QED BY <1>1, Invariant, PTL

\* A connection is only refused after a burst of connections without work.
THEOREM RefusalsFollowABurst == Spec => []RefusedOnlyAfterBurst
<1>1. IInv => RefusedOnlyAfterBurst BY DEF IInv, Bursts
<1> QED BY <1>1, Invariant, PTL

=============================================================================
