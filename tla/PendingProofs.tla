---------------------------- MODULE PendingProofs ----------------------------
(***************************************************************************)
(* Proofs about Pending, for every P2*, S3, cap and set of step lengths:   *)
(* what becomes of the job and of its answer under every interleaving      *)
(* (Safe), and the tester's clock under a prompt loop (Clocks).            *)
(***************************************************************************)
EXTENDS Pending, TLAPS

-----------------------------------------------------------------------------
(* The invariants. *)

\* A slot about to be zeroed has no running job.
ClearsNothingRunning ==
    /\ NoOrphan
    /\ expiry = "clear" \/ teardown = "clear" => job # "running"

\* A frame in the loop's hands is the frame the slot owes, and no tester has
\* had a final answer before the loop knows that it was sent.
FrameIsOwed ==
    /\ active /\ app # "idle" => owed = frame
    /\ app = "holding" => finals = 0
    /\ active /\ finals = 1 => app = "sent" /\ owed = "final"
    /\ app = "holding" /\ frame = "final" => job # "running"

Safe == TypeOK /\ ClearsNothingRunning /\ FrameIsOwed /\ FinalIsFinal

\* Only S3's expiry has aborted a job whose answer is not owed.
AbortCount ==
    /\ ~threaded => loop # "cut"
    /\ loop # "cut" => /\ teardown = "no"
                       /\ aborts <= 1
                       /\ active /\ owed # "final" /\ expiry # "clear" => aborts = 0
                       /\ expiry \in {"read", "call"} => active
                       /\ expiry = "call" => owed # "final"

\* The slot's clock runs ahead of the tester's, and is short of the keep-alive
\* interval when a tick may come.
GapClock ==
    /\ active => stepMax < P2Star /\ gap <= since
    /\ active => (app = "idle") = (owed = "no")
    /\ active /\ app = "idle" /\ polled =>
         since = 0 \/ (since < KeepaliveMs /\ stepMax < KeepaliveMs)
    /\ active /\ app = "idle" /\ ~polled =>
         since <= 1 \/ (since <= KeepaliveMs /\ stepMax < KeepaliveMs)
    /\ active => gap <= P2Star
    /\ app = "sent" => gap = 0

\* So is the clock of the cap.
CapClock ==
    active => /\ waited <= total
              /\ total <= MaxPending + stepMax
              /\ polled /\ owed # "final" => total < MaxPending + stepMax

\* S3 has run no longer than since the last frame.
S3Clock ==
    active => /\ S3Ms - since <= s3
              /\ app # "idle" => s3 = S3Ms

Clocks == TypeOK /\ GapClock /\ CapClock /\ S3Clock

-----------------------------------------------------------------------------
(* Types. *)

\* The keep-alive interval is at most half of either timeout.
LEMMA KeepaliveMsBound ==
    /\ KeepaliveMs \in Nat
    /\ 2 * KeepaliveMs <= P2Star
    /\ 2 * KeepaliveMs <= S3Ms
BY TimesAssumption DEF KeepaliveMs, Lesser

\* A saturating clock stays in its range and never runs backwards.
LEMMA AddType ==
    \A clock \in 0..ClockMax, ms \in Nat : /\ Add(clock, ms) \in 0..ClockMax
                                           /\ clock <= Add(clock, ms)
BY TimesAssumption DEF Add, Lesser

\* The history clocks do as well.
LEMMA RealTimeType ==
    ASSUME TypeOK, NEW ms \in Nat, RealTime(ms)
    PROVE  gap' \in 0..GapBound /\ waited' \in 0..WaitBound
BY TimesAssumption DEF TypeOK, RealTime, Lesser, GapBound, WaitBound

\* A zeroed slot has the types of one.
LEMMA ClearType ==
    ASSUME Clear
    PROVE  /\ active' \in BOOLEAN
           /\ stepMax' \in StepMaxes \cup {0}
           /\ owed' \in {"no", "keepalive", "final"}
           /\ since' \in 0..ClockMax /\ total' \in 0..ClockMax
<1>1. active' \in BOOLEAN
  BY Zenon DEF Clear
<1>2. /\ stepMax' \in StepMaxes \cup {0}
      /\ owed' \in {"no", "keepalive", "final"}
  BY Zenon DEF Clear
<1>3. since' \in 0..ClockMax /\ total' \in 0..ClockMax
  BY TimesAssumption DEF Clear
<1>4. QED
  BY <1>1, <1>2, <1>3

\* So do the slot and the job that an abort without a lock leaves.
LEMMA UnlockedType ==
    ASSUME TypeOK, NEW at, NEW next, AbortUnlocked(at, next)
    PROVE  /\ next \in {"no", "test", "read", "call", "clear"}
           /\ job' \in {"none", "running", "over"} /\ aborts' \in Nat
           /\ active' \in BOOLEAN
           /\ stepMax' \in StepMaxes \cup {0}
           /\ owed' \in {"no", "keepalive", "final"}
           /\ since' \in 0..ClockMax /\ total' \in 0..ClockMax
<1>1. CASE at = "clear" /\ Clear /\ next = "no" /\ UNCHANGED <<job, aborts>>
  BY <1>1, ClearType DEF TypeOK
<1>2. CASE at = "call" /\ next = "clear" /\ job' = "over" /\ aborts' = aborts + 1 /\ UNCHANGED slot
  BY <1>2 DEF TypeOK, slot
<1>3. CASE at \in {"test", "read"} /\ UNCHANGED <<slot, job, aborts>>
  BY <1>3 DEF TypeOK, slot, AbortUnlocked
<1>4. QED
  BY <1>1, <1>2, <1>3 DEF AbortUnlocked

\* Every step keeps the types.
LEMMA TypeStep ==
    ASSUME TypeOK, [Next]_vars
    PROVE  TypeOK'
<1> USE TimesAssumption, StepAssumption DEF TypeOK, slot, threads
<1>1. CASE UNCHANGED vars
  BY <1>1 DEF vars
<1>2. ASSUME NEW max \in StepMaxes, Defer(max)
      PROVE  TypeOK'
  BY <1>2 DEF Defer, Reachable, LoopRuns, GapBound, WaitBound
<1>3. ASSUME NEW to \in {"default", "other"}, OtherRequest(to)
      PROVE  TypeOK'
  BY <1>3 DEF OtherRequest
<1>4. ASSUME NEW testerPresent \in BOOLEAN, RequestWhilePending(testerPresent)
      PROVE  TypeOK'
  BY <1>4 DEF RequestWhilePending
<1>5. CASE PollCap
  BY <1>5 DEF PollCap, Polling, Owe
<1>6. CASE PollKeepalive
  BY <1>6 DEF PollKeepalive, Polling, Owe
<1>7. CASE PollAgain
  BY <1>7 DEF PollAgain, Polling
<1>8. ASSUME NEW ms \in 0..stepMax, Stepping(ms)
      PROVE  /\ StepInProgress(ms) => TypeOK'
             /\ StepOver(ms) => TypeOK'
             /\ StepBroken(ms) => TypeOK'
  <2>1. stepMax \in Nat /\ ms \in Nat
    OBVIOUS
  <2>2. since' \in 0..ClockMax /\ total' \in 0..ClockMax
    BY <1>8, <2>1, AddType DEF Stepping
  <2>3. gap' \in 0..GapBound /\ waited' \in 0..WaitBound
    BY <1>8, <2>1, RealTimeType DEF Stepping
  <2>4. StepInProgress(ms) => TypeOK'
    BY <1>8, <2>2, <2>3 DEF StepInProgress, Stepping, Polling, Owe
  <2>5. StepOver(ms) => TypeOK'
    BY <1>8, <2>2, <2>3 DEF StepOver, Stepping, Polling, Owe
  <2>6. StepBroken(ms) => TypeOK'
    BY <1>8, <2>2, <2>3 DEF StepBroken, Stepping, Polling, Owe
  <2>7. QED
    BY <2>4, <2>5, <2>6
<1>9. CASE TransmitOk
  BY <1>9 DEF TransmitOk, GapBound
<1>10. CASE TransmitBusy
  BY <1>10 DEF TransmitBusy
<1>11. CASE FrameSent
  <2>1. CASE active /\ owed = "final"
    BY <1>11, <2>1, ClearType DEF FrameSent
  <2>2. CASE active /\ owed = "keepalive"
    BY <1>11, <2>2 DEF FrameSent
  <2>3. CASE ~active \/ owed = "no"
    BY <1>11, <2>3 DEF FrameSent
  <2>4. QED
    BY <2>1, <2>2, <2>3
<1>12. CASE Disconnect
  BY <1>12 DEF Disconnect
<1>13. CASE Teardown
  BY <1>13, UnlockedType DEF Teardown
<1>14. CASE AbortOfNothing
  BY <1>14, ClearType DEF AbortOfNothing
<1>15. ASSUME Ticking
       PROVE  /\ gap' \in 0..GapBound /\ waited' \in 0..WaitBound
              /\ Add(since, 1) \in 0..ClockMax /\ Add(total, 1) \in 0..ClockMax
              /\ polled' \in BOOLEAN
  <2>1. gap' \in 0..GapBound /\ waited' \in 0..WaitBound
    BY <1>15, RealTimeType DEF Ticking
  <2>2. Add(since, 1) \in 0..ClockMax /\ Add(total, 1) \in 0..ClockMax
    BY AddType
  <2>3. polled' \in BOOLEAN
    BY <1>15, Zenon DEF Ticking
  <2>4. QED
    BY <2>1, <2>2, <2>3
<1>16. CASE Tick
  <2>1. s3' \in 1..S3Ms
    BY <1>16 DEF Tick
  <2>2. since' \in 0..ClockMax /\ total' \in 0..ClockMax
    BY <1>15, <1>16 DEF Tick
  <2>3. gap' \in 0..GapBound /\ waited' \in 0..WaitBound /\ polled' \in BOOLEAN
    BY <1>15, <1>16 DEF Tick
  <2>4. QED
    BY <1>16, <2>1, <2>2, <2>3 DEF Tick, Ticking
<1>17. CASE S3Timeout
  <2>1. gap' \in 0..GapBound /\ waited' \in 0..WaitBound /\ polled' \in BOOLEAN
    BY <1>15, <1>17 DEF S3Timeout, S3Expires
  <2>2. aborts' \in Nat /\ job' \in {"none", "running", "over"}
    BY <1>17 DEF S3Timeout, AbortJob
  <2>3. QED
    BY <1>17, <2>1, <2>2, ClearType DEF S3Timeout, S3Expires, Ticking
<1>18. CASE S3TimeoutThreaded
  <2>1. gap' \in 0..GapBound /\ waited' \in 0..WaitBound /\ polled' \in BOOLEAN
    BY <1>15, <1>18 DEF S3TimeoutThreaded, S3Expires
  <2>2. QED
    BY <1>18, <2>1 DEF S3TimeoutThreaded, S3Expires, Ticking
<1>20. CASE Expiry
  BY <1>20, UnlockedType DEF Expiry
<1>21. ASSUME NEW ms \in 0..stepMax, StepInProgress(ms) \/ StepOver(ms) \/ StepBroken(ms)
       PROVE  TypeOK'
  BY <1>8, <1>21 DEF StepInProgress, StepOver, StepBroken
<1>22. QED
  BY <1>1, <1>2, <1>3, <1>4, <1>5, <1>6, <1>7, <1>9, <1>10, <1>11, <1>12, <1>13, <1>14,
     <1>16, <1>17, <1>18, <1>20, <1>21 DEF Next, Poll

-----------------------------------------------------------------------------
(* The job and its answer. *)

\* Every step keeps Safe.
LEMMA SafeStep ==
    ASSUME Safe, [Next]_vars
    PROVE  Safe'
<1> DEFINE Rest == ClearsNothingRunning /\ FrameIsOwed /\ FinalIsFinal
<1>a. TypeOK'
  BY TypeStep DEF Safe
<1> SUFFICES Rest'
  BY <1>a DEF Safe
<1> USE DEF Safe, TypeOK, ClearsNothingRunning, NoOrphan, FrameIsOwed, FinalIsFinal,
            Reachable, LoopRuns
<1>1. CASE UNCHANGED vars
  BY <1>1 DEF vars
<1>2. ASSUME NEW max \in StepMaxes, Defer(max)
      PROVE  Rest'
  BY <1>2 DEF Defer
<1>3. ASSUME NEW to \in {"default", "other"}, OtherRequest(to)
      PROVE  Rest'
  BY <1>3 DEF OtherRequest
<1>4. ASSUME NEW testerPresent \in BOOLEAN, RequestWhilePending(testerPresent)
      PROVE  Rest'
  BY <1>4 DEF RequestWhilePending
<1>5. CASE PollCap
  BY <1>5 DEF PollCap, Polling, threads, Owe
<1>6. CASE PollKeepalive
  BY <1>6 DEF PollKeepalive, Polling, threads, Owe
<1>7. CASE PollAgain
  BY <1>7 DEF PollAgain, Polling, threads
<1>8. ASSUME NEW ms \in 0..stepMax, StepInProgress(ms)
      PROVE  Rest'
  BY <1>8 DEF StepInProgress, Stepping, Polling, threads, Owe
<1>9. ASSUME NEW ms \in 0..stepMax, StepOver(ms)
      PROVE  Rest'
  BY <1>9 DEF StepOver, Stepping, Polling, threads, Owe
<1>10. ASSUME NEW ms \in 0..stepMax, StepBroken(ms)
       PROVE  Rest'
  BY <1>10 DEF StepBroken, Stepping, Polling, threads, Owe
<1>11. CASE TransmitOk
  BY <1>11 DEF TransmitOk
<1>12. CASE TransmitBusy
  BY <1>12 DEF TransmitBusy
<1>13. CASE FrameSent
  BY <1>13 DEF FrameSent, Clear, slot
<1>14. CASE Disconnect
  BY <1>14 DEF Disconnect
<1>15. CASE Teardown
  BY <1>15 DEF Teardown, AbortUnlocked, Clear, slot
<1>16. CASE AbortOfNothing
  BY <1>16 DEF AbortOfNothing, Clear
<1>17. CASE Tick
  BY <1>17 DEF Tick, Ticking
<1>18. CASE S3Timeout
  BY <1>18 DEF S3Timeout, S3Expires, Ticking, AbortJob, Clear
<1>19. CASE S3TimeoutThreaded
  BY <1>19 DEF S3TimeoutThreaded, S3Expires, Ticking
<1>20. CASE Expiry
  BY <1>20 DEF Expiry, AbortUnlocked, Clear, slot
<1>22. QED
  BY <1>1, <1>2, <1>3, <1>4, <1>5, <1>6, <1>7, <1>8, <1>9, <1>10, <1>11, <1>12, <1>13,
     <1>14, <1>15, <1>16, <1>17, <1>18, <1>19, <1>20, Zenon DEF Next, Poll

\* Safe is an invariant.
THEOREM SafeInvariant == Spec => []Safe
<1>1. Init => Safe
  <2>1. ASSUME Init
        PROVE  TypeOK
    <3>1. /\ active \in BOOLEAN /\ polled \in BOOLEAN
          /\ threaded \in BOOLEAN /\ loop \in {"prompt", "late", "cut"}
      BY <2>1, Zenon DEF Init
    <3>2. /\ s3 \in 1..S3Ms
          /\ since \in 0..ClockMax /\ total \in 0..ClockMax
          /\ aborts \in Nat /\ finals \in Nat
          /\ gap \in 0..GapBound /\ waited \in 0..WaitBound
      BY <2>1, TimesAssumption DEF Init, GapBound, WaitBound
    <3>3. stepMax \in StepMaxes \cup {0} /\ owed \in {"no", "keepalive", "final"}
      BY <2>1 DEF Init
    <3>4. /\ session \in {"default", "other"} /\ job \in {"none", "running", "over"}
          /\ app \in {"idle", "holding", "sent"} /\ frame \in {"keepalive", "final"}
          /\ {expiry, teardown} \subseteq {"no", "test", "read", "call", "clear"}
      BY <2>1 DEF Init
    <3>5. QED
      BY <3>1, <3>2, <3>3, <3>4 DEF TypeOK
  <2>2. ASSUME Init
        PROVE  job = "none" /\ app = "idle" /\ finals = 0
    BY <2>2 DEF Init
  <2>3. QED
    BY <2>1, <2>2 DEF Safe, ClearsNothingRunning, NoOrphan, FrameIsOwed, FinalIsFinal
<1>2. Safe /\ [Next]_vars => Safe'
  BY SafeStep
<1>3. QED
  BY <1>1, <1>2, PTL DEF Spec

(* No timeout, cap, lost connection or broken step leaves deferred work    *)
(* running without a slot that still polls or aborts it.                   *)
THEOREM WorkNeverOrphaned == Spec => []NoOrphan
<1>1. Safe => NoOrphan
  BY DEF Safe, ClearsNothingRunning
<1>2. QED
  BY <1>1, SafeInvariant, PTL

(* One request, one final answer, and never while the work goes on:        *)
(* whatever falls between uds_server_poll and uds_server_frame_sent.       *)
THEOREM OneFinalAnswer == Spec => []FinalIsFinal
<1>1. Safe => FinalIsFinal
  BY DEF Safe
<1>2. QED
  BY <1>1, SafeInvariant, PTL

(* Every variable of the slot stays in its range.                          *)
THEOREM TypeCorrect == Spec => []TypeOK
<1>1. Safe => TypeOK
  BY DEF Safe
<1>2. QED
  BY <1>1, SafeInvariant, PTL

-----------------------------------------------------------------------------
(* The abort. *)

\* Every step keeps AbortCount.
LEMMA AbortStep ==
    ASSUME TypeOK, AbortCount, [Next]_vars
    PROVE  AbortCount'
<1> USE DEF TypeOK, AbortCount, Reachable, LoopRuns
<1>1. CASE UNCHANGED vars
  BY <1>1 DEF vars
<1>2. ASSUME NEW max \in StepMaxes, Defer(max)
      PROVE  AbortCount'
  BY <1>2 DEF Defer
<1>3. ASSUME NEW to \in {"default", "other"}, OtherRequest(to)
      PROVE  AbortCount'
  BY <1>3 DEF OtherRequest
<1>4. ASSUME NEW testerPresent \in BOOLEAN, RequestWhilePending(testerPresent)
      PROVE  AbortCount'
  BY <1>4 DEF RequestWhilePending
<1>5. CASE PollCap
  BY <1>5 DEF PollCap, Polling, threads, Owe
<1>6. CASE PollKeepalive
  BY <1>6 DEF PollKeepalive, Polling, threads, Owe
<1>7. CASE PollAgain
  BY <1>7 DEF PollAgain, Polling, threads
<1>8. ASSUME NEW ms \in 0..stepMax, StepInProgress(ms)
      PROVE  AbortCount'
  BY <1>8 DEF StepInProgress, Stepping, Polling, threads, Owe
<1>9. ASSUME NEW ms \in 0..stepMax, StepOver(ms)
      PROVE  AbortCount'
  BY <1>9 DEF StepOver, Stepping, Polling, threads, Owe
<1>10. ASSUME NEW ms \in 0..stepMax, StepBroken(ms)
       PROVE  AbortCount'
  BY <1>10 DEF StepBroken, Stepping, Polling, threads, Owe
<1>11. CASE TransmitOk
  BY <1>11 DEF TransmitOk
<1>12. CASE TransmitBusy
  BY <1>12 DEF TransmitBusy
<1>13. CASE FrameSent
  BY <1>13 DEF FrameSent, Clear, slot
<1>14. CASE Disconnect
  BY <1>14 DEF Disconnect
<1>15. CASE Teardown
  BY <1>15 DEF Teardown, AbortUnlocked
<1>16. CASE AbortOfNothing
  BY <1>16 DEF AbortOfNothing, Clear
<1>17. CASE Tick
  BY <1>17 DEF Tick, Ticking
<1>18. CASE S3Timeout
  BY <1>18 DEF S3Timeout, S3Expires, Ticking, AbortJob, Clear
<1>19. CASE S3TimeoutThreaded
  BY <1>19 DEF S3TimeoutThreaded, S3Expires, Ticking
<1>20. CASE Expiry
  <2>1. UNCHANGED <<threaded, loop, teardown>>
    BY <1>20 DEF Expiry
  <2>2. CASE expiry = "call"
    BY <1>20, <2>1, <2>2 DEF Expiry, AbortUnlocked, slot
  <2>3. CASE expiry \in {"test", "read"}
    BY <1>20, <2>1, <2>3 DEF Expiry, AbortUnlocked, slot
  <2>4. CASE expiry = "clear"
    BY <1>20, <2>1, <2>4 DEF Expiry, AbortUnlocked, Clear
  <2>5. QED
    BY <1>20, <2>2, <2>3, <2>4 DEF Expiry, AbortUnlocked
<1>22. QED
  BY <1>1, <1>2, <1>3, <1>4, <1>5, <1>6, <1>7, <1>8, <1>9, <1>10, <1>11, <1>12, <1>13,
     <1>14, <1>15, <1>16, <1>17, <1>18, <1>19, <1>20, Zenon DEF Next, Poll

(* The abort callback of a job runs at most once, in the CAN loop always,  *)
(* over DoIP as long as no connection is torn down.                        *)
THEOREM AbortedAtMostOnce == Spec => []AbortOnce
<1>1. Init => AbortCount
  BY DEF Init, AbortCount
<1>2. TypeOK /\ AbortCount /\ [Next]_vars => AbortCount'
  BY AbortStep
<1>3. AbortCount => AbortOnce
  BY DEF AbortCount, AbortOnce, AbortCalledOnce
<1>4. QED
  BY <1>1, <1>2, <1>3, TypeCorrect, PTL DEF Spec

-----------------------------------------------------------------------------
(* The tester's clock. *)

\* The tick's effect on the clocks, below their bounds.
LEMMA AddBelow ==
    ASSUME NEW clock \in Nat, NEW ms \in Nat, clock + ms <= ClockMax
    PROVE  Add(clock, ms) = clock + ms
BY TimesAssumption DEF Add, Lesser

\* What ms of real time do to the history clocks.
LEMMA RealTimeBound ==
    ASSUME TypeOK, NEW ms \in Nat, RealTime(ms)
    PROVE  gap' <= gap + ms /\ waited' <= waited + ms
BY TimesAssumption DEF TypeOK, RealTime, Lesser, GapBound, WaitBound

\* A step that may start fits before the end of P2*.
LEMMA StepFits ==
    ASSUME TypeOK, GapClock, active, app = "idle", since < KeepaliveMs
    PROVE  since + stepMax <= P2Star
<1>1. CASE stepMax < KeepaliveMs
  BY <1>1, KeepaliveMsBound, TimesAssumption, StepAssumption DEF TypeOK
<1>2. CASE stepMax >= KeepaliveMs
  BY <1>2, KeepaliveMsBound, TimesAssumption, StepAssumption DEF TypeOK, GapClock
<1>3. QED
  BY <1>1, <1>2, KeepaliveMsBound, StepAssumption DEF TypeOK

\* S3 has time left under a pending job whenever a tick may come.
LEMMA TimeLeft ==
    ASSUME S3Ms > 1, Clocks, active, app = "idle", polled
    PROVE  s3 > 1
BY KeepaliveMsBound, TimesAssumption DEF Clocks, TypeOK, GapClock, S3Clock

\* Every step of a prompt loop keeps Clocks.
LEMMA ClockStep ==
    ASSUME loop' = "prompt", loop = "prompt", S3Ms > 1, Clocks, [Next]_vars
    PROVE  Clocks'
<1> DEFINE Rest == GapClock /\ CapClock /\ S3Clock
<1>a. TypeOK'
  BY TypeStep DEF Clocks
<1> SUFFICES Rest'
  BY <1>a DEF Clocks
<1>b. KeepaliveMs \in Nat /\ KeepaliveMs' = KeepaliveMs
  BY KeepaliveMsBound DEF KeepaliveMs, Lesser
<1>c. stepMax \in Nat
  BY StepAssumption DEF Clocks, TypeOK
<1> USE TimesAssumption DEF Clocks, TypeOK, GapClock, CapClock, S3Clock,
            Reachable, LoopRuns
<1>1. CASE UNCHANGED vars
  BY <1>1 DEF vars, KeepaliveMs, Lesser
<1>2. ASSUME NEW max \in StepMaxes, Defer(max)
      PROVE  Rest'
  BY <1>2, StepAssumption DEF Defer
<1>3. ASSUME NEW to \in {"default", "other"}, OtherRequest(to)
      PROVE  Rest'
  BY <1>3 DEF OtherRequest
<1>4. ASSUME NEW testerPresent \in BOOLEAN, RequestWhilePending(testerPresent)
      PROVE  Rest'
  BY <1>4, <1>b DEF RequestWhilePending
<1>5. CASE PollCap
  BY <1>5, <1>b, <1>c DEF PollCap, Polling, threads, Owe
<1>6. CASE PollKeepalive
  BY <1>6, <1>b, <1>c DEF PollKeepalive, Polling, threads, Owe
<1>7. CASE PollAgain
  BY <1>7, <1>b DEF PollAgain, Polling, threads
<1>8. ASSUME NEW ms \in 0..stepMax, Stepping(ms)
      PROVE  /\ since' = since + stepMax /\ total' = total + stepMax
             /\ gap' <= since' /\ gap' <= P2Star
             /\ waited' <= total' /\ total' < MaxPending + stepMax
  <2>1. since + stepMax <= P2Star
    BY <1>8, StepFits DEF Stepping, Polling
  <2>2. since' = since + stepMax /\ total' = total + stepMax
    BY <1>8, <1>c, <2>1, AddBelow DEF Stepping, Polling
  <2>3. gap' <= gap + ms /\ waited' <= waited + ms
    BY <1>8, <1>c, RealTimeBound DEF Stepping
  <2>4. QED
    BY <1>8, <1>a, <1>c, <2>1, <2>2, <2>3 DEF Stepping, Polling
<1>9. ASSUME NEW ms \in 0..stepMax, StepInProgress(ms)
      PROVE  Rest'
  BY <1>8, <1>9, <1>a, <1>b, <1>c DEF StepInProgress, Stepping, Polling, threads, Owe
<1>10. ASSUME NEW ms \in 0..stepMax, StepOver(ms)
       PROVE  Rest'
  BY <1>8, <1>10, <1>a, <1>b, <1>c DEF StepOver, Stepping, Polling, threads, Owe
<1>11. ASSUME NEW ms \in 0..stepMax, StepBroken(ms)
       PROVE  Rest'
  BY <1>8, <1>11, <1>a, <1>b, <1>c DEF StepBroken, Stepping, Polling, threads, Owe
<1>12. CASE TransmitOk
  BY <1>12, <1>b DEF TransmitOk
<1>13. CASE TransmitBusy
  BY <1>13 DEF TransmitBusy
<1>14. CASE FrameSent
  <2>1. CASE active /\ owed = "final"
    BY <1>14, <2>1, <1>b DEF FrameSent, Clear
  <2>2. CASE active /\ owed = "keepalive"
    BY <1>14, <2>2, <1>b, <1>c DEF FrameSent
  <2>3. CASE ~active
    BY <1>14, <2>3, <1>b DEF FrameSent, slot
  <2>4. CASE active /\ owed = "no"
    BY <1>14, <2>4 DEF FrameSent
  <2>5. QED
    BY <2>1, <2>2, <2>3, <2>4
<1>15. CASE Disconnect
  BY <1>15 DEF Disconnect
<1>16. CASE Teardown
  BY <1>16, <1>b DEF Teardown, AbortUnlocked, Clear, slot
<1>17. CASE AbortOfNothing
  BY <1>17, <1>b DEF AbortOfNothing, Clear
<1>18. CASE Tick
  <2>1. CASE active
    <3>1. app = "idle" /\ app' = "idle" /\ polled /\ active' /\ polled' = FALSE
      BY <1>18, <2>1 DEF Tick, Ticking, Late
    <3>2. stepMax' = stepMax /\ owed' = owed
      BY <1>18 DEF Tick
    <3>3. since < P2Star /\ total < MaxPending + stepMax /\ stepMax < P2Star
      BY <2>1, <3>1, KeepaliveMsBound
    <3>4. since' = since + 1 /\ total' = total + 1
      BY <1>18, <2>1, <1>c, <3>3, AddBelow DEF Tick
    <3>5. gap' <= gap + 1 /\ waited' <= waited + 1
      BY <1>18, RealTimeBound DEF Tick, Ticking
    <3>6. s3 - 1 <= s3'
      BY <1>18 DEF Tick
    <3>7. GapClock'
      BY <2>1, <3>1, <3>2, <3>3, <3>4, <3>5, <1>a, <1>b, <1>c
    <3>8. CapClock'
      BY <2>1, <3>1, <3>2, <3>3, <3>4, <3>5, <1>a, <1>c
    <3>9. S3Clock'
      <4>1. S3Ms - (since + 1) <= s3'
        BY <2>1, <3>6, <1>a
      <4>2. QED
        BY <4>1, <3>1, <3>4
    <3>10. QED
      BY <3>7, <3>8, <3>9
  <2>2. CASE ~active
    BY <1>18, <2>2 DEF Tick, Ticking, Late
  <2>3. QED
    BY <2>1, <2>2
<1>19. ASSUME S3Expires
       PROVE  ~active /\ app' = "idle"
  BY <1>19, TimeLeft DEF S3Expires, Ticking, Late
<1>20. CASE S3Timeout \/ S3TimeoutThreaded
  <2>1. ~active' /\ app' = "idle"
    BY <1>19, <1>20 DEF S3Timeout, S3TimeoutThreaded, Clear
  <2>2. QED
    BY <2>1
<1>22. CASE Expiry
  BY <1>22, <1>b DEF Expiry, AbortUnlocked, Clear, slot
<1>23. QED
  BY <1>1, <1>2, <1>3, <1>4, <1>5, <1>6, <1>7, <1>9, <1>10, <1>11, <1>12, <1>13, <1>14,
     <1>15, <1>16, <1>17, <1>18, <1>20, <1>22, Zenon DEF Next, Poll

\* A loop that was late is prompt again with the next deferred request only.
LEMMA PromptAgain ==
    ASSUME loop # "prompt", loop' = "prompt", [Next]_vars
    PROVE  \E max \in StepMaxes : Defer(max)
<1>1. loop' # loop
  OBVIOUS
<1>2. ~(UNCHANGED vars)
  BY <1>1 DEF vars
<1>3. ASSUME NEW ms \in 0..stepMax
      PROVE  ~StepInProgress(ms) /\ ~StepOver(ms) /\ ~StepBroken(ms)
  BY <1>1 DEF StepInProgress, StepOver, StepBroken, Stepping, Polling
<1>4. ~Poll
  BY <1>1, <1>3 DEF Poll, PollCap, PollKeepalive, PollAgain, Polling
<1>5. ~Tick /\ ~S3Timeout /\ ~S3TimeoutThreaded
  BY <1>1 DEF Tick, S3Timeout, S3TimeoutThreaded, S3Expires, Ticking
<1>6. QED
  BY <1>1, <1>2, <1>4, <1>5
     DEF Next, OtherRequest, RequestWhilePending, TransmitOk, TransmitBusy, FrameSent,
         Disconnect, Teardown, Expiry, AbortOfNothing

\* A new slot's clocks are all at zero.
LEMMA ClockStart ==
    ASSUME TypeOK, NEW max \in StepMaxes, Defer(max)
    PROVE  Clocks'
<1>1. TypeOK'
  BY TypeStep, Zenon DEF Next
<1>2. QED
  BY <1>1, TimesAssumption, StepAssumption
     DEF Clocks, TypeOK, GapClock, CapClock, S3Clock, Defer, Reachable

\* Clocks is an invariant of a prompt loop whose frames get through.
THEOREM ClockInvariant ==
    ASSUME S3Ms > 1
    PROVE  Spec => [](loop = "prompt" => Clocks)
<1>1. TypeOK /\ Init => Clocks
  <2>1. ASSUME Init
        PROVE  /\ ~active /\ app = "idle" /\ owed = "no"
               /\ s3 = S3Ms /\ gap = 0
    BY <2>1 DEF Init
  <2>2. QED
    BY <2>1 DEF Clocks, GapClock, CapClock, S3Clock
<1>2. TypeOK /\ (loop = "prompt" => Clocks) /\ [Next]_vars => (loop = "prompt" => Clocks)'
  BY ClockStep, ClockStart, PromptAgain
<1>3. QED
  BY <1>1, <1>2, TypeCorrect, PTL DEF Spec

(* P2*server_max is kept for every job uds_server_defer lets in: the       *)
(* keep-alive interval and one step, during which no frame can go out,     *)
(* never add up to more.                                                   *)
THEOREM P2StarKept ==
    ASSUME S3Ms > 1
    PROVE  Spec => []AnswerInTime
<1>1. (loop = "prompt" => Clocks) => AnswerInTime
  BY DEF AnswerInTime, Clocks, GapClock
<1>2. QED
  BY <1>1, ClockInvariant, PTL

(* The cap is a cap on real time, give or take one step.                   *)
THEOREM CapKept ==
    ASSUME S3Ms > 1
    PROVE  Spec => []WaitIsCapped
<1>1. TypeOK /\ (loop = "prompt" => Clocks) => WaitIsCapped
  BY TimesAssumption, StepAssumption DEF WaitIsCapped, Clocks, CapClock, TypeOK
<1>2. QED
  BY <1>1, ClockInvariant, TypeCorrect, PTL

(* The keep-alives keep the diagnostic session open as long as the job     *)
(* runs, in every interleaving of a prompt loop with its requests.         *)
THEOREM SessionKept ==
    ASSUME S3Ms > 1
    PROVE  Spec => SessionSurvives
<1>1. ASSUME loop = "prompt" => Clocks, [Next]_vars
      PROVE  loop' = "prompt" /\ active => session' = session
  <2> SUFFICES ASSUME loop' = "prompt", active
               PROVE  session' = session
    OBVIOUS
  <2>a. loop = "prompt"
    BY <1>1, PromptAgain DEF Defer
  <2>1. CASE UNCHANGED vars
    BY <2>1 DEF vars
  <2>2. ASSUME S3Expires
        PROVE  FALSE
    BY <1>1, <2>a, <2>2, TimeLeft DEF S3Expires, Ticking, Late, Clocks, TypeOK
  <2>3. CASE Next
    BY <2>2, <2>3, Zenon
       DEF Next, Poll, Defer, OtherRequest, RequestWhilePending, PollCap, PollKeepalive,
           PollAgain, StepInProgress, StepOver, StepBroken, Stepping, TransmitOk,
           TransmitBusy, FrameSent, Disconnect, Teardown, Tick, S3Timeout,
           S3TimeoutThreaded, Expiry, AbortOfNothing, Reachable
  <2>4. QED
    BY <1>1, <2>1, <2>3
<1>2. QED
  BY <1>1, ClockInvariant, PTL DEF Spec, SessionSurvives

-----------------------------------------------------------------------------
(* The promise. *)

(* Every execution of the slot, threaded or not, with any transport, is    *)
(* one of DeferredAnswer: work, then one answer, unless the session ends.  *)
THEOREM PromiseIsKept == Spec => PromiseKept
<1>1. Init => Promise!Init
  BY DEF Init, Promise!Init, Phase
<1>2. TypeOK /\ [Next]_vars => [Promise!Next]_Phase
  <2> SUFFICES ASSUME TypeOK, [Next]_vars
               PROVE  [Promise!Next]_Phase
    OBVIOUS
  <2>a. ASSUME active' = active, (owed' = "final") = (owed = "final")
        PROVE  Phase' = Phase
    BY <2>a DEF Phase
  <2>b. ASSUME Clear
        PROVE  [Promise!Next]_Phase
    BY <2>b DEF Clear, Phase, Promise!Next, Promise!Drop
  <2>c. ASSUME active' = active, active, owed # "final", owed' \in {"no", "keepalive", "final"}
        PROVE  [Promise!Next]_Phase
    BY <2>c DEF Phase, Promise!Next, Promise!Finish
  <2>1. CASE UNCHANGED vars
    BY <2>1, <2>a DEF vars
  <2>2. ASSUME NEW max \in StepMaxes, Defer(max)
        PROVE  [Promise!Next]_Phase
    BY <2>2 DEF Defer, Phase, Promise!Next, Promise!Accept
  <2>3. ASSUME NEW to \in {"default", "other"}, OtherRequest(to)
        PROVE  [Promise!Next]_Phase
    BY <2>3, <2>a DEF OtherRequest
  <2>4. ASSUME NEW testerPresent \in BOOLEAN, RequestWhilePending(testerPresent)
        PROVE  [Promise!Next]_Phase
    BY <2>4, <2>a DEF RequestWhilePending
  <2>5. CASE PollCap
    BY <2>5, <2>c DEF PollCap, Polling, Owe
  <2>6. CASE PollKeepalive
    BY <2>6, <2>c DEF PollKeepalive, Polling, Owe
  <2>7. CASE PollAgain
    BY <2>7, <2>a DEF PollAgain
  <2>8. ASSUME NEW ms \in 0..stepMax, StepInProgress(ms)
        PROVE  [Promise!Next]_Phase
    BY <2>8, <2>c DEF StepInProgress, Stepping, Polling, Owe
  <2>9. ASSUME NEW ms \in 0..stepMax, StepOver(ms)
        PROVE  [Promise!Next]_Phase
    BY <2>9, <2>c DEF StepOver, Stepping, Polling, Owe
  <2>10. ASSUME NEW ms \in 0..stepMax, StepBroken(ms)
         PROVE  [Promise!Next]_Phase
    BY <2>10, <2>c DEF StepBroken, Stepping, Polling, Owe
  <2>11. CASE TransmitOk
    BY <2>11, <2>a DEF TransmitOk
  <2>12. CASE TransmitBusy
    BY <2>12, <2>a DEF TransmitBusy
  <2>13. CASE FrameSent
    <3>1. CASE active /\ owed = "final"
      BY <2>13, <3>1, <2>b DEF FrameSent
    <3>2. CASE ~(active /\ owed = "final")
      BY <2>13, <3>2 DEF FrameSent, slot, Phase, TypeOK
    <3>3. QED
      BY <3>1, <3>2
  <2>14. CASE Disconnect
    BY <2>14, <2>a DEF Disconnect
  <2>d. ASSUME NEW at, NEW next, AbortUnlocked(at, next)
        PROVE  [Promise!Next]_Phase
    BY <2>a, <2>b, <2>d DEF AbortUnlocked, slot
  <2>15. CASE Teardown
    BY <2>15, <2>d DEF Teardown
  <2>16. CASE AbortOfNothing
    BY <2>16, <2>b DEF AbortOfNothing
  <2>17. CASE Tick
    BY <2>17, <2>a DEF Tick
  <2>18. CASE S3Timeout
    BY <2>18, <2>b DEF S3Timeout
  <2>19. CASE S3TimeoutThreaded
    BY <2>19, <2>a DEF S3TimeoutThreaded
  <2>20. CASE Expiry
    BY <2>20, <2>d DEF Expiry
  <2>22. QED
    BY <2>1, <2>2, <2>3, <2>4, <2>5, <2>6, <2>7, <2>8, <2>9, <2>10, <2>11, <2>12, <2>13,
       <2>14, <2>15, <2>16, <2>17, <2>18, <2>19, <2>20, Zenon DEF Next, Poll
<1>3. QED
  BY <1>1, <1>2, TypeCorrect, PTL DEF Spec, PromiseKept, Promise!Spec

=============================================================================
