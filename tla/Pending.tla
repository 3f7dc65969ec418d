------------------------------- MODULE Pending -------------------------------
(***************************************************************************)
(* The response-pending slot of core/uds_server.c: a deferred job advanced *)
(* one step per uds_server_poll, NRC 0x78 keep-alives, the 120 s cap, S3,  *)
(* and the frames on their way to the tester.  The loop that polls is the  *)
(* CAN loop (examples/basic_ecu/src/main.c), where poll, transmission and  *)
(* uds_server_frame_sent share one lock, or, if threaded, the DoIP         *)
(* server (transport/doip/doip_server.c), where the tick task runs between *)
(* them and a failed send closes the connection.                           *)
(***************************************************************************)
EXTENDS Integers

CONSTANTS
    P2Star,         \* p2_star_server_max_ms
    S3Ms,           \* s3_timeout_cfg_ms
    MaxPending,     \* UDS_SERVER_MAX_PENDING_MS
    ClockMax,       \* UINT32_MAX, where srv_clock_add saturates
    StepMaxes       \* the step_max_ms of the jobs that ask to be deferred

ASSUME TimesAssumption == /\ P2Star \in Nat \ {0} /\ S3Ms \in Nat \ {0}
                          /\ MaxPending \in Nat \ {0}
                          /\ ClockMax \in Nat /\ MaxPending + P2Star <= ClockMax
ASSUME StepAssumption == StepMaxes \subseteq Nat \ {0}

VARIABLES
    threaded,       \* the loop that polls, chosen once: DoIP, where the tick task
                    \* runs between poll and frame_sent, or CAN
    session,        \* "default" (S3 does not run) or "other"
    s3,             \* s3_timer_ms
    active,         \* pending.active
    stepMax,        \* pending.job.step_max_ms
    owed,           \* the frame still to be sent: "no", "keepalive" or "final"
    since, total,   \* since_frame_ms, total_ms
    job,            \* the deferred work itself: "none", "running" or "over"
    app,            \* the polling loop: "idle", "holding" a frame, frame "sent"
    frame,          \* the frame poll handed over: "keepalive" or "final"
    polled,         \* a poll has completed since the last tick
    expiry,         \* DoIP: what the tick task with an expired S3, and
    teardown,       \* the server with a lost connection, do next: "test" the slot,
                    \* "read" what is owed, "call" the abort, "clear", or "no"
    (* History, for the properties only. *)
    loop,           \* since the last deferred request: "prompt", the loop polled
                    \* and sent what it got once per tick; "late", it did not;
                    \* "cut", the connection was lost
    aborts,         \* calls of job.abort() for the current job
    finals,         \* final answers the tester got for its last deferred request
    gap,            \* real ms since the tester last got a frame, while it waits
    waited          \* real ms since its request

slot == <<active, stepMax, owed, since, total>>
vars == <<threaded, loop, session, s3, active, stepMax, owed, since, total, job,
          app, frame, polled, expiry, teardown, aborts, finals, gap, waited>>
threads == <<threaded, expiry, teardown>>

Lesser(a, b) == IF a < b THEN a ELSE b

GapBound  == P2Star + 2                  \* the history saturates there
WaitBound == MaxPending + P2Star + 2

Init ==
    /\ threaded \in BOOLEAN /\ loop = "prompt"
    /\ session = "default" /\ s3 = S3Ms
    /\ active = FALSE /\ stepMax = 0 /\ owed = "no" /\ since = 0 /\ total = 0
    /\ job = "none"
    /\ app = "idle" /\ frame = "keepalive" /\ polled = TRUE
    /\ expiry = "no" /\ teardown = "no"
    /\ aborts = 0 /\ finals = 0 /\ gap = 0 /\ waited = 0

-----------------------------------------------------------------------------
(* srv_keepalive_due, srv_clock_add. *)

KeepaliveMs == Lesser(P2Star \div 2, S3Ms \div 2)

Add(clock, ms) == Lesser(clock + ms, ClockMax)

RealTime(ms) == /\ gap' = Lesser(gap + ms, GapBound)
                /\ waited' = Lesser(waited + ms, WaitBound)

\* The slot is zeroed.
Clear == active' = FALSE /\ stepMax' = 0 /\ owed' = "no" /\ since' = 0 /\ total' = 0

\* Mutant of AbortJob: a job whose final frame is owed is aborted again.
AbortJobAgain ==
    /\ aborts' = IF active THEN aborts + 1 ELSE aborts
    /\ job' = IF active THEN "over" ELSE job

\* uds_server_pending_abort under one lock: job.abort(), unless the final frame is
\* owed already, and then Clear.
AbortJob ==
    /\ aborts' = IF active /\ owed # "final" THEN aborts + 1 ELSE aborts
    /\ job' = IF active THEN "over" ELSE job

\* Mutant of AbortUnlocked: the slot is released, the job is not aborted
\* (uds_server_pending_release in its place).
ReleaseUnlocked(at, next) ==
    /\ UNCHANGED <<job, aborts>>
    /\ \/ at = "test" /\ next = "clear" /\ UNCHANGED slot
       \/ at = "clear" /\ next = "no" /\ Clear

\* The same call where another task may be in it, too: each access of the slot
\* is a step, and what was read before may be gone.
AbortUnlocked(at, next) ==
    \/ /\ at = "test" /\ next = IF active THEN "read" ELSE "no"
       /\ UNCHANGED <<slot, job, aborts>>
    \/ /\ at = "read" /\ next = IF owed = "final" THEN "clear" ELSE "call"
       /\ UNCHANGED <<slot, job, aborts>>
    \/ /\ at = "call" /\ active /\ next = "clear"
       /\ job' = "over" /\ aborts' = aborts + 1
       /\ UNCHANGED slot
    \/ /\ at = "clear" /\ next = "no"
       /\ Clear
       /\ UNCHANGED <<job, aborts>>

\* The loop that polls also takes the requests.  It holds the server's lock for
\* each of its actions, as the tick does, but not for a DoIP teardown.
LoopRuns == teardown = "no" /\ expiry = "no"
Reachable == LoopRuns /\ app = "idle"

-----------------------------------------------------------------------------
(* Requests. *)

\* uds_server_defer for a physically addressed request: 0x78 is the answer.
Defer(max) ==
    /\ Reachable /\ ~active
    /\ max < P2Star
    /\ active' = TRUE /\ stepMax' = max /\ owed' = "no" /\ since' = 0 /\ total' = 0
    /\ job' = "running"
    /\ s3' = S3Ms
    /\ loop' = "prompt" /\ aborts' = 0 /\ finals' = 0 /\ gap' = 0 /\ waited' = 0
    /\ UNCHANGED <<threaded, session, app, frame, polled, expiry, teardown>>

\* Any other request, a refused deferral included, and what a session change
\* makes of the session.
OtherRequest(to) ==
    /\ Reachable /\ ~active
    /\ session' = to
    /\ s3' = S3Ms
    /\ UNCHANGED <<threaded, loop, active, stepMax, owed, since, total, job, app,
                   frame, polled, expiry, teardown, aborts, finals, gap, waited>>

\* srv_reject_while_pending: over CAN the tester may go on asking.
RequestWhilePending(testerPresent) ==
    /\ Reachable /\ active /\ ~threaded
    /\ s3' = IF testerPresent THEN S3Ms ELSE s3
    /\ UNCHANGED <<threaded, loop, session, active, stepMax, owed, since, total,
                   job, app, frame, polled, expiry, teardown, aborts, finals, gap,
                   waited>>

-----------------------------------------------------------------------------
(* uds_server_poll.  A newly owed frame restarts S3. *)

\* Mutant of Owe: only requests restart S3.
OweSilent(kind) ==
    /\ owed' = kind
    /\ UNCHANGED s3
    /\ app' = "holding" /\ frame' = kind

\* srv_pending_owe_nrc, or the step's own answer.
Owe(kind) ==
    /\ owed' = kind
    /\ s3' = S3Ms
    /\ app' = "holding" /\ frame' = kind

Polling == Reachable /\ active /\ polled' = TRUE /\ UNCHANGED <<threads, loop>>

PollCap ==
    /\ Polling /\ owed = "no" /\ total >= MaxPending
    /\ aborts' = aborts + 1
    /\ job' = "over"
    /\ Owe("final")
    /\ UNCHANGED <<session, active, stepMax, since, total, finals, gap, waited>>

PollKeepalive ==
    /\ Polling /\ owed = "no" /\ total < MaxPending /\ since >= KeepaliveMs
    /\ Owe("keepalive")
    /\ UNCHANGED <<session, active, stepMax, since, total, job, aborts, finals, gap,
                   waited>>

\* The frame poll returned before was not sent: it is returned again.
PollAgain ==
    /\ Polling /\ owed # "no"
    /\ app' = "holding" /\ frame' = owed
    /\ UNCHANGED <<session, s3, active, stepMax, owed, since, total, job, aborts,
                   finals, gap, waited>>

\* srv_pending_run_step: the step takes ms of real time, during which no tick
\* runs; stepMax is credited.  "broken" is a step that called back into the
\* server or returned no legal result.
Stepping(ms) ==
    /\ Polling /\ owed = "no" /\ total < MaxPending /\ since < KeepaliveMs
    /\ ms \in 0..stepMax
    /\ since' = Add(since, stepMax) /\ total' = Add(total, stepMax)
    /\ RealTime(ms)
    /\ UNCHANGED <<session, active, stepMax, finals>>

\* Mutant of StepInProgress: the keep-alive waits for the next poll.
StepInProgressLate(ms) ==
    /\ Stepping(ms)
    /\ UNCHANGED <<owed, s3, app, frame, job, aborts>>

StepInProgress(ms) ==
    /\ Stepping(ms)
    /\ IF Add(since, stepMax) >= KeepaliveMs THEN Owe("keepalive")
       ELSE UNCHANGED <<owed, s3, app, frame>>
    /\ UNCHANGED <<job, aborts>>

StepOver(ms) ==             \* UDS_STEP_DONE, UDS_STEP_FAILED
    /\ Stepping(ms)
    /\ job' = "over"
    /\ Owe("final")
    /\ UNCHANGED aborts

StepBroken(ms) ==
    /\ Stepping(ms)
    /\ aborts' = aborts + 1
    /\ job' = "over"
    /\ Owe("final")

Poll ==
    \/ PollCap \/ PollKeepalive \/ PollAgain
    \/ \E ms \in 0..stepMax : StepInProgress(ms) \/ StepOver(ms) \/ StepBroken(ms)

-----------------------------------------------------------------------------
(* Transmission, and uds_server_frame_sent. *)

TransmitOk ==
    /\ teardown = "no" /\ app = "holding"
    /\ app' = "sent"
    /\ finals' = IF frame = "final" THEN finals + 1 ELSE finals
    /\ gap' = 0
    /\ UNCHANGED <<threaded, loop, session, s3, active, stepMax, owed, since, total,
                   job, frame, polled, expiry, teardown, aborts, waited>>

\* CAN: the transport is busy, the next poll returns the same frame.
TransmitBusy ==
    /\ ~threaded /\ app = "holding"
    /\ app' = "idle" /\ loop' = "late"
    /\ UNCHANGED <<threaded, session, s3, active, stepMax, owed, since, total, job,
                   frame, polled, expiry, teardown, aborts, finals, gap, waited>>

\* DoIP: the connection is lost, or DOIP_MAX_PENDING_MS is over: the session is
\* reset and the job aborted, without the lock the tick task holds.
Disconnect ==
    /\ threaded /\ teardown = "no" /\ app # "sent"
    /\ app' = "idle" /\ loop' = "cut"
    /\ session' = "default" /\ s3' = S3Ms
    /\ teardown' = "test"
    /\ UNCHANGED <<threaded, active, stepMax, owed, since, total, job, frame,
                   polled, expiry, aborts, finals, gap, waited>>

Teardown ==
    /\ AbortUnlocked(teardown, teardown')
    /\ UNCHANGED <<threaded, loop, session, s3, app, frame, polled, expiry, finals,
                   gap, waited>>

\* Mutants of FrameSent: the final frame leaves the slot active; a keep-alive
\* restarts the cap.
FrameSentKeepsSlot ==
    /\ LoopRuns /\ app = "sent"
    /\ app' = "idle"
    /\ IF active /\ owed # "no" THEN owed' = "no" /\ since' = 0 ELSE UNCHANGED <<owed, since>>
    /\ UNCHANGED <<threaded, loop, session, s3, active, stepMax, total, job, frame,
                   polled, expiry, teardown, aborts, finals, gap, waited>>

FrameSentRestartsCap ==
    /\ LoopRuns /\ app = "sent"
    /\ app' = "idle"
    /\ IF active /\ owed = "final" THEN Clear
       ELSE IF active /\ owed = "keepalive"
       THEN owed' = "no" /\ since' = 0 /\ total' = 0 /\ UNCHANGED <<active, stepMax>>
       ELSE UNCHANGED slot
    /\ UNCHANGED <<threaded, loop, session, s3, job, frame, polled, expiry,
                   teardown, aborts, finals, gap, waited>>

FrameSent ==
    /\ LoopRuns /\ app = "sent"
    /\ app' = "idle"
    /\ IF active /\ owed = "final" THEN Clear
       ELSE IF active /\ owed = "keepalive"
       THEN owed' = "no" /\ since' = 0 /\ UNCHANGED <<active, stepMax, total>>
       ELSE UNCHANGED slot
    /\ UNCHANGED <<threaded, loop, session, s3, job, frame, polled, expiry,
                   teardown, aborts, finals, gap, waited>>

-----------------------------------------------------------------------------
(* uds_server_tick_1ms, once per real millisecond; over CAN it never falls *)
(* between poll and frame_sent.                                            *)

\* The loop has not come round since the last tick.
Late == app # "idle" \/ (active /\ ~polled)

Ticking ==
    /\ expiry = "no"
    /\ app = "idle" \/ threaded
    /\ loop' = IF loop = "prompt" /\ Late THEN "late" ELSE loop
    /\ polled' = FALSE
    /\ RealTime(1)
    /\ UNCHANGED <<threaded, app, frame, teardown, finals>>

Tick ==
    /\ Ticking /\ (session = "default" \/ s3 > 1)
    /\ s3' = IF session = "default" THEN s3 ELSE s3 - 1
    /\ IF active THEN since' = Add(since, 1) /\ total' = Add(total, 1)
       ELSE UNCHANGED <<since, total>>
    /\ UNCHANGED <<session, active, stepMax, owed, job, expiry, aborts>>

\* S3 expires.  In the CAN loop nothing runs before the slot is free.
S3Expires ==
    /\ Ticking /\ session = "other" /\ s3 <= 1
    /\ session' = "default" /\ s3' = S3Ms

S3Timeout ==
    /\ S3Expires /\ ~threaded
    /\ AbortJob /\ Clear
    /\ UNCHANGED expiry

S3TimeoutThreaded ==
    /\ S3Expires /\ threaded
    /\ expiry' = "test"
    /\ UNCHANGED <<active, stepMax, owed, since, total, job, aborts>>

Expiry ==
    /\ AbortUnlocked(expiry, expiry')
    /\ UNCHANGED <<threaded, loop, session, s3, app, frame, polled, teardown, finals,
                   gap, waited>>

\* Either of them calls job.abort in a slot that the other one has zeroed: there
\* is no function at NULL, the processor traps and the ECU starts again.
AbortOfNothing ==
    /\ "call" \in {expiry, teardown} /\ ~active
    /\ expiry' = "no" /\ teardown' = "no"
    /\ session' = "default" /\ s3' = S3Ms
    /\ Clear /\ job' = "none" /\ app' = "idle"
    /\ UNCHANGED <<threaded, loop, frame, polled, aborts, finals, gap, waited>>

-----------------------------------------------------------------------------
Next ==
    \/ \E max \in StepMaxes : Defer(max)
    \/ \E to \in {"default", "other"} : OtherRequest(to)
    \/ \E testerPresent \in BOOLEAN : RequestWhilePending(testerPresent)
    \/ Poll
    \/ TransmitOk \/ TransmitBusy \/ FrameSent
    \/ Disconnect \/ Teardown
    \/ Tick \/ S3Timeout
    \/ S3TimeoutThreaded \/ Expiry
    \/ AbortOfNothing

Spec == Init /\ [][Next]_vars

\* The loop polls for as long as it runs, the tick comes every millisecond, and
\* a transport that is tried again and again sends in the end.
FairSpec ==
    /\ Spec
    /\ WF_vars(Poll)
    /\ WF_vars(Tick \/ S3Timeout \/ S3TimeoutThreaded)
    /\ WF_vars(Expiry)
    /\ WF_vars(Teardown)
    /\ WF_vars(FrameSent)
    /\ SF_vars(TransmitOk)

-----------------------------------------------------------------------------
(* Properties *)

\* No clock of the slot passes its cap, and the slot, job and frame are in a state there is.
TypeOK ==
    /\ threaded \in BOOLEAN /\ loop \in {"prompt", "late", "cut"}
    /\ session \in {"default", "other"}
    /\ s3 \in 1..S3Ms
    /\ active \in BOOLEAN
    /\ stepMax \in StepMaxes \cup {0}
    /\ owed \in {"no", "keepalive", "final"}
    /\ since \in 0..ClockMax /\ total \in 0..ClockMax
    /\ job \in {"none", "running", "over"}
    /\ app \in {"idle", "holding", "sent"}
    /\ frame \in {"keepalive", "final"}
    /\ polled \in BOOLEAN
    /\ {expiry, teardown} \subseteq {"no", "test", "read", "call", "clear"}
    /\ aborts \in Nat /\ finals \in Nat
    /\ gap \in 0..GapBound /\ waited \in 0..WaitBound

(* No deferred work outlives its slot: whatever frees the slot (the final  *)
(* frame, S3, a lost connection), the job has finished or was aborted.     *)
NoOrphan == job = "running" => active /\ owed # "final"

(* The server calls the abort of a job at most once (core/uds_server.h:40  *)
(* and 434): not again when S3 expires while the final answer of an        *)
(* aborted job still waits to be sent.                                     *)
AbortCalledOnce == aborts <= 1

(* So it is as long as no connection is lost under the job.                *)
AbortOnce == loop # "cut" => AbortCalledOnce

(* A final answer is final: the tester never gets two for one request,     *)
(* however often a frame is tried and wherever a timeout falls between     *)
(* poll and frame_sent, and it never gets one while the work goes on.      *)
FinalIsFinal == finals <= 1 /\ (finals = 1 => job # "running")

(* A loop that keeps the tester's clock: no tester waits longer than       *)
(* P2*server_max for the next frame, for every step_max_ms that            *)
(* uds_server_defer lets pass, although no frame can go out during a step. *)
AnswerInTime == loop = "prompt" /\ active => gap <= P2Star

(* The cap holds in real time: every deferred request is answered for good *)
(* within MaxPending ms, and the step that was running then.               *)
WaitIsCapped ==
    loop = "prompt" /\ active => waited <= MaxPending + stepMax

(* Keep-alives keep the session: S3 never runs out under a pending job as  *)
(* long as the loop polls, however short S3 is.                            *)
SessionSurvives ==
    [][loop' = "prompt" /\ active => session' = session]_vars

(* The promise to the tester.                                              *)
Phase == IF ~active THEN "idle" ELSE IF owed = "final" THEN "owing" ELSE "working"

Promise == INSTANCE DeferredAnswer WITH phase <- Phase

(* Every deferred request ends with one answer or with its session, and    *)
(* does end.                                                               *)
Promised == Promise!FairSpec

(* The same without fairness.                                              *)
PromiseKept == Promise!Spec

=============================================================================
