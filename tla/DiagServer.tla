----------------------------- MODULE DiagServer -----------------------------
(***************************************************************************)
(* The UDS server: how one request at a time (core/uds_server.c) and the   *)
(* 1 ms tick act together on the diagnostic session (core/uds_session.c),  *)
(* SecurityAccess (core/uds_security.c, through SecurityCtx),              *)
(* communication and DTC control (core/uds_comm_control.c), the state of   *)
(* a data transfer and a job that answers later (NRC 0x78).  Requests and  *)
(* ticks never overlap: both run under s_session_lock.                     *)
(*                                                                         *)
(* Here a transfer and a pending job are only what the rest of the server  *)
(* can tell apart (there is one, of which kind); Pending and Download give *)
(* their detail.                                                           *)
(***************************************************************************)
EXTENDS SecurityCtx

CONSTANTS
    S3Ms,             \* s3_timeout_cfg_ms
    StrictProgramming, SafetySystemEnabled,   \* uds_session_ctx_t switches
    CommModes,        \* the 0x28 control types used, ENABLE_RX_TX among them
    SubFunctions,     \* the 0x27 sub-functions used
    PlatformFaults    \* s_comm_cb and s_dtc_cb may fail

ASSUME S3Assumption == S3Ms \in Nat \ {0}
ASSUME CommAssumption == "ENABLE_RX_TX" \in CommModes
ASSUME SwitchAssumption == /\ StrictProgramming \in BOOLEAN
                           /\ SafetySystemEnabled \in BOOLEAN
                           /\ PlatformFaults \in BOOLEAN
ASSUME RequestAssumption == SubFunctions \subseteq 1..127

VARIABLES
    session,        \* active_session
    s3,             \* s3_timer_ms
    sec,            \* uds_security_ctx_t
    secNvm,         \* its stored record (saves succeed here: see Security)
    commMode,       \* s_comm_mode
    bus,            \* what s_comm_cb made of the bus, per communication type
    dtcSetting,     \* s_dtc_setting
    dtcHw,          \* what s_dtc_cb made of DTC recording
    transfer,       \* uds_transfer_ctx_t: "IDLE", "DOWNLOAD" or "UPLOAD"
    job,            \* pending slot: "none", "erase", "routine", or "final" when
                    \* only the final frame is still to be sent
    pendingReset,   \* pending_reset_type # 0
    status,         \* status of the last request's dispatch, "none" after a tick
    (* History, for the properties only. *)
    here,           \* what was begun since the last session change, and "stuck"
                    \* when a callback did not restore its default then
    quiet           \* ms since the last request that restarted S3

vars == <<session, s3, sec, secNvm, commMode, bus, dtcSetting, dtcHw, transfer,
          job, pendingReset, status, here, quiet>>

Sessions == {"DEFAULT", "PROGRAMMING", "EXTENDED", "SAFETY_SYSTEM"}
NonDefault == Sessions \ {"DEFAULT"}
CommTypes == {{"normal"}, {"nm"}, {"normal", "nm"}}
Begun == {"seed", "unlock", "transfer", "job", "stuck"}

-----------------------------------------------------------------------------
(* The default access table: in which sessions a service is served and     *)
(* whether SecurityAccess level 1 must be the unlocked one.                *)

OpenSids      == {"0x10", "0x11", "0x19", "0x22", "0x31", "0x3E"}
SessionSids   == {"0x14", "0x27", "0x28", "0x2A", "0x85"}
UnlockedSids  == {"0x2E", "0x2F"}
FlashSids     == {"0x23", "0x34", "0x35", "0x36", "0x37", "0x3D"}
Sids          == OpenSids \cup SessionSids \cup UnlockedSids \cup FlashSids

SessionsOf(sid) == IF sid \in OpenSids THEN Sessions
                   ELSE IF sid \in FlashSids THEN {"PROGRAMMING"} ELSE NonDefault

LevelRequired(sid) == sid \in UnlockedSids \cup FlashSids

\* srv_check_access_rights
Access(sid) ==
    IF session \notin SessionsOf(sid) THEN "SERVICE_NOT_SUPPORTED_IN_SESSION"
    ELSE IF LevelRequired(sid) /\ ~IsUnlocked(sec, 1) THEN "SEC_ACCESS_DENIED"
    ELSE "OK"

\* session_validate_transition and the two switches, in the order of the code.
Transition(to) ==
    IF to = "SAFETY_SYSTEM" /\ ~SafetySystemEnabled THEN "SUBFUNCTION_NOT_SUP"
    ELSE IF \/ to = "DEFAULT"
            \/ session = "DEFAULT" /\ ~(to = "PROGRAMMING" /\ StrictProgramming)
            \/ session = to
            \/ session = "EXTENDED" /\ to = "PROGRAMMING" THEN "OK"
    ELSE "SESSION_TRANSITION"

-----------------------------------------------------------------------------
Init ==
    /\ session = "DEFAULT" /\ s3 = S3Ms
    /\ sec = ZeroContext /\ secNvm = NoSave
    /\ commMode = "ENABLE_RX_TX" /\ bus = [t \in {"normal", "nm"} |-> "ENABLE_RX_TX"]
    /\ dtcSetting = "ON" /\ dtcHw = "ON"
    /\ transfer = "IDLE" /\ job = "none" /\ pendingReset = FALSE
    /\ status = "none" /\ here = {} /\ quiet = 0

\* Mutant: the mode variables follow the callbacks' results.
RestoreDefaultsIfOk ==
    \/ /\ commMode' = "ENABLE_RX_TX" /\ dtcSetting' = "ON"
       /\ bus' = [bus EXCEPT !["normal"] = "ENABLE_RX_TX"] /\ dtcHw' = "ON"
       /\ here' = {}
    \/ PlatformFaults /\ UNCHANGED <<commMode, bus, dtcSetting, dtcHw>> /\ here' = {"stuck"}

\* uds_comm_control_restore_defaults: the mode variables are reset whatever the
\* callbacks return, and the communication callback gets type 0x01 (normal).
RestoreDefaults ==
    /\ commMode' = "ENABLE_RX_TX" /\ dtcSetting' = "ON"
    /\ \/ /\ bus' = [bus EXCEPT !["normal"] = "ENABLE_RX_TX"] /\ dtcHw' = "ON"
          /\ here' = {}
       \/ /\ PlatformFaults
          /\ bus' \in {bus, [bus EXCEPT !["normal"] = "ENABLE_RX_TX"]}
          /\ dtcHw' \in {dtcHw, "ON"}
          /\ here' = {"stuck"}

-----------------------------------------------------------------------------
(* A request for a registered service, no job pending: S3 restarts before  *)
(* anything is checked (srv_process).                                      *)

Request(sid) ==
    /\ ~pendingReset /\ job = "none"
    /\ s3' = S3Ms /\ quiet' = 0

Served(sid) == Request(sid) /\ Access(sid) = "OK"

\* Any service, refused by the access table.
Denied(sid) ==
    /\ Request(sid) /\ Access(sid) # "OK"
    /\ status' = Access(sid)
    /\ UNCHANGED <<session, sec, secNvm, commMode, bus, dtcSetting, dtcHw, transfer,
                   job, pendingReset, here>>

\* A SID without a handler: NRC 0x11, and S3 is not restarted.
Unknown ==
    /\ ~pendingReset /\ job = "none"
    /\ status' = "SERVICE_NOT_SUPPORTED"
    /\ UNCHANGED <<session, s3, sec, secNvm, commMode, bus, dtcSetting, dtcHw,
                   transfer, job, pendingReset, here, quiet>>

\* 0x10: the session is re-initialised even when it does not change.
SessionControl(to) ==
    /\ Served("0x10")
    /\ status' = Transition(to)
    /\ IF Transition(to) = "OK"
       THEN /\ session' = to
            /\ sec' = ResetContext(sec)
            /\ transfer' = "IDLE"
            /\ IF to = "DEFAULT" THEN RestoreDefaults
               ELSE here' = {} /\ UNCHANGED <<commMode, bus, dtcSetting, dtcHw>>
       ELSE UNCHANGED <<session, sec, transfer, here, commMode, bus, dtcSetting, dtcHw>>
    /\ UNCHANGED <<secNvm, job, pendingReset>>

\* 0x11: the reset itself follows the answer (ResetNow).
ECUReset(known) ==
    /\ Served("0x11")
    /\ status' = IF known THEN "OK" ELSE "SUBFUNCTION_NOT_SUP"
    /\ pendingReset' = known
    /\ UNCHANGED <<session, sec, secNvm, commMode, bus, dtcSetting, dtcHw, transfer,
                   job, here>>

\* 0x27, odd sub-function.
SecurityAccessSeed(level, gen) ==
    /\ Served("0x27")
    /\ level % 2 = 1 /\ (gen = "unsupported") = (level \notin SeedLevels)
    /\ sec' = SeedContext(sec, level, gen)
    /\ status' = SeedStatus(sec, level, gen)
    /\ here' = IF SeedContext(sec, level, gen).seed_pending
               THEN here \cup {"seed"} ELSE here
    /\ UNCHANGED <<session, secNvm, commMode, bus, dtcSetting, dtcHw, transfer, job,
                   pendingReset>>

\* 0x27, even sub-function.
SecurityAccessKey(keyLevel, key) ==
    /\ Served("0x27")
    /\ keyLevel % 2 = 0
    /\ sec' = KeyContext(sec, keyLevel, key)
    /\ status' = KeyStatus(sec, keyLevel, key)
    /\ secNvm' = IF KeySave(sec, keyLevel, key) = NoSave THEN secNvm
                 ELSE KeySave(sec, keyLevel, key)
    /\ here' = IF KeyAccepted(sec, keyLevel, key) THEN here \cup {"unlock"} ELSE here
    /\ UNCHANGED <<session, commMode, bus, dtcSetting, dtcHw, transfer, job, pendingReset>>

\* Mutant: the mode is taken over before the platform callback is asked.
CommunicationControlEarly(mode, types, ok) ==
    /\ Served("0x28")
    /\ ok \/ PlatformFaults
    /\ status' = IF ok THEN "OK" ELSE "CONDITIONS_NOT_MET"
    /\ commMode' = mode
    /\ bus' = IF ok THEN [t \in {"normal", "nm"} |-> IF t \in types THEN mode ELSE bus[t]]
              ELSE bus
    /\ UNCHANGED <<session, sec, secNvm, dtcSetting, dtcHw, transfer, job, pendingReset,
                   here>>

\* 0x28: the mode is taken over only when the platform callback succeeded.
CommunicationControl(mode, types, ok) ==
    /\ Served("0x28")
    /\ ok \/ PlatformFaults
    /\ status' = IF ok THEN "OK" ELSE "CONDITIONS_NOT_MET"
    /\ commMode' = IF ok THEN mode ELSE commMode
    /\ bus' = IF ok THEN [t \in {"normal", "nm"} |-> IF t \in types THEN mode ELSE bus[t]]
              ELSE bus
    /\ UNCHANGED <<session, sec, secNvm, dtcSetting, dtcHw, transfer, job, pendingReset,
                   here>>

\* 0x85.
ControlDTCSetting(setting, ok) ==
    /\ Served("0x85")
    /\ ok \/ PlatformFaults
    /\ status' = IF ok THEN "OK" ELSE "CONDITIONS_NOT_MET"
    /\ dtcSetting' = IF ok THEN setting ELSE dtcSetting
    /\ dtcHw' = IF ok THEN setting ELSE dtcHw
    /\ UNCHANGED <<session, sec, secNvm, commMode, bus, transfer, job, pendingReset, here>>

\* 0x34 to 0x37 in one step: what the handlers may make of the transfer.
TransferStep(sid, next) ==
    \/ sid = "0x34" /\ transfer # "DOWNLOAD" /\ next \in {transfer, "DOWNLOAD"}
    \/ sid = "0x34" /\ transfer = "DOWNLOAD" /\ next = transfer
    \/ sid = "0x35" /\ next \in {transfer, "UPLOAD"}
    \/ sid \in {"0x36", "0x37"} /\ next \in {transfer, "IDLE"}

TransferService(sid, next, ok) ==
    /\ Served(sid)
    /\ TransferStep(sid, next)
    /\ status' = IF ok THEN "OK" ELSE "CONDITIONS_NOT_MET"
    /\ transfer' = next
    /\ here' = IF next # transfer /\ next # "IDLE" THEN here \cup {"transfer"} ELSE here
    /\ UNCHANGED <<session, sec, secNvm, commMode, bus, dtcSetting, dtcHw, job,
                   pendingReset>>

\* 0x34 with a chunked eraser, or a routine (0x31) that takes long, defers its
\* answer (uds_server_defer).
Defer(sid) ==
    /\ Served(sid)
    /\ sid = "0x34" => transfer # "DOWNLOAD"
    /\ job' = IF sid = "0x34" THEN "erase" ELSE "routine"
    /\ here' = here \cup {"job"}
    /\ status' = "OK"
    /\ UNCHANGED <<session, sec, secNvm, commMode, bus, dtcSetting, dtcHw, transfer,
                   pendingReset>>

\* Every other service: no state of this module changes (0x3E restarts S3
\* once more, which Request has just done).
OtherService(sid, ok) ==
    /\ Served(sid)
    /\ status' = IF ok THEN "OK" ELSE "CONDITIONS_NOT_MET"
    /\ UNCHANGED <<session, sec, secNvm, commMode, bus, dtcSetting, dtcHw, transfer,
                   job, pendingReset, here>>

PlainSids == {"0x14", "0x19", "0x22", "0x23", "0x2A", "0x2E", "0x2F", "0x31", "0x3D",
              "0x3E"}

-----------------------------------------------------------------------------
(* A job pending: srv_reject_while_pending, uds_server_poll. *)

\* 3E 80 keeps the session alive; any other request is answered busy (0x21) or,
\* functionally addressed, dropped, and touches nothing.
WhilePending(testerPresent) ==
    /\ ~pendingReset /\ job # "none"
    /\ IF testerPresent THEN s3' = S3Ms /\ quiet' = 0 ELSE UNCHANGED <<s3, quiet>>
    /\ status' = IF testerPresent THEN "OK" ELSE "BUSY"
    /\ UNCHANGED <<session, sec, secNvm, commMode, bus, dtcSetting, dtcHw, transfer,
                   job, pendingReset, here>>

\* A keep-alive frame, or the job's end: both restart S3.
Poll(outcome) ==
    /\ ~pendingReset /\ job \in {"erase", "routine"}
    /\ s3' = S3Ms /\ quiet' = 0
    /\ job' = IF outcome = "in progress" THEN job ELSE "final"
    /\ transfer' = IF outcome = "done" /\ job = "erase" THEN "DOWNLOAD"
                   ELSE transfer
    /\ here' = IF outcome = "done" /\ job = "erase" THEN here \cup {"transfer"} ELSE here
    /\ UNCHANGED <<session, sec, secNvm, commMode, bus, dtcSetting, dtcHw, pendingReset,
                   status>>

FinalSent ==
    /\ ~pendingReset /\ job = "final"
    /\ job' = "none"
    /\ UNCHANGED <<session, s3, sec, secNvm, commMode, bus, dtcSetting, dtcHw, transfer,
                   pendingReset, status, here, quiet>>

-----------------------------------------------------------------------------
(* uds_server_tick_1ms. *)

TickCommon ==
    /\ ~pendingReset
    /\ status' = "none"
    /\ UNCHANGED <<secNvm, pendingReset>>

TickDefault ==
    /\ TickCommon /\ session = "DEFAULT"
    /\ sec' = TickContext(sec)
    /\ quiet' = IF quiet < S3Ms THEN quiet + 1 ELSE quiet
    /\ UNCHANGED <<session, s3, commMode, bus, dtcSetting, dtcHw, transfer, job, here>>

TickSession ==
    /\ TickCommon /\ session # "DEFAULT" /\ s3 > 1
    /\ s3' = s3 - 1
    /\ sec' = TickContext(sec)
    /\ quiet' = quiet + 1
    /\ UNCHANGED <<session, commMode, bus, dtcSetting, dtcHw, transfer, job, here>>

\* Mutant: the timeout keeps SecurityAccess.
S3TimeoutUnlocked ==
    /\ TickCommon /\ session # "DEFAULT" /\ s3 <= 1
    /\ session' = "DEFAULT" /\ s3' = S3Ms
    /\ sec' = TickContext(sec)
    /\ RestoreDefaults
    /\ job' = "none" /\ transfer' = "IDLE" /\ quiet' = 0

\* Mutant: the timeout forgets the running erase and transfer.
S3TimeoutJobKept ==
    /\ TickCommon /\ session # "DEFAULT" /\ s3 <= 1
    /\ session' = "DEFAULT" /\ s3' = S3Ms
    /\ sec' = TickContext(ResetContext(sec))
    /\ RestoreDefaults
    /\ quiet' = 0
    /\ UNCHANGED <<job, transfer>>

\* Mutant: the comparison that ends the session is never true.
S3TimeoutNever ==
    /\ TickCommon /\ session # "DEFAULT" /\ s3 = 0
    /\ session' = "DEFAULT" /\ s3' = S3Ms
    /\ sec' = TickContext(ResetContext(sec))
    /\ RestoreDefaults
    /\ job' = "none" /\ transfer' = "IDLE" /\ quiet' = 0

\* S3 expires: back to the default session, with everything a return to it undoes.
S3Timeout ==
    /\ TickCommon /\ session # "DEFAULT" /\ s3 <= 1
    /\ session' = "DEFAULT" /\ s3' = S3Ms
    /\ sec' = TickContext(ResetContext(sec))
    /\ RestoreDefaults
    /\ job' = "none"
    /\ transfer' = "IDLE"
    /\ quiet' = 0

Tick == TickDefault \/ TickSession \/ S3Timeout

\* The application executes the reset as soon as the answer is out, and every
\* module is initialised again; the security record comes back from NVM.
ResetNow ==
    /\ pendingReset
    /\ session' = "DEFAULT" /\ s3' = S3Ms
    /\ sec' = IF secNvm = NoSave THEN ZeroContext ELSE InitLoaded(secNvm)
    /\ commMode' = "ENABLE_RX_TX" /\ bus' = [t \in {"normal", "nm"} |-> "ENABLE_RX_TX"]
    /\ dtcSetting' = "ON" /\ dtcHw' = "ON"
    /\ transfer' = "IDLE" /\ job' = "none" /\ pendingReset' = FALSE
    /\ status' = "none" /\ here' = {} /\ quiet' = 0
    /\ UNCHANGED secNvm

-----------------------------------------------------------------------------
ServeRequest ==
    \/ \E to \in Sessions : SessionControl(to)
    \/ \E known \in BOOLEAN : ECUReset(known)
    \/ \E level \in SubFunctions, gen \in GenOutcomes : SecurityAccessSeed(level, gen)
    \/ \E level \in SubFunctions, key \in Keys : SecurityAccessKey(level, key)
    \/ \E mode \in CommModes, types \in CommTypes, ok \in BOOLEAN :
          CommunicationControl(mode, types, ok)
    \/ \E setting \in {"ON", "OFF"}, ok \in BOOLEAN : ControlDTCSetting(setting, ok)
    \/ \E sid \in {"0x34", "0x35", "0x36", "0x37"}, ok \in BOOLEAN,
          next \in {"IDLE", "DOWNLOAD", "UPLOAD"} : TransferService(sid, next, ok)
    \/ \E sid \in {"0x31", "0x34"} : Defer(sid)
    \/ \E sid \in PlainSids, ok \in BOOLEAN : OtherService(sid, ok)

Next ==
    \/ ServeRequest
    \/ \E sid \in Sids : Denied(sid)
    \/ Unknown
    \/ \E testerPresent \in BOOLEAN : WhilePending(testerPresent)
    \/ \E outcome \in {"in progress", "done", "failed"} : Poll(outcome)
    \/ FinalSent
    \/ Tick
    \/ ResetNow

Spec == Init /\ [][Next]_vars

\* The diagnostic task ticks once per millisecond and executes a requested reset.
FairSpec == Spec /\ WF_vars(Tick) /\ WF_vars(ResetNow)

-----------------------------------------------------------------------------
(* Properties *)

\* S3 never counts past its limit, and every callback left the hardware in a mode there is.
TypeOK ==
    /\ session \in Sessions
    /\ s3 \in 1..S3Ms
    /\ sec \in SecContext
    /\ secNvm \in NvmRecord \cup {NoSave}
    /\ commMode \in CommModes
    /\ bus \in [{"normal", "nm"} -> CommModes]
    /\ dtcSetting \in {"ON", "OFF"} /\ dtcHw \in {"ON", "OFF"}
    /\ transfer \in {"IDLE", "DOWNLOAD", "UPLOAD"}
    /\ job \in {"none", "erase", "routine", "final"}
    /\ pendingReset \in BOOLEAN
    /\ here \subseteq Begun
    /\ quiet \in 0..S3Ms

(* No privilege outlives the session it was given in: an unlocked level    *)
(* and a seed waiting for its key were obtained since the last session     *)
(* change, whether that change was a request, a refresh of the same        *)
(* session, an S3 timeout or a reset (EDS#442, SEC-S3-RESET-01).           *)
PrivilegeOfThisSession ==
    /\ sec.active_level # Unlocked => "unlock" \in here /\ session # "DEFAULT"
    /\ sec.seed_pending => "seed" \in here /\ session # "DEFAULT"

(* A data transfer, and a flash erase still running, belong to the         *)
(* programming session that started them.                                  *)
TransferOfThisSession ==
    /\ transfer # "IDLE" => "transfer" \in here /\ session = "PROGRAMMING"
    /\ job = "erase" => "job" \in here /\ session = "PROGRAMMING"

(* In the default session communication and DTC setting are the power-on   *)
(* ones, in the server's variables and, as far as the callbacks succeed,   *)
(* on the normal-message bus and in DTC recording (ISO 14229-1 9.2.1 d).   *)
DefaultSessionIsClean ==
    session = "DEFAULT" =>
        /\ commMode = "ENABLE_RX_TX" /\ dtcSetting = "ON"
        /\ "stuck" \notin here => bus["normal"] = "ENABLE_RX_TX" /\ dtcHw = "ON"

(* S3 is exact: a non-default session that has been quiet for n ms has     *)
(* exactly S3 - n left.  Denied requests, refused transitions, 3E 80 while *)
(* a job is pending and keep-alive frames all count as activity; unknown   *)
(* services, busy answers and ticks do not.                                *)
S3CountsQuiet == session # "DEFAULT" => s3 + quiet = S3Ms

(* Only time ends a lockout: no request, session change, timeout or reset  *)
(* shortens one (docs/Safety_Model.md:262).  A reset may restart it.       *)
LockoutOnlyByTime ==
    [][sec.locked_out =>
          \/ sec'.lockout_timer_ms >= sec.lockout_timer_ms
          \/ /\ status' = "none"
             /\ sec'.lockout_timer_ms = sec.lockout_timer_ms - 1]_vars

(* A refused request leaves every mode of the ECU as it was: session,      *)
(* unlocked level, communication, DTC setting, requested reset.            *)
RefusalChangesNothing ==
    [][status' \notin {"OK", "none"} =>
          UNCHANGED <<session, commMode, bus, dtcSetting, dtcHw, pendingReset,
                      sec.active_level>>]_vars

(* A tester that goes quiet is always brought back to the default session. *)
SessionEnds == []<>(session = "DEFAULT" \/ quiet = 0)

=============================================================================
