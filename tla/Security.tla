------------------------------ MODULE Security ------------------------------
(***************************************************************************)
(* SecurityAccess over power cycles: the context of core/uds_security.c,   *)
(* the NVM record of core/uds_security_nvm.c, and power that may fail at   *)
(* any point, in particular between the moment a key is judged in RAM and  *)
(* the moment the record that counts the failure is stored.  The tester    *)
(* gets its answer only after the save returned.                           *)
(***************************************************************************)
EXTENDS SecurityCtx

CONSTANTS
    TriedSubFunctions,  \* 0x27 sub-functions the tester tries (bit 7 masked off)
    FailClosed,     \* cfg.nvm_load_fail_closed
    ReadFaults,     \* nvm_load_cb may report a fault (unready store, bad CRC)
    SaveFaults      \* nvm_save_cb may fail; its result is ignored by the code

ASSUME SubFunctionAssumption == TriedSubFunctions \subseteq 0..127
ASSUME FaultAssumption == /\ FailClosed \in BOOLEAN
                         /\ ReadFaults \in BOOLEAN
                         /\ SaveFaults \in BOOLEAN

VARIABLES
    up,             \* the ECU has power and uds_security_init has run
    ctx,            \* uds_security_ctx_t; meaningless (but kept) while down
    nvm,            \* the stored record, or NoSave when none was ever written
    saving,         \* [rec, status]: a send_key between its RAM update and its
                    \* answer; rec = NoSave when no call is in that window
    (* History, for the properties only. *)
    owed,           \* ms of a taken lockout that powered time has not served
    bootOwed,       \* the same for the lockout of a fail-closed boot
    wrong,          \* failed keys since the last accepted key or penalty, up to
                    \* max_attempts (the counter saturates there)
    tries,          \* keys evaluated against the seed issued last
    store           \* "lost" since a save failed, or a boot went on open without
                    \* the record it could not read; "kept" until then

ctxVars  == <<up, ctx, nvm, saving>>
history  == <<owed, bootOwed, wrong, tries, store>>
securityVars == <<up, ctx, nvm, saving, owed, bootOwed, wrong, tries, store>>

Idle == [rec |-> NoSave, status |-> "OK"]

\* Neither record nor history counts past the limit of attempts or the length of a lockout.
SecurityTypeOK ==
    /\ up \in BOOLEAN
    /\ ctx \in SecContext
    /\ nvm \in NvmRecord \cup {NoSave}
    /\ saving \in [rec : NvmRecord \cup {NoSave}, status : Statuses]
    /\ owed \in 0..LockoutMs
    /\ bootOwed \in 0..Forever
    /\ wrong \in 0..MaxAttempts
    /\ tries \in Nat
    /\ store \in {"kept", "lost"}

SecurityInit ==
    /\ up = FALSE
    /\ ctx = ZeroContext
    /\ nvm = NoSave
    /\ saving = Idle
    /\ owed = 0 /\ bootOwed = 0 /\ wrong = 0 /\ tries = 0 /\ store = "kept"

-----------------------------------------------------------------------------
(* Power-up: uds_security_init with uds_security_nvm_load behind it. *)

BootWith(context, penalty) ==
    /\ ~up
    /\ up' = TRUE
    /\ ctx' = context
    /\ bootOwed' = penalty
    /\ tries' = 0
    /\ UNCHANGED <<nvm, saving, owed, wrong>>

BootFirst  == nvm = NoSave /\ BootWith(ZeroContext, 0) /\ UNCHANGED store
BootLoaded == nvm # NoSave /\ BootWith(InitLoaded(nvm), 0) /\ UNCHANGED store
BootFault  == /\ ReadFaults
              /\ BootWith(InitFault(FailClosed), IF FailClosed THEN Forever ELSE 0)
              /\ store' = IF FailClosed THEN store ELSE "lost"

Boot == BootFirst \/ BootLoaded \/ BootFault

-----------------------------------------------------------------------------
(* The API calls, made by the one diagnostic task. *)

Ready == up /\ saving = Idle

RequestSeed(level, gen) ==
    /\ Ready
    /\ (gen = "unsupported") = (level \notin SeedLevels)
    /\ ctx' = SeedContext(ctx, level, gen)
    /\ tries' = IF SeedStatus(ctx, level, gen) = "OK" THEN 0 ELSE tries
    /\ UNCHANGED <<up, nvm, saving, owed, bootOwed, wrong, store>>

\* The RAM half of uds_security_send_key: a call that saves nothing answers at
\* once, any other goes on to nvm_save_cb.
SendKey(keyLevel, key) ==
    /\ Ready
    /\ ctx' = KeyContext(ctx, keyLevel, key)
    /\ saving' = IF KeySave(ctx, keyLevel, key) = NoSave THEN Idle
                 ELSE [rec |-> KeySave(ctx, keyLevel, key),
                       status |-> KeyStatus(ctx, keyLevel, key)]
    /\ tries' = IF KeyEvaluated(ctx, key) THEN tries + 1 ELSE tries
    /\ UNCHANGED <<up, nvm, owed, bootOwed, wrong, store>>

\* What the history makes of a key whose judgement took effect.
Account(status) ==
    /\ wrong' = IF status \in {"OK", "SEC_ATTEMPT_EXCEEDED"} THEN 0
               ELSE IF wrong < MaxAttempts THEN wrong + 1 ELSE wrong
    /\ owed'  = IF status = "SEC_ATTEMPT_EXCEEDED" THEN LockoutMs ELSE owed

\* The save half: nvm_store_write keeps the old record or has the new one, and
\* send_key answers the tester whatever nvm_save_cb returned.
Save(ok) ==
    /\ up /\ saving # Idle
    /\ ok \/ SaveFaults
    /\ nvm' = IF ok THEN saving.rec ELSE nvm
    /\ saving' = Idle
    /\ Account(saving.status)
    /\ store' = IF ok THEN store ELSE "lost"
    /\ UNCHANGED <<up, ctx, bootOwed, tries>>

\* uds_security_reset: a session change or an S3 timeout.
Reset ==
    /\ Ready
    /\ ctx' = ResetContext(ctx)
    /\ UNCHANGED <<up, nvm, saving, owed, bootOwed, wrong, tries, store>>

\* uds_security_tick_1ms.  A fail-closed lockout sat out to its end counts as
\* a served penalty: it clears the history of failed keys.
SecurityTick ==
    /\ Ready
    /\ ctx' = TickContext(ctx)
    /\ owed' = Less1(owed)
    /\ bootOwed' = Less1(bootOwed)
    /\ wrong' = IF bootOwed = 1 THEN 0 ELSE wrong
    /\ UNCHANGED <<up, nvm, saving, tries, store>>

-----------------------------------------------------------------------------
(* Power loss.  During the save the record may or may not have landed.     *)

PowerLossIdle ==
    /\ Ready
    /\ up' = FALSE
    /\ bootOwed' = 0
    /\ UNCHANGED <<ctx, nvm, saving, owed, wrong, tries, store>>

PowerLossBeforeWrite ==
    /\ up /\ saving # Idle
    /\ up' = FALSE
    /\ saving' = Idle
    /\ bootOwed' = 0
    /\ UNCHANGED <<ctx, nvm, owed, wrong, tries, store>>

PowerLossAfterWrite ==
    /\ up /\ saving # Idle
    /\ up' = FALSE
    /\ nvm' = saving.rec
    /\ saving' = Idle
    /\ Account(saving.status)
    /\ bootOwed' = 0
    /\ UNCHANGED <<ctx, tries, store>>

-----------------------------------------------------------------------------
SecurityNext ==
    \/ Boot
    \/ \E level \in TriedSubFunctions, gen \in GenOutcomes : RequestSeed(level, gen)
    \/ \E keyLevel \in TriedSubFunctions, key \in Keys : SendKey(keyLevel, key)
    \/ \E ok \in BOOLEAN : Save(ok)
    \/ Reset
    \/ SecurityTick
    \/ PowerLossIdle \/ PowerLossBeforeWrite \/ PowerLossAfterWrite

SecuritySpec == SecurityInit /\ [][SecurityNext]_securityVars

\* The diagnostic task calls uds_server_tick_1ms, and through it SecurityTick, once per
\* millisecond for as long as the ECU runs.
FairSecuritySpec ==
    /\ SecuritySpec
    /\ WF_securityVars(SecurityTick)
    /\ WF_securityVars(\E ok \in BOOLEAN : Save(ok))

-----------------------------------------------------------------------------
(* Properties *)

(* A failed key that was counted, by the store or in an answer, is never   *)
(* forgotten before a key is accepted or a lockout taken, whatever power   *)
(* does between uds_security_send_key's RAM update and nvm_save_cb: fewer  *)
(* than max_attempts failed keys pass without a lockout.  (The store has   *)
(* kept every record it was given.)                                        *)
AttemptBudget ==
    store = "kept" => wrong < MaxAttempts

(* A taken lockout is served in full, in powered time: until then every    *)
(* boot and every call leaves the context locked for at least what is      *)
(* owed, so power-cycling gains nothing (uds_security_init reloads the     *)
(* record send_key stored).                                                *)
LockoutServed ==
    store = "kept" /\ up /\ owed > 0
        => ctx.locked_out /\ ctx.lockout_timer_ms >= owed

(* A boot that could not read the record with nvm_load_fail_closed set     *)
(* refuses seeds and keys for UINT32_MAX ms of that power cycle: no reset, *)
(* session change or earlier state shortens it.                            *)
FailClosedServed ==
    up /\ bootOwed > 0 => ctx.locked_out /\ ctx.lockout_timer_ms >= bootOwed

(* One seed accepts at most one key: whatever the order of seed requests,  *)
(* keys of other levels, empty keys and resets, no seed is ever judged     *)
(* against twice (docs/Safety_Model.md, replay resistance, property 3).    *)
OneKeyPerSeed == tries <= 1

(* Lockout flag and lockout timer never disagree, on every path: loaded    *)
(* from NVM, fail-closed boot, engaged, expired.  A locked context with a  *)
(* zero timer could never be unlocked again: tick skips it.                *)
LockoutHasTimer == ctx.locked_out <=> ctx.lockout_timer_ms > 0

(* A locked-out ECU that keeps its power leaves the lockout.               *)
LockoutExpires == (up /\ ctx.locked_out) ~> (~up \/ ~ctx.locked_out)

=============================================================================
