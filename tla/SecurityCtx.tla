----------------------------- MODULE SecurityCtx -----------------------------
(***************************************************************************)
(* The SecurityAccess (0x27) context of core/uds_security.c as pure        *)
(* operators: what each API call makes of the context, which status it     *)
(* returns and which NVM record it asks the platform to save.  A seed and  *)
(* a key are abstracted to what the code can tell apart: the seed is       *)
(* pending or not and belongs to a level; a key is the right one for that  *)
(* seed, a wrong one (wrong bytes or wrong length), or empty.              *)
(*                                                                         *)
(* The modules that keep a context in their state (Security, DiagServer)   *)
(* EXTEND this one.                                                        *)
(***************************************************************************)
EXTENDS Integers

CONSTANTS
    SeedLevels,     \* odd sub-functions the seed generator supports, e.g. {1, 3}
    MaxAttempts,    \* cfg.max_attempts
    LockoutMs,      \* cfg.lockout_ms, or its default when that is 0
    Forever         \* UINT32_MAX: the lockout of a fail-closed boot

ASSUME SeedLevelsAssumption == SeedLevels \subseteq {n \in 1..255 : n % 2 = 1}
ASSUME MaxAttemptsAssumption == MaxAttempts \in 1..255
ASSUME LockoutAssumption == /\ LockoutMs \in Nat \ {0}
                            /\ Forever \in Nat
                            /\ LockoutMs <= Forever

Unlocked == 0       \* UDS_SEC_LEVEL_UNLOCKED; also "no level pending"

Levels == SeedLevels \cup {Unlocked}

\* The part of uds_security_ctx_t that changes after init.
SecContext ==
    [active_level     : Levels,
     pending_level    : Levels,
     seed_pending     : BOOLEAN,
     failed_attempts  : 0..MaxAttempts,
     locked_out       : BOOLEAN,
     lockout_timer_ms : 0..Forever]

\* The persisted record: attempts and lockout in one write.
NvmRecord == [attempts : 0..255, lockout : 0..Forever]

NoSave == [attempts |-> 0, lockout |-> -1]   \* the call saves nothing

ZeroContext ==
    [active_level     |-> Unlocked,
     pending_level    |-> Unlocked,
     seed_pending     |-> FALSE,
     failed_attempts  |-> 0,
     locked_out       |-> FALSE,
     lockout_timer_ms |-> 0]

-----------------------------------------------------------------------------
(* uds_security_init, by what nvm_load_cb returned. *)

InitLoaded(rec) ==
    [ZeroContext EXCEPT
        !.failed_attempts  = IF rec.attempts <= MaxAttempts
                             THEN rec.attempts ELSE MaxAttempts,
        !.locked_out       = rec.lockout > 0,
        !.lockout_timer_ms = rec.lockout]

InitFault(failClosed) ==
    [ZeroContext EXCEPT
        !.locked_out       = failClosed,
        !.lockout_timer_ms = IF failClosed THEN Forever ELSE 0]

-----------------------------------------------------------------------------
(* uds_security_request_seed.  "gen" is what the seed generator does:      *)
(* "seed", "zero" (an all-zero seed), "unsupported" or "fail".             *)

GenOutcomes == {"seed", "zero", "unsupported", "fail"}

DropSeed(ctx) == [ctx EXCEPT !.seed_pending = FALSE, !.pending_level = Unlocked]

SeedRefused(ctx, level) == level % 2 = 0 \/ ctx.locked_out

SeedContext(ctx, level, gen) ==
    IF SeedRefused(ctx, level) THEN ctx
    ELSE IF ctx.active_level = level \/ gen # "seed" THEN DropSeed(ctx)
    ELSE [ctx EXCEPT !.seed_pending = TRUE, !.pending_level = level]

SeedStatus(ctx, level, gen) ==
    IF level % 2 = 0 THEN "INVALID_PARAM"
    ELSE IF ctx.locked_out THEN "SEC_DELAY_ACTIVE"
    ELSE IF ctx.active_level = level \/ gen = "seed" THEN "OK"
    ELSE IF gen = "unsupported" THEN "SUBFUNCTION_NOT_SUP"
    ELSE "CONDITIONS_NOT_MET"

-----------------------------------------------------------------------------
(* uds_security_send_key: "key" is "right", "wrong" or "empty".            *)

Keys == {"right", "wrong", "empty"}

\* sec_key_level_to_seed_level
SeedLevelOf(keyLevel) == IF keyLevel > 0 THEN keyLevel - 1 ELSE 0

\* The call looks at the key at all: not locked, a seed pending, a key given.
KeyEvaluated(ctx, key) == ~ctx.locked_out /\ ctx.seed_pending /\ key # "empty"

KeyAccepted(ctx, keyLevel, key) ==
    /\ KeyEvaluated(ctx, key)
    /\ SeedLevelOf(keyLevel) = ctx.pending_level
    /\ key = "right"

KeyFailed(ctx, keyLevel, key) ==
    KeyEvaluated(ctx, key) /\ ~KeyAccepted(ctx, keyLevel, key)

\* This failure is the one that engages the lockout.
KeyLocks(ctx, keyLevel, key) ==
    KeyFailed(ctx, keyLevel, key) /\ ctx.failed_attempts + 1 >= MaxAttempts

\* Mutant: a failed key does not consume the seed.
KeyContextSeedKept(ctx, keyLevel, key) ==
    IF KeyAccepted(ctx, keyLevel, key)
    THEN [ctx EXCEPT !.active_level = ctx.pending_level, !.failed_attempts = 0,
                     !.pending_level = Unlocked, !.seed_pending = FALSE]
    ELSE IF KeyLocks(ctx, keyLevel, key)
    THEN [ctx EXCEPT !.failed_attempts = 0, !.locked_out = TRUE,
                     !.lockout_timer_ms = LockoutMs]
    ELSE IF KeyFailed(ctx, keyLevel, key)
    THEN [ctx EXCEPT !.failed_attempts = ctx.failed_attempts + 1]
    ELSE ctx

KeyContext(ctx, keyLevel, key) ==
    IF KeyAccepted(ctx, keyLevel, key)
    THEN [ctx EXCEPT !.active_level = ctx.pending_level,
                     !.failed_attempts = 0,
                     !.pending_level = Unlocked,
                     !.seed_pending = FALSE]
    ELSE IF KeyLocks(ctx, keyLevel, key)
    THEN [ctx EXCEPT !.seed_pending = FALSE,
                     !.failed_attempts = 0,
                     !.locked_out = TRUE,
                     !.lockout_timer_ms = LockoutMs]
    ELSE IF KeyFailed(ctx, keyLevel, key)
    THEN [ctx EXCEPT !.seed_pending = FALSE,
                     !.failed_attempts = ctx.failed_attempts + 1]
    ELSE ctx

KeyStatus(ctx, keyLevel, key) ==
    IF ctx.locked_out \/ ~ctx.seed_pending THEN "SEC_SEED_UNAVAILABLE"
    ELSE IF key = "empty" THEN "INVALID_PARAM"
    ELSE IF KeyAccepted(ctx, keyLevel, key) THEN "OK"
    ELSE IF KeyLocks(ctx, keyLevel, key) THEN "SEC_ATTEMPT_EXCEEDED"
    ELSE IF SeedLevelOf(keyLevel) # ctx.pending_level THEN "SEC_SEED_UNAVAILABLE"
    ELSE "SEC_INVALID_KEY"

\* The statuses of a call that saves.
Statuses == {"OK", "SEC_ATTEMPT_EXCEEDED", "SEC_SEED_UNAVAILABLE", "SEC_INVALID_KEY"}

\* Mutant: the record is written before the failure is counted.
KeySaveBeforeCount(ctx, keyLevel, key) ==
    IF KeyAccepted(ctx, keyLevel, key) THEN [attempts |-> 0, lockout |-> 0]
    ELSE IF KeyLocks(ctx, keyLevel, key) THEN [attempts |-> 0, lockout |-> LockoutMs]
    ELSE IF KeyFailed(ctx, keyLevel, key)
         THEN [attempts |-> ctx.failed_attempts, lockout |-> 0]
    ELSE NoSave

\* Mutant: the record is written before the lockout is armed.
KeySaveBeforeLock(ctx, keyLevel, key) ==
    IF KeyAccepted(ctx, keyLevel, key) \/ KeyLocks(ctx, keyLevel, key)
    THEN [attempts |-> 0, lockout |-> 0]
    ELSE IF KeyFailed(ctx, keyLevel, key)
         THEN [attempts |-> ctx.failed_attempts + 1, lockout |-> 0]
    ELSE NoSave

KeySave(ctx, keyLevel, key) ==
    IF KeyAccepted(ctx, keyLevel, key) THEN [attempts |-> 0, lockout |-> 0]
    ELSE IF KeyLocks(ctx, keyLevel, key) THEN [attempts |-> 0, lockout |-> LockoutMs]
    ELSE IF KeyFailed(ctx, keyLevel, key)
         THEN [attempts |-> ctx.failed_attempts + 1, lockout |-> 0]
    ELSE NoSave

-----------------------------------------------------------------------------
(* uds_security_is_unlocked, uds_security_reset, uds_security_tick_1ms.    *)

IsUnlocked(ctx, level) == ctx.active_level = level

\* Mutant: a reset clears the whole context.
ResetContextAll(ctx) == ZeroContext

ResetContext(ctx) ==
    [ctx EXCEPT !.active_level = Unlocked,
                !.pending_level = Unlocked,
                !.seed_pending = FALSE]

Less1(n) == IF n > 0 THEN n - 1 ELSE 0

\* Mutant: the flag is cleared one tick late, when the timer no longer runs.
TickContextLate(ctx) ==
    IF ctx.locked_out /\ ctx.lockout_timer_ms > 0
    THEN [ctx EXCEPT !.lockout_timer_ms = ctx.lockout_timer_ms - 1,
                     !.locked_out = ctx.lockout_timer_ms > 0]
    ELSE ctx

TickContext(ctx) ==
    IF ctx.locked_out /\ ctx.lockout_timer_ms > 0
    THEN [ctx EXCEPT !.lockout_timer_ms = ctx.lockout_timer_ms - 1,
                     !.locked_out = ctx.lockout_timer_ms > 1]
    ELSE ctx

=============================================================================
