--------------------------- MODULE SecurityProofs ---------------------------
(***************************************************************************)
(* Proofs about the two systems built on SecurityCtx: Security (the        *)
(* context over power cycles) and DiagServer (the context in its session). *)
(*                                                                         *)
(* Security.  A send_key between its RAM update and its save is            *)
(* described by SavingInv (what it is about to store agrees with what RAM  *)
(* already holds); the stored record bounds the history from below         *)
(* (StoreInv), and RAM does so while powered (RamInv).  None of these is   *)
(* inductive alone: PowerLossBeforeWrite falls back on StoreInv, Save      *)
(* moves SavingInv into StoreInv and RamInv, and a boot moves StoreInv     *)
(* into RamInv.                                                            *)
(*                                                                         *)
(* DiagServer.  The inductive invariant is the conjunction of the safety   *)
(* invariants, with two more facts about the context: flag and timer of    *)
(* the lockout agree, and a running lockout is also in the stored record,  *)
(* so that a reset reloads at least what was left of it.                   *)
(***************************************************************************)
EXTENDS Security, DiagServer, TLAPS

-----------------------------------------------------------------------------
(* 1. The context: what each operator of SecurityCtx does to the fields    *)
(* the invariants of both systems speak of.                                *)

(* Every operator of SecurityCtx keeps a context a context. *)

LEMMA Zeros ==
  /\ 0 \in 0..MaxAttempts /\ 0 \in 0..Forever /\ LockoutMs \in 0..Forever
  /\ Unlocked \in Levels /\ Forever \in 0..Forever
  /\ TRUE \in BOOLEAN /\ FALSE \in BOOLEAN
  BY MaxAttemptsAssumption, LockoutAssumption DEF Levels, Unlocked

LEMMA ZeroContextType == ZeroContext \in SecContext
  BY MaxAttemptsAssumption, LockoutAssumption DEF ZeroContext, SecContext, Levels, Unlocked

\* The shapes in which the code assigns fields of the context.
LEMMA Assignments ==
  \A c \in SecContext, a \in Levels, p \in Levels, s \in BOOLEAN,
     f \in 0..MaxAttempts, l \in BOOLEAN, t \in 0..Forever :
     /\ [c EXCEPT !.seed_pending = s, !.pending_level = p] \in SecContext
     /\ [c EXCEPT !.active_level = a, !.failed_attempts = f,
                  !.pending_level = p, !.seed_pending = s] \in SecContext
     /\ [c EXCEPT !.seed_pending = s, !.failed_attempts = f, !.locked_out = l,
                  !.lockout_timer_ms = t] \in SecContext
     /\ [c EXCEPT !.seed_pending = s, !.failed_attempts = f] \in SecContext
     /\ [c EXCEPT !.active_level = a, !.pending_level = p, !.seed_pending = s]
          \in SecContext
     /\ [c EXCEPT !.failed_attempts = f, !.locked_out = l, !.lockout_timer_ms = t]
          \in SecContext
     /\ [c EXCEPT !.locked_out = l, !.lockout_timer_ms = t] \in SecContext
     /\ [c EXCEPT !.lockout_timer_ms = t, !.locked_out = l] \in SecContext
<1> SUFFICES ASSUME NEW c \in SecContext, NEW a \in Levels, NEW p \in Levels,
                    NEW s \in BOOLEAN, NEW f \in 0..MaxAttempts, NEW l \in BOOLEAN,
                    NEW t \in 0..Forever
             PROVE
     /\ [c EXCEPT !.seed_pending = s, !.pending_level = p] \in SecContext
     /\ [c EXCEPT !.active_level = a, !.failed_attempts = f,
                  !.pending_level = p, !.seed_pending = s] \in SecContext
     /\ [c EXCEPT !.seed_pending = s, !.failed_attempts = f, !.locked_out = l,
                  !.lockout_timer_ms = t] \in SecContext
     /\ [c EXCEPT !.seed_pending = s, !.failed_attempts = f] \in SecContext
     /\ [c EXCEPT !.active_level = a, !.pending_level = p, !.seed_pending = s]
          \in SecContext
     /\ [c EXCEPT !.failed_attempts = f, !.locked_out = l, !.lockout_timer_ms = t]
          \in SecContext
     /\ [c EXCEPT !.locked_out = l, !.lockout_timer_ms = t] \in SecContext
     /\ [c EXCEPT !.lockout_timer_ms = t, !.locked_out = l] \in SecContext
  BY Zenon
<1> QED BY DEF SecContext

LEMMA LoadedType ==
  ASSUME NEW r \in NvmRecord PROVE InitLoaded(r) \in SecContext
<1> DEFINE f == IF r.attempts <= MaxAttempts THEN r.attempts ELSE MaxAttempts
<1>1. f \in 0..MaxAttempts
  BY MaxAttemptsAssumption DEF NvmRecord
<1>2. (r.lockout > 0) \in BOOLEAN /\ r.lockout \in 0..Forever
  BY DEF NvmRecord
<1> QED BY <1>1, <1>2, ZeroContextType, Zeros, Assignments, ZenonT(60) DEF InitLoaded

LEMMA FaultType ==
  ASSUME NEW failClosed \in BOOLEAN PROVE InitFault(failClosed) \in SecContext
<1>1. (IF failClosed THEN Forever ELSE 0) \in 0..Forever
  BY LockoutAssumption
<1> QED BY <1>1, ZeroContextType, Zeros, Assignments, Zenon
        DEF InitFault

LEMMA SeedType ==
  ASSUME NEW c \in SecContext, NEW level \in 0..127, NEW gen \in GenOutcomes,
         (gen = "unsupported") = (level \notin SeedLevels)
  PROVE  SeedContext(c, level, gen) \in SecContext
<1>1. DropSeed(c) \in SecContext
  BY Zeros, Assignments, Zenon DEF DropSeed
<1>2. gen = "seed" => level \in Levels
  BY DEF Levels
<1>3. level \in Levels =>
        [c EXCEPT !.seed_pending = TRUE, !.pending_level = level] \in SecContext
  BY Zeros, Assignments, Zenon
<1> QED BY <1>1, <1>2, <1>3 DEF SeedContext

LEMMA KeyType ==
  ASSUME NEW c \in SecContext, NEW keyLevel \in 0..127, NEW key \in Keys
  PROVE  /\ KeyContext(c, keyLevel, key) \in SecContext
         /\ KeySave(c, keyLevel, key) \in NvmRecord \cup {NoSave}
<1>1. c.pending_level \in Levels /\ c.failed_attempts \in 0..MaxAttempts
  BY DEF SecContext
<1>2. CASE KeyAccepted(c, keyLevel, key)
  <2>1. KeyContext(c, keyLevel, key) \in SecContext
    BY <1>1, <1>2, Zeros, Assignments, Zenon DEF KeyContext
  <2> QED BY <2>1, <1>2, LockoutAssumption DEF KeySave, NvmRecord
<1>3. CASE ~KeyAccepted(c, keyLevel, key) /\ KeyLocks(c, keyLevel, key)
  <2>1. KeyContext(c, keyLevel, key) \in SecContext
    BY <1>3, Zeros, Assignments, ZenonT(60) DEF KeyContext
  <2> QED BY <2>1, <1>3, LockoutAssumption DEF KeySave, NvmRecord
<1>4. CASE /\ ~KeyAccepted(c, keyLevel, key) /\ ~KeyLocks(c, keyLevel, key)
           /\ KeyFailed(c, keyLevel, key)
  <2>1. c.failed_attempts + 1 \in 0..MaxAttempts /\ c.failed_attempts + 1 \in 0..255
    BY <1>1, <1>4, MaxAttemptsAssumption DEF KeyLocks
  <2>2. KeyContext(c, keyLevel, key) \in SecContext
    BY <2>1, <1>4, Zeros, Assignments, Zenon DEF KeyContext
  <2> QED BY <2>1, <2>2, <1>4, LockoutAssumption DEF KeySave, NvmRecord
<1>5. CASE /\ ~KeyAccepted(c, keyLevel, key) /\ ~KeyLocks(c, keyLevel, key)
           /\ ~KeyFailed(c, keyLevel, key)
  BY <1>5, Zenon DEF KeyContext, KeySave
<1> QED BY <1>2, <1>3, <1>4, <1>5

LEMMA ResetType ==
  ASSUME NEW c \in SecContext PROVE ResetContext(c) \in SecContext
  BY Zeros, Assignments, Zenon DEF ResetContext

LEMMA TickType ==
  ASSUME NEW c \in SecContext PROVE TickContext(c) \in SecContext
<1>1. CASE c.locked_out /\ c.lockout_timer_ms > 0
  <2>1. c.lockout_timer_ms - 1 \in 0..Forever /\ (c.lockout_timer_ms > 1) \in BOOLEAN
    BY <1>1, LockoutAssumption DEF SecContext
  <2>2. TickContext(c) = [c EXCEPT !.lockout_timer_ms = c.lockout_timer_ms - 1,
                                   !.locked_out = c.lockout_timer_ms > 1]
    BY <1>1 DEF TickContext
  <2>3. \A t \in 0..Forever, l \in BOOLEAN :
          [c EXCEPT !.lockout_timer_ms = t, !.locked_out = l] \in SecContext
    BY Zeros, Assignments, Zenon
  <2>4. [c EXCEPT !.lockout_timer_ms = c.lockout_timer_ms - 1,
                  !.locked_out = c.lockout_timer_ms > 1] \in SecContext
    BY <2>1, <2>3
  <2> QED BY <2>2, <2>4, Zenon
<1>2. CASE ~(c.locked_out /\ c.lockout_timer_ms > 0)
  BY <1>2 DEF TickContext
<1> QED BY <1>1, <1>2

-----------------------------------------------------------------------------
(* What send_key stores agrees with what it leaves in RAM. *)

Agrees(c) == c.locked_out <=> c.lockout_timer_ms > 0

Judged(c, key, d, r, answer) ==
    /\ Agrees(d)
    /\ r = NoSave => d = c
    /\ r # NoSave =>
         /\ KeyEvaluated(c, key)
         /\ c.lockout_timer_ms = 0
         /\ r.attempts = d.failed_attempts
         /\ r.attempts < MaxAttempts
         /\ r.lockout = d.lockout_timer_ms
         /\ answer \in Statuses
         /\ answer = "SEC_ATTEMPT_EXCEEDED" => r.lockout = LockoutMs
         /\ answer \in {"SEC_SEED_UNAVAILABLE", "SEC_INVALID_KEY"}
              => r.attempts = c.failed_attempts + 1
         /\ d.seed_pending = FALSE

LEMMA KeyEffect ==
  \A c \in SecContext, keyLevel \in 0..127, key \in Keys :
     Agrees(c) => Judged(c, key, KeyContext(c, keyLevel, key),
                         KeySave(c, keyLevel, key), KeyStatus(c, keyLevel, key))
<1> SUFFICES ASSUME NEW c \in SecContext, NEW keyLevel \in 0..127, NEW key \in Keys,
                    Agrees(c),
                    NEW d, d = KeyContext(c, keyLevel, key),
                    NEW r, r = KeySave(c, keyLevel, key),
                    NEW answer, answer = KeyStatus(c, keyLevel, key)
             PROVE  Judged(c, key, d, r, answer)
  BY Zenon
<1> USE DEF Agrees, Judged
<1> USE MaxAttemptsAssumption, LockoutAssumption
<1>1. CASE KeyAccepted(c, keyLevel, key)
  <2>1. d = [c EXCEPT !.active_level = c.pending_level, !.failed_attempts = 0,
                      !.pending_level = Unlocked, !.seed_pending = FALSE]
    BY <1>1 DEF KeyContext
  <2>2. r = [attempts |-> 0, lockout |-> 0] /\ r # NoSave
    BY <1>1 DEF KeySave, NoSave
  <2>3. ~c.locked_out /\ c.lockout_timer_ms = 0 /\ KeyEvaluated(c, key)
    BY <1>1 DEF KeyAccepted, KeyEvaluated, SecContext
  <2>4. answer = "OK"
    BY <1>1 DEF KeyStatus, KeyAccepted, KeyEvaluated
  <2>5. ~d.locked_out /\ d.lockout_timer_ms = 0 /\ d.failed_attempts = 0 /\ ~d.seed_pending
    BY <2>1, <2>3 DEF SecContext
  <2> QED BY <2>2, <2>3, <2>4, <2>5 DEF Statuses
<1>2. CASE KeyLocks(c, keyLevel, key)
  <2>0. ~KeyAccepted(c, keyLevel, key) /\ KeyFailed(c, keyLevel, key)
    BY <1>2 DEF KeyLocks, KeyFailed
  <2>1. d = [c EXCEPT !.seed_pending = FALSE, !.failed_attempts = 0,
                      !.locked_out = TRUE, !.lockout_timer_ms = LockoutMs]
    BY <1>2, <2>0 DEF KeyContext
  <2>2. r = [attempts |-> 0, lockout |-> LockoutMs] /\ r # NoSave
    BY <1>2, <2>0 DEF KeySave, NoSave
  <2>3. ~c.locked_out /\ c.lockout_timer_ms = 0 /\ KeyEvaluated(c, key)
    BY <2>0 DEF KeyFailed, KeyEvaluated, SecContext
  <2>4. answer = "SEC_ATTEMPT_EXCEEDED"
    BY <1>2, <2>0, <2>3 DEF KeyStatus, KeyEvaluated
  <2>5. d.locked_out /\ d.lockout_timer_ms = LockoutMs /\ d.failed_attempts = 0
        /\ ~d.seed_pending
    BY <2>1 DEF SecContext
  <2> QED BY <2>2, <2>3, <2>4, <2>5 DEF Statuses
<1>3. CASE KeyFailed(c, keyLevel, key) /\ ~KeyLocks(c, keyLevel, key)
  <2>0. ~KeyAccepted(c, keyLevel, key) /\ c.failed_attempts + 1 < MaxAttempts
    BY <1>3 DEF KeyLocks, KeyFailed, SecContext
  <2>1. d = [c EXCEPT !.seed_pending = FALSE,
                      !.failed_attempts = c.failed_attempts + 1]
    BY <1>3, <2>0 DEF KeyContext
  <2>2. r = [attempts |-> c.failed_attempts + 1, lockout |-> 0] /\ r # NoSave
    BY <1>3, <2>0 DEF KeySave, NoSave
  <2>3. ~c.locked_out /\ c.lockout_timer_ms = 0 /\ KeyEvaluated(c, key)
    BY <1>3 DEF KeyFailed, KeyEvaluated, SecContext
  <2>4. answer \in {"SEC_SEED_UNAVAILABLE", "SEC_INVALID_KEY"}
    BY <1>3, <2>0, <2>3 DEF KeyStatus, KeyEvaluated
  <2>5. /\ ~d.locked_out /\ d.lockout_timer_ms = 0 /\ ~d.seed_pending
        /\ d.failed_attempts = c.failed_attempts + 1
    BY <2>1, <2>3 DEF SecContext
  <2> QED BY <2>0, <2>2, <2>3, <2>4, <2>5 DEF Statuses
<1>4. CASE ~KeyAccepted(c, keyLevel, key) /\ ~KeyFailed(c, keyLevel, key)
  BY <1>4 DEF KeyContext, KeySave, KeyLocks
<1> QED BY <1>1, <1>2, <1>3, <1>4

LEMMA SeedEffect ==
  ASSUME NEW c \in SecContext, NEW level, NEW gen,
         NEW d, d = SeedContext(c, level, gen)
  PROVE  /\ d.locked_out = c.locked_out
         /\ d.lockout_timer_ms = c.lockout_timer_ms
         /\ d.failed_attempts = c.failed_attempts
         /\ d.seed_pending => c.seed_pending \/ SeedStatus(c, level, gen) = "OK"
<1>1. CASE SeedRefused(c, level)
  BY <1>1 DEF SeedContext
<1>2. CASE ~SeedRefused(c, level) /\ (c.active_level = level \/ gen # "seed")
  BY <1>2 DEF SeedContext, DropSeed, SecContext
<1>3. CASE ~SeedRefused(c, level) /\ ~(c.active_level = level \/ gen # "seed")
  <2>1. /\ d.locked_out = c.locked_out
        /\ d.lockout_timer_ms = c.lockout_timer_ms
        /\ d.failed_attempts = c.failed_attempts
    BY <1>3 DEF SeedContext, SecContext
  <2>2. SeedStatus(c, level, gen) = "OK"
    BY <1>3 DEF SeedStatus, SeedRefused
  <2> QED BY <2>1, <2>2
<1> QED BY <1>1, <1>2, <1>3

LEMMA ResetEffect ==
  ASSUME NEW c \in SecContext, NEW d, d = ResetContext(c)
  PROVE  /\ d.locked_out = c.locked_out
         /\ d.lockout_timer_ms = c.lockout_timer_ms
         /\ d.failed_attempts = c.failed_attempts
         /\ ~d.seed_pending
  BY DEF ResetContext, SecContext

LEMMA TickEffect ==
  ASSUME NEW c \in SecContext, c.locked_out <=> c.lockout_timer_ms > 0,
         NEW d, d = TickContext(c)
  PROVE  /\ d.locked_out <=> d.lockout_timer_ms > 0
         /\ d.lockout_timer_ms = Less1(c.lockout_timer_ms)
         /\ d.failed_attempts = c.failed_attempts
         /\ d.seed_pending = c.seed_pending
<1>1. CASE c.locked_out /\ c.lockout_timer_ms > 0
  <2>1. d = [c EXCEPT !.lockout_timer_ms = c.lockout_timer_ms - 1,
                      !.locked_out = c.lockout_timer_ms > 1]
    BY <1>1 DEF TickContext
  <2>2. c.lockout_timer_ms \in Int
    BY LockoutAssumption DEF SecContext
  <2>3. /\ d.lockout_timer_ms = c.lockout_timer_ms - 1
        /\ d.failed_attempts = c.failed_attempts
        /\ d.seed_pending = c.seed_pending
    BY <2>1 DEF SecContext
  <2>4. d.locked_out = (c.lockout_timer_ms > 1)
    BY <2>1, Zenon DEF SecContext
  <2>5. (c.lockout_timer_ms > 1) <=> d.lockout_timer_ms > 0
    BY <2>2, <2>3
  <2>6. d.locked_out <=> d.lockout_timer_ms > 0
    BY <2>4, <2>5, Zenon
  <2>7. d.lockout_timer_ms = Less1(c.lockout_timer_ms)
    BY <1>1, <2>3 DEF Less1
  <2> QED BY <2>3, <2>6, <2>7, Zenon
<1>2. CASE ~c.locked_out /\ c.lockout_timer_ms = 0
  BY <1>2 DEF TickContext, SecContext, Less1
<1> QED BY <1>1, <1>2, LockoutAssumption DEF SecContext

LEMMA TickAgrees ==
  \A c \in SecContext :
     Agrees(c) => /\ Agrees(TickContext(c))
                  /\ TickContext(c).lockout_timer_ms = Less1(c.lockout_timer_ms)
<1> SUFFICES ASSUME NEW c \in SecContext, Agrees(c), NEW d, d = TickContext(c)
             PROVE  Agrees(d) /\ d.lockout_timer_ms = Less1(c.lockout_timer_ms)
  BY Zenon
<1> QED BY TickEffect DEF Agrees

-----------------------------------------------------------------------------
(* Which calls can raise the unlocked level or leave a seed pending. *)

LEMMA SeedPrivilege ==
  ASSUME NEW c \in SecContext, NEW level, NEW gen
  PROVE  SeedContext(c, level, gen).active_level = c.active_level
  BY DEF SeedContext, DropSeed, SecContext

LEMMA KeyPrivilege ==
  ASSUME NEW c \in SecContext, Agrees(c), NEW keyLevel \in 0..127, NEW key \in Keys
  PROVE  /\ ~KeyAccepted(c, keyLevel, key)
              => KeyContext(c, keyLevel, key).active_level = c.active_level
         /\ KeyContext(c, keyLevel, key).seed_pending = TRUE => c.seed_pending = TRUE
<1>1. ~KeyAccepted(c, keyLevel, key)
        => KeyContext(c, keyLevel, key).active_level = c.active_level
  BY DEF KeyContext, SecContext
<1>2. Judged(c, key, KeyContext(c, keyLevel, key), KeySave(c, keyLevel, key),
             KeyStatus(c, keyLevel, key))
  BY KeyEffect, Zenon
<1> QED BY <1>1, <1>2 DEF Judged

LEMMA ResetPrivilege ==
  \A c \in SecContext : /\ ResetContext(c).active_level = Unlocked
                        /\ ResetContext(c).seed_pending = FALSE
  BY DEF ResetContext, SecContext

LEMMA TickPrivilege ==
  \A c \in SecContext : /\ TickContext(c).active_level = c.active_level
                        /\ TickContext(c).seed_pending = c.seed_pending
  BY DEF TickContext, SecContext

-----------------------------------------------------------------------------
(* 2. Security: the invariants behind its properties. *)

Counting == saving.status \in {"SEC_SEED_UNAVAILABLE", "SEC_INVALID_KEY"}

SavingInv ==
    saving # Idle =>
        /\ up
        /\ saving.rec # NoSave
        /\ bootOwed = 0
        /\ store = "kept" => owed = 0
        /\ saving.rec.attempts = ctx.failed_attempts
        /\ saving.rec.attempts < MaxAttempts
        /\ saving.rec.lockout = ctx.lockout_timer_ms
        /\ saving.status = "SEC_ATTEMPT_EXCEEDED" => saving.rec.lockout = LockoutMs
        /\ store = "kept" /\ Counting => wrong < saving.rec.attempts

StoreInv ==
    /\ nvm # NoSave => nvm.attempts < MaxAttempts
    /\ store = "kept" =>
          /\ nvm = NoSave => wrong = 0 /\ owed = 0
          /\ nvm # NoSave => wrong <= nvm.attempts /\ owed <= nvm.lockout

RamInv ==
    store = "kept" /\ up /\ saving = Idle =>
        /\ bootOwed = 0 => wrong <= ctx.failed_attempts
        /\ owed <= ctx.lockout_timer_ms

LockoutInv ==
    /\ LockoutHasTimer
    /\ up => bootOwed <= ctx.lockout_timer_ms

SecurityIInv == SecurityTypeOK /\ LockoutInv /\ SavingInv /\ StoreInv /\ RamInv

SeedInv == tries \in Nat /\ tries <= 1 /\ (up /\ ctx.seed_pending => tries = 0)

-----------------------------------------------------------------------------
(* The inductive invariant. *)

LEMMA IdleType == Idle \in [rec : NvmRecord \cup {NoSave}, status : Statuses]
  BY DEF Idle, Statuses

LEMMA InitSecurityIInv == SecurityInit => SecurityIInv
<1> SUFFICES ASSUME SecurityInit PROVE SecurityIInv OBVIOUS
<1>0. saving \in [rec : NvmRecord \cup {NoSave}, status : Statuses]
  BY IdleType, Zenon DEF SecurityInit
<1>1. SecurityTypeOK
  <2>1. up \in BOOLEAN /\ ctx \in SecContext /\ nvm \in NvmRecord \cup {NoSave}
    BY ZeroContextType, Zenon DEF SecurityInit
  <2>2. owed \in 0..LockoutMs /\ bootOwed \in 0..Forever /\ wrong \in 0..MaxAttempts
        /\ tries \in Nat
    BY MaxAttemptsAssumption, LockoutAssumption DEF SecurityInit
  <2>3. store \in {"kept", "lost"} BY Zenon DEF SecurityInit
  <2> QED BY <1>0, <2>1, <2>2, <2>3, Zenon DEF SecurityTypeOK
<1>2. LockoutInv
  BY DEF SecurityInit, LockoutInv, LockoutHasTimer, ZeroContext
<1>3. SavingInv /\ StoreInv /\ RamInv
  BY DEF SecurityInit, SavingInv, StoreInv, RamInv
<1> QED BY <1>1, <1>2, <1>3 DEF SecurityIInv

LEMMA LostStaysLost ==
  ASSUME store \in {"kept", "lost"}, [SecurityNext]_securityVars
  PROVE  store' \in {"kept", "lost"} /\ (store' = "kept" => store = "kept")
  BY DEF securityVars, SecurityNext, Boot, BootFirst, BootLoaded, BootFault, Save, RequestSeed, SendKey,
         Reset, SecurityTick, PowerLossIdle, PowerLossBeforeWrite, PowerLossAfterWrite

LEMMA BootStep == ASSUME SecurityIInv, Boot PROVE SecurityIInv'
<1> USE MaxAttemptsAssumption, LockoutAssumption DEF SecurityIInv, SecurityTypeOK
<1>0. saving = Idle
  BY DEF Boot, BootFirst, BootLoaded, BootFault, BootWith, SavingInv
<1>k. store' \in {"kept", "lost"} /\ (store' = "kept" => store = "kept")
  BY LostStaysLost DEF SecurityNext
<1>1. CASE BootFirst
  <2>1. SecurityTypeOK' BY <1>1, <1>k, ZeroContextType DEF BootFirst, BootWith
  <2> QED BY <1>0, <1>k, <1>1, <2>1 DEF BootFirst, BootWith, ZeroContext, LockoutInv,
             LockoutHasTimer, SavingInv, StoreInv, RamInv
<1>2. CASE BootLoaded
  <2>0. nvm \in NvmRecord /\ ctx' = InitLoaded(nvm)
    BY <1>2 DEF BootLoaded, BootWith
  <2>1. SecurityTypeOK' BY <1>2, <1>k, <2>0, LoadedType DEF BootLoaded, BootWith
  <2>2. /\ (ctx.locked_out <=> ctx.lockout_timer_ms > 0)'
        /\ ctx'.lockout_timer_ms = nvm.lockout
    BY <2>0 DEF InitLoaded, ZeroContext, NvmRecord
  <2>3. nvm.attempts < MaxAttempts => ctx'.failed_attempts = nvm.attempts
    <3>1. ctx'.failed_attempts = IF nvm.attempts <= MaxAttempts
                                 THEN nvm.attempts ELSE MaxAttempts
      BY <2>0, Zenon DEF InitLoaded, ZeroContext
    <3> QED BY <2>0, <3>1 DEF NvmRecord
  <2> QED BY <1>0, <1>k, <1>2, <2>0, <2>1, <2>2, <2>3
          DEF BootLoaded, BootWith, LockoutInv, LockoutHasTimer, SavingInv,
              StoreInv, RamInv, NvmRecord
<1>3. CASE BootFault
  <2>1. SecurityTypeOK' BY <1>3, <1>k, FaultType, FaultAssumption DEF BootFault, BootWith
  <2>2. CASE FailClosed = TRUE
    <3>1. ctx'.locked_out = TRUE /\ ctx'.lockout_timer_ms = Forever
      BY <1>3, <2>2 DEF BootFault, BootWith, InitFault, ZeroContext
    <3>2. bootOwed' = Forever /\ UNCHANGED <<nvm, saving, owed, wrong>> /\ Forever > 0
      BY <1>3, <2>2 DEF BootFault, BootWith
    <3>3. RamInv'
      BY <1>k, <3>1, <3>2 DEF RamInv
    <3> QED BY <1>0, <1>k, <2>1, <3>1, <3>2, <3>3
            DEF LockoutInv, LockoutHasTimer, SavingInv, StoreInv
  <2>3. CASE FailClosed = FALSE
    <3>1. ctx'.locked_out = FALSE /\ ctx'.lockout_timer_ms = 0
      BY <1>3, <2>3 DEF BootFault, BootWith, InitFault, ZeroContext
    <3>2. bootOwed' = 0 /\ UNCHANGED <<nvm, saving, owed, wrong>>
      BY <1>3, <2>3 DEF BootFault, BootWith
    <3>3. store' = "lost"
      BY <1>3, <2>3 DEF BootFault
    <3> QED BY <1>0, <1>k, <2>1, <3>1, <3>2, <3>3
            DEF LockoutInv, LockoutHasTimer, SavingInv, StoreInv, RamInv
  <2> QED BY <2>2, <2>3, FaultAssumption
<1> QED BY <1>1, <1>2, <1>3 DEF Boot

LEMMA SeedStep ==
  ASSUME SecurityIInv, NEW level \in TriedSubFunctions, NEW gen \in GenOutcomes,
         RequestSeed(level, gen)
  PROVE  SecurityIInv'
<1> USE DEF SecurityIInv, SecurityTypeOK, RequestSeed, Ready
<1>1. SecurityTypeOK' BY SeedType, SubFunctionAssumption
<1>2. /\ ctx'.locked_out = ctx.locked_out
      /\ ctx'.lockout_timer_ms = ctx.lockout_timer_ms
      /\ ctx'.failed_attempts = ctx.failed_attempts
  BY SeedEffect
<1>3. LockoutInv' BY <1>2, Zenon DEF LockoutInv, LockoutHasTimer
<1> QED BY <1>1, <1>2, <1>3 DEF SavingInv, StoreInv, RamInv

LEMMA KeyStep ==
  ASSUME SecurityIInv, NEW keyLevel \in TriedSubFunctions, NEW key \in Keys, SendKey(keyLevel, key)
  PROVE  SecurityIInv'
<1> USE MaxAttemptsAssumption, LockoutAssumption DEF SecurityIInv, SecurityTypeOK
<1> DEFINE r == KeySave(ctx, keyLevel, key)
           answer == KeyStatus(ctx, keyLevel, key)
<1>0. up /\ saving = Idle /\ ctx' = KeyContext(ctx, keyLevel, key)
      /\ UNCHANGED <<up, nvm, owed, bootOwed, wrong, store>>
      /\ keyLevel \in 0..127
  BY SubFunctionAssumption DEF SendKey, Ready
<1>1. Judged(ctx, key, ctx', r, answer)
  <2>1. ctx \in SecContext /\ Agrees(ctx)
    BY DEF LockoutInv, LockoutHasTimer, Agrees
  <2>2. Judged(ctx, key, KeyContext(ctx, keyLevel, key), r, answer)
    BY <1>0, <2>1, KeyEffect, Zenon
  <2> QED BY <1>0, <2>2, Zenon
<1> USE DEF Judged, Agrees
<1>2. ctx' \in SecContext /\ r \in NvmRecord \cup {NoSave}
  BY <1>0, KeyType
<1>3. CASE r = NoSave
  <2>1. saving' = Idle BY <1>3 DEF SendKey
  <2>2. SecurityTypeOK' BY <1>0, <1>2, <2>1 DEF SendKey
  <2> QED BY <1>0, <1>1, <1>3, <2>1, <2>2
          DEF LockoutInv, LockoutHasTimer, SavingInv, StoreInv, RamInv
<1>4. CASE r # NoSave
  <2>1. saving' = [rec |-> r, status |-> answer] BY <1>4 DEF SendKey
  <2>2. saving'.rec = r /\ saving'.status = answer /\ saving' # Idle
    BY <1>4, <2>1 DEF Idle
  <2>3. SecurityTypeOK' BY <1>0, <1>1, <1>2, <1>4, <2>1 DEF SendKey
  <2>4. bootOwed = 0 /\ (store = "kept" => owed = 0 /\ wrong <= ctx.failed_attempts)
    BY <1>0, <1>1, <1>4 DEF LockoutInv, RamInv
  <2>5. ctx.failed_attempts \in Nat /\ wrong \in Nat
    BY DEF SecContext
  <2>6. SavingInv'
    BY <1>0, <1>1, <1>4, <2>2, <2>4, <2>5 DEF SavingInv, Counting
  <2>7. LockoutInv'
    BY <1>0, <1>1, <1>2, <2>4 DEF LockoutInv, LockoutHasTimer, SecContext
  <2> QED BY <1>0, <2>2, <2>3, <2>6, <2>7 DEF StoreInv, RamInv
<1> QED BY <1>3, <1>4

\* The history after a key's judgement took effect, against what was stored.
LEMMA AccountEffect ==
  ASSUME SecurityIInv, saving # Idle, Account(saving.status)
  PROVE  /\ wrong' \in 0..MaxAttempts /\ owed' \in 0..LockoutMs
         /\ store = "kept" => wrong' <= saving.rec.attempts /\ owed' <= saving.rec.lockout
<1> USE MaxAttemptsAssumption, LockoutAssumption DEF SecurityIInv, SecurityTypeOK, Account
<1>0. saving.rec \in NvmRecord /\ saving.status \in Statuses
  BY DEF SavingInv
<1>1. CASE saving.status = "SEC_ATTEMPT_EXCEEDED"
  BY <1>0, <1>1 DEF SavingInv, NvmRecord
<1>2. CASE saving.status = "OK"
  BY <1>0, <1>2 DEF SavingInv, NvmRecord
<1>3. CASE Counting
  BY <1>0, <1>3 DEF SavingInv, NvmRecord, Counting
<1> QED BY <1>0, <1>1, <1>2, <1>3 DEF Statuses, Counting

LEMMA SaveStep == ASSUME SecurityIInv, NEW ok \in BOOLEAN, Save(ok) PROVE SecurityIInv'
<1> USE MaxAttemptsAssumption, LockoutAssumption DEF SecurityIInv, SecurityTypeOK
<1>0. /\ up /\ saving # Idle /\ saving' = Idle
      /\ UNCHANGED <<up, ctx, bootOwed, tries>>
      /\ nvm' = IF ok THEN saving.rec ELSE nvm
      /\ saving.rec \in NvmRecord /\ saving.rec # NoSave
  BY DEF Save, SavingInv
<1>k. store' \in {"kept", "lost"} /\ (store' = "kept" => store = "kept")
  BY LostStaysLost DEF SecurityNext
<1>1. /\ wrong' \in 0..MaxAttempts /\ owed' \in 0..LockoutMs
      /\ store' = "kept" => wrong' <= saving.rec.attempts /\ owed' <= saving.rec.lockout
  BY <1>k, AccountEffect DEF Save
<1>2. SecurityTypeOK' BY <1>0, <1>1, <1>k DEF Idle, Statuses
<1>3. LockoutInv' BY <1>0 DEF LockoutInv, LockoutHasTimer
<1>4. StoreInv'
  <2>1. CASE ok = TRUE BY <1>0, <1>1, <2>1 DEF StoreInv, SavingInv
  <2>2. CASE ok = FALSE
    <3>1. store' = "lost" BY <2>2 DEF Save
    <3> QED BY <1>0, <2>2, <3>1 DEF StoreInv
  <2> QED BY <2>1, <2>2
<1>5. RamInv' BY <1>0, <1>1 DEF RamInv, SavingInv
<1>6. SavingInv' BY <1>0 DEF SavingInv
<1> QED BY <1>2, <1>3, <1>4, <1>5, <1>6

LEMMA ResetStep == ASSUME SecurityIInv, Reset PROVE SecurityIInv'
<1> USE DEF SecurityIInv, SecurityTypeOK, Reset, Ready
<1>1. SecurityTypeOK' BY ResetType
<1>2. /\ ctx'.locked_out = ctx.locked_out
      /\ ctx'.lockout_timer_ms = ctx.lockout_timer_ms
      /\ ctx'.failed_attempts = ctx.failed_attempts
  BY ResetEffect
<1>3. LockoutInv' BY <1>2, Zenon DEF LockoutInv, LockoutHasTimer
<1> QED BY <1>1, <1>2, <1>3 DEF SavingInv, StoreInv, RamInv

LEMMA TickStep == ASSUME SecurityIInv, SecurityTick PROVE SecurityIInv'
<1> USE MaxAttemptsAssumption, LockoutAssumption DEF SecurityIInv, SecurityTypeOK, SecurityTick, Ready
<1>0. /\ owed' = Less1(owed) /\ owed' \in 0..LockoutMs /\ owed' <= owed
      /\ bootOwed' = Less1(bootOwed) /\ bootOwed' \in 0..Forever
      /\ wrong' \in 0..MaxAttempts /\ wrong' <= wrong
  BY DEF Less1
<1>1. SecurityTypeOK' BY <1>0, TickType
<1>2. /\ (ctx.locked_out <=> ctx.lockout_timer_ms > 0)'
      /\ ctx'.lockout_timer_ms = Less1(ctx.lockout_timer_ms)
      /\ ctx'.failed_attempts = ctx.failed_attempts
      /\ ctx.lockout_timer_ms \in Nat /\ ctx.failed_attempts \in Nat
  BY TickEffect DEF LockoutInv, LockoutHasTimer, SecContext
<1>3. LockoutInv'
  BY <1>0, <1>2 DEF LockoutInv, LockoutHasTimer, Less1
<1>4. StoreInv' BY <1>0 DEF StoreInv, NvmRecord, Less1
<1>5. RamInv'
  <2>1. ASSUME store = "kept" PROVE owed' <= ctx'.lockout_timer_ms
    BY <1>0, <1>2, <2>1 DEF RamInv, Less1
  <2>2. ASSUME store = "kept", bootOwed' = 0 PROVE wrong' <= ctx'.failed_attempts
    BY <1>0, <1>2, <2>2 DEF RamInv, Less1
  <2> QED BY <2>1, <2>2 DEF RamInv
<1> QED BY <1>1, <1>3, <1>4, <1>5 DEF SavingInv

LEMMA PowerStep ==
  ASSUME SecurityIInv, PowerLossIdle \/ PowerLossBeforeWrite \/ PowerLossAfterWrite
  PROVE  SecurityIInv'
<1> USE MaxAttemptsAssumption, LockoutAssumption DEF SecurityIInv, SecurityTypeOK
<1>1. CASE PowerLossIdle \/ PowerLossBeforeWrite
  <2>0. /\ saving' = Idle /\ up' = FALSE /\ bootOwed' = 0
        /\ UNCHANGED <<ctx, nvm, owed, wrong, tries, store>>
    BY <1>1 DEF PowerLossIdle, PowerLossBeforeWrite, Ready
  <2>1. saving' \in [rec : NvmRecord \cup {NoSave}, status : Statuses]
    BY <2>0, IdleType, Zenon
  <2>2. SecurityTypeOK'
    <3>1. bootOwed' \in 0..Forever BY <2>0
    <3> QED BY <2>0, <2>1, <3>1, Zenon
  <2> QED BY <2>0, <2>2 DEF LockoutInv, LockoutHasTimer, SavingInv, StoreInv, RamInv
<1>2. CASE PowerLossAfterWrite
  <2>0. /\ saving # Idle /\ saving' = Idle /\ up' = FALSE
        /\ nvm' = saving.rec /\ ctx' = ctx /\ bootOwed' = 0
        /\ UNCHANGED <<tries, store>>
        /\ saving.rec \in NvmRecord /\ saving.rec # NoSave
    BY <1>2 DEF PowerLossAfterWrite, SavingInv
  <2>1. /\ wrong' \in 0..MaxAttempts /\ owed' \in 0..LockoutMs
        /\ store = "kept" => wrong' <= saving.rec.attempts /\ owed' <= saving.rec.lockout
    BY <1>2, AccountEffect DEF PowerLossAfterWrite
  <2>2. saving' \in [rec : NvmRecord \cup {NoSave}, status : Statuses]
    BY <2>0, IdleType, Zenon
  <2>3. SecurityTypeOK'
    <3>1. bootOwed' \in 0..Forever BY <2>0
    <3> QED BY <2>0, <2>1, <2>2, <3>1, Zenon
  <2>4. LockoutInv' BY <2>0 DEF LockoutInv, LockoutHasTimer
  <2>5. StoreInv' BY <2>0, <2>1 DEF StoreInv, SavingInv
  <2> QED BY <2>0, <2>3, <2>4, <2>5 DEF SavingInv, RamInv
<1> QED BY <1>1, <1>2

LEMMA NextIInv == SecurityIInv /\ [SecurityNext]_securityVars => SecurityIInv'
<1> SUFFICES ASSUME SecurityIInv, [SecurityNext]_securityVars PROVE SecurityIInv' OBVIOUS
<1>1. CASE UNCHANGED securityVars
  <2>1. SecurityTypeOK' BY <1>1 DEF SecurityIInv, SecurityTypeOK, securityVars
  <2> QED BY <1>1, <2>1 DEF securityVars, SecurityIInv, LockoutInv, LockoutHasTimer, SavingInv, Counting,
             StoreInv, RamInv
<1>2. CASE SecurityNext
  BY <1>2, BootStep, SeedStep, KeyStep, SaveStep, ResetStep, TickStep, PowerStep DEF SecurityNext
<1> QED BY <1>1, <1>2

THEOREM SecurityInvariant == SecuritySpec => []SecurityIInv
  BY InitSecurityIInv, NextIInv, PTL DEF SecuritySpec

-----------------------------------------------------------------------------
(* The seed side, which does not depend on the store. *)

LEMMA InitSeedInv == SecurityInit => SeedInv
  BY DEF SecurityInit, SeedInv

LEMMA NextSeedInv == SecurityTypeOK /\ LockoutInv /\ SeedInv /\ [SecurityNext]_securityVars => SeedInv'
<1> SUFFICES ASSUME SecurityTypeOK, LockoutInv, SeedInv, [SecurityNext]_securityVars PROVE SeedInv' OBVIOUS
<1> USE DEF SeedInv
<1>1. CASE UNCHANGED securityVars
  BY <1>1 DEF securityVars
<1>2. CASE Boot
  <2>1. tries' = 0 BY <1>2 DEF Boot, BootFirst, BootLoaded, BootFault, BootWith
  <2> QED BY <2>1
<1>3. ASSUME NEW level \in TriedSubFunctions, NEW gen \in GenOutcomes, RequestSeed(level, gen)
      PROVE  SeedInv'
  <2>1. ctx'.seed_pending => ctx.seed_pending \/ SeedStatus(ctx, level, gen) = "OK"
    BY <1>3, SeedEffect DEF RequestSeed, SecurityTypeOK
  <2> QED BY <1>3, <2>1 DEF RequestSeed, Ready
<1>4. ASSUME NEW keyLevel \in TriedSubFunctions, NEW key \in Keys, SendKey(keyLevel, key)
      PROVE  SeedInv'
  <2> DEFINE r == KeySave(ctx, keyLevel, key)
  <2>0. /\ up /\ ctx' = KeyContext(ctx, keyLevel, key) /\ up' = up
        /\ tries' = IF KeyEvaluated(ctx, key) THEN tries + 1 ELSE tries
    BY <1>4 DEF SendKey, Ready
  <2>1. CASE KeyEvaluated(ctx, key)
    <3>1. ctx.seed_pending BY <2>1 DEF KeyEvaluated
    <3>2. ~ctx'.seed_pending
      BY <2>0, <2>1 DEF KeyContext, KeyFailed, SecurityTypeOK, SecContext
    <3> QED BY <2>0, <2>1, <3>1, <3>2
  <2>2. CASE ~KeyEvaluated(ctx, key)
    <3>1. ctx' = ctx
      BY <2>0, <2>2 DEF KeyContext, KeyLocks, KeyFailed, KeyAccepted
    <3> QED BY <2>0, <2>2, <3>1
  <2> QED BY <2>1, <2>2
<1>5. CASE Reset
  BY <1>5, ResetEffect DEF Reset, SecurityTypeOK
<1>6. CASE SecurityTick
  <2>1. ctx'.seed_pending = ctx.seed_pending
    BY <1>6, TickEffect DEF SecurityTick, SecurityTypeOK, LockoutInv, LockoutHasTimer
  <2> QED BY <1>6, <2>1 DEF SecurityTick
<1>7. ASSUME NEW ok \in BOOLEAN, Save(ok) PROVE SeedInv'
  BY <1>7 DEF Save
<1>8. CASE PowerLossIdle \/ PowerLossBeforeWrite \/ PowerLossAfterWrite
  BY <1>8 DEF PowerLossIdle, PowerLossBeforeWrite, PowerLossAfterWrite
<1> QED BY <1>1, <1>2, <1>3, <1>4, <1>5, <1>6, <1>7, <1>8 DEF SecurityNext

-----------------------------------------------------------------------------
(* The theorems. *)

(* The state of SecurityAccess is always well formed.                      *)
THEOREM SecurityTypeCorrect == SecuritySpec => []SecurityTypeOK
<1>1. SecurityIInv => SecurityTypeOK BY DEF SecurityIInv
<1> QED BY <1>1, SecurityInvariant, PTL

(* Lockout flag and timer agree, with any store and any faults: no context *)
(* is locked with a timer that will never run out.                         *)
THEOREM LockoutAlwaysHasTimer == SecuritySpec => []LockoutHasTimer
<1>1. SecurityIInv => LockoutHasTimer BY DEF SecurityIInv, LockoutInv
<1> QED BY <1>1, SecurityInvariant, PTL

(* While the store keeps what it is given, power loss at any point never   *)
(* lets max_attempts failed keys pass without a lockout.                   *)
THEOREM AttemptsAreBudgeted == SecuritySpec => []AttemptBudget
<1>1. SecurityIInv => AttemptBudget
  BY MaxAttemptsAssumption
     DEF SecurityIInv, SecurityTypeOK, StoreInv, AttemptBudget, NvmRecord
<1> QED BY <1>1, SecurityInvariant, PTL

(* ... and a lockout that was taken is served in full in powered time.     *)
THEOREM LockoutsAreServed == SecuritySpec => []LockoutServed
<1>1. SecurityIInv => LockoutServed
  <2> SUFFICES ASSUME SecurityIInv, store = "kept", up, owed > 0
               PROVE  ctx.locked_out /\ ctx.lockout_timer_ms >= owed
    BY DEF LockoutServed
  <2>1. saving = Idle BY DEF SecurityIInv, SecurityTypeOK, SavingInv
  <2> QED BY <2>1, LockoutAssumption
          DEF SecurityIInv, SecurityTypeOK, RamInv, LockoutInv, LockoutHasTimer, SecContext
<1> QED BY <1>1, SecurityInvariant, PTL

(* A fail-closed boot stays closed for UINT32_MAX ms of its power cycle.   *)
THEOREM FailClosedIsServed == SecuritySpec => []FailClosedServed
<1>1. SecurityIInv => FailClosedServed
  BY LockoutAssumption
     DEF SecurityIInv, SecurityTypeOK, LockoutInv, LockoutHasTimer, FailClosedServed, SecContext
<1> QED BY <1>1, SecurityInvariant, PTL

(* No seed is ever judged against twice.                                   *)
THEOREM SeedsAreSingleUse == SecuritySpec => []OneKeyPerSeed
<1>1. SecurityIInv => SecurityTypeOK /\ LockoutInv BY DEF SecurityIInv
<1>2. SeedInv => OneKeyPerSeed BY DEF SeedInv, OneKeyPerSeed
<1> QED BY <1>1, <1>2, SecurityInvariant, InitSeedInv, NextSeedInv, PTL DEF SecuritySpec

-----------------------------------------------------------------------------
(* 3. DiagServer: the invariants behind its properties. *)

SecOK ==
    /\ sec \in SecContext
    /\ secNvm \in NvmRecord \cup {NoSave}
    /\ Agrees(sec)
    /\ sec.lockout_timer_ms > 0
         => secNvm # NoSave /\ secNvm.lockout >= sec.lockout_timer_ms

ModesOK ==
    /\ commMode \in CommModes
    /\ bus \in [{"normal", "nm"} -> CommModes]
    /\ dtcSetting \in {"ON", "OFF"} /\ dtcHw \in {"ON", "OFF"}

ServerOK ==
    /\ session \in Sessions
    /\ transfer \in {"IDLE", "DOWNLOAD", "UPLOAD"}
    /\ job \in {"none", "erase", "routine", "final"}
    /\ pendingReset \in BOOLEAN
    /\ here \subseteq Begun

TimersOK == s3 \in 1..S3Ms /\ quiet \in 0..S3Ms /\ S3CountsQuiet

IInv == /\ SecOK /\ ModesOK /\ ServerOK /\ TimersOK
        /\ PrivilegeOfThisSession /\ TransferOfThisSession /\ DefaultSessionIsClean

-----------------------------------------------------------------------------
LEMMA InitIInv == Init => IInv
<1> SUFFICES ASSUME Init PROVE IInv OBVIOUS
<1> USE DEF Init
<1>1. SecOK
  <2>1. sec.locked_out = FALSE /\ sec.lockout_timer_ms = 0
    BY Zenon DEF ZeroContext
  <2> QED BY <2>1, ZeroContextType DEF SecOK, Agrees
<1>2. ModesOK BY CommAssumption DEF ModesOK
<1>3. ServerOK BY DEF ServerOK, Sessions
<1>4. TimersOK BY S3Assumption DEF TimersOK, S3CountsQuiet
<1>5. PrivilegeOfThisSession
  <2>1. sec.active_level = Unlocked /\ sec.seed_pending = FALSE
    BY Zenon DEF ZeroContext
  <2> QED BY <2>1 DEF PrivilegeOfThisSession
<1> QED BY <1>1, <1>2, <1>3, <1>4, <1>5
        DEF IInv, TransferOfThisSession, DefaultSessionIsClean

\* The step of a request that leaves SecurityAccess alone.
SecAlone == UNCHANGED <<sec, secNvm>>

LEMMA SecAloneActions ==
  ASSUME Next
  PROVE  \/ SecAlone
         \/ \E to \in Sessions : SessionControl(to)
         \/ \E level \in SubFunctions, gen \in GenOutcomes : SecurityAccessSeed(level, gen)
         \/ \E level \in SubFunctions, key \in Keys : SecurityAccessKey(level, key)
         \/ Tick
         \/ ResetNow
  BY DEF Next, ServeRequest, SecAlone, ECUReset, CommunicationControl,
         ControlDTCSetting, TransferService, Defer, OtherService, Denied, Unknown,
         WhilePending, Poll, FinalSent

LEMMA SecStep == ASSUME SecOK, Next PROVE SecOK'
<1> USE DEF SecOK
<1>1. CASE SecAlone BY <1>1 DEF SecAlone, Agrees
<1>2. ASSUME NEW to \in Sessions, SessionControl(to) PROVE SecOK'
  <2>1. secNvm' = secNvm /\ (sec' = ResetContext(sec) \/ sec' = sec)
    BY <1>2 DEF SessionControl
  <2> QED BY <2>1, ResetType, ResetEffect DEF Agrees
<1>3. ASSUME NEW level \in SubFunctions, NEW gen \in GenOutcomes,
             SecurityAccessSeed(level, gen)
      PROVE SecOK'
  <2>1. secNvm' = secNvm /\ sec' = SeedContext(sec, level, gen)
        /\ (gen = "unsupported") = (level \notin SeedLevels) /\ level \in 0..127
    BY <1>3, RequestAssumption DEF SecurityAccessSeed
  <2>2. sec' \in SecContext BY <2>1, SeedType
  <2> QED BY <2>1, <2>2, SeedEffect DEF Agrees
<1>4. ASSUME NEW level \in SubFunctions, NEW key \in Keys, SecurityAccessKey(level, key)
      PROVE SecOK'
  <2> DEFINE r == KeySave(sec, level, key)
  <2>1. sec' = KeyContext(sec, level, key) /\ level \in 0..127
        /\ secNvm' = IF r = NoSave THEN secNvm ELSE r
    BY <1>4, RequestAssumption DEF SecurityAccessKey
  <2>2. Judged(sec, key, KeyContext(sec, level, key), r, KeyStatus(sec, level, key))
    BY <2>1, KeyEffect, Zenon
  <2>3. sec' \in SecContext /\ r \in NvmRecord \cup {NoSave}
    BY <2>1, KeyType
  <2> QED BY <2>1, <2>2, <2>3 DEF Judged, Agrees, NvmRecord, SecContext
<1>5. CASE Tick
  <2>1. secNvm' = secNvm
        /\ (sec' = TickContext(sec) \/ sec' = TickContext(ResetContext(sec)))
    BY <1>5 DEF Tick, TickDefault, TickSession, S3Timeout, TickCommon
  <2>2. CASE sec' = TickContext(sec)
    <3>1. sec' \in SecContext BY <2>2, TickType
    <3>2. Agrees(sec') /\ sec'.lockout_timer_ms = Less1(sec.lockout_timer_ms)
      BY <2>2, TickAgrees, Zenon
    <3>3. sec.lockout_timer_ms \in Nat BY DEF SecContext
    <3> QED BY <2>1, <3>1, <3>2, <3>3 DEF Less1, NvmRecord
  <2>3. CASE sec' = TickContext(ResetContext(sec))
    <3> DEFINE c == ResetContext(sec)
    <3>1. c \in SecContext /\ Agrees(c) /\ c.lockout_timer_ms = sec.lockout_timer_ms
      BY ResetType, ResetEffect DEF Agrees
    <3>2. sec' \in SecContext BY <2>3, <3>1, TickType
    <3>3. Agrees(sec') /\ sec'.lockout_timer_ms = Less1(sec.lockout_timer_ms)
      BY <2>3, <3>1, TickAgrees, Zenon
    <3>4. sec.lockout_timer_ms \in Nat BY DEF SecContext
    <3> HIDE DEF c
    <3> QED BY <2>1, <3>2, <3>3, <3>4 DEF Less1, NvmRecord
  <2> QED BY <2>1, <2>2, <2>3
<1>6. CASE ResetNow
  <2>1. secNvm' = secNvm
        /\ sec' = IF secNvm = NoSave THEN ZeroContext ELSE InitLoaded(secNvm)
    BY <1>6 DEF ResetNow
  <2>2. CASE secNvm = NoSave
    <3>1. sec' = ZeroContext /\ sec'.locked_out = FALSE /\ sec'.lockout_timer_ms = 0
      BY <2>1, <2>2, Zenon DEF ZeroContext
    <3> QED BY <2>1, <3>1, ZeroContextType DEF Agrees
  <2>3. CASE secNvm # NoSave
    <3>1. sec' \in SecContext /\ sec' = InitLoaded(secNvm)
      BY <2>1, <2>3, LoadedType
    <3>2. sec'.lockout_timer_ms = secNvm.lockout
          /\ sec'.locked_out = (secNvm.lockout > 0)
      BY <3>1, Zenon DEF InitLoaded, ZeroContext
    <3>3. secNvm.lockout \in Int BY <2>3 DEF NvmRecord
    <3>4. Agrees(sec') BY <3>2, Zenon DEF Agrees
    <3> QED BY <2>1, <2>3, <3>1, <3>2, <3>3, <3>4
  <2> QED BY <2>2, <2>3
<1> QED BY <1>1, <1>2, <1>3, <1>4, <1>5, <1>6, SecAloneActions

-----------------------------------------------------------------------------
(* The variables of a request that leaves session, transfer and job alone. *)

LEMMA ModesStep == ASSUME ModesOK, Next PROVE ModesOK'
<1> USE CommAssumption DEF ModesOK
<1>1. CASE UNCHANGED <<commMode, bus, dtcSetting, dtcHw>>
  BY <1>1
<1>2. CASE RestoreDefaults BY <1>2 DEF RestoreDefaults
<1>3. ASSUME NEW mode \in CommModes, NEW types \in CommTypes, NEW ok \in BOOLEAN,
             CommunicationControl(mode, types, ok)
      PROVE ModesOK'
  BY <1>3 DEF CommunicationControl
<1>4. ASSUME NEW setting \in {"ON", "OFF"}, NEW ok \in BOOLEAN,
             ControlDTCSetting(setting, ok)
      PROVE ModesOK'
  BY <1>4 DEF ControlDTCSetting
<1>5. CASE ResetNow BY <1>5 DEF ResetNow
<1> QED BY <1>1, <1>2, <1>3, <1>4, <1>5
        DEF Next, ServeRequest, SessionControl, ECUReset, SecurityAccessSeed,
            SecurityAccessKey, TransferService, Defer, OtherService, Denied, Unknown,
            WhilePending, Poll, FinalSent, Tick, TickDefault, TickSession, S3Timeout

LEMMA ServerStep == ASSUME ServerOK, Next PROVE ServerOK'
<1> USE DEF ServerOK
<1>1. CASE ServeRequest
  <2> USE DEF Begun
  <2>1. ASSUME NEW to \in Sessions, SessionControl(to) PROVE ServerOK'
    BY <2>1 DEF SessionControl, RestoreDefaults
  <2>2. ASSUME NEW sid \in Sids, NEW next \in {"IDLE", "DOWNLOAD", "UPLOAD"},
               NEW ok \in BOOLEAN, TransferService(sid, next, ok)
        PROVE ServerOK'
    BY <2>2 DEF TransferService
  <2>3. ASSUME NEW sid \in Sids, Defer(sid) PROVE ServerOK'
    BY <2>3 DEF Defer
  <2>4. ASSUME NEW level, NEW gen, SecurityAccessSeed(level, gen) PROVE ServerOK'
    BY <2>4 DEF SecurityAccessSeed
  <2>5. ASSUME NEW level, NEW key, SecurityAccessKey(level, key) PROVE ServerOK'
    BY <2>5 DEF SecurityAccessKey
  <2>6. ASSUME NEW known \in BOOLEAN, ECUReset(known) PROVE ServerOK'
    BY <2>6 DEF ECUReset
  <2> QED BY <1>1, <2>1, <2>2, <2>3, <2>4, <2>5, <2>6
          DEF ServeRequest, CommunicationControl, ControlDTCSetting, OtherService, Sids,
              OpenSids, FlashSids
<1>2. ASSUME NEW o, Poll(o) PROVE ServerOK'
  BY <1>2 DEF Poll, Begun
<1>3. CASE Tick
  BY <1>3 DEF Tick, TickCommon, TickDefault, TickSession, S3Timeout, RestoreDefaults,
              Sessions, Begun
<1>4. CASE ResetNow BY <1>4 DEF ResetNow, Sessions
<1> QED BY <1>1, <1>2, <1>3, <1>4 DEF Next, Denied, Unknown, WhilePending, FinalSent

LEMMA TimersStep == ASSUME TimersOK, Next PROVE TimersOK'
<1> USE S3Assumption DEF TimersOK, S3CountsQuiet
<1>1. CASE UNCHANGED <<s3, quiet, session>> BY <1>1
<1>2. CASE s3' = S3Ms /\ quiet' = 0 BY <1>2
<1>3. CASE Tick
  BY <1>3 DEF Tick, TickDefault, TickSession, S3Timeout
<1>4. CASE ServeRequest
  BY <1>2, <1>4
     DEF ServeRequest, Served, Request, SessionControl, ECUReset, SecurityAccessSeed,
         SecurityAccessKey, CommunicationControl, ControlDTCSetting, TransferService,
         Defer, OtherService
<1>5. CASE Unknown \/ FinalSent BY <1>1, <1>5 DEF Unknown, FinalSent
<1>6. ASSUME NEW b \in BOOLEAN, WhilePending(b) PROVE TimersOK'
  BY <1>1, <1>2, <1>6 DEF WhilePending
<1>7. ASSUME NEW o, Poll(o) PROVE TimersOK'
  BY <1>2, <1>7 DEF Poll
<1>8. ASSUME NEW sid \in Sids, Denied(sid) PROVE TimersOK'
  BY <1>2, <1>8 DEF Denied, Request
<1>9. CASE ResetNow BY <1>2, <1>9 DEF ResetNow
<1> QED BY <1>3, <1>4, <1>5, <1>6, <1>7, <1>8, <1>9 DEF Next

-----------------------------------------------------------------------------
(* What belongs to a session. *)

LEMMA PrivilegeStep ==
  ASSUME SecOK, PrivilegeOfThisSession, Next PROVE PrivilegeOfThisSession'
<1> USE DEF PrivilegeOfThisSession
<1>0. sec \in SecContext /\ Agrees(sec) /\ sec.seed_pending \in BOOLEAN
  BY DEF SecOK, SecContext
<1>1. CASE UNCHANGED <<sec, session>> /\ here \subseteq here'
  BY <1>1
<1>2. ASSUME NEW to \in Sessions, SessionControl(to) PROVE PrivilegeOfThisSession'
  <2>1. CASE Transition(to) = "OK"
    <3>1. sec' = ResetContext(sec) BY <1>2, <2>1 DEF SessionControl
    <3> QED BY <1>0, <3>1, ResetPrivilege
  <2>2. CASE Transition(to) # "OK"
    BY <1>1, <1>2, <2>2 DEF SessionControl
  <2> QED BY <2>1, <2>2
<1>3. ASSUME NEW level \in SubFunctions, NEW gen \in GenOutcomes,
             SecurityAccessSeed(level, gen)
      PROVE PrivilegeOfThisSession'
  <2>1. session \in NonDefault
    BY <1>3 DEF SecurityAccessSeed, Served, Access, SessionsOf, OpenSids, FlashSids
  <2>2. sec' = SeedContext(sec, level, gen) /\ session' = session
        /\ here' = IF sec'.seed_pending THEN here \cup {"seed"} ELSE here
    BY <1>3 DEF SecurityAccessSeed
  <2>3. sec'.active_level = sec.active_level BY <1>0, <2>2, SeedPrivilege
  <2> QED BY <2>1, <2>2, <2>3 DEF NonDefault
<1>4. ASSUME NEW level \in SubFunctions, NEW key \in Keys, SecurityAccessKey(level, key)
      PROVE PrivilegeOfThisSession'
  <2>1. session \in NonDefault
    BY <1>4 DEF SecurityAccessKey, Served, Access, SessionsOf, OpenSids, FlashSids
  <2>2. sec' = KeyContext(sec, level, key) /\ session' = session /\ level \in 0..127
        /\ here' = IF KeyAccepted(sec, level, key) THEN here \cup {"unlock"} ELSE here
    BY <1>4, RequestAssumption DEF SecurityAccessKey
  <2>3. /\ ~KeyAccepted(sec, level, key) => sec'.active_level = sec.active_level
        /\ sec'.seed_pending = TRUE => sec.seed_pending = TRUE
    <3>1. /\ ~KeyAccepted(sec, level, key)
               => KeyContext(sec, level, key).active_level = sec.active_level
          /\ KeyContext(sec, level, key).seed_pending = TRUE => sec.seed_pending = TRUE
      BY <1>0, <2>2, KeyPrivilege
    <3> QED BY <2>2, <3>1
  <2>4. sec'.seed_pending \in BOOLEAN
    BY <1>0, <2>2, KeyType DEF SecContext
  <2>5. session # "DEFAULT" /\ here \subseteq here'
        /\ (KeyAccepted(sec, level, key) => "unlock" \in here')
    BY <2>1, <2>2 DEF NonDefault
  <2> QED BY <1>0, <2>2, <2>3, <2>4, <2>5
<1>5. CASE TickDefault \/ TickSession
  <2>1. sec' = TickContext(sec) /\ UNCHANGED <<session, here>>
    BY <1>5 DEF TickDefault, TickSession
  <2> QED BY <1>0, <2>1, TickPrivilege
<1>6. CASE S3Timeout
  <2>1. sec' = TickContext(ResetContext(sec)) BY <1>6 DEF S3Timeout
  <2>2. sec'.active_level = Unlocked /\ sec'.seed_pending = FALSE
    BY <1>0, <2>1, ResetType, ResetPrivilege, TickPrivilege
  <2> QED BY <2>2
<1>7. CASE ResetNow
  <2>1. sec' = ZeroContext \/ sec' = InitLoaded(secNvm) BY <1>7 DEF ResetNow
  <2>2. ZeroContext.active_level = Unlocked /\ ZeroContext.seed_pending = FALSE
    BY Zenon DEF ZeroContext
  <2>3. sec' = InitLoaded(secNvm)
          => sec'.active_level = Unlocked /\ sec'.seed_pending = FALSE
    BY Zenon DEF InitLoaded, ZeroContext
  <2>4. sec'.active_level = Unlocked /\ sec'.seed_pending = FALSE
    BY <2>1, <2>2, <2>3
  <2> QED BY <2>4
<1>8. CASE ServeRequest
  BY <1>1, <1>2, <1>3, <1>4, <1>8
     DEF ServeRequest, ECUReset, CommunicationControl, ControlDTCSetting,
         TransferService, Defer, OtherService
<1> QED BY <1>1, <1>5, <1>6, <1>7, <1>8
        DEF Next, Denied, Unknown, WhilePending, Poll, FinalSent, Tick

LEMMA TransferOwnerStep ==
  ASSUME ServerOK, TransferOfThisSession, Next PROVE TransferOfThisSession'
<1> USE DEF TransferOfThisSession, ServerOK
<1>1. CASE UNCHANGED <<session, transfer, job>> /\ here \subseteq here'
  BY <1>1
<1>2. ASSUME NEW to \in Sessions, SessionControl(to) PROVE TransferOfThisSession'
  BY <1>2 DEF SessionControl, Served, Request
<1>3. ASSUME NEW sid \in FlashSids, NEW next, NEW ok \in BOOLEAN,
             TransferService(sid, next, ok)
      PROVE TransferOfThisSession'
  <2>1. session = "PROGRAMMING" /\ job = "none"
    BY <1>3 DEF TransferService, Served, Request, Access, SessionsOf, OpenSids, FlashSids
  <2> QED BY <1>3, <2>1 DEF TransferService
<1>4. CASE Defer("0x34")
  <2>1. session = "PROGRAMMING" /\ job = "none"
    BY <1>4 DEF Defer, Served, Request, Access, SessionsOf, OpenSids, FlashSids
  <2> QED BY <1>4, <2>1 DEF Defer
<1>5. CASE Defer("0x31") BY <1>5 DEF Defer
<1>6. ASSUME NEW outcome, Poll(outcome) PROVE TransferOfThisSession'
  BY <1>6 DEF Poll
<1>7. CASE S3Timeout BY <1>7 DEF S3Timeout
<1>8. CASE ResetNow BY <1>8 DEF ResetNow
<1>9. CASE ServeRequest
  BY <1>1, <1>2, <1>3, <1>4, <1>5, <1>9
     DEF ServeRequest, ECUReset, SecurityAccessSeed, SecurityAccessKey,
         CommunicationControl, ControlDTCSetting, OtherService, FlashSids
<1> QED BY <1>1, <1>6, <1>7, <1>8, <1>9
        DEF Next, Denied, Unknown, WhilePending, FinalSent, Tick, TickDefault, TickSession

LEMMA CleanStep ==
  ASSUME ModesOK, DefaultSessionIsClean, Next PROVE DefaultSessionIsClean'
<1> USE DEF DefaultSessionIsClean
<1>1. CASE UNCHANGED <<session, commMode, bus, dtcSetting, dtcHw>> /\ here \subseteq here'
  BY <1>1
<1>2. CASE RestoreDefaults
  <2>1. bus \in [{"normal", "nm"} -> CommModes] BY DEF ModesOK
  <2> QED BY <1>2, <2>1 DEF RestoreDefaults
<1>3. ASSUME NEW to \in Sessions, SessionControl(to) PROVE DefaultSessionIsClean'
  BY <1>1, <1>2, <1>3 DEF SessionControl
<1>4. ASSUME NEW mode, NEW types, NEW ok, CommunicationControl(mode, types, ok)
      PROVE DefaultSessionIsClean'
  <2>1. session # "DEFAULT"
    BY <1>4 DEF CommunicationControl, Served, Access, SessionsOf, OpenSids, FlashSids,
                NonDefault
  <2> QED BY <1>4, <2>1 DEF CommunicationControl
<1>5. ASSUME NEW setting, NEW ok, ControlDTCSetting(setting, ok)
      PROVE DefaultSessionIsClean'
  <2>1. session # "DEFAULT"
    BY <1>5 DEF ControlDTCSetting, Served, Access, SessionsOf, OpenSids, FlashSids,
                NonDefault
  <2> QED BY <1>5, <2>1 DEF ControlDTCSetting
<1>6. CASE ResetNow BY <1>6 DEF ResetNow
<1>7. CASE ServeRequest
  BY <1>1, <1>3, <1>4, <1>5, <1>7
     DEF ServeRequest, ECUReset, SecurityAccessSeed, SecurityAccessKey,
         TransferService, Defer, OtherService
<1> QED BY <1>1, <1>2, <1>6, <1>7
        DEF Next, Denied, Unknown, WhilePending, Poll, FinalSent, Tick, TickDefault,
            TickSession, S3Timeout

-----------------------------------------------------------------------------
(* The theorems. *)

(* The invariant is inductive: it holds initially and every request, tick, *)
(* poll and reset of core/uds_server.c preserves it.                       *)
THEOREM InductiveInvariant == Spec => []IInv
<1>1. Init => IInv BY InitIInv
<1>2. IInv /\ [Next]_vars => IInv'
  <2>1. ASSUME IInv, Next PROVE IInv'
    BY <2>1, SecStep, ModesStep, ServerStep, TimersStep, PrivilegeStep,
       TransferOwnerStep, CleanStep, Zenon DEF IInv
  <2>2. ASSUME IInv, UNCHANGED vars PROVE IInv'
    BY <2>2 DEF IInv, SecOK, ModesOK, ServerOK, TimersOK, PrivilegeOfThisSession,
                TransferOfThisSession, DefaultSessionIsClean, S3CountsQuiet, vars, Agrees
  <2> QED BY <2>1, <2>2
<1> QED BY <1>1, <1>2, PTL DEF Spec

(* Every variable of the server keeps its type.                            *)
THEOREM TypeCorrect == Spec => []TypeOK
<1>1. IInv => TypeOK
  BY DEF IInv, SecOK, ModesOK, ServerOK, TimersOK, TypeOK
<1> QED BY <1>1, InductiveInvariant, PTL

(* No unlocked level and no pending seed outlives the diagnostic session   *)
(* it was obtained in (core/uds_server.c:259-317, service_0x10.c).         *)
THEOREM PrivilegesEndWithTheirSession == Spec => []PrivilegeOfThisSession
<1> QED BY InductiveInvariant, PTL DEF IInv

(* No transfer and no flash erase outlives the programming session.        *)
THEOREM TransfersEndWithTheirSession == Spec => []TransferOfThisSession
<1> QED BY InductiveInvariant, PTL DEF IInv

(* The default session always has communication and DTC recording back.    *)
THEOREM DefaultSessionIsAlwaysClean == Spec => []DefaultSessionIsClean
<1> QED BY InductiveInvariant, PTL DEF IInv

(* The S3 timer measures the tester's silence exactly.                     *)
THEOREM S3MeasuresSilence == Spec => []S3CountsQuiet
<1>1. IInv => S3CountsQuiet BY DEF IInv, TimersOK
<1> QED BY <1>1, InductiveInvariant, PTL

(* What the lockout timer does in one step.                                *)
LEMMA LockoutStep ==
  ASSUME SecOK, Next, sec.locked_out
  PROVE  \/ sec'.lockout_timer_ms >= sec.lockout_timer_ms
         \/ status' = "none" /\ sec'.lockout_timer_ms = sec.lockout_timer_ms - 1
<1> USE DEF SecOK
<1>0. sec.lockout_timer_ms \in Nat /\ sec.lockout_timer_ms > 0
  BY DEF SecContext, Agrees
<1>1. CASE SecAlone BY <1>0, <1>1 DEF SecAlone
<1>2. ASSUME NEW to \in Sessions, SessionControl(to)
      PROVE  sec'.lockout_timer_ms = sec.lockout_timer_ms
  BY <1>2, ResetEffect DEF SessionControl
<1>3. ASSUME NEW level \in SubFunctions, NEW gen \in GenOutcomes,
             SecurityAccessSeed(level, gen)
      PROVE  sec'.lockout_timer_ms = sec.lockout_timer_ms
  BY <1>3, SeedEffect DEF SecurityAccessSeed
<1>4. ASSUME NEW level \in SubFunctions, NEW key \in Keys, SecurityAccessKey(level, key)
      PROVE  sec' = sec
  BY <1>4 DEF SecurityAccessKey, KeyContext, KeyAccepted, KeyLocks, KeyFailed, KeyEvaluated
<1>5. CASE Tick
  <2>1. status' = "none"
        /\ (sec' = TickContext(sec) \/ sec' = TickContext(ResetContext(sec)))
    BY <1>5 DEF Tick, TickDefault, TickSession, S3Timeout, TickCommon
  <2> DEFINE c == ResetContext(sec)
  <2>2. c \in SecContext /\ Agrees(c) /\ c.lockout_timer_ms = sec.lockout_timer_ms
    BY ResetType, ResetEffect DEF Agrees
  <2>3. TickContext(sec).lockout_timer_ms = Less1(sec.lockout_timer_ms)
    BY TickAgrees, Zenon
  <2>4. TickContext(c).lockout_timer_ms = Less1(sec.lockout_timer_ms)
    BY <2>2, TickAgrees, Zenon
  <2> QED BY <1>0, <2>1, <2>3, <2>4 DEF Less1
<1>6. CASE ResetNow
  <2>1. sec' = InitLoaded(secNvm) /\ secNvm \in NvmRecord
        /\ secNvm.lockout >= sec.lockout_timer_ms
    BY <1>0, <1>6 DEF ResetNow
  <2>2. sec'.lockout_timer_ms = secNvm.lockout
    BY <2>1, Zenon DEF InitLoaded, ZeroContext
  <2> QED BY <2>1, <2>2
<1> QED BY <1>0, <1>1, <1>2, <1>3, <1>4, <1>5, <1>6, SecAloneActions

(* No request, session change, S3 timeout or ECU reset shortens a lockout. *)
THEOREM LockoutsEndOnlyByTime == Spec => LockoutOnlyByTime
<1>1. IInv /\ [Next]_vars =>
        [sec.locked_out =>
            \/ sec'.lockout_timer_ms >= sec.lockout_timer_ms
            \/ /\ status' = "none"
               /\ sec'.lockout_timer_ms = sec.lockout_timer_ms - 1]_vars
  BY LockoutStep DEF IInv
<1> QED BY <1>1, InductiveInvariant, PTL DEF Spec, LockoutOnlyByTime

(* A request answered with anything but OK changed no mode of the ECU.     *)
THEOREM RefusalsChangeNothing == Spec => RefusalChangesNothing
<1> DEFINE Kept == UNCHANGED <<session, commMode, bus, dtcSetting, dtcHw, pendingReset,
                               sec.active_level>>
           Refused == status' \notin {"OK", "none"}
<1>1. ASSUME IInv, Next, Refused PROVE Kept
  <2>0. sec \in SecContext /\ Agrees(sec) BY <1>1 DEF IInv, SecOK
  <2>1. ASSUME NEW level \in SubFunctions, NEW gen \in GenOutcomes,
               SecurityAccessSeed(level, gen)
        PROVE  Kept
    <3>1. sec' = SeedContext(sec, level, gen) BY <2>1 DEF SecurityAccessSeed
    <3>2. sec'.active_level = sec.active_level BY <2>0, <3>1, SeedPrivilege
    <3> QED BY <2>1, <3>2 DEF SecurityAccessSeed
  <2>2. ASSUME NEW level \in SubFunctions, NEW key \in Keys, SecurityAccessKey(level, key)
        PROVE  Kept
    <3>1. sec' = KeyContext(sec, level, key) /\ status' = KeyStatus(sec, level, key)
          /\ level \in 0..127
      BY <2>2, RequestAssumption DEF SecurityAccessKey
    <3>2. ~KeyAccepted(sec, level, key)
      BY <1>1, <3>1 DEF KeyStatus, KeyAccepted, KeyEvaluated
    <3>3. KeyContext(sec, level, key).active_level = sec.active_level
      BY <2>0, <3>1, <3>2, KeyPrivilege
    <3> QED BY <2>2, <3>1, <3>3 DEF SecurityAccessKey
  <2>3. ASSUME NEW to \in Sessions, SessionControl(to) PROVE Kept
    BY <1>1, <2>3 DEF SessionControl
  <2>a. ASSUME NEW known \in BOOLEAN, ECUReset(known) PROVE Kept
    <3>1. known = FALSE BY <1>1, <2>a DEF ECUReset
    <3>2. pendingReset = FALSE
      BY <1>1, <2>a DEF ECUReset, Served, Request, IInv, ServerOK
    <3> QED BY <2>a, <3>1, <3>2 DEF ECUReset
  <2>b. ASSUME NEW mode, NEW types, NEW ok \in BOOLEAN,
               CommunicationControl(mode, types, ok)
        PROVE  Kept
    BY <1>1, <2>b DEF CommunicationControl
  <2>c. ASSUME NEW setting, NEW ok \in BOOLEAN, ControlDTCSetting(setting, ok) PROVE Kept
    BY <1>1, <2>c DEF ControlDTCSetting
  <2>d. ASSUME NEW sid, NEW next, NEW ok, TransferService(sid, next, ok) PROVE Kept
    BY <2>d DEF TransferService
  <2> HIDE DEF Kept, Refused
  <2>4. CASE ServeRequest
    <3>1. ASSUME NEW sid, Defer(sid) PROVE Kept BY <3>1 DEF Defer, Kept
    <3>2. ASSUME NEW sid, NEW ok, OtherService(sid, ok) PROVE Kept
      BY <3>2 DEF OtherService, Kept
    <3> QED BY <2>1, <2>2, <2>3, <2>4, <2>a, <2>b, <2>c, <2>d, <3>1, <3>2
            DEF ServeRequest
  <2> USE DEF Kept, Refused
  <2> QED BY <1>1, <2>4
          DEF Next, Denied, Unknown, WhilePending, Poll, FinalSent, Tick, TickCommon,
              TickDefault, TickSession, S3Timeout, ResetNow
<1>2. IInv /\ [Next]_vars => [Refused => Kept]_vars
  BY <1>1
<1> QED BY <1>2, InductiveInvariant, PTL DEF Spec, RefusalChangesNothing

=============================================================================
