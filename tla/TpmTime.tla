------------------------------ MODULE TpmTime ------------------------------
(***************************************************************************)
(* Time, clock and dictionary-attack protection of the TPM reference code: *)
(* subsystem/Time.c and subsystem/DA.c, the commands that change them, and *)
(* what becomes of them when power is lost.                                *)
(*                                                                         *)
(* The TPM's data is a record.  gp is the persistent data, go the orderly  *)
(* data and nvGo its copy in NV; nvEnabled is the NV copy of               *)
(* lockOutAuthEnabled, the only field of gp that may differ from NV, where *)
(* NV is always available (as it is on the platform of Samples/Google).    *)
(* Times are counted in units of one second; the timers are kept           *)
(* unreduced, since only their difference modulo 2^64 is ever used.        *)
(***************************************************************************)
EXTENDS Integers

CONSTANTS MaxTriesValues, RecoveryValues, LockoutRecoveryValues,
                              \* parameters an owner may set
          DefaultMaxTries, DefaultRecovery, DefaultLockoutRecovery,
          CLOCK_UPDATE,       \* 2^NV_CLOCK_UPDATE_INTERVAL, in time units
          U64, U32,           \* 2^64 and 2^32
          Steps,              \* time that may pass between two commands
          MaxClock,           \* bound on go.clock
          MaxTime,            \* bound on g_time, the time since power came
          MaxElapsed,         \* bound on the time since a timer was set
          PowerLossAfterUse,  \* may power go after Shutdown and further commands
          LockoutPolicy       \* lockoutPolicy authorizes what lockoutAuth does

ASSUME ConstantsAssumption ==
    /\ MaxTriesValues \subseteq Nat /\ RecoveryValues \subseteq Nat
    /\ LockoutRecoveryValues \subseteq Nat /\ DefaultMaxTries \in Nat
    /\ DefaultRecovery \in Nat /\ DefaultLockoutRecovery \in Nat
    /\ CLOCK_UPDATE \in Nat \ {0} /\ U64 \in Nat /\ U32 \in Nat
    /\ Steps \subseteq Nat /\ MaxClock \in Nat /\ MaxTime \in Nat
    /\ MaxElapsed \in Nat /\ MaxElapsed < U32 /\ U32 < U64
    /\ PowerLossAfterUse \in BOOLEAN /\ LockoutPolicy \in BOOLEAN

VARIABLES tpm,        \* the TPM's data
          used,       \* commands were executed since the last Shutdown
          debt,       \* history: time until the failures so far are forgiven
          rest,       \* history: time until lockoutAuth may be tried again
          reported    \* history: the largest clock value given out

vars == <<tpm, used, debt, rest, reported>>

Less(x, d) == IF x > d THEN x - d ELSE 0
Larger(x, y) == IF x > y THEN x ELSE y
Orderly(p) == p.orderly # "NONE"

-----------------------------------------------------------------------------
\* DAPreInstall_Init
DAPreInstall(p) ==
    [p EXCEPT !.failedTries = 0, !.maxTries = DefaultMaxTries,
              !.recoveryTime = DefaultRecovery, !.lockoutRecovery = DefaultLockoutRecovery,
              !.enabled = TRUE]

\* The NV copy of the clock is one per interval.
Block(t) == t \div CLOCK_UPDATE

\* Mutant of TimeClockUpdate: the clock is trusted before NV has caught up.
TimeClockUpdateTooSafe(s, t) ==
    LET go2 == [s.go EXCEPT !.clock = t, !.clockSafe = TRUE]
    IN  IF Block(t) > Block(s.go.clock) THEN [s EXCEPT !.go = go2, !.nvGo = go2]
                                        ELSE [s EXCEPT !.go = go2]

TimeClockUpdate(s, t) ==
    LET go2 == [s.go EXCEPT !.clock = t, !.clockSafe = TRUE]
    IN  IF Block(t) > Block(s.go.clock) THEN [s EXCEPT !.go = go2, !.nvGo = go2]
                                        ELSE [s EXCEPT !.go.clock = t]

\* The number of recovery times that have passed, as the UINT32 it is cast to.
DecreaseCount(s) ==
    ((s.gTime - s.go.selfHealTimer) % U64) \div s.gp.recoveryTime

\* Mutant of HealTries: a recovery that has begun counts as a whole one.
HealTriesRoundsUp(s) ==
    IF s.gp.failedTries = 0 \/ s.gp.recoveryTime = 0 THEN [s EXCEPT !.gp.failedTries = 0]
    ELSE [s EXCEPT !.gp.failedTries = Less(@, DecreaseCount(s) + 1),
                   !.go.selfHealTimer = @ + DecreaseCount(s) * s.gp.recoveryTime]

\* DASelfHeal, the part about failedTries.
HealTries(s) ==
    LET count == DecreaseCount(s)
    IN  CASE s.gp.failedTries = 0 -> s
          [] s.gp.failedTries # 0 /\ s.gp.recoveryTime = 0 -> [s EXCEPT !.gp.failedTries = 0]
          [] OTHER -> [s EXCEPT !.gp.failedTries = Less(@, count % U32),
                                !.go.selfHealTimer = @ + count * s.gp.recoveryTime]

\* Mutant of HealLockout: one unit of time too early.
HealLockoutEarly(s) ==
    IF /\ ~s.gp.enabled /\ s.gp.lockoutRecovery # 0
       /\ (s.gTime - s.go.lockoutTimer) % U64 >= s.gp.lockoutRecovery - 1
    THEN [s EXCEPT !.gp.enabled = TRUE, !.nvEnabled = TRUE] ELSE s

\* DASelfHeal, the part about lockoutAuth.
HealLockout(s) ==
    IF /\ ~s.gp.enabled /\ s.gp.lockoutRecovery # 0
       /\ (s.gTime - s.go.lockoutTimer) % U64 >= s.gp.lockoutRecovery
    THEN [s EXCEPT !.gp.enabled = TRUE, !.nvEnabled = TRUE] ELSE s

DASelfHeal(s) == HealLockout(HealTries(s))

\* TimeNewEpoch, when the platform says that the timer was stopped.
NewEpoch(s) ==
    IF s.timerReset THEN [s EXCEPT !.gp.timeEpoch = @ + 1, !.timerReset = FALSE] ELSE s

\* TimeUpdate, d after the last one.
TimeUpdate(s, d) ==
    LET s1 == [NewEpoch(s) EXCEPT !.gTime = @ + d]
    IN  DASelfHeal(TimeClockUpdate(s1, s1.go.clock + d))

\* DAStartup, the timers.
DATimers(s) ==
    IF ~s.timerReset THEN s
    ELSE IF Orderly(s.gp)
         THEN [s EXCEPT !.timerReset = FALSE, !.go.selfHealTimer = @ - s.go.time,
                        !.go.lockoutTimer = @ - s.go.time]
         ELSE [s EXCEPT !.timerReset = FALSE, !.go.selfHealTimer = 0,
                        !.go.lockoutTimer = 0]

\* DAStartup, the counters.
DACounters(s) ==
    LET s1 == IF s.gp.lockoutRecovery = 0
              THEN [s EXCEPT !.gp.enabled = TRUE, !.nvEnabled = TRUE] ELSE s
    IN  IF /\ s1.gp.recoveryTime # 0 /\ s1.gp.failedTries < s1.gp.maxTries
           /\ ~Orderly(s1.gp)
        THEN [s1 EXCEPT !.gp.failedTries = @ + 1] ELSE s1

\* TimeStartup
TimeStartup(s) == IF Orderly(s.gp) THEN s ELSE [s EXCEPT !.go.clockSafe = FALSE]

-----------------------------------------------------------------------------
\* TPM_Manufacture and _TPM_Init.
Init ==
    /\ LET go0 == [clock |-> 0, clockSafe |-> TRUE, selfHealTimer |-> 0,
                   lockoutTimer |-> 0, time |-> 0]
       IN  tpm = [gp |-> [failedTries |-> 0, maxTries |-> DefaultMaxTries,
                          recoveryTime |-> DefaultRecovery,
                          lockoutRecovery |-> DefaultLockoutRecovery, enabled |-> TRUE,
                          orderly |-> "CLEAR", timeEpoch |-> 0],
                  go |-> go0, nvGo |-> go0, nvEnabled |-> TRUE,
                  gTime |-> 0, timerReset |-> TRUE, started |-> FALSE]
    /\ used = FALSE /\ debt = 0 /\ rest = 0 /\ reported = 0

\* The bounds on the time that may pass.
Passes(d) ==
    /\ tpm.go.clock + d <= MaxClock
    /\ tpm.gTime + d <= MaxTime
    /\ tpm.gTime + d - tpm.go.selfHealTimer <= MaxElapsed
    /\ tpm.gTime + d - tpm.go.lockoutTimer <= MaxElapsed

\* ExecuteCommand: TimeUpdateToCurrent comes before the command.
Now(d) == TimeUpdate(tpm, d)
Command(d) == tpm.started /\ Passes(d) /\ used' = TRUE
Aged(d) == debt' = Less(debt, d) /\ rest' = Less(rest, d)

\* A command whose authorization uses the authValue of a DA-protected entity
\* (CheckLockedOut); the value is right, or IncrementLockout is called.
Authorize(d) ==
    /\ Command(d)
    /\ Now(d).gp.failedTries < Now(d).gp.maxTries
    /\ \/ tpm' = Now(d) /\ Aged(d)
       \/ /\ tpm' = [Now(d) EXCEPT !.gp.failedTries =
                                      IF Now(d).gp.recoveryTime = 0 THEN @ ELSE @ + 1,
                                   !.go.selfHealTimer = Now(d).gTime]
          /\ debt' = Less(debt, d) + Now(d).gp.recoveryTime
          /\ rest' = Less(rest, d)
    /\ UNCHANGED reported

\* The same with lockoutAuth.  NV is not updated when a restart is the cure.
AuthorizeLockout(d) ==
    /\ Command(d)
    /\ Now(d).gp.enabled
    /\ \/ tpm' = Now(d) /\ Aged(d)
       \/ /\ tpm' = [Now(d) EXCEPT !.gp.enabled = FALSE,
                                   !.nvEnabled = @ /\ Now(d).gp.lockoutRecovery = 0,
                                   !.go.lockoutTimer = Now(d).gTime]
          /\ debt' = Less(debt, d)
          /\ rest' = Now(d).gp.lockoutRecovery
    /\ UNCHANGED reported

\* TPM2_DictionaryAttackLockReset, authorized by lockoutAuth or lockoutPolicy.
DictionaryAttackLockReset(d) ==
    /\ Command(d) /\ (Now(d).gp.enabled \/ LockoutPolicy)
    /\ tpm' = [Now(d) EXCEPT !.gp.failedTries = 0]
    /\ debt' = 0 /\ rest' = Less(rest, d)
    /\ UNCHANGED reported

\* TPM2_DictionaryAttackParameters.  What is still to be waited for is counted
\* anew under the new parameters.
DictionaryAttackParameters(d, maxTries, recoveryTime, lockoutRecovery) ==
    /\ Command(d) /\ (Now(d).gp.enabled \/ LockoutPolicy)
    /\ tpm' = [Now(d) EXCEPT !.gp.maxTries = maxTries, !.gp.recoveryTime = recoveryTime,
                             !.gp.lockoutRecovery = lockoutRecovery]
    /\ debt' = Less(Now(d).gp.failedTries * recoveryTime,
                    Now(d).gTime - Now(d).go.selfHealTimer)
    /\ rest' = IF Now(d).gp.enabled THEN 0
               ELSE Less(lockoutRecovery, Now(d).gTime - Now(d).go.lockoutTimer)
    /\ UNCHANGED reported

\* TPM2_Clear, as far as it concerns time and dictionary attacks.
Clear(d) ==
    /\ Command(d)
    /\ LET s == Now(d)
           go2 == [s.go EXCEPT !.clock = 0, !.clockSafe = TRUE]
       IN  tpm' = [s EXCEPT !.gp = [DAPreInstall(s.gp) EXCEPT !.orderly = "NONE"],
                            !.nvEnabled = TRUE, !.go = go2, !.nvGo = go2]
    /\ debt' = 0 /\ rest' = 0 /\ reported' = 0

\* TPM2_ClockSet
ClockSet(d, newTime) ==
    /\ Command(d)
    /\ newTime >= Now(d).go.clock
    /\ tpm' = TimeClockUpdate(Now(d), newTime)
    /\ Aged(d) /\ UNCHANGED reported

\* TPM2_ReadClock, or any command that puts the clock into its answer.
ReadClock(d) ==
    /\ Command(d)
    /\ tpm' = Now(d)
    /\ Aged(d)
    /\ reported' = Larger(reported, Now(d).go.clock)

\* Any other command that sets g_clearOrderly.
ChangeState(d) ==
    /\ Command(d)
    /\ tpm' = [Now(d) EXCEPT !.gp.orderly = "NONE"]
    /\ Aged(d) /\ UNCHANGED reported

\* TPM2_Shutdown: time and orderly data are saved.
Shutdown(d, type) ==
    /\ tpm.started /\ Passes(d) /\ used' = FALSE
    /\ LET s == Now(d)
           go2 == [s.go EXCEPT !.time = s.gTime]
       IN  tpm' = [s EXCEPT !.gp.orderly = type, !.go = go2, !.nvGo = go2]
    /\ Aged(d) /\ UNCHANGED reported

\* Power goes and comes back: _plat__Reset and _TPM_Init.
PowerLoss ==
    /\ tpm.started
    /\ PowerLossAfterUse \/ ~Orderly(tpm.gp) \/ ~used
    /\ tpm' = [tpm EXCEPT !.started = FALSE, !.gTime = 0, !.timerReset = TRUE,
                          !.go = tpm.nvGo, !.gp.enabled = tpm.nvEnabled]
    /\ UNCHANGED <<used, debt, rest, reported>>

\* TPM2_Startup, as far as it concerns time and dictionary attacks.
Startup(d) ==
    /\ ~tpm.started
    /\ LET s == DACounters(DATimers(TimeStartup(tpm)))
       IN  /\ s.go.clock + d <= MaxClock /\ d <= MaxTime
           /\ d - s.go.selfHealTimer <= MaxElapsed
           /\ d - s.go.lockoutTimer <= MaxElapsed
           /\ tpm' = [TimeUpdate(s, d) EXCEPT !.gp.orderly = "NONE", !.started = TRUE]
    /\ Aged(d)
    /\ UNCHANGED <<used, reported>>

Next ==
    \/ \E d \in Steps :
         \/ Authorize(d) \/ AuthorizeLockout(d) \/ DictionaryAttackLockReset(d)
         \/ Clear(d) \/ ReadClock(d) \/ ChangeState(d) \/ Startup(d)
    \/ \E d \in Steps, mt \in MaxTriesValues, rt \in RecoveryValues,
          lr \in LockoutRecoveryValues : DictionaryAttackParameters(d, mt, rt, lr)
    \/ \E d \in Steps, t \in 0 .. MaxClock : ClockSet(d, t)
    \/ \E d \in Steps, type \in {"CLEAR", "STATE"} : Shutdown(d, type)
    \/ PowerLoss

Spec == Init /\ [][Next]_vars

-----------------------------------------------------------------------------
OrderlyData == [clock : 0 .. MaxClock, clockSafe : BOOLEAN, selfHealTimer : Int,
                lockoutTimer : Int, time : Nat]

PersistentData ==
    [failedTries : Nat, maxTries : Nat, recoveryTime : Nat, lockoutRecovery : Nat,
     enabled : BOOLEAN, orderly : {"NONE", "CLEAR", "STATE"}, timeEpoch : Nat]

TpmData ==
    [gp : PersistentData, go : OrderlyData, nvGo : OrderlyData, nvEnabled : BOOLEAN,
     gTime : Nat, timerReset : BOOLEAN, started : BOOLEAN]

\* Types of the TPM's time and dictionary-attack data.
TypeOK ==
    /\ tpm \in TpmData
    /\ used \in BOOLEAN /\ debt \in Nat /\ rest \in Nat /\ reported \in 0 .. MaxClock

\* Time that has passed of the current recovery, where the timers go on: as long as
\* the TPM runs, and across an orderly shutdown.
Carried(t) == IF tpm.started THEN tpm.gTime - t
              ELSE IF Orderly(tpm.gp) THEN tpm.go.time - t ELSE 0

\* What is kept about the failures, the clock and their copies in NV, which makes
\* the three properties below inductive (DA.c, Time.c).
TimeInv ==
    /\ tpm.timerReset = ~tpm.started
    /\ Carried(tpm.go.selfHealTimer) \in 0 .. MaxElapsed
    /\ Carried(tpm.go.lockoutTimer) \in 0 .. MaxElapsed
    /\ tpm.gp.recoveryTime # 0 =>
         debt = 0 \/ debt + Carried(tpm.go.selfHealTimer)
                       <= tpm.gp.failedTries * tpm.gp.recoveryTime
    /\ tpm.gp.lockoutRecovery # 0 =>
         IF tpm.gp.enabled THEN rest = 0
         ELSE rest = 0 \/ rest + Carried(tpm.go.lockoutTimer) <= tpm.gp.lockoutRecovery
    /\ tpm.gp.enabled => tpm.nvEnabled
    /\ ~tpm.gp.enabled /\ tpm.gp.lockoutRecovery # 0 => ~tpm.nvEnabled
    /\ Block(tpm.nvGo.clock) = Block(tpm.go.clock)
    /\ Block(reported) <= Block(tpm.go.clock)
    /\ (tpm.started \/ Orderly(tpm.gp)) /\ tpm.go.clockSafe => reported <= tpm.go.clock
    /\ ~tpm.started => tpm.go = tpm.nvGo /\ tpm.gTime = 0
    /\ tpm.started /\ Orderly(tpm.gp) /\ ~used =>
         tpm.nvGo = tpm.go /\ tpm.go.time = tpm.gTime

\* failedTries forgives no faster than one failure for each recoveryTime the TPM has
\* been powered, also when power is lost, with or without a Shutdown, between a
\* failure and the next (DASelfHeal, DARegisterFailure, DAStartup).
HealNotTooFast ==
    tpm.gp.recoveryTime # 0 => debt <= tpm.gp.failedTries * tpm.gp.recoveryTime

\* After a failure lockoutAuth is not enabled before the TPM was powered for
\* lockoutRecovery in all (IncrementLockout, DASelfHeal, DAStartup).  The time need not
\* be without a break, although the comment of DAStartup says "continuously powered":
\* ACCUMULATE_SELF_HEAL_TIMER carries what was served over an orderly restart, and only a
\* loss of power without Shutdown makes the TPM begin again.
LockoutRecoveryServed ==
    tpm.started /\ tpm.gp.enabled /\ tpm.gp.lockoutRecovery # 0 => rest = 0

\* A clock that is marked safe is not behind any value reported before; one that is
\* not is behind by less than the interval of the NV updates (TimeClockUpdate,
\* TimeStartup).
ClockSafe ==
    tpm.started =>
        /\ tpm.go.clockSafe => tpm.go.clock >= reported
        /\ Block(tpm.go.clock) >= Block(reported)

=============================================================================
