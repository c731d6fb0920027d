--------------------------- MODULE TpmTimeProofs ---------------------------
(***************************************************************************)
(* Proofs about TpmTime, for all parameters of the dictionary-attack       *)
(* protection and all bounds on time.  Three properties are proved of a    *)
(* platform that removes power after a Shutdown only while no command has  *)
(* followed it (~PowerLossAfterUse) and of a TPM without a lockoutPolicy;  *)
(* the runs with the other values show that these assumptions are needed.  *)
(***************************************************************************)
EXTENDS TpmTime, TLAPS

-----------------------------------------------------------------------------
\* Division: what the quotient leaves is less than the divisor.
LEMMA Quotient ==
    ASSUME NEW e \in Nat, NEW r \in Nat \ {0}
    PROVE  (e \div r) \in Nat /\ (e \div r) * r <= e
OBVIOUS

\* A difference that fits is not changed by the reduction modulo 2^64.
LEMMA Fits ==
    ASSUME NEW e \in Nat, e < U64
    PROVE  e % U64 = e
BY ConstantsAssumption

\* Blocks of the clock are ordered as the clock is.
LEMMA BlockMonotone ==
    ASSUME NEW x \in Nat, NEW y \in Nat, x <= y
    PROVE  Block(x) \in Nat /\ Block(y) \in Nat /\ Block(x) <= Block(y)
BY ConstantsAssumption DEF Block

\* What all steps of TimeUpdate leave alone.
SameParameters(s, t) ==
    /\ t.gp.maxTries = s.gp.maxTries /\ t.gp.recoveryTime = s.gp.recoveryTime
    /\ t.gp.lockoutRecovery = s.gp.lockoutRecovery /\ t.gp.orderly = s.gp.orderly
    /\ t.started = s.started /\ t.timerReset = s.timerReset

\* A debt of x is covered by the failures that are counted.
Covered(x, e, n) == x = 0 \/ x + e <= n

\* The arithmetic of a recovery: c recovery times of length r are over, and c
\* failures are forgiven.
LEMMA HealArithmetic ==
    ASSUME NEW f \in Nat, NEW r \in Nat \ {0}, NEW c \in Nat, NEW e \in Nat,
           c * r <= e, NEW x \in Nat, Covered(x, e, f * r)
    PROVE  Covered(x, e - c * r, Less(f, c) * r)
<1>1. CASE x = 0
  BY <1>1 DEF Covered
<1>2. CASE x # 0
  <2>1. x + e <= f * r
    BY <1>2 DEF Covered
  <2>2. CASE f > c
    <3>1. (f - c) * r = f * r - c * r
      OBVIOUS
    <3> DEFINE A == f * r
               B == c * r
               D == (f - c) * r
    <3>2. A \in Int /\ B \in Int /\ D \in Int
      BY <2>2
    <3>3. Less(f, c) * r = D
      BY <2>2 DEF Less
    <3> HIDE DEF A, B, D
    <3>4. D = A - B /\ x + e <= A
      BY <3>1, <2>1 DEF A, B, D
    <3>5. x + (e - B) <= D
      BY <3>2, <3>4
    <3> QED BY <3>5, <3>3 DEF Covered, B
  <2>3. CASE ~(f > c)
    <3>1. f * r <= c * r
      BY <2>3
    <3> DEFINE A == f * r
               B == c * r
    <3>2. A \in Int /\ B \in Int
      OBVIOUS
    <3> HIDE DEF A, B
    <3>3. A <= B /\ B <= e /\ x + e <= A
      BY <3>1, <2>1 DEF A, B
    <3> QED BY <3>2, <3>3, <1>2
  <2> QED BY <2>2, <2>3
<1> QED BY <1>1, <1>2

\* DASelfHeal forgives what the time that has passed pays for.
LEMMA HealTriesStep ==
    ASSUME NEW s \in TpmData, s.gTime - s.go.selfHealTimer \in 0 .. MaxElapsed
    PROVE  LET h == HealTries(s) IN
           /\ h \in TpmData
           /\ SameParameters(s, h)
           /\ h.nvGo = s.nvGo /\ h.gTime = s.gTime /\ h.nvEnabled = s.nvEnabled
           /\ h.gp.enabled = s.gp.enabled /\ h.go.clock = s.go.clock
           /\ h.go.clockSafe = s.go.clockSafe /\ h.go.time = s.go.time
           /\ h.go.lockoutTimer = s.go.lockoutTimer
           /\ h.gTime - h.go.selfHealTimer \in 0 .. MaxElapsed
           /\ s.gp.recoveryTime # 0 =>
                \A x \in Nat :
                   Covered(x, s.gTime - s.go.selfHealTimer,
                           s.gp.failedTries * s.gp.recoveryTime)
                   => Covered(x, h.gTime - h.go.selfHealTimer,
                              h.gp.failedTries * h.gp.recoveryTime)
<1> DEFINE h == HealTries(s)
           r == s.gp.recoveryTime
           f == s.gp.failedTries
           e == s.gTime - s.go.selfHealTimer
           c == e \div r
<1>0. /\ f \in Nat /\ r \in Nat /\ e \in Nat /\ e <= MaxElapsed /\ e < U32 /\ e < U64
      /\ s.gp \in PersistentData /\ s.go \in OrderlyData
  BY ConstantsAssumption DEF TpmData, PersistentData, OrderlyData
<1>1. CASE f = 0
  <2>1. h = s
    BY <1>1 DEF HealTries
  <2> QED BY <2>1 DEF SameParameters
<1>2. CASE f # 0 /\ r = 0
  <2>1. h = [s EXCEPT !.gp.failedTries = 0]
    BY <1>2 DEF HealTries
  <2> QED BY <2>1, <1>2, <1>0 DEF SameParameters, TpmData, PersistentData
<1>3. CASE f # 0 /\ r # 0
  <2>1. c \in Nat /\ c * r <= e
    BY <1>3, <1>0, Quotient
  <2>2. c <= e
    <3>1. c <= c * r
      BY <2>1, <1>3, <1>0
    <3> HIDE DEF c, e
    <3> DEFINE B == c * r
    <3>2. B \in Int
      BY <2>1, <1>0
    <3> HIDE DEF B
    <3> QED BY <3>1, <3>2, <2>1, <1>0 DEF B
  <2>3. DecreaseCount(s) = c /\ c % U32 = c
    <3>1. e % U64 = e
      BY <1>0, Fits
    <3>2. DecreaseCount(s) = c
      BY <3>1 DEF DecreaseCount
    <3> HIDE DEF c
    <3>3. c % U32 = c
      BY <2>1, <2>2, <1>0, ConstantsAssumption
    <3> QED BY <3>2, <3>3
  <2>4. h = [s EXCEPT !.gp.failedTries = Less(f, c),
                      !.go.selfHealTimer = s.go.selfHealTimer + c * r]
    BY ZenonT(40), <1>3, <2>3 DEF HealTries
  <2>5. Less(f, c) \in Nat
    BY <1>0, <2>1 DEF Less
  <2>6. \A x \in Nat : Covered(x, e, f * r) => Covered(x, e - c * r, Less(f, c) * r)
    BY ZenonT(40), <1>0, <1>3, <2>1, HealArithmetic
  <2> HIDE DEF c
  <2> DEFINE B == c * r
  <2>7. B \in Nat /\ B <= e
    BY <2>1, <1>0
  <2>8. h = [s EXCEPT !.gp.failedTries = Less(f, c),
                      !.go.selfHealTimer = s.go.selfHealTimer + B]
    BY <2>4
  <2>9. \A x \in Nat : Covered(x, e, f * r) => Covered(x, e - B, Less(f, c) * r)
    BY <2>6
  <2> HIDE DEF B, h
  <2>10. /\ h.gp = [s.gp EXCEPT !.failedTries = Less(f, c)]
         /\ h.go = [s.go EXCEPT !.selfHealTimer = s.go.selfHealTimer + B]
         /\ h.nvGo = s.nvGo /\ h.gTime = s.gTime /\ h.nvEnabled = s.nvEnabled
         /\ h.started = s.started /\ h.timerReset = s.timerReset
    BY <2>8 DEF TpmData
  <2>11. h \in TpmData
    <3>1. [s.gp EXCEPT !.failedTries = Less(f, c)] \in PersistentData
      BY <2>5, <1>0 DEF PersistentData
    <3>2. [s.go EXCEPT !.selfHealTimer = s.go.selfHealTimer + B] \in OrderlyData
      BY <2>7, <1>0 DEF OrderlyData
    <3>3. h = [s EXCEPT !.gp = h.gp, !.go = h.go]
      BY <2>8, <2>10 DEF TpmData
    <3> QED BY <3>1, <3>2, <3>3, <2>10 DEF TpmData
  <2>12. h.gTime - h.go.selfHealTimer = e - B
    BY <2>10, <2>7, <1>0 DEF OrderlyData, TpmData
  <2>13. h.gp.failedTries = Less(f, c) /\ h.gp.recoveryTime = r
    BY <2>10, <1>0 DEF PersistentData
  <2>14. SameParameters(s, h) /\ h.gp.enabled = s.gp.enabled
    BY <2>10, <1>0 DEF PersistentData, SameParameters
  <2>15. /\ h.go.clock = s.go.clock /\ h.go.clockSafe = s.go.clockSafe
         /\ h.go.time = s.go.time /\ h.go.lockoutTimer = s.go.lockoutTimer
    BY <2>10, <1>0 DEF OrderlyData
  <2>16. e - B \in 0 .. MaxElapsed
    <3> HIDE DEF e
    <3> QED BY <2>7, <1>0, ConstantsAssumption
  <2> QED BY <2>9, <2>10, <2>11, <2>12, <2>13, <2>14, <2>15, <2>16 DEF h
<1> QED BY <1>1, <1>2, <1>3

-----------------------------------------------------------------------------
\* The invariant of a TPM with running timers, as a predicate on its data, the debt
\* x, the rest y and the largest reported clock z.
RunInv(s, x, y, z) ==
    /\ s \in TpmData /\ ~s.timerReset /\ x \in Nat /\ y \in Nat /\ z \in 0 .. MaxClock
    /\ s.gTime - s.go.selfHealTimer \in 0 .. MaxElapsed
    /\ s.gTime - s.go.lockoutTimer \in 0 .. MaxElapsed
    /\ s.gp.recoveryTime # 0 =>
         Covered(x, s.gTime - s.go.selfHealTimer, s.gp.failedTries * s.gp.recoveryTime)
    /\ s.gp.lockoutRecovery # 0 =>
         IF s.gp.enabled THEN y = 0
         ELSE Covered(y, s.gTime - s.go.lockoutTimer, s.gp.lockoutRecovery)
    /\ s.gp.enabled => s.nvEnabled
    /\ ~s.gp.enabled /\ s.gp.lockoutRecovery # 0 => ~s.nvEnabled
    /\ Block(s.nvGo.clock) = Block(s.go.clock)
    /\ Block(z) <= Block(s.go.clock)
    /\ s.go.clockSafe => z <= s.go.clock

\* HealTries preserves the invariant.
LEMMA HealTriesRun ==
    ASSUME NEW s, NEW x, NEW y, NEW z, RunInv(s, x, y, z)
    PROVE  /\ RunInv(HealTries(s), x, y, z) /\ SameParameters(s, HealTries(s))
           /\ HealTries(s).gTime = s.gTime /\ HealTries(s).go.clock = s.go.clock
<1> DEFINE h == HealTries(s)
<1>1. s \in TpmData /\ s.gTime - s.go.selfHealTimer \in 0 .. MaxElapsed /\ x \in Nat
  BY DEF RunInv
<1>2. /\ h \in TpmData /\ SameParameters(s, h)
      /\ h.nvGo = s.nvGo /\ h.gTime = s.gTime /\ h.nvEnabled = s.nvEnabled
      /\ h.gp.enabled = s.gp.enabled /\ h.go.clock = s.go.clock
      /\ h.go.clockSafe = s.go.clockSafe /\ h.go.time = s.go.time
      /\ h.go.lockoutTimer = s.go.lockoutTimer
      /\ h.gTime - h.go.selfHealTimer \in 0 .. MaxElapsed
      /\ s.gp.recoveryTime # 0 =>
            (Covered(x, s.gTime - s.go.selfHealTimer, s.gp.failedTries * s.gp.recoveryTime)
             => Covered(x, h.gTime - h.go.selfHealTimer,
                        h.gp.failedTries * h.gp.recoveryTime))
  BY <1>1, HealTriesStep
<1> HIDE DEF h
<1>3. RunInv(h, x, y, z)
  BY <1>2 DEF RunInv, SameParameters
<1> QED BY <1>2, <1>3 DEF h

\* HealLockout preserves the invariant.
LEMMA HealLockoutRun ==
    ASSUME NEW s, NEW x, NEW y, NEW z, RunInv(s, x, y, z)
    PROVE  /\ RunInv(HealLockout(s), x, y, z) /\ SameParameters(s, HealLockout(s))
           /\ HealLockout(s).gTime = s.gTime /\ HealLockout(s).go.clock = s.go.clock
<1> DEFINE h == HealLockout(s)
           e == s.gTime - s.go.lockoutTimer
<1>0. /\ s \in TpmData /\ s.gp \in PersistentData /\ s.go \in OrderlyData
      /\ e \in Nat /\ e < U64 /\ s.gp.lockoutRecovery \in Nat /\ y \in Nat
  BY ConstantsAssumption DEF RunInv, TpmData, PersistentData, OrderlyData
<1>1. e % U64 = e
  BY <1>0, Fits
<1>2. CASE ~s.gp.enabled /\ s.gp.lockoutRecovery # 0 /\ e >= s.gp.lockoutRecovery
  <2>1. h = [s EXCEPT !.gp.enabled = TRUE, !.nvEnabled = TRUE]
    BY <1>1, <1>2 DEF HealLockout
  <2>2. y = 0
    <3>1. Covered(y, e, s.gp.lockoutRecovery)
      BY <1>2 DEF RunInv
    <3> HIDE DEF e
    <3> QED BY <3>1, <1>2, <1>0 DEF Covered
  <2>3. /\ h.gp = [s.gp EXCEPT !.enabled = TRUE] /\ h.nvEnabled = TRUE
        /\ h.go = s.go /\ h.nvGo = s.nvGo /\ h.gTime = s.gTime
        /\ h.started = s.started /\ h.timerReset = s.timerReset
        /\ h = [s EXCEPT !.gp = h.gp, !.nvEnabled = TRUE]
    BY <2>1, <1>0 DEF TpmData
  <2> HIDE DEF h
  <2>4. h.gp \in PersistentData /\ h.gp.enabled
    BY ZenonT(40), <2>3, <1>0 DEF PersistentData
  <2>5. h \in TpmData
    BY ZenonT(40), <2>3, <2>4, <1>0 DEF TpmData
  <2>6. SameParameters(s, h) /\ h.gp.failedTries = s.gp.failedTries
    BY <2>3, <1>0 DEF SameParameters, PersistentData
  <2>7. RunInv(h, x, y, z)
    BY <2>2, <2>3, <2>4, <2>5, <2>6 DEF RunInv, SameParameters
  <2> QED BY <2>7, <2>6, <2>3 DEF h
<1>3. CASE ~(~s.gp.enabled /\ s.gp.lockoutRecovery # 0 /\ e >= s.gp.lockoutRecovery)
  <2>1. h = s
    BY <1>1, <1>3 DEF HealLockout
  <2> QED BY <2>1 DEF SameParameters
<1> QED BY <1>2, <1>3

\* TimeClockUpdate preserves the invariant, for a time that is not before the clock.
LEMMA ClockRun ==
    ASSUME NEW s, NEW x, NEW y, NEW z, RunInv(s, x, y, z),
           NEW t \in 0 .. MaxClock, t >= s.go.clock
    PROVE  LET h == TimeClockUpdate(s, t) IN
           /\ RunInv(h, x, y, z) /\ SameParameters(s, h)
           /\ h.gTime = s.gTime /\ h.go.clock = t
<1> DEFINE h == TimeClockUpdate(s, t)
           g == [s.go EXCEPT !.clock = t, !.clockSafe = TRUE]
<1>0. /\ s \in TpmData /\ s.gp \in PersistentData /\ s.go \in OrderlyData
      /\ s.nvGo \in OrderlyData /\ s.go.clock \in Nat /\ t \in Nat /\ z \in Nat
      /\ z \in 0 .. MaxClock
  BY ConstantsAssumption DEF RunInv, TpmData, PersistentData, OrderlyData
<1>1. Block(s.go.clock) \in Nat /\ Block(t) \in Nat /\ Block(s.go.clock) <= Block(t)
  BY <1>0, BlockMonotone
<1>2. Block(z) \in Nat /\ (t <= z => Block(t) <= Block(z))
  BY <1>0, BlockMonotone
<1>3. CASE Block(t) > Block(s.go.clock)
  <2>1. h = [s EXCEPT !.go = g, !.nvGo = g]
    BY <1>3 DEF TimeClockUpdate
  <2>2. /\ g \in OrderlyData /\ g.clock = t /\ g.selfHealTimer = s.go.selfHealTimer
        /\ g.lockoutTimer = s.go.lockoutTimer
    BY ZenonT(40), <1>0 DEF OrderlyData
  <2>3. z <= t
    BY <1>0, <1>1, <1>2, <1>3 DEF RunInv
  <2>4. Block(z) <= Block(t)
    BY <2>3, <1>0, BlockMonotone
  <2> HIDE DEF g
  <2>5. /\ h.go = g /\ h.nvGo = g /\ h.gp = s.gp /\ h.nvEnabled = s.nvEnabled
        /\ h.gTime = s.gTime /\ h.started = s.started /\ h.timerReset = s.timerReset
        /\ h \in TpmData
    BY ZenonT(40), <2>1, <2>2, <1>0 DEF TpmData
  <2> HIDE DEF h
  <2>6. RunInv(h, x, y, z)
    BY <2>2, <2>3, <2>4, <2>5 DEF RunInv
  <2> QED BY <2>2, <2>5, <2>6 DEF SameParameters, h
<1>4. CASE Block(t) = Block(s.go.clock)
  <2>1. h = [s EXCEPT !.go.clock = t]
    BY <1>4, <1>1 DEF TimeClockUpdate
  <2>2. /\ h.go = [s.go EXCEPT !.clock = t] /\ h.nvGo = s.nvGo /\ h.gp = s.gp
        /\ h.nvEnabled = s.nvEnabled /\ h.gTime = s.gTime /\ h.started = s.started
        /\ h.timerReset = s.timerReset /\ h = [s EXCEPT !.go = h.go]
    BY <2>1, <1>0 DEF TpmData
  <2> HIDE DEF h
  <2>3. /\ h.go \in OrderlyData /\ h.go.clock = t
        /\ h.go.selfHealTimer = s.go.selfHealTimer /\ h.go.clockSafe = s.go.clockSafe
        /\ h.go.lockoutTimer = s.go.lockoutTimer
    BY <2>2, <1>0 DEF OrderlyData
  <2>4. h \in TpmData
    BY <2>2, <2>3, <1>0 DEF TpmData
  <2>5. h.go.clockSafe => z <= t
    BY <2>3, <1>0 DEF RunInv
  <2>6. RunInv(h, x, y, z)
    BY <2>2, <2>3, <2>4, <2>5, <1>4 DEF RunInv
  <2> QED BY <2>2, <2>3, <2>6 DEF SameParameters, h
<1> QED BY <1>1, <1>3, <1>4

\* Time passes, and the debts grow smaller.
LEMMA ElapseRun ==
    ASSUME NEW s, NEW x, NEW y, NEW z, RunInv(s, x, y, z), NEW d \in Nat,
           s.gTime + d - s.go.selfHealTimer <= MaxElapsed,
           s.gTime + d - s.go.lockoutTimer <= MaxElapsed
    PROVE  LET h == [s EXCEPT !.gTime = s.gTime + d] IN
           /\ RunInv(h, Less(x, d), Less(y, d), z) /\ SameParameters(s, h)
           /\ h.gTime = s.gTime + d /\ h.go = s.go
<1> DEFINE h == [s EXCEPT !.gTime = s.gTime + d]
           e == s.gTime - s.go.selfHealTimer
           k == s.gTime - s.go.lockoutTimer
           n == s.gp.failedTries * s.gp.recoveryTime
           m == s.gp.lockoutRecovery
<1>0. /\ s \in TpmData /\ s.gTime \in Nat /\ s.go.selfHealTimer \in Int
      /\ s.go.lockoutTimer \in Int /\ x \in Nat /\ y \in Nat /\ n \in Int /\ m \in Nat
      /\ e \in 0 .. MaxElapsed /\ k \in 0 .. MaxElapsed
  BY DEF RunInv, TpmData, OrderlyData, PersistentData
<1>1. /\ h.gp = s.gp /\ h.go = s.go /\ h.nvGo = s.nvGo /\ h.nvEnabled = s.nvEnabled
      /\ h.gTime = s.gTime + d /\ h.started = s.started /\ h.timerReset = s.timerReset
      /\ h \in TpmData
  BY <1>0 DEF TpmData
<1>2. /\ h.gTime - h.go.selfHealTimer = e + d /\ e + d \in 0 .. MaxElapsed
      /\ h.gTime - h.go.lockoutTimer = k + d /\ k + d \in 0 .. MaxElapsed
  <2> HIDE DEF h
  <2> QED BY <1>0, <1>1, ConstantsAssumption
<1>3. Less(x, d) \in Nat /\ Less(y, d) \in Nat
  BY <1>0 DEF Less
<1>4. Covered(x, e, n) => Covered(Less(x, d), e + d, n)
  <2> HIDE DEF e, n
  <2> QED BY <1>0, ConstantsAssumption DEF Covered, Less
<1>5. Covered(y, k, m) => Covered(Less(y, d), k + d, m)
  <2> HIDE DEF k, m
  <2> QED BY <1>0, ConstantsAssumption DEF Covered, Less
<1>6. y = 0 => Less(y, d) = 0
  BY DEF Less
<1> HIDE DEF h
<1>7. RunInv(h, Less(x, d), Less(y, d), z)
  BY <1>1, <1>2, <1>3, <1>4, <1>5, <1>6 DEF RunInv
<1> QED BY <1>1, <1>7 DEF SameParameters, h

\* TimeUpdate preserves the invariant.
LEMMA TimeUpdateRun ==
    ASSUME NEW s, NEW x, NEW y, NEW z, RunInv(s, x, y, z), NEW d \in Nat,
           s.go.clock + d <= MaxClock,
           s.gTime + d - s.go.selfHealTimer <= MaxElapsed,
           s.gTime + d - s.go.lockoutTimer <= MaxElapsed
    PROVE  LET h == TimeUpdate(s, d) IN
           /\ RunInv(h, Less(x, d), Less(y, d), z) /\ SameParameters(s, h)
           /\ h.gTime = s.gTime + d /\ h.go.clock = s.go.clock + d
<1> DEFINE s1 == [s EXCEPT !.gTime = s.gTime + d]
           t == s1.go.clock + d
           s2 == TimeClockUpdate(s1, t)
           s3 == HealTries(s2)
           s4 == HealLockout(s3)
           X == Less(x, d)
           Y == Less(y, d)
<1>1. /\ RunInv(s1, X, Y, z) /\ SameParameters(s, s1)
      /\ s1.gTime = s.gTime + d /\ s1.go = s.go
  BY ElapseRun
<1>2. TimeUpdate(s, d) = s4
  <2>1. NewEpoch(s) = s
    BY DEF NewEpoch, RunInv
  <2> QED BY <2>1 DEF TimeUpdate, DASelfHeal
<1> HIDE DEF s1, X, Y
<1>3. t \in 0 .. MaxClock /\ t >= s1.go.clock /\ t = s.go.clock + d
  <2>1. s.go.clock \in Nat
    BY ConstantsAssumption DEF RunInv, TpmData, OrderlyData
  <2> QED BY <2>1, <1>1, ConstantsAssumption
<1> HIDE DEF t
<1>4. RunInv(s2, X, Y, z) /\ SameParameters(s1, s2) /\ s2.gTime = s1.gTime /\ s2.go.clock = t
  BY <1>1, <1>3, ClockRun
<1> HIDE DEF s2
<1>5. /\ RunInv(s3, X, Y, z) /\ SameParameters(s2, s3) /\ s3.gTime = s2.gTime
      /\ s3.go.clock = s2.go.clock
  BY <1>4, HealTriesRun
<1> HIDE DEF s3
<1>6. /\ RunInv(s4, X, Y, z) /\ SameParameters(s3, s4) /\ s4.gTime = s3.gTime
      /\ s4.go.clock = s3.go.clock
  BY <1>5, HealLockoutRun
<1> HIDE DEF s4
<1>7. SameParameters(s, s4)
  BY <1>1, <1>4, <1>5, <1>6 DEF SameParameters
<1> QED BY <1>1, <1>2, <1>3, <1>4, <1>5, <1>6, <1>7 DEF X, Y

-----------------------------------------------------------------------------
\* The invariant of a running TPM, from the invariant of the specification.
LEMMA RunFromInv ==
    ASSUME TypeOK, TimeInv, tpm.started
    PROVE  RunInv(tpm, debt, rest, reported)
BY ZenonT(40) DEF TypeOK, TimeInv, RunInv, Carried, Covered

\* The invariant of the specification, from the invariant of a running TPM.
LEMMA InvFromRun ==
    ASSUME RunInv(tpm', debt', rest', reported'), tpm'.started, used' \in BOOLEAN,
           Orderly(tpm'.gp) /\ ~used' => tpm'.nvGo = tpm'.go /\ tpm'.go.time = tpm'.gTime
    PROVE  TypeOK' /\ TimeInv'
<1>1. TypeOK'
  BY DEF TypeOK, RunInv
<1>3. /\ Carried(tpm.go.selfHealTimer)' = tpm'.gTime - tpm'.go.selfHealTimer
      /\ Carried(tpm.go.lockoutTimer)' = tpm'.gTime - tpm'.go.lockoutTimer
  BY DEF Carried
<1>4. /\ (tpm.timerReset = ~tpm.started)'
      /\ (~tpm.started => tpm.go = tpm.nvGo /\ tpm.gTime = 0)'
      /\ ((tpm.started \/ Orderly(tpm.gp)) /\ tpm.go.clockSafe => reported <= tpm.go.clock)'
  BY DEF RunInv, TpmData
<1> QED BY <1>1, <1>3, <1>4 DEF TimeInv, RunInv, Covered, Orderly, Block

\* What holds of the data a command works on.
LEMMA NowRun ==
    ASSUME TypeOK, TimeInv, tpm.started, NEW d \in Nat, Passes(d)
    PROVE  /\ RunInv(Now(d), Less(debt, d), Less(rest, d), reported)
           /\ SameParameters(tpm, Now(d))
           /\ Now(d).started
<1>1. RunInv(tpm, debt, rest, reported)
  BY RunFromInv
<1>2. /\ RunInv(Now(d), Less(debt, d), Less(rest, d), reported)
      /\ SameParameters(tpm, Now(d))
  BY <1>1, TimeUpdateRun DEF Now, Passes
<1> QED BY <1>2 DEF SameParameters

\* A failure is counted in failedTries and paid for.
LEMMA FailureRun ==
    ASSUME NEW s, NEW x, NEW y, NEW z, RunInv(s, x, y, z)
    PROVE  RunInv([s EXCEPT !.gp.failedTries =
                                IF s.gp.recoveryTime = 0 THEN @ ELSE @ + 1,
                            !.go.selfHealTimer = s.gTime],
                  x + s.gp.recoveryTime, y, z)
<1> DEFINE r == s.gp.recoveryTime
           f == s.gp.failedTries
           F == IF r = 0 THEN f ELSE f + 1
           h == [s EXCEPT !.gp.failedTries = F, !.go.selfHealTimer = s.gTime]
           e == s.gTime - s.go.selfHealTimer
<1>0. /\ s \in TpmData /\ s.gp \in PersistentData /\ s.go \in OrderlyData
      /\ r \in Nat /\ f \in Nat /\ s.gTime \in Nat /\ x \in Nat /\ F \in Nat
      /\ e \in 0 .. MaxElapsed
  BY DEF RunInv, TpmData, PersistentData, OrderlyData
<1>1. r # 0 => Covered(x + r, 0, F * r)
  <2> SUFFICES ASSUME r # 0 PROVE Covered(x + r, 0, F * r)
    OBVIOUS
  <2>1. F * r = f * r + r
    <3>1. (f + 1) * r = f * r + r
      BY <1>0
    <3> QED BY <3>1
  <2>2. x <= f * r
    <3>1. Covered(x, e, f * r)
      BY DEF RunInv
    <3>2. f * r \in Nat
      BY <1>0
    <3> DEFINE n == f * r
    <3> HIDE DEF n, e
    <3> QED BY <3>1, <3>2, <1>0, ConstantsAssumption DEF Covered, n
  <2> DEFINE n == f * r
             N == F * r
  <2>3. n \in Nat
    BY <1>0
  <2>4. N = n + r /\ x <= n
    BY <2>1, <2>2
  <2> HIDE DEF n, N, r
  <2>5. x + r + 0 <= N
    BY <2>3, <2>4, <1>0
  <2> QED BY <2>5 DEF Covered, N
<1> HIDE DEF F
<1>2. /\ h.gp = [s.gp EXCEPT !.failedTries = F]
      /\ h.go = [s.go EXCEPT !.selfHealTimer = s.gTime]
      /\ h.nvGo = s.nvGo /\ h.gTime = s.gTime /\ h.nvEnabled = s.nvEnabled
      /\ h.started = s.started /\ h.timerReset = s.timerReset
      /\ h = [s EXCEPT !.gp = h.gp, !.go = h.go]
  BY <1>0 DEF TpmData
<1> HIDE DEF h
<1>3. /\ h.gp \in PersistentData /\ h.gp.failedTries = F /\ h.gp.recoveryTime = r
      /\ h.gp.lockoutRecovery = s.gp.lockoutRecovery /\ h.gp.enabled = s.gp.enabled
  BY <1>2, <1>0 DEF PersistentData
<1>4. /\ h.go \in OrderlyData /\ h.go.selfHealTimer = s.gTime /\ h.go.clock = s.go.clock
      /\ h.go.lockoutTimer = s.go.lockoutTimer /\ h.go.clockSafe = s.go.clockSafe
  BY <1>2, <1>0 DEF OrderlyData
<1>5. h \in TpmData
  BY <1>2, <1>3, <1>4, <1>0 DEF TpmData
<1>6. h.gTime - h.go.selfHealTimer = 0 /\ 0 \in 0 .. MaxElapsed /\ x + r \in Nat
  BY <1>0, <1>2, <1>4, ConstantsAssumption
<1>7. RunInv(h, x + r, y, z)
  BY <1>1, <1>2, <1>3, <1>4, <1>5, <1>6 DEF RunInv
<1> QED BY <1>7 DEF h, F

\* A failure of lockoutAuth has to be waited for.
LEMMA LockoutFailureRun ==
    ASSUME NEW s, NEW x, NEW y, NEW z, RunInv(s, x, y, z)
    PROVE  RunInv([s EXCEPT !.gp.enabled = FALSE,
                            !.nvEnabled = @ /\ s.gp.lockoutRecovery = 0,
                            !.go.lockoutTimer = s.gTime],
                  x, s.gp.lockoutRecovery, z)
<1> DEFINE l == s.gp.lockoutRecovery
           b == s.nvEnabled /\ l = 0
           h == [s EXCEPT !.gp.enabled = FALSE, !.nvEnabled = b, !.go.lockoutTimer = s.gTime]
<1>0. /\ s \in TpmData /\ s.gp \in PersistentData /\ s.go \in OrderlyData
      /\ l \in Nat /\ s.gTime \in Nat /\ b \in BOOLEAN
  BY DEF RunInv, TpmData, PersistentData, OrderlyData
<1>1. Covered(l, 0, l) /\ (l # 0 => ~b)
  BY <1>0 DEF Covered
<1> HIDE DEF b
<1>2. /\ h.gp = [s.gp EXCEPT !.enabled = FALSE]
      /\ h.go = [s.go EXCEPT !.lockoutTimer = s.gTime]
      /\ h.nvGo = s.nvGo /\ h.gTime = s.gTime /\ h.nvEnabled = b
      /\ h.started = s.started /\ h.timerReset = s.timerReset
      /\ h = [s EXCEPT !.gp = h.gp, !.go = h.go, !.nvEnabled = b]
  BY ZenonT(40), <1>0 DEF TpmData
<1> HIDE DEF h
<1>3. /\ h.gp \in PersistentData /\ h.gp.failedTries = s.gp.failedTries
      /\ h.gp.recoveryTime = s.gp.recoveryTime
      /\ h.gp.lockoutRecovery = l /\ ~h.gp.enabled
  BY ZenonT(40), <1>2, <1>0 DEF PersistentData
<1>4. /\ h.go \in OrderlyData /\ h.go.lockoutTimer = s.gTime /\ h.go.clock = s.go.clock
      /\ h.go.selfHealTimer = s.go.selfHealTimer /\ h.go.clockSafe = s.go.clockSafe
  BY <1>2, <1>0 DEF OrderlyData
<1>5. h \in TpmData
  BY <1>2, <1>3, <1>4, <1>0 DEF TpmData
<1>6. h.gTime - h.go.lockoutTimer = 0 /\ 0 \in 0 .. MaxElapsed
  BY <1>0, <1>2, <1>4, ConstantsAssumption
<1>7. RunInv(h, x, l, z)
  BY <1>0, <1>1, <1>2, <1>3, <1>4, <1>5, <1>6 DEF RunInv
<1> QED BY <1>7 DEF h, b

\* New parameters, with the debts counted anew.
LEMMA ParametersRun ==
    ASSUME NEW s, NEW x, NEW y, NEW z, RunInv(s, x, y, z), s.gp.enabled,
           NEW mt \in Nat, NEW rt \in Nat, NEW lr \in Nat
    PROVE  RunInv([s EXCEPT !.gp.maxTries = mt, !.gp.recoveryTime = rt,
                            !.gp.lockoutRecovery = lr],
                  Less(s.gp.failedTries * rt, s.gTime - s.go.selfHealTimer), 0, z)
<1> DEFINE h == [s EXCEPT !.gp.maxTries = mt, !.gp.recoveryTime = rt,
                          !.gp.lockoutRecovery = lr]
           e == s.gTime - s.go.selfHealTimer
           n == s.gp.failedTries * rt
           X == Less(n, e)
<1>0. /\ s \in TpmData /\ s.gp \in PersistentData /\ s.gp.failedTries \in Nat
      /\ e \in Nat /\ s.nvEnabled
  BY ConstantsAssumption DEF RunInv, TpmData, PersistentData, OrderlyData
<1>1. n \in Nat
  BY <1>0
<1>2. X \in Nat /\ Covered(X, e, n)
  <2> HIDE DEF n, e
  <2> QED BY <1>0, <1>1 DEF Less, Covered
<1>3. /\ h.gp = [s.gp EXCEPT !.maxTries = mt, !.recoveryTime = rt, !.lockoutRecovery = lr]
      /\ h.go = s.go /\ h.nvGo = s.nvGo /\ h.gTime = s.gTime /\ h.nvEnabled = s.nvEnabled
      /\ h.started = s.started /\ h.timerReset = s.timerReset
      /\ h = [s EXCEPT !.gp = h.gp]
  BY ZenonT(40), <1>0 DEF TpmData
<1> HIDE DEF h, X
<1>4. /\ h.gp \in PersistentData /\ h.gp.failedTries = s.gp.failedTries
      /\ h.gp.recoveryTime = rt /\ h.gp.lockoutRecovery = lr /\ h.gp.enabled
  BY ZenonT(40), <1>3, <1>0 DEF PersistentData
<1>5. h \in TpmData
  BY <1>3, <1>4, <1>0 DEF TpmData
<1>6. RunInv(h, X, 0, z)
  BY <1>0, <1>2, <1>3, <1>4, <1>5 DEF RunInv
<1> QED BY <1>6 DEF h, X

\* failedTries is reset together with the debt.
LEMMA ResetRun ==
    ASSUME NEW s, NEW x, NEW y, NEW z, RunInv(s, x, y, z)
    PROVE  RunInv([s EXCEPT !.gp.failedTries = 0], 0, y, z)
<1> DEFINE h == [s EXCEPT !.gp.failedTries = 0]
<1>0. s \in TpmData /\ s.gp \in PersistentData
  BY DEF RunInv, TpmData
<1>1. /\ h.gp = [s.gp EXCEPT !.failedTries = 0]
      /\ h.go = s.go /\ h.nvGo = s.nvGo /\ h.gTime = s.gTime /\ h.nvEnabled = s.nvEnabled
      /\ h.started = s.started /\ h.timerReset = s.timerReset
      /\ h = [s EXCEPT !.gp = h.gp]
  BY <1>0 DEF TpmData
<1> HIDE DEF h
<1>2. /\ h.gp \in PersistentData /\ h.gp.recoveryTime = s.gp.recoveryTime
      /\ h.gp.lockoutRecovery = s.gp.lockoutRecovery /\ h.gp.enabled = s.gp.enabled
  BY <1>1, <1>0 DEF PersistentData
<1>3. h \in TpmData
  BY <1>1, <1>2, <1>0 DEF TpmData
<1>4. RunInv(h, 0, y, z)
  BY <1>1, <1>2, <1>3 DEF RunInv, Covered
<1> QED BY <1>4 DEF h

\* orderlyState, and the flag of a TPM that is started, are not part of the invariant
\* of a running TPM.
LEMMA OrderlyRun ==
    ASSUME NEW s, NEW x, NEW y, NEW z, RunInv(s, x, y, z),
           NEW o \in {"NONE", "CLEAR", "STATE"}, NEW b \in BOOLEAN
    PROVE  RunInv([s EXCEPT !.gp.orderly = o, !.started = b], x, y, z)
<1> DEFINE h == [s EXCEPT !.gp.orderly = o, !.started = b]
<1>0. s \in TpmData /\ s.gp \in PersistentData
  BY DEF RunInv, TpmData
<1>1. /\ h.gp = [s.gp EXCEPT !.orderly = o]
      /\ h.go = s.go /\ h.nvGo = s.nvGo /\ h.gTime = s.gTime /\ h.nvEnabled = s.nvEnabled
      /\ h.timerReset = s.timerReset
      /\ h = [s EXCEPT !.gp = h.gp, !.started = b]
  BY <1>0 DEF TpmData
<1> HIDE DEF h
<1>2. /\ h.gp \in PersistentData /\ h.gp.recoveryTime = s.gp.recoveryTime
      /\ h.gp.lockoutRecovery = s.gp.lockoutRecovery /\ h.gp.enabled = s.gp.enabled
      /\ h.gp.failedTries = s.gp.failedTries
  BY <1>1, <1>0 DEF PersistentData
<1>3. h \in TpmData
  BY ZenonT(40), <1>1, <1>2, <1>0 DEF TpmData
<1>4. RunInv(h, x, y, z)
  BY <1>1, <1>2, <1>3 DEF RunInv
<1> QED BY <1>4 DEF h

\* TPM2_Clear starts with a clean slate.
LEMMA ClearRun ==
    ASSUME NEW s, NEW x, NEW y, NEW z, RunInv(s, x, y, z)
    PROVE  LET go2 == [s.go EXCEPT !.clock = 0, !.clockSafe = TRUE]
           IN  RunInv([s EXCEPT !.gp = [DAPreInstall(s.gp) EXCEPT !.orderly = "NONE"],
                                !.nvEnabled = TRUE, !.go = go2, !.nvGo = go2], 0, 0, 0)
<1> DEFINE g == [s.go EXCEPT !.clock = 0, !.clockSafe = TRUE]
           p == [DAPreInstall(s.gp) EXCEPT !.orderly = "NONE"]
           h == [s EXCEPT !.gp = p, !.nvEnabled = TRUE, !.go = g, !.nvGo = g]
<1>0. s \in TpmData /\ s.gp \in PersistentData /\ s.go \in OrderlyData
  BY DEF RunInv, TpmData
<1>1. /\ g \in OrderlyData /\ g.selfHealTimer = s.go.selfHealTimer
      /\ g.lockoutTimer = s.go.lockoutTimer /\ g.clock = 0
  <2>1. 0 \in 0 .. MaxClock
    BY ConstantsAssumption
  <2> QED BY ZenonT(40), <1>0, <2>1 DEF OrderlyData
<1>2. p \in PersistentData /\ p.enabled
  BY ZenonT(40), <1>0, ConstantsAssumption DEF PersistentData, DAPreInstall
<1> HIDE DEF g, p
<1>3. /\ h \in TpmData /\ h.gp = p /\ h.go = g /\ h.nvGo = g /\ h.gTime = s.gTime
      /\ h.nvEnabled /\ h.timerReset = s.timerReset
  BY ZenonT(40), <1>0, <1>1, <1>2 DEF TpmData
<1>4. 0 \in 0 .. MaxClock /\ Block(0) \in Nat
  BY ConstantsAssumption, BlockMonotone
<1> HIDE DEF h
<1>5. RunInv(h, 0, 0, 0)
  BY <1>1, <1>2, <1>3, <1>4 DEF RunInv, Covered
<1> QED BY <1>5 DEF h, g, p

\* TPM2_Shutdown writes the orderly data to NV.
LEMMA ShutdownRun ==
    ASSUME NEW s, NEW x, NEW y, NEW z, RunInv(s, x, y, z),
           NEW o \in {"NONE", "CLEAR", "STATE"}
    PROVE  LET go2 == [s.go EXCEPT !.time = s.gTime]
               h == [s EXCEPT !.gp.orderly = o, !.go = go2, !.nvGo = go2]
           IN  /\ RunInv(h, x, y, z) /\ h.nvGo = h.go /\ h.go.time = h.gTime
               /\ h.started = s.started
<1> DEFINE g == [s.go EXCEPT !.time = s.gTime]
           h == [s EXCEPT !.gp.orderly = o, !.go = g, !.nvGo = g]
<1>0. s \in TpmData /\ s.gp \in PersistentData /\ s.go \in OrderlyData /\ s.gTime \in Nat
  BY DEF RunInv, TpmData
<1>1. /\ g \in OrderlyData /\ g.selfHealTimer = s.go.selfHealTimer
      /\ g.lockoutTimer = s.go.lockoutTimer /\ g.clock = s.go.clock
      /\ g.clockSafe = s.go.clockSafe /\ g.time = s.gTime
  BY <1>0 DEF OrderlyData
<1> HIDE DEF g
<1>2. /\ h.gp = [s.gp EXCEPT !.orderly = o]
      /\ h.go = g /\ h.nvGo = g /\ h.gTime = s.gTime /\ h.nvEnabled = s.nvEnabled
      /\ h.timerReset = s.timerReset /\ h.started = s.started
      /\ h = [s EXCEPT !.gp = h.gp, !.go = g, !.nvGo = g]
  BY <1>0 DEF TpmData
<1> HIDE DEF h
<1>3. /\ h.gp \in PersistentData /\ h.gp.recoveryTime = s.gp.recoveryTime
      /\ h.gp.lockoutRecovery = s.gp.lockoutRecovery /\ h.gp.enabled = s.gp.enabled
      /\ h.gp.failedTries = s.gp.failedTries
  BY <1>2, <1>0 DEF PersistentData
<1>4. h \in TpmData
  BY <1>1, <1>2, <1>3, <1>0 DEF TpmData
<1>5. RunInv(h, x, y, z)
  BY <1>1, <1>2, <1>3, <1>4 DEF RunInv
<1> QED BY ZenonT(40), <1>1, <1>2, <1>5 DEF h, g

\* DAStartup and TimeStartup start the timers in such a way that the invariant of a
\* running TPM holds.
LEMMA StartupRun ==
    ASSUME TypeOK, TimeInv, ~tpm.started
    PROVE  LET s == DACounters(DATimers(TimeStartup(tpm)))
           IN  RunInv(s, debt, rest, reported) /\ s.gTime = 0
<1> DEFINE p == tpm.gp
           g == tpm.go
           ord == Orderly(p)
           A == IF ord THEN g.selfHealTimer - g.time ELSE 0
           B == IF ord THEN g.lockoutTimer - g.time ELSE 0
           C == IF ord THEN g.clockSafe ELSE FALSE
           G == [g EXCEPT !.clockSafe = C, !.selfHealTimer = A, !.lockoutTimer = B]
           E == IF p.lockoutRecovery = 0 THEN TRUE ELSE p.enabled
           V == IF p.lockoutRecovery = 0 THEN TRUE ELSE tpm.nvEnabled
           F == IF p.recoveryTime # 0 /\ p.failedTries < p.maxTries /\ ~ord
                THEN p.failedTries + 1 ELSE p.failedTries
           s1 == DATimers(TimeStartup(tpm))
           s == DACounters(s1)
<1>0. /\ tpm \in TpmData /\ p \in PersistentData /\ g \in OrderlyData /\ tpm.timerReset
      /\ tpm.nvGo = g /\ tpm.gTime = 0 /\ debt \in Nat /\ rest \in Nat
      /\ reported \in 0 .. MaxClock
  BY DEF TypeOK, TimeInv, TpmData
<1>1. A \in Int /\ B \in Int /\ C \in BOOLEAN
  <2>1. /\ g.selfHealTimer \in Int /\ g.lockoutTimer \in Int /\ g.time \in Int
        /\ g.clockSafe \in BOOLEAN
    BY <1>0 DEF OrderlyData
  <2>2. CASE ord
    BY <2>1, <2>2
  <2>3. CASE ~ord
    BY <2>3
  <2> QED BY ZenonT(40), <2>2, <2>3
<1>1a. /\ G \in OrderlyData /\ G.clock = g.clock /\ G.selfHealTimer = A
       /\ G.lockoutTimer = B /\ G.clockSafe = C
  <2> HIDE DEF A, B, C
  <2> QED BY ZenonT(40), <1>0, <1>1 DEF OrderlyData
<1>2. s1 = [tpm EXCEPT !.timerReset = FALSE, !.go = G]
  <2>1. CASE ord
    <3>1. TimeStartup(tpm) = tpm
      BY <2>1 DEF TimeStartup
    <3>2. DATimers(tpm) = [tpm EXCEPT !.timerReset = FALSE,
                                      !.go.selfHealTimer = A, !.go.lockoutTimer = B]
      BY <1>0, <2>1 DEF DATimers
    <3>3. C = g.clockSafe
      BY <2>1
    <3> HIDE DEF A, B, C
    <3>4. G = [g EXCEPT !.selfHealTimer = A, !.lockoutTimer = B]
      BY ZenonT(40), <3>3, <1>0 DEF OrderlyData
    <3> HIDE DEF G
    <3> QED BY ZenonT(40), <3>1, <3>2, <3>4, <1>0 DEF TpmData
  <2>2. CASE ~ord
    <3>1. TimeStartup(tpm) = [tpm EXCEPT !.go.clockSafe = FALSE]
      BY <2>2 DEF TimeStartup
    <3> DEFINE t == [tpm EXCEPT !.go.clockSafe = FALSE]
    <3>2. t.timerReset /\ t.gp = p /\ t.go = [g EXCEPT !.clockSafe = FALSE]
          /\ t = [tpm EXCEPT !.go = t.go]
      BY <1>0 DEF TpmData
    <3>3. DATimers(t) = [t EXCEPT !.timerReset = FALSE, !.go.selfHealTimer = 0,
                                  !.go.lockoutTimer = 0]
      <4> HIDE DEF t
      <4> QED BY <3>2, <2>2 DEF DATimers
    <3>4. G = [t.go EXCEPT !.selfHealTimer = 0, !.lockoutTimer = 0]
      <4>1. G = [g EXCEPT !.clockSafe = FALSE, !.selfHealTimer = 0, !.lockoutTimer = 0]
        BY <2>2
      <4> HIDE DEF G, t
      <4> QED BY <4>1, <3>2, <1>0 DEF OrderlyData
    <3>5. s1 = DATimers(t)
      BY <3>1
    <3> HIDE DEF t, G, s1
    <3>6. DATimers(t) = [t EXCEPT !.timerReset = FALSE, !.go = G]
      BY ZenonT(40), <3>2, <3>3, <3>4, <1>0 DEF TpmData
    <3> QED BY ZenonT(40), <3>2, <3>5, <3>6, <1>0 DEF TpmData
  <2> QED BY <2>1, <2>2
<1> HIDE DEF G
<1>3. /\ s1.gp = p /\ s1.go = G /\ s1.nvGo = g /\ s1.nvEnabled = tpm.nvEnabled
      /\ s1.gTime = 0 /\ ~s1.timerReset /\ s1 \in TpmData
  BY ZenonT(40), <1>0, <1>1a, <1>2 DEF TpmData
<1> HIDE DEF s1
<1>4. /\ s.gp = [p EXCEPT !.failedTries = F, !.enabled = E] /\ s.nvEnabled = V
      /\ s.go = G /\ s.nvGo = g /\ s.gTime = 0 /\ ~s.timerReset
      /\ s = [s1 EXCEPT !.gp = s.gp, !.nvEnabled = V]
  <2> DEFINE t == IF p.lockoutRecovery = 0
                  THEN [s1 EXCEPT !.gp.enabled = TRUE, !.nvEnabled = TRUE] ELSE s1
  <2>1. /\ t.gp = [p EXCEPT !.enabled = E] /\ t.nvEnabled = V /\ t.go = G /\ t.nvGo = g
        /\ t.gTime = 0 /\ ~t.timerReset /\ t = [s1 EXCEPT !.gp = t.gp, !.nvEnabled = V]
        /\ t \in TpmData
    <3>1. CASE p.lockoutRecovery = 0
      BY ZenonT(40), <3>1, <1>3, <1>0 DEF TpmData, PersistentData
    <3>2. CASE p.lockoutRecovery # 0
      BY ZenonT(40), <3>2, <1>3, <1>0 DEF TpmData, PersistentData
    <3> QED BY ZenonT(40), <3>1, <3>2
  <2>2. s = IF /\ t.gp.recoveryTime # 0 /\ t.gp.failedTries < t.gp.maxTries
               /\ ~Orderly(t.gp)
            THEN [t EXCEPT !.gp.failedTries = @ + 1] ELSE t
    BY <1>3 DEF DACounters
  <2> HIDE DEF t, s, E, V
  <2>3. /\ t.gp.recoveryTime = p.recoveryTime /\ t.gp.failedTries = p.failedTries
        /\ t.gp.maxTries = p.maxTries /\ t.gp.orderly = p.orderly
    BY <2>1, <1>0 DEF PersistentData
  <2>4. s = IF F = p.failedTries THEN t ELSE [t EXCEPT !.gp.failedTries = F]
    BY <2>2, <2>3, <1>0 DEF Orderly, PersistentData
  <2> HIDE DEF F
  <2>5. CASE F = p.failedTries
    <3>1. s = t
      BY <2>4, <2>5
    <3>2. t.gp = [p EXCEPT !.failedTries = F, !.enabled = E]
      BY ZenonT(40), <2>1, <2>5, <1>0 DEF PersistentData
    <3> QED BY <3>1, <3>2, <2>1
  <2>6. CASE F # p.failedTries
    <3>1. s = [t EXCEPT !.gp.failedTries = F]
      BY <2>4, <2>6
    <3>2. /\ s.gp = [t.gp EXCEPT !.failedTries = F] /\ s.nvEnabled = t.nvEnabled
          /\ s.go = t.go /\ s.nvGo = t.nvGo /\ s.gTime = t.gTime
          /\ s.timerReset = t.timerReset
      BY <3>1, <2>1 DEF TpmData
    <3>3. s.gp = [p EXCEPT !.failedTries = F, !.enabled = E]
      BY ZenonT(40), <3>2, <2>1, <1>0 DEF PersistentData
    <3>4. s = [s1 EXCEPT !.gp = s.gp, !.nvEnabled = V]
      BY ZenonT(40), <3>1, <3>2, <2>1, <1>3 DEF TpmData
    <3> QED BY <3>2, <3>3, <3>4, <2>1
  <2> QED BY <2>5, <2>6
<1> HIDE DEF s
<1>5. /\ F \in Nat /\ F >= p.failedTries /\ E \in BOOLEAN /\ V \in BOOLEAN
      /\ p.failedTries \in Nat /\ p.recoveryTime \in Nat /\ p.lockoutRecovery \in Nat
  <2>1. /\ p.failedTries \in Nat /\ p.recoveryTime \in Nat /\ p.lockoutRecovery \in Nat
        /\ p.enabled \in BOOLEAN /\ tpm.nvEnabled \in BOOLEAN
    BY <1>0 DEF PersistentData, TpmData
  <2>2. F = p.failedTries \/ F = p.failedTries + 1
    OBVIOUS
  <2>3. F \in Nat /\ F >= p.failedTries
    <3> HIDE DEF F
    <3> QED BY <2>1, <2>2
  <2>4. E \in BOOLEAN
    BY ZenonT(40), <2>1
  <2>5. V \in BOOLEAN
    BY ZenonT(40), <2>1
  <2> QED BY ZenonT(40), <2>1, <2>3, <2>4, <2>5
<1>6. /\ E => V
      /\ ~E /\ p.lockoutRecovery # 0 => ~V
      /\ p.lockoutRecovery # 0 => E = p.enabled
  BY ZenonT(40) DEF TimeInv
<1> HIDE DEF F, E, V
<1>7. /\ s.gp \in PersistentData /\ s.gp.failedTries = F /\ s.gp.enabled = E
      /\ s.gp.recoveryTime = p.recoveryTime /\ s.gp.lockoutRecovery = p.lockoutRecovery
  BY ZenonT(40), <1>4, <1>5, <1>0 DEF PersistentData
<1>8. s \in TpmData
  BY ZenonT(40), <1>3, <1>4, <1>5, <1>7 DEF TpmData
<1>9. /\ 0 - G.selfHealTimer = Carried(tpm.go.selfHealTimer)
      /\ 0 - G.lockoutTimer = Carried(tpm.go.lockoutTimer)
      /\ G.clockSafe => ord /\ g.clockSafe
  <2>1. g.selfHealTimer \in Int /\ g.lockoutTimer \in Int /\ g.time \in Int
    BY <1>0 DEF OrderlyData
  <2>2. CASE ord
    BY <1>0, <1>1a, <2>1, <2>2 DEF Carried
  <2>3. CASE ~ord
    BY <1>0, <1>1a, <2>3 DEF Carried
  <2> QED BY <2>2, <2>3
<1>10. p.recoveryTime # 0 =>
         Covered(debt, 0 - G.selfHealTimer, F * p.recoveryTime)
  <2> DEFINE e == Carried(tpm.go.selfHealTimer)
             n == p.failedTries * p.recoveryTime
             N == F * p.recoveryTime
  <2>1. p.recoveryTime # 0 => Covered(debt, e, n)
    BY DEF TimeInv, Covered
  <2>2. n <= N /\ n \in Int /\ N \in Int
    BY <1>5
  <2>3. e \in Int
    BY DEF TimeInv
  <2> HIDE DEF e, n, N
  <2>4. p.recoveryTime # 0 => Covered(debt, e, N)
    BY SMTT(60), <2>1, <2>2, <2>3, <1>0 DEF Covered
  <2> QED BY <2>4, <1>9 DEF e, N
<1>11. p.lockoutRecovery # 0 =>
         IF E THEN rest = 0 ELSE Covered(rest, 0 - G.lockoutTimer, p.lockoutRecovery)
  BY SMTT(60), <1>6, <1>9 DEF TimeInv, Covered
<1>12. /\ 0 - G.selfHealTimer \in 0 .. MaxElapsed
       /\ 0 - G.lockoutTimer \in 0 .. MaxElapsed
  BY <1>9 DEF TimeInv
<1>13. /\ Block(s.nvGo.clock) = Block(s.go.clock) /\ Block(reported) <= Block(s.go.clock)
       /\ s.go.clockSafe => reported <= s.go.clock
  BY ZenonT(40), <1>1a, <1>4, <1>9 DEF TimeInv
<1>14. RunInv(s, debt, rest, reported)
  BY <1>0, <1>4, <1>6, <1>7, <1>8, <1>10, <1>11, <1>12, <1>13 DEF RunInv
<1> QED BY <1>14, <1>4 DEF s, s1

\* A clock value is reported.
LEMMA ReportRun ==
    ASSUME NEW s, NEW x, NEW y, NEW z, RunInv(s, x, y, z)
    PROVE  RunInv(s, x, y, Larger(z, s.go.clock))
<1> DEFINE c == s.go.clock
           Z == Larger(z, c)
<1>0. c \in 0 .. MaxClock /\ z \in 0 .. MaxClock /\ c \in Nat /\ z \in Nat
  BY ConstantsAssumption DEF RunInv, TpmData, OrderlyData
<1>1. Z \in 0 .. MaxClock /\ (Z = z \/ Z = c) /\ Z >= c
  <2> HIDE DEF c
  <2> QED BY <1>0 DEF Larger
<1>2. Block(c) \in Nat /\ Block(Z) <= Block(c)
  BY <1>0, <1>1, BlockMonotone DEF RunInv
<1>3. s.go.clockSafe => Z <= c
  BY SMTT(60), <1>0, <1>1 DEF RunInv
<1> HIDE DEF Z
<1>4. RunInv(s, x, y, Z)
  BY <1>1, <1>2, <1>3 DEF RunInv
<1> QED BY <1>4 DEF Z

\* One step of the specification preserves the invariant.
LEMMA InvStep ==
    ASSUME ~PowerLossAfterUse, ~LockoutPolicy, TypeOK, TimeInv, [Next]_vars
    PROVE  TypeOK' /\ TimeInv'
<1> DEFINE X(d) == Less(debt, d)
           Y(d) == Less(rest, d)
<1>0. Steps \subseteq Nat
  BY ConstantsAssumption
<1>1. ASSUME NEW d \in Nat, tpm.started, Passes(d)
      PROVE  RunInv(Now(d), X(d), Y(d), reported) /\ Now(d).started
  BY <1>1, NowRun
<1>2. ASSUME NEW d \in Nat, Command(d), RunInv(tpm', debt', rest', reported'),
             tpm'.started
      PROVE  TypeOK' /\ TimeInv'
  BY <1>2, InvFromRun DEF Command
<1>3. ASSUME NEW d \in Nat, Authorize(d) PROVE TypeOK' /\ TimeInv'
  <2> DEFINE s == Now(d)
  <2>1. RunInv(s, X(d), Y(d), reported) /\ s.started /\ s \in TpmData
    BY <1>1, <1>3 DEF Authorize, Command, RunInv
  <2> HIDE DEF s
  <2>2. CASE tpm' = s /\ Aged(d)
    BY <2>1, <2>2, <1>2, <1>3 DEF Aged, Authorize
  <2> DEFINE h == [s EXCEPT !.gp.failedTries =
                                IF s.gp.recoveryTime = 0 THEN @ ELSE @ + 1,
                            !.go.selfHealTimer = s.gTime]
  <2>3. ASSUME tpm' = h, debt' = X(d) + s.gp.recoveryTime, rest' = Y(d)
        PROVE  TypeOK' /\ TimeInv'
    <3>1. RunInv(h, X(d) + s.gp.recoveryTime, Y(d), reported)
      BY ZenonT(40), <2>1, FailureRun
    <3>2. h.started
      BY <2>1 DEF TpmData
    <3> HIDE DEF h
    <3> QED BY SMTT(60), <2>3, <3>1, <3>2, <1>2, <1>3 DEF Authorize
  <2> QED BY <2>2, <2>3, <1>3 DEF Authorize, s
<1>4. ASSUME NEW d \in Nat, AuthorizeLockout(d) PROVE TypeOK' /\ TimeInv'
  <2> DEFINE s == Now(d)
  <2>1. RunInv(s, X(d), Y(d), reported) /\ s.started /\ s \in TpmData
    BY <1>1, <1>4 DEF AuthorizeLockout, Command, RunInv
  <2> HIDE DEF s
  <2>2. CASE tpm' = s /\ Aged(d)
    BY <2>1, <2>2, <1>2, <1>4 DEF Aged, AuthorizeLockout
  <2> DEFINE h == [s EXCEPT !.gp.enabled = FALSE,
                            !.nvEnabled = @ /\ s.gp.lockoutRecovery = 0,
                            !.go.lockoutTimer = s.gTime]
  <2>3. ASSUME tpm' = h, debt' = X(d), rest' = s.gp.lockoutRecovery
        PROVE  TypeOK' /\ TimeInv'
    <3>1. RunInv(h, X(d), s.gp.lockoutRecovery, reported)
      BY ZenonT(40), <2>1, LockoutFailureRun
    <3>2. h.started
      BY <2>1 DEF TpmData
    <3> HIDE DEF h
    <3> QED BY SMTT(60), <2>3, <3>1, <3>2, <1>2, <1>4 DEF AuthorizeLockout
  <2> QED BY <2>2, <2>3, <1>4 DEF AuthorizeLockout, s
<1>5. ASSUME NEW d \in Nat, DictionaryAttackLockReset(d) PROVE TypeOK' /\ TimeInv'
  <2> DEFINE s == Now(d)
             h == [s EXCEPT !.gp.failedTries = 0]
  <2>1. RunInv(s, X(d), Y(d), reported) /\ s.started /\ s \in TpmData
    BY <1>1, <1>5 DEF DictionaryAttackLockReset, Command, RunInv
  <2>2. tpm' = h /\ debt' = 0 /\ rest' = Y(d) /\ reported' = reported
    BY <1>5 DEF DictionaryAttackLockReset
  <2> HIDE DEF s
  <2>3. RunInv(h, 0, Y(d), reported) /\ h.started
    BY <2>1, ResetRun DEF TpmData
  <2> HIDE DEF h
  <2> QED BY <2>2, <2>3, <1>2, <1>5 DEF DictionaryAttackLockReset
<1>6. ASSUME NEW d \in Nat, NEW mt \in Nat, NEW rt \in Nat, NEW lr \in Nat,
             DictionaryAttackParameters(d, mt, rt, lr)
      PROVE  TypeOK' /\ TimeInv'
  <2> DEFINE s == Now(d)
             h == [s EXCEPT !.gp.maxTries = mt, !.gp.recoveryTime = rt,
                            !.gp.lockoutRecovery = lr]
             x == Less(s.gp.failedTries * rt, s.gTime - s.go.selfHealTimer)
  <2>1. RunInv(s, X(d), Y(d), reported) /\ s.started /\ s \in TpmData
    BY <1>1, <1>6 DEF DictionaryAttackParameters, Command, RunInv
  <2>2. /\ tpm' = h /\ debt' = x /\ rest' = 0 /\ reported' = reported /\ s.gp.enabled
    BY SMTT(60), <1>6 DEF DictionaryAttackParameters
  <2> HIDE DEF s
  <2>3. RunInv(h, x, 0, reported) /\ h.started
    BY ZenonT(40), <2>1, <2>2, ParametersRun DEF TpmData
  <2> HIDE DEF h, x
  <2> QED BY <2>2, <2>3, <1>2, <1>6 DEF DictionaryAttackParameters
<1>7. ASSUME NEW d \in Nat, Clear(d) PROVE TypeOK' /\ TimeInv'
  <2> DEFINE s == Now(d)
             g == [s.go EXCEPT !.clock = 0, !.clockSafe = TRUE]
             h == [s EXCEPT !.gp = [DAPreInstall(s.gp) EXCEPT !.orderly = "NONE"],
                            !.nvEnabled = TRUE, !.go = g, !.nvGo = g]
  <2>1. RunInv(s, X(d), Y(d), reported) /\ s.started /\ s \in TpmData
    BY <1>1, <1>7 DEF Clear, Command, RunInv
  <2>2. tpm' = h /\ debt' = 0 /\ rest' = 0 /\ reported' = 0
    BY SMTT(60), <1>7 DEF Clear
  <2> HIDE DEF s
  <2>3. RunInv(h, 0, 0, 0)
    BY ZenonT(40), <2>1, ClearRun
  <2>4. h.started
    BY SMTT(60), <2>1 DEF TpmData
  <2> HIDE DEF h
  <2> QED BY <2>2, <2>3, <2>4, <1>2, <1>7 DEF Clear
<1>8. ASSUME NEW d \in Nat, NEW t \in 0 .. MaxClock, ClockSet(d, t)
      PROVE  TypeOK' /\ TimeInv'
  <2> DEFINE s == Now(d)
             h == TimeClockUpdate(s, t)
  <2>1. RunInv(s, X(d), Y(d), reported) /\ s.started
    BY <1>1, <1>8 DEF ClockSet, Command
  <2>2. tpm' = h /\ debt' = X(d) /\ rest' = Y(d) /\ reported' = reported /\ t >= s.go.clock
    BY SMTT(60), <1>8 DEF ClockSet, Aged
  <2> HIDE DEF s
  <2>3. RunInv(h, X(d), Y(d), reported) /\ SameParameters(s, h)
    BY <2>1, <2>2, ClockRun
  <2> HIDE DEF h
  <2> QED BY <2>1, <2>2, <2>3, <1>2, <1>8 DEF ClockSet, SameParameters
<1>9. ASSUME NEW d \in Nat, ReadClock(d) PROVE TypeOK' /\ TimeInv'
  <2> DEFINE s == Now(d)
  <2>1. RunInv(s, X(d), Y(d), reported) /\ s.started
    BY <1>1, <1>9 DEF ReadClock, Command
  <2>2. tpm' = s /\ debt' = X(d) /\ rest' = Y(d) /\ reported' = Larger(reported, s.go.clock)
    BY <1>9 DEF ReadClock, Aged
  <2> HIDE DEF s
  <2>3. RunInv(s, X(d), Y(d), Larger(reported, s.go.clock))
    BY <2>1, ReportRun
  <2> QED BY <2>1, <2>2, <2>3, <1>2, <1>9 DEF ReadClock
<1>10. ASSUME NEW d \in Nat, ChangeState(d) PROVE TypeOK' /\ TimeInv'
  <2> DEFINE s == Now(d)
             h == [s EXCEPT !.gp.orderly = "NONE", !.started = TRUE]
  <2>1. RunInv(s, X(d), Y(d), reported) /\ s.started /\ s \in TpmData
    BY <1>1, <1>10 DEF ChangeState, Command, RunInv
  <2>2. /\ tpm' = [s EXCEPT !.gp.orderly = "NONE"]
        /\ debt' = X(d) /\ rest' = Y(d) /\ reported' = reported
    BY <1>10 DEF ChangeState, Aged
  <2> HIDE DEF s
  <2>3. tpm' = h /\ h.started
    BY ZenonT(40), <2>1, <2>2 DEF TpmData
  <2>4. RunInv(h, X(d), Y(d), reported)
    BY ZenonT(40), <2>1, OrderlyRun
  <2> HIDE DEF h
  <2> QED BY ZenonT(40), <2>2, <2>3, <2>4, <1>2, <1>10 DEF ChangeState
<1>11. ASSUME NEW d \in Nat, NEW type \in {"CLEAR", "STATE"}, Shutdown(d, type)
       PROVE  TypeOK' /\ TimeInv'
  <2> DEFINE s == Now(d)
             g == [s.go EXCEPT !.time = s.gTime]
             h == [s EXCEPT !.gp.orderly = type, !.go = g, !.nvGo = g]
  <2>1. RunInv(s, X(d), Y(d), reported) /\ s.started
    BY <1>1, <1>11 DEF Shutdown
  <2>2. /\ tpm' = h /\ debt' = X(d) /\ rest' = Y(d) /\ reported' = reported
        /\ used' = FALSE
    BY <1>11 DEF Shutdown, Aged
  <2> HIDE DEF s
  <2>3. /\ RunInv(h, X(d), Y(d), reported) /\ h.nvGo = h.go /\ h.go.time = h.gTime
        /\ h.started
    BY ZenonT(40), <2>1, ShutdownRun
  <2> HIDE DEF h
  <2> QED BY ZenonT(40), <2>2, <2>3, InvFromRun
<1>12. ASSUME NEW d \in Nat, Startup(d) PROVE TypeOK' /\ TimeInv'
  <2> DEFINE s == DACounters(DATimers(TimeStartup(tpm)))
             u == TimeUpdate(s, d)
             h == [u EXCEPT !.gp.orderly = "NONE", !.started = TRUE]
  <2>1. RunInv(s, debt, rest, reported) /\ s.gTime = 0
    BY <1>12, StartupRun DEF Startup
  <2>2. /\ s.go.clock + d <= MaxClock
        /\ d - s.go.selfHealTimer <= MaxElapsed /\ d - s.go.lockoutTimer <= MaxElapsed
        /\ tpm' = h /\ debt' = X(d) /\ rest' = Y(d) /\ reported' = reported
        /\ used' = used
    BY <1>12 DEF Startup, Aged
  <2> HIDE DEF s
  <2>2a. /\ s.gTime + d - s.go.selfHealTimer <= MaxElapsed
         /\ s.gTime + d - s.go.lockoutTimer <= MaxElapsed
    <3>1. s.go.selfHealTimer \in Int /\ s.go.lockoutTimer \in Int
      BY <2>1 DEF RunInv, TpmData, OrderlyData
    <3> QED BY <2>1, <2>2, <3>1
  <2>3. RunInv(u, X(d), Y(d), reported)
    BY <2>1, <2>2, <2>2a, TimeUpdateRun
  <2> HIDE DEF u
  <2>4. RunInv(h, X(d), Y(d), reported)
    BY ZenonT(40), <2>3, OrderlyRun
  <2>5. h.started /\ h.gp.orderly = "NONE"
    BY <2>3 DEF RunInv, TpmData, PersistentData
  <2> HIDE DEF h
  <2>6. used' \in BOOLEAN
    BY <2>2 DEF TypeOK
  <2> QED BY <2>2, <2>4, <2>5, <2>6, InvFromRun DEF Orderly
<1>13. CASE PowerLoss
  <2> DEFINE h == [tpm EXCEPT !.started = FALSE, !.gTime = 0, !.timerReset = TRUE,
                              !.go = tpm.nvGo, !.gp.enabled = tpm.nvEnabled]
  <2>1. /\ tpm' = h /\ used' = used /\ debt' = debt /\ rest' = rest
        /\ reported' = reported /\ tpm.started /\ (~Orderly(tpm.gp) \/ ~used)
    BY <1>13 DEF PowerLoss
  <2>2. RunInv(tpm, debt, rest, reported) /\ tpm \in TpmData /\ tpm.gp \in PersistentData
        /\ tpm.nvGo \in OrderlyData /\ tpm.nvEnabled \in BOOLEAN
    BY <2>1, RunFromInv DEF TypeOK, TpmData
  <2>3. /\ h.gp = [tpm.gp EXCEPT !.enabled = tpm.nvEnabled] /\ h.go = tpm.nvGo
        /\ h.nvGo = tpm.nvGo /\ h.nvEnabled = tpm.nvEnabled /\ h.gTime = 0
        /\ h.timerReset = TRUE /\ h.started = FALSE
        /\ h = [tpm EXCEPT !.started = FALSE, !.gTime = 0, !.timerReset = TRUE,
                           !.go = tpm.nvGo, !.gp = h.gp]
    BY <2>2 DEF TpmData
  <2> HIDE DEF h
  <2>4. /\ h.gp \in PersistentData /\ h.gp.enabled = tpm.nvEnabled
        /\ h.gp.recoveryTime = tpm.gp.recoveryTime /\ h.gp.failedTries = tpm.gp.failedTries
        /\ h.gp.lockoutRecovery = tpm.gp.lockoutRecovery /\ h.gp.orderly = tpm.gp.orderly
    BY <2>2, <2>3 DEF PersistentData
  <2>5. TypeOK'
    <3> DEFINE q == h.gp
    <3>1. q \in PersistentData
      BY <2>4
    <3>2. h = [tpm EXCEPT !.started = FALSE, !.gTime = 0, !.timerReset = TRUE,
                          !.go = tpm.nvGo, !.gp = q]
      BY <2>3
    <3> HIDE DEF q
    <3>3. h \in TpmData
      BY ZenonT(40), <2>2, <3>1, <3>2 DEF TpmData
    <3> QED BY <2>1, <3>3 DEF TypeOK
  <2>6. CASE Orderly(tpm.gp)
    <3>1. tpm.nvGo = tpm.go /\ tpm.go.time = tpm.gTime
      BY <2>1, <2>6 DEF TimeInv
    <3>2. /\ Carried(tpm.go.selfHealTimer)' = tpm.gTime - tpm.go.selfHealTimer
          /\ Carried(tpm.go.lockoutTimer)' = tpm.gTime - tpm.go.lockoutTimer
      BY <2>1, <2>3, <2>4, <2>6, <3>1 DEF Carried, Orderly
    <3>3. /\ (tpm.gp.enabled => tpm.nvEnabled)'
          /\ (~tpm.gp.enabled /\ tpm.gp.lockoutRecovery # 0 => ~tpm.nvEnabled)'
          /\ (tpm.timerReset = ~tpm.started)'
          /\ (~tpm.started => tpm.go = tpm.nvGo /\ tpm.gTime = 0)'
      BY ZenonT(40), <2>1, <2>3, <2>4
    <3>4. (tpm.gp.lockoutRecovery # 0 =>
            IF tpm.gp.enabled THEN rest = 0
            ELSE rest = 0 \/ rest + Carried(tpm.go.lockoutTimer) <= tpm.gp.lockoutRecovery)'
      BY SMTT(60), <2>1, <2>2, <2>4, <3>2 DEF RunInv, Covered
    <3> QED BY SMTT(60), <2>1, <2>2, <2>3, <2>4, <2>5, <3>1, <3>2, <3>3, <3>4
            DEF TimeInv, RunInv, Covered, Block
  <2>7. CASE ~Orderly(tpm.gp)
    <3>1. /\ Carried(tpm.go.selfHealTimer)' = 0
          /\ Carried(tpm.go.lockoutTimer)' = 0 /\ 0 \in 0 .. MaxElapsed
      BY <2>1, <2>3, <2>4, <2>7, ConstantsAssumption DEF Carried, Orderly
    <3>2. /\ (tpm.gp.enabled => tpm.nvEnabled)'
          /\ (~tpm.gp.enabled /\ tpm.gp.lockoutRecovery # 0 => ~tpm.nvEnabled)'
          /\ (tpm.timerReset = ~tpm.started)'
          /\ (~tpm.started => tpm.go = tpm.nvGo /\ tpm.gTime = 0)'
      BY ZenonT(40), <2>1, <2>3, <2>4
    <3>3. ASSUME tpm.gp.recoveryTime # 0, debt # 0
          PROVE  debt + 0 <= tpm.gp.failedTries * tpm.gp.recoveryTime
      <4> DEFINE n == tpm.gp.failedTries * tpm.gp.recoveryTime
                 e == tpm.gTime - tpm.go.selfHealTimer
      <4>1. debt + e <= n /\ e \in 0 .. MaxElapsed /\ debt \in Nat /\ n \in Int
        BY <2>2, <3>3 DEF RunInv, Covered, PersistentData
      <4> HIDE DEF n, e
      <4>2. debt + 0 <= n
        BY <4>1, ConstantsAssumption
      <4> QED BY SMTT(60), <4>2 DEF n
    <3>4. ASSUME tpm.gp.lockoutRecovery # 0, rest # 0
          PROVE  ~tpm.gp.enabled /\ ~tpm.nvEnabled /\ rest + 0 <= tpm.gp.lockoutRecovery
      <4> DEFINE e == tpm.gTime - tpm.go.lockoutTimer
                 n == tpm.gp.lockoutRecovery
      <4>1. /\ ~tpm.gp.enabled /\ ~tpm.nvEnabled
            /\ rest + e <= n /\ e \in 0 .. MaxElapsed /\ rest \in Nat /\ n \in Int
        BY <2>2, <3>4 DEF RunInv, Covered, PersistentData
      <4> HIDE DEF n, e
      <4>2. rest + 0 <= n
        BY <4>1, ConstantsAssumption
      <4> QED BY SMTT(60), <4>1, <4>2 DEF n
    <3>5. /\ Block(tpm.nvGo.clock)' = Block(tpm.go.clock)'
          /\ Block(reported)' <= Block(tpm.go.clock)'
      BY <2>1, <2>2, <2>3 DEF RunInv, Block
    <3>6. ~(tpm.started \/ Orderly(tpm.gp))'
      BY SMTT(60), <2>1, <2>3, <2>4, <2>7 DEF Orderly
    <3>7. (tpm.gp.recoveryTime # 0 =>
            debt = 0 \/ debt + Carried(tpm.go.selfHealTimer)
                          <= tpm.gp.failedTries * tpm.gp.recoveryTime)'
      BY <2>1, <2>4, <3>1, <3>3
    <3>8. (tpm.gp.lockoutRecovery # 0 =>
            IF tpm.gp.enabled THEN rest = 0
            ELSE rest = 0 \/ rest + Carried(tpm.go.lockoutTimer) <= tpm.gp.lockoutRecovery)'
      BY SMTT(60), <2>1, <2>4, <3>1, <3>4
    <3> QED BY SMTT(60), <2>5, <3>1, <3>2, <3>5, <3>6, <3>7, <3>8 DEF TimeInv
  <2> QED BY <2>6, <2>7
<1>14. CASE UNCHANGED vars
  BY <1>14 DEF vars, TypeOK, TimeInv, Carried
<1> QED
  BY <1>0, <1>3, <1>4, <1>5, <1>6, <1>7, <1>8, <1>9, <1>10, <1>11, <1>12, <1>13, <1>14,
     ConstantsAssumption DEF Next

-----------------------------------------------------------------------------
\* The data of the TPM starts in the invariant (TPM_Manufacture, _TPM_Init) and stays
\* there.
THEOREM TimeInvariant ==
    ASSUME ~PowerLossAfterUse, ~LockoutPolicy
    PROVE  Spec => [](TypeOK /\ TimeInv)
<1>1. Init => TypeOK /\ TimeInv
  <2> SUFFICES ASSUME Init PROVE TypeOK /\ TimeInv
    OBVIOUS
  <2>1. 0 \in 0 .. MaxClock /\ 0 \in 0 .. MaxElapsed
    BY ConstantsAssumption
  <2> DEFINE g == [clock |-> 0, clockSafe |-> TRUE, selfHealTimer |-> 0,
                   lockoutTimer |-> 0, time |-> 0]
             p == [failedTries |-> 0, maxTries |-> DefaultMaxTries,
                   recoveryTime |-> DefaultRecovery,
                   lockoutRecovery |-> DefaultLockoutRecovery, enabled |-> TRUE,
                   orderly |-> "CLEAR", timeEpoch |-> 0]
  <2>2a. g \in OrderlyData
    BY <2>1 DEF OrderlyData
  <2>2b. p \in PersistentData
    BY SMTT(60), ConstantsAssumption DEF PersistentData
  <2>2c. /\ tpm = [gp |-> p, go |-> g, nvGo |-> g, nvEnabled |-> TRUE, gTime |-> 0,
                   timerReset |-> TRUE, started |-> FALSE]
         /\ used = FALSE /\ debt = 0 /\ rest = 0 /\ reported = 0
    BY DEF Init
  <2>2d. g.selfHealTimer = 0 /\ g.lockoutTimer = 0 /\ g.time = 0 /\ g.clock = 0
         /\ p.enabled /\ p.orderly = "CLEAR"
    OBVIOUS
  <2> HIDE DEF g, p
  <2>2. TypeOK
    BY ZenonT(40), <2>1, <2>2a, <2>2b, <2>2c DEF TypeOK, TpmData
  <2>3. Block(0) \in Nat
    BY BlockMonotone
  <2>3a. /\ tpm.gp = p /\ tpm.go = g /\ tpm.nvGo = g /\ tpm.nvEnabled /\ tpm.gTime = 0
         /\ tpm.timerReset = TRUE /\ tpm.started = FALSE
    BY <2>2c
  <2>3c. tpm.gp.recoveryTime \in Nat /\ tpm.gp.lockoutRecovery \in Nat
    BY <2>2b, <2>3a DEF PersistentData
  <2>3b. Carried(tpm.go.selfHealTimer) = 0 /\ Carried(tpm.go.lockoutTimer) = 0
    BY <2>2d, <2>3a DEF Carried, Orderly
  <2>3d. /\ Block(tpm.nvGo.clock) = Block(tpm.go.clock)
         /\ Block(reported) <= Block(tpm.go.clock) /\ reported <= tpm.go.clock
    <3>1. reported = 0 /\ tpm.go.clock = 0 /\ tpm.nvGo.clock = 0
      BY <2>2c, <2>2d, <2>3a
    <3> QED BY <3>1, <2>3
  <2>4. TimeInv
    BY ZenonT(40), <2>1, <2>2c, <2>2d, <2>3a, <2>3b, <2>3d DEF TimeInv
  <2> QED BY <2>2, <2>4
<1>2. TypeOK /\ TimeInv /\ [Next]_vars => (TypeOK /\ TimeInv)'
  BY InvStep
<1> QED BY <1>1, <1>2, PTL DEF Spec

\* No power cycle makes the TPM forget failures faster than recoveryTime allows
\* (DASelfHeal, DAStartup).
THEOREM HealingIsPaidFor ==
    ASSUME ~PowerLossAfterUse, ~LockoutPolicy
    PROVE  Spec => []HealNotTooFast
<1>1. TypeOK /\ TimeInv => HealNotTooFast
  <2> SUFFICES ASSUME TypeOK, TimeInv, tpm.gp.recoveryTime # 0
               PROVE  debt <= tpm.gp.failedTries * tpm.gp.recoveryTime
    BY DEF HealNotTooFast
  <2> DEFINE n == tpm.gp.failedTries * tpm.gp.recoveryTime
             e == Carried(tpm.go.selfHealTimer)
  <2>1. n \in Nat
    BY SMTT(60) DEF TypeOK, TpmData, PersistentData
  <2>2. debt \in Nat /\ e \in 0 .. MaxElapsed /\ (debt = 0 \/ debt + e <= n)
    BY DEF TypeOK, TimeInv
  <2> HIDE DEF n, e
  <2>3. debt <= n
    BY SMTT(60), <2>1, <2>2, ConstantsAssumption
  <2> QED BY <2>3 DEF n
<1> QED BY <1>1, TimeInvariant, PTL

\* lockoutAuth is enabled only after it has rested for lockoutRecovery (DASelfHeal,
\* IncrementLockout, DAStartup).
THEOREM LockoutRests ==
    ASSUME ~PowerLossAfterUse, ~LockoutPolicy
    PROVE  Spec => []LockoutRecoveryServed
<1>1. TypeOK /\ TimeInv => LockoutRecoveryServed
  BY SMTT(60) DEF TimeInv, LockoutRecoveryServed
<1> QED BY <1>1, TimeInvariant, PTL

\* A safe clock has not gone back, an unsafe one by less than the interval of the NV
\* updates (TimeClockUpdate, TimeStartup).
THEOREM ClockIsSafe ==
    ASSUME ~PowerLossAfterUse, ~LockoutPolicy
    PROVE  Spec => []ClockSafe
<1>1. TypeOK /\ TimeInv => ClockSafe
  <2> SUFFICES ASSUME TypeOK, TimeInv, tpm.started
               PROVE  /\ tpm.go.clockSafe => tpm.go.clock >= reported
                      /\ Block(tpm.go.clock) >= Block(reported)
    BY DEF ClockSafe
  <2>1. tpm.go.clock \in Nat /\ reported \in Nat
    BY ConstantsAssumption DEF TypeOK, TpmData, OrderlyData
  <2>2. Block(tpm.go.clock) \in Nat /\ Block(reported) \in Nat
    BY <2>1, BlockMonotone
  <2> QED BY <2>1, <2>2 DEF TimeInv
<1> QED BY <1>1, TimeInvariant, PTL
=============================================================================
