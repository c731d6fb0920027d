------------------------- MODULE SessionProcessProofs -------------------------
(***************************************************************************)
(* The properties of module SessionProcess, for any entities, sessions and *)
(* requests.                                                               *)
(***************************************************************************)
EXTENDS SessionCommandProofs

-----------------------------------------------------------------------------
(* The checks of a session: what is known of a session area.               *)
LEMMA HashFields ==
    ASSUME NEW c, Typed(c), NEW alg \in HashAlgs
    PROVE  LET d == ComputeCpHash(c, alg)
           IN  /\ Typed(d) /\ Kept(c, d) /\ d.rc = c.rc /\ d.tpm = c.tpm /\ d.include = c.include
               /\ d.cpHash = c.cpHash \cup {alg} /\ d.compared = c.compared
               /\ d.tooLate = c.tooLate
  BY Zenon DEF ComputeCpHash, Typed, Kept, CommandRecords, Sessions

LEMMA IncludeFields ==
    ASSUME NEW c, Typed(c), NEW i \in Sessions(c), NEW b \in BOOLEAN
    PROVE  LET d == IncludeSet(c, i, b)
           IN  /\ Typed(d) /\ Kept(c, d) /\ d.rc = c.rc /\ d.tpm = c.tpm
               /\ d.include[i] = b /\ (\A j \in Sessions(c) : j # i => d.include[j] = c.include[j])
               /\ d.cpHash = c.cpHash /\ d.compared = c.compared /\ d.tooLate = c.tooLate
<1> DEFINE f == [c.include EXCEPT ![i] = b]
<1>0. Len(c.req.sessions) \in Nat
  BY RequestTyped DEF Typed
<1>1. f \in [Sessions(c) -> BOOLEAN] /\ f[i] = b /\ \A j \in Sessions(c) : j # i => f[j] = c.include[j]
  BY DEF Typed
<1>2. f \in Maps(BOOLEAN)
  BY <1>0, <1>1 DEF Maps, Sessions
<1>3. IncludeSet(c, i, b) = [c EXCEPT !.include = f]
  BY DEF IncludeSet, Typed, CommandRecords
<1> HIDE DEF f
<1> QED  BY Zenon, <1>1, <1>2, <1>3 DEF Typed, Kept, CommandRecords, Sessions

LEMMA ComparingFields ==
    ASSUME NEW c, Typed(c), NEW S \in SUBSET Places, NEW b \in BOOLEAN
    PROVE  LET d == ComparedSet(c, S, b)
           IN  /\ Typed(d) /\ Kept(c, d) /\ d.rc = c.rc /\ d.tpm = c.tpm /\ d.include = c.include
               /\ d.cpHash = c.cpHash /\ d.compared = S /\ d.tooLate = b
  BY Zenon DEF ComparedSet, Typed, Kept, CommandRecords, Sessions

LEMMA LockFields ==
    ASSUME NEW c, Typed(c)
    PROVE  LET d == Locked(c)
           IN  /\ Typed(d) /\ Kept(c, d) /\ Alike(c.tpm, d.tpm) /\ d.rc = "AUTH_FAIL"
               /\ d.include = c.include /\ d.cpHash = c.cpHash /\ d.compared = c.compared
               /\ d.tooLate = c.tooLate /\ d.tpm.failed = c.tpm.failed
               /\ ~d.tpm.lockOutAuthEnabled
<1> DEFINE t == [c.tpm EXCEPT !.lockOutAuthEnabled = FALSE]
<1>1. t \in TpmRecords /\ Alike(c.tpm, t) /\ t.failed = c.tpm.failed /\ ~t.lockOutAuthEnabled
  BY Zenon DEF Typed, CommandRecords, TpmRecords, Alike
<1>2. Locked(c) = WithTpm(c, t, "AUTH_FAIL")
  BY DEF Locked, WithTpm, Typed, CommandRecords
<1> HIDE DEF t
<1>3. "AUTH_FAIL" \in Codes
  BY DEF Codes
<1> QED  BY <1>1, <1>2, <1>3, TpmFields

LEMMA TryFields ==
    ASSUME NEW c, Typed(c)
    PROVE  LET d == Tried(c)
           IN  /\ Typed(d) /\ Kept(c, d) /\ Alike(c.tpm, d.tpm) /\ d.rc = "AUTH_FAIL"
               /\ d.include = c.include /\ d.cpHash = c.cpHash /\ d.compared = c.compared
               /\ d.tooLate = c.tooLate /\ d.tpm.failed = c.tpm.failed
               /\ d.tpm.failedTries # c.tpm.failedTries
<1> DEFINE t == [c.tpm EXCEPT !.failedTries = @ + 1]
<1>1. t \in TpmRecords /\ Alike(c.tpm, t) /\ t.failed = c.tpm.failed
      /\ t.failedTries # c.tpm.failedTries
  BY DEF Typed, CommandRecords, TpmRecords, Alike
<1>2. Tried(c) = WithTpm(c, t, "AUTH_FAIL")
  BY DEF Tried, WithTpm, Typed, CommandRecords
<1> HIDE DEF t
<1>3. "AUTH_FAIL" \in Codes
  BY DEF Codes
<1> QED  BY <1>1, <1>2, <1>3, TpmFields

-----------------------------------------------------------------------------
(* Dictionary attack protection.                                           *)
\* The TPM is not locked out for what the i-th session has to do with.
Guarded(c, i) ==
    LET pw == c.req.sessions[i].type = "PW"
        x == SessionOf(c, i)
    IN  /\ (pw \/ c.include[i]) /\ ~IsDAExempted(c.assoc[i]) => ~LockedOut(c.tpm, c.assoc[i])
        /\ ~pw /\ ~IsDAExempted(x.bind) => ~LockedOut(c.tpm, x.bind)
        /\ ~pw /\ ~c.include[i] /\ c.assoc[i] = "lockout" => x.bind = "lockout"

LEMMA SessionTyped ==
    ASSUME NEW c, Typed(c), TpmInv(c.tpm), Present(c),
           NEW i \in Sessions(c), c.req.sessions[i].type # "PW"
    PROVE  /\ SessionInv(SessionOf(c, i)) /\ SessionOf(c, i).type = c.req.sessions[i].type
           /\ SessionOf(c, i) # NoSession /\ SessionOf(c, i).authHashAlg \in HashAlgs
  BY Zenon, AreaTyped DEF Typed, TpmInv, Present, SessionOf, SessionInv, SessionRecords

\* Nothing is compared too late: history says so when the guards have passed.
LEMMA ComparingGuarded ==
    ASSUME NEW c, Typed(c), TpmInv(c.tpm), Present(c), NEW i \in Sessions(c), Guarded(c, i)
    PROVE  LET d == Comparing(c, i)
           IN  /\ Typed(d) /\ Kept(c, d) /\ d.rc = c.rc /\ d.tpm = c.tpm /\ d.include = c.include
               /\ d.cpHash = c.cpHash /\ d.compared = Protected(c, i) /\ d.tooLate = c.tooLate
<1>1. Protected(c, i) \subseteq Places
  <2>1. c.assoc[i] \in Places
    BY DEF Typed
  <2>2. c.req.sessions[i].type # "PW" => SessionOf(c, i).bind \in Places
    BY SessionTyped DEF SessionInv, SessionRecords, Places
  <2> QED  BY <2>1, <2>2 DEF Protected, IsPW
<1>2. ~ \E e \in Protected(c, i) : LockedOut(c.tpm, e)
  BY DEF Protected, Guarded, IsPW
<1>3. c.tooLate \in BOOLEAN
  BY DEF Typed, CommandRecords
<1>4. Comparing(c, i) = ComparedSet(c, Protected(c, i), c.tooLate)
  BY Zenon, <1>2, <1>3 DEF Comparing, ComparedSet
<1> QED  BY <1>1, <1>3, <1>4, ComparingFields

\* A failed comparison is counted when it tells about a protected authValue, and no
\* assertion fails.
LEMMA Counted ==
    ASSUME NEW c, Typed(c), TpmInv(c.tpm), Present(c), ~c.tpm.failed,
           NEW i \in Sessions(c), Guarded(c, i), c.compared = Protected(c, i)
    PROVE  LET d == IncrementLockout(c, i)
           IN  /\ Typed(d) /\ Kept(c, d) /\ Alike(c.tpm, d.tpm)
               /\ d.rc \in {"BAD_AUTH", "AUTH_FAIL"} /\ ~Uncounted(c.tpm, d)
               /\ d.include = c.include /\ d.cpHash = c.cpHash
               /\ d.tooLate = c.tooLate /\ ~d.tpm.failed
<1> DEFINE pw == IsPW(c.req.sessions[i])
           x == SessionOf(c, i)
           handle == IF ~pw /\ x.isLockoutBound THEN "lockout" ELSE c.assoc[i]
           uncounted == /\ ~pw => ~x.isDaBound
                        /\ IsDAExempted(handle) \/ (~pw /\ ~c.include[i])
           d == IncrementLockout(c, i)
<1>1. ~pw => x.isDaBound = ~IsDAExempted(x.bind) /\ x.isLockoutBound = (x.bind = "lockout")
  BY SessionTyped DEF SessionInv, BindingInv, IsPW
<1>2. CASE uncounted
  <2>1. d = Refuse(c, "BAD_AUTH")
    BY <1>2 DEF IncrementLockout
  <2>2. Protected(c, i) = {}
    BY <1>1, <1>2, Exempt DEF Protected
  <2>3. "BAD_AUTH" \in Codes
    BY DEF Codes
  <2> QED  BY <2>1, <2>2, <2>3, RefuseFields DEF Uncounted, Alike
<1>3. CASE ~uncounted /\ handle = "lockout"
  <2>1. c.tpm.lockOutAuthEnabled
    BY Zenon, <1>1, <1>3, Exempt DEF Guarded, LockedOut, IsPW
  <2>2. d = Locked(c)
    BY <1>3, <2>1 DEF IncrementLockout, Locked
  <2> QED  BY <2>2, LockFields DEF Uncounted
<1>4. CASE ~uncounted /\ handle # "lockout"
  <2>1. d = Tried(c)
    BY <1>4 DEF IncrementLockout, Tried
  <2> QED  BY <2>1, TryFields DEF Uncounted
<1> QED  BY <1>2, <1>3, <1>4

-----------------------------------------------------------------------------
(* The checks of one session.                                              *)
\* What a check may do to a command that was accepted so far.
Outcome(c, d, i) ==
    /\ Typed(d) /\ Kept(c, d) /\ Alike(c.tpm, d.tpm) /\ ~d.tpm.failed
    /\ \A j \in Sessions(c) : j # i => d.include[j] = c.include[j]
    /\ c.cpHash \subseteq d.cpHash /\ d.tooLate = c.tooLate /\ ~Uncounted(c.tpm, d)
    /\ d.rc = "SUCCESS" => d.tpm = c.tpm

\* What it may do before anything is compared.
Prepared(c, d, i) ==
    /\ Typed(d) /\ Kept(c, d) /\ d.tpm = c.tpm /\ d.rc = c.rc
    /\ \A j \in Sessions(c) : j # i => d.include[j] = c.include[j]
    /\ c.cpHash \subseteq d.cpHash /\ d.tooLate = c.tooLate

LEMMA RefusedOutcome ==
    ASSUME NEW c, Typed(c), ~c.tpm.failed, NEW i, NEW d, Refused(c, d)
    PROVE  Outcome(c, d, i) /\ d.rc # "SUCCESS"
<1>1. PICK rc \in Plain : d = Refuse(c, rc)
  BY DEF Refused
<1>2. rc \in Codes /\ rc \notin {"SUCCESS", "BAD_AUTH", "AUTH_FAIL"}
  BY DEF Codes, Plain
<1> QED  BY <1>1, <1>2, RefuseFields DEF Outcome, Alike, Uncounted

LEMMA PreparedOutcome ==
    ASSUME NEW c, NEW e, NEW d, NEW i, Prepared(c, e, i), Outcome(e, d, i)
    PROVE  Outcome(c, d, i)
  BY DEF Prepared, Outcome, Kept, Alike, Uncounted, Sessions

LEMMA HashedPrepared ==
    ASSUME NEW c, Typed(c), TpmInv(c.tpm), Present(c), NEW i \in Sessions(c),
           c.req.sessions[i].type # "PW"
    PROVE  LET d == ComputeCpHash(c, SessionOf(c, i).authHashAlg)
           IN  /\ Prepared(c, d, i) /\ d.include = c.include /\ d.compared = c.compared
               /\ SessionOf(c, i).authHashAlg \in d.cpHash
  BY SessionTyped, HashFields DEF Prepared

\* The HMAC of a session is right, or the failure is counted.
LEMMA HmacOutcome ==
    ASSUME NEW c, Typed(c), TpmInv(c.tpm), Present(c), ~c.tpm.failed, c.rc = "SUCCESS",
           NEW i \in Sessions(c), c.req.sessions[i].type # "PW", Guarded(c, i)
    PROVE  LET d == CheckSessionHMAC(Comparing(c, i), i)
           IN  Outcome(c, d, i) /\ (d.rc = "SUCCESS" => SameHMAC(c, i))
<1> DEFINE x == Comparing(c, i)
           y == IF c.req.sessions[i].hmac = "none" THEN x
                ELSE ComputeCpHash(x, SessionOf(c, i).authHashAlg)
           d == CheckSessionHMAC(x, i)
<1>1. /\ Typed(x) /\ Kept(c, x) /\ x.rc = "SUCCESS" /\ x.tpm = c.tpm /\ x.include = c.include
      /\ x.cpHash = c.cpHash /\ x.compared = Protected(c, i) /\ x.tooLate = c.tooLate
  BY Zenon, ComparingGuarded
<1> HIDE DEF x
<1>2. /\ Typed(y) /\ Kept(c, y) /\ y.rc = "SUCCESS" /\ y.tpm = c.tpm /\ y.include = c.include
      /\ c.cpHash \subseteq y.cpHash /\ y.compared = Protected(c, i) /\ y.tooLate = c.tooLate
  BY <1>1, SessionTyped, HashFields DEF Kept
<1>3. d = IF SameHMAC(y, i) THEN y ELSE IncrementLockout(y, i)
  BY <1>1 DEF CheckSessionHMAC, Kept, SessionOf
<1> HIDE DEF y, d
<1>4. SameHMAC(y, i) = SameHMAC(c, i) /\ Protected(y, i) = Protected(c, i)
  BY Zenon, <1>2 DEF SameHMAC, Protected, SessionOf, EntityGetAuthValue, Kept
<1>5. TpmInv(y.tpm) /\ Present(y) /\ i \in Sessions(y) /\ Guarded(y, i) /\ ~y.tpm.failed
  BY Zenon, <1>2 DEF Present, Guarded, SessionOf, Sessions, Kept
<1>6. CASE SameHMAC(y, i)
  <2>1. d = y
    BY <1>3, <1>6
  <2> QED  BY <2>1, <1>2, <1>4, <1>6 DEF Outcome, Alike, Uncounted, d, x
<1>7. CASE ~SameHMAC(y, i)
  <2>1. d = IncrementLockout(y, i)
    BY Zenon, <1>3, <1>7
  <2>2. /\ Typed(d) /\ Kept(y, d) /\ Alike(y.tpm, d.tpm)
        /\ d.rc \in {"BAD_AUTH", "AUTH_FAIL"} /\ ~Uncounted(y.tpm, d)
        /\ d.include = y.include /\ d.cpHash = y.cpHash
        /\ d.tooLate = y.tooLate /\ ~d.tpm.failed
    BY <2>1, <1>2, <1>4, <1>5, Counted
  <2>3. Outcome(c, d, i) /\ d.rc # "SUCCESS"
    BY <2>2, <1>2 DEF Outcome, Kept
  <2> QED  BY <2>3 DEF d, x
<1> QED  BY <1>6, <1>7

\* So is a password.
LEMMA PwOutcome ==
    ASSUME NEW c, Typed(c), TpmInv(c.tpm), Present(c), ~c.tpm.failed, c.rc = "SUCCESS",
           NEW i \in Sessions(c), Guarded(c, i)
    PROVE  LET d == CheckPWAuthSession(Comparing(c, i), i)
           IN  /\ Outcome(c, d, i)
               /\ d.rc = "SUCCESS" =>
                    c.req.sessions[i].auth = EntityGetAuthValue(c.tpm, c.assoc[i])
<1> DEFINE y == Comparing(c, i)
           d == CheckPWAuthSession(y, i)
           right == c.req.sessions[i].auth = EntityGetAuthValue(c.tpm, c.assoc[i])
<1>1. /\ Typed(y) /\ Kept(c, y) /\ y.rc = "SUCCESS" /\ y.tpm = c.tpm /\ y.include = c.include
      /\ y.cpHash = c.cpHash /\ y.compared = Protected(c, i) /\ y.tooLate = c.tooLate
  BY ComparingGuarded
<1> HIDE DEF y
<1>2. d = IF right THEN y ELSE IncrementLockout(y, i)
  BY <1>1 DEF CheckPWAuthSession, Kept
<1>3. TpmInv(y.tpm) /\ Present(y) /\ i \in Sessions(y) /\ Guarded(y, i) /\ ~y.tpm.failed
      /\ Protected(y, i) = Protected(c, i)
  BY Zenon, <1>1 DEF Present, Guarded, SessionOf, Sessions, Kept, Protected
<1> HIDE DEF d
<1>4. CASE right
  <2> QED  BY Zenon, <1>2, <1>4, <1>1 DEF Outcome, Alike, Uncounted, d, y
<1>5. CASE ~right
  <2>1. d = IncrementLockout(y, i)
    BY <1>2, <1>5
  <2>2. /\ Typed(d) /\ Kept(y, d) /\ Alike(y.tpm, d.tpm)
        /\ d.rc \in {"BAD_AUTH", "AUTH_FAIL"} /\ ~Uncounted(y.tpm, d)
        /\ d.include = y.include /\ d.cpHash = y.cpHash
        /\ d.tooLate = y.tooLate /\ ~d.tpm.failed
    BY Zenon, <2>1, <1>1, <1>3, Counted
  <2>3. Outcome(c, d, i) /\ d.rc # "SUCCESS"
    BY <2>2, <1>1 DEF Outcome, Kept
  <2> QED  BY <2>3 DEF d, y
<1> QED  BY <1>4, <1>5

\* What the i-th session has shown when it is accepted.
Proven(c, i) ==
    i \in Authorising(c) =>
        IF c.req.sessions[i].type = "POLICY" THEN Satisfies(c, i) ELSE Knows(c, i)
Old(c, i) ==
    /\ ~IsPW(c.req.sessions[i]) /\ c.req.sessions[i].hmac = "old"
    /\ ~(i \in Authorising(c) /\ SessionOf(c, i).needs = "password")
Evident(c, i) == Proven(c, i) /\ ~Old(c, i)

\* ParseSessionBuffer has found the sessions and the handles that they authorise.
Ready(c) ==
    /\ Typed(c) /\ TpmInv(c.tpm) /\ Fresh(c.tpm) /\ Present(c) /\ ~c.tpm.failed
    /\ \A i \in Sessions(c) :
            c.assoc[i] = IF i \in Authorising(c) THEN c.req.handles[i] ELSE Nothing

LEMMA FreshSession ==
    ASSUME NEW c, Ready(c), NEW i \in Sessions(c), c.req.sessions[i].type # "PW"
    PROVE  SessionOf(c, i).fresh
  BY Zenon, AreaTyped DEF Ready, Typed, Fresh, Present, SessionOf

\* An HMAC shows the authValue of the entity, or the one that the session is bound to.
LEMMA HmacShows ==
    ASSUME NEW c, Ready(c), NEW i \in Sessions(c), c.req.sessions[i].type # "PW", SameHMAC(c, i)
    PROVE  /\ c.req.sessions[i].hmac # "old"
           /\ c.include[i] => c.req.sessions[i].auth = EntityGetAuthValue(c.tpm, c.assoc[i])
           /\ ~c.include[i] => c.req.sessions[i].bindAuth = SessionOf(c, i).sessionKey
                               \/ SessionOf(c, i).sessionKey = Nothing
<1>1. SessionOf(c, i).fresh
  BY Zenon, FreshSession
<1>2. c.req.sessions[i].hmac = "none" => c.req.sessions[i].auth = EmptyAuth
  BY AreaTyped DEF Ready, Typed
<1> QED  BY <1>1, <1>2 DEF SameHMAC

LEMMA AssertionsDiffer ==
    ASSUME NEW code
    PROVE  TheAuthValue # TheCommand(code)
<1>1. Len(TheAuthValue) = 1 /\ Len(TheCommand(code)) = 2
  BY Zenon DEF TheAuthValue, TheCommand
<1> QED  BY <1>1

\* The policy of the session is that of the entity, so its assertions hold.
LEMMA PolicyHolds ==
    ASSUME NEW c, Ready(c), NEW i \in Sessions(c), i \in Authorising(c),
           c.req.sessions[i].type = "POLICY",
           SessionOf(c, i).policyDigest = Public[c.assoc[i]].policy,
           SessionOf(c, i).commandCode \in {Nothing, c.req.command},
           SessionOf(c, i).needs # "none" => Knows(c, i)
    PROVE  Satisfies(c, i)
<1> DEFINE x == SessionOf(c, i)
<1>1. PolicyInv(x)
  BY SessionTyped DEF Ready, SessionInv
<1>2. c.assoc[i] = c.req.handles[i]
  BY Zenon DEF Ready
<1> HIDE DEF x
<1>3. ASSUME NEW n \in 1..Len(x.policyDigest)
      PROVE  IF x.policyDigest[n] = TheAuthValue THEN Knows(c, i)
             ELSE x.policyDigest[n] = TheCommand(c.req.command)
  BY <1>1, AssertionsDiffer DEF PolicyInv, x
<1> QED  BY <1>2, <1>3 DEF Satisfies, x

\* A session bound to the entity was started with its authValue.
LEMMA BoundShows ==
    ASSUME NEW c, Ready(c), NEW i \in Sessions(c), i \in Authorising(c),
           c.req.sessions[i].type = "HMAC", c.include[i] = IncludesAuth(c, i), ~c.include[i]
    PROVE  /\ SessionOf(c, i).bind = c.assoc[i] /\ SessionOf(c, i).sessionKey # Nothing
           /\ SessionOf(c, i).sessionKey = EntityGetAuthValue(c.tpm, c.assoc[i])
<1>1. /\ BindingInv(SessionOf(c, i)) /\ SessionOf(c, i).type = "HMAC"
  BY SessionTyped DEF Ready, SessionInv
<1>2. SessionOf(c, i).isBound
      /\ SessionOf(c, i).boundEntity = SessionComputeBoundEntity(c.tpm, c.assoc[i])
  BY Zenon, <1>1 DEF IncludesAuth
<1>3. /\ SessionOf(c, i).sessionKey # Nothing
      /\ SessionOf(c, i).boundEntity = <<SessionOf(c, i).bind, SessionOf(c, i).sessionKey>>
  BY <1>1, <1>2 DEF BindingInv
<1> QED  BY <1>2, <1>3 DEF SessionComputeBoundEntity

LEMMA ComparedOutcome ==
    ASSUME NEW c, Ready(c), c.rc = "SUCCESS", NEW i \in Sessions(c), i \in Authorising(c),
           Guarded(c, i),
           c.req.sessions[i].type # "PW" => c.include[i] = IncludesAuth(c, i),
           c.req.sessions[i].type = "POLICY" =>
                /\ SessionOf(c, i).policyDigest = Public[c.assoc[i]].policy
                /\ SessionOf(c, i).commandCode \in {Nothing, c.req.command}
    PROVE  LET d == Compared(c, i)
           IN  Outcome(c, d, i) /\ (d.rc = "SUCCESS" => Evident(c, i))
<1> DEFINE s == c.req.sessions[i]
           x == SessionOf(c, i)
           d == Compared(c, i)
           right == s.auth = EntityGetAuthValue(c.tpm, c.assoc[i])
<1>1. c.assoc[i] = c.req.handles[i]
  BY DEF Ready
<1>2. right => Knows(c, i)
  BY Zenon, <1>1 DEF Knows
<1>3. s.type \in {"PW", "HMAC", "POLICY"}
  BY Zenon, AreaTyped DEF Ready, Typed
<1>4. CASE IsPW(s) \/ x.needs = "password"
  <2>1. d = CheckPWAuthSession(Comparing(c, i), i)
    BY Zenon, <1>4 DEF Compared
  <2>2. Outcome(c, d, i) /\ (d.rc = "SUCCESS" => right)
    BY Zenon, <2>1, PwOutcome DEF Ready
  <2>3. right => Proven(c, i)
    BY <1>2, <1>3, PolicyHolds DEF Proven
  <2>4. ~Old(c, i)
    BY <1>4 DEF Old
  <2> QED  BY <2>2, <2>3, <2>4 DEF Evident
<1>5. CASE ~(IsPW(s) \/ x.needs = "password")
  <2>1. d = CheckSessionHMAC(Comparing(c, i), i)
    BY <1>5 DEF Compared
  <2>2. s.type # "PW"
    BY Zenon, <1>5 DEF IsPW
  <2>3. Outcome(c, d, i) /\ (d.rc = "SUCCESS" => SameHMAC(c, i))
    BY Zenon, <2>1, <2>2, HmacOutcome DEF Ready
  <2>4. ASSUME SameHMAC(c, i) PROVE Evident(c, i)
    <3>1. /\ s.hmac # "old" /\ (c.include[i] => right)
          /\ ~c.include[i] => s.bindAuth = x.sessionKey \/ x.sessionKey = Nothing
      BY <2>2, <2>4, HmacShows
    <3>2. CASE s.type = "HMAC"
      <4>1. Knows(c, i)
        BY Zenon, <1>1, <1>2, <3>1, <3>2, BoundShows DEF Knows
      <4> QED  BY Zenon, <3>1, <3>2, <4>1 DEF Evident, Proven, Old
    <3>3. CASE s.type = "POLICY"
      <4>1. x.type = "POLICY"
        BY <2>2, <3>3, SessionTyped DEF Ready
      <4>2. x.needs # "none" => Knows(c, i)
        BY Zenon, <1>2, <2>2, <3>1, <4>1 DEF IncludesAuth
      <4>3. Satisfies(c, i)
        BY <3>3, <4>2, PolicyHolds
      <4> QED  BY Zenon, <3>1, <3>3, <4>3 DEF Evident, Proven, Old
    <3> QED  BY Zenon, <1>3, <2>2, <3>2, <3>3
  <2> QED  BY <2>3, <2>4
<1> QED  BY <1>4, <1>5

LEMMA CheckCases ==
    ASSUME NEW c, c.rc = "SUCCESS", NEW condition \in BOOLEAN, NEW rc \in Plain
    PROVE  \/ condition /\ Check(c, condition, rc) = c
           \/ ~condition /\ Check(c, condition, rc) = Refuse(c, rc)
                         /\ Refused(c, Check(c, condition, rc))
  BY DEF Check, Refused

LEMMA RefusedRc ==
    ASSUME NEW c, Typed(c), NEW d, Refused(c, d)
    PROVE  d.rc # "SUCCESS"
<1>1. PICK rc \in Plain : d = Refuse(c, rc)
  BY DEF Refused
<1>2. rc \in Codes /\ rc # "SUCCESS"
  BY DEF Codes, Plain
<1> QED  BY <1>1, <1>2, RefuseFields

LEMMA LockedOutCases ==
    ASSUME NEW c, Typed(c), c.rc = "SUCCESS", NEW e
    PROVE  \/ ~LockedOut(c.tpm, e) /\ CheckLockedOut(c, e = "lockout") = c
           \/ Refused(c, CheckLockedOut(c, e = "lockout"))
<1>1. c.tpm.failedTries \in Nat /\ MaxTries \in Nat /\ c.tpm.lockOutAuthEnabled \in BOOLEAN
  BY BoundsAssumption DEF Typed, CommandRecords, TpmRecords
<1>2. "LOCKOUT" \in Plain
  BY Zenon DEF Plain
<1> QED  BY <1>1, <1>2 DEF CheckLockedOut, LockedOut, Check, Refused

\* Started: a password session authorises, and the TPM is not locked out for the entity
\* that a session is bound to.
LEMMA StartedCases ==
    ASSUME NEW c, Ready(c), c.rc = "SUCCESS", NEW i \in Sessions(c)
    PROVE  LET d == Started(c, i)
               x == SessionOf(c, i)
           IN  \/ /\ d = c
                  /\ c.req.sessions[i].type = "PW" => c.assoc[i] # Nothing
                  /\ c.req.sessions[i].type # "PW" /\ ~IsDAExempted(x.bind) => ~LockedOut(c.tpm, x.bind)
               \/ Refused(c, d)
<1> DEFINE x == SessionOf(c, i)
           d == Started(c, i)
           y == Check(c, ~x.trial, "ATTRIBUTES")
<1>0. {"ATTRIBUTES", "HANDLE", "LOCKOUT"} \subseteq Plain /\ Typed(c)
  BY DEF Plain, Ready
<1>1. CASE c.req.sessions[i].type = "PW"
  BY Zenon, <1>0, <1>1 DEF Started, Check, Refused, IsPW
<1>2. CASE c.req.sessions[i].type # "PW"
  <2>1. /\ x.isDaBound = ~IsDAExempted(x.bind) /\ x.isLockoutBound = (x.bind = "lockout")
    BY <1>2, SessionTyped DEF Ready, SessionInv, BindingInv
  <2>2. y = c \/ Refused(c, y)
    BY <1>0 DEF Check, Refused
  <2>3. d = IF x.isDaBound THEN CheckLockedOut(y, x.bind = "lockout") ELSE y
    BY <1>2, <2>1 DEF Started, IsPW
  <2> HIDE DEF x, y, d
  <2>4. CASE Refused(c, y)
    <3>1. y.rc # "SUCCESS"
      BY <1>0, <2>4, RefusedRc
    <3>2. d = y
      BY Zenon, <2>3, <3>1 DEF CheckLockedOut, Check
    <3> QED  BY <2>4, <3>2 DEF d
  <2>5. CASE y = c
    <3>1. CASE x.isDaBound
      BY <1>0, <1>2, <2>3, <2>5, <3>1, LockedOutCases DEF d, x
    <3>2. CASE ~x.isDaBound
      BY Zenon, <1>2, <2>1, <2>3, <2>5, <3>2 DEF d, x
    <3> QED  BY <3>1, <3>2
  <2> QED  BY Zenon, <2>2, <2>4, <2>5
<1> QED  BY <1>1, <1>2

\* A change of includeAuth or cpHash leaves the command ready.
LEMMA PreparedReady ==
    ASSUME NEW c, Ready(c), NEW d, NEW i, Prepared(c, d, i)
    PROVE  /\ Ready(d) /\ Sessions(d) = Sessions(c) /\ Authorising(d) = Authorising(c)
           /\ \A j : SessionOf(d, j) = SessionOf(c, j) /\ (Evident(d, j) <=> Evident(c, j))
<1>1. d.tpm = c.tpm /\ d.req = c.req /\ d.attrs = c.attrs /\ d.assoc = c.assoc /\ Typed(d)
  BY DEF Prepared, Kept
<1>2. Sessions(d) = Sessions(c) /\ Authorising(d) = Authorising(c)
      /\ \A j : SessionOf(d, j) = SessionOf(c, j)
  BY <1>1 DEF Sessions, Authorising, Role, SessionOf
<1>3. \A j : (Satisfies(d, j) <=> Satisfies(c, j)) /\ (Knows(d, j) <=> Knows(c, j))
  BY Zenon, <1>1, <1>2 DEF Satisfies, Knows
<1>4. \A j : Evident(d, j) <=> Evident(c, j)
  BY Zenon, <1>1, <1>2, <1>3 DEF Evident, Proven, Old
<1>5. Ready(d)
  BY <1>1, <1>2 DEF Ready, Present
<1> QED  BY <1>2, <1>4, <1>5

LEMMA IncludingPrepared ==
    ASSUME NEW c, Ready(c), c.rc = "SUCCESS", NEW i \in Sessions(c)
    PROVE  LET d == Including(c, i)
           IN  Prepared(c, d, i) /\ (c.req.sessions[i].type # "PW" => d.include[i] = IncludesAuth(d, i))
<1>0. Typed(c)
  BY DEF Ready
<1>1. CASE c.req.sessions[i].type = "PW"
  BY <1>0, <1>1 DEF Including, IsPW, Prepared, Kept
<1>2. CASE c.req.sessions[i].type # "PW"
  <2>1. IncludesAuth(c, i) \in BOOLEAN
    BY Zenon DEF IncludesAuth
  <2>2. Including(c, i) = IncludeSet(c, i, IncludesAuth(c, i))
    BY Zenon, <1>2 DEF Including, IsPW, IncludeSet
  <2>3. Prepared(c, Including(c, i), i) /\ Including(c, i).include[i] = IncludesAuth(c, i)
    BY <1>0, <2>1, <2>2, IncludeFields DEF Prepared
  <2>4. IncludesAuth(Including(c, i), i) = IncludesAuth(c, i)
    BY Zenon, <2>3 DEF Prepared, Kept, IncludesAuth, SessionOf, SessionComputeBoundEntity, EntityGetAuthValue
  <2> QED  BY <2>3, <2>4
<1> QED  BY <1>1, <1>2

LEMMA PermittedCases ==
    ASSUME NEW c, Ready(c), c.rc = "SUCCESS", NEW i \in Sessions(c)
    PROVE  LET d == Permitted(c, i)
               x == SessionOf(c, i)
           IN  \/ /\ d = c
                  /\ c.req.sessions[i].type = "POLICY" =>
                        /\ IsAuthPolicyAvailable(c, i)
                        /\ x.policyDigest = Public[c.assoc[i]].policy
                        /\ x.commandCode \in {Nothing, c.req.command}
               \/ Refused(c, d)
<1> DEFINE d == Permitted(c, i)
           x == SessionOf(c, i)
           agrees == /\ Public[c.assoc[i]].policy # <<>>
                     /\ x.policyDigest = Public[c.assoc[i]].policy
                     /\ x.commandCode = Nothing => Role(c, i) \notin {"AUTH_ADMIN", "AUTH_DUP"}
<1>0. {"AUTH_UNAVAILABLE", "POLICY_FAIL", "POLICY_CC", "AUTH_TYPE"} \subseteq Plain /\ Typed(c)
  BY Zenon DEF Plain, Ready
<1>1. CASE c.req.sessions[i].type = "POLICY"
  <2> DEFINE y == Check(c, IsAuthPolicyAvailable(c, i), "AUTH_UNAVAILABLE")
             z == Check(c, agrees, "POLICY_FAIL")
  <2>1. (y = c /\ IsAuthPolicyAvailable(c, i)) \/ Refused(c, y)
    BY <1>0 DEF Check, Refused
  <2>2. d = IF y.rc = "SUCCESS" THEN CheckPolicyAuthSession(y, i) ELSE y
    BY <1>1 DEF Permitted, Then
  <2>3. Refused(c, y) => y.rc # "SUCCESS"
    BY <1>0, RefusedRc
  <2>4. (z = c /\ agrees) \/ Refused(c, z)
    BY <1>0 DEF Check, Refused
  <2>5. Refused(c, z) => z.rc # "SUCCESS"
    BY Zenon, <1>0, RefusedRc
  <2>6. CheckPolicyAuthSession(c, i) = Check(z, x.commandCode \in {Nothing, c.req.command}, "POLICY_CC")
    BY DEF CheckPolicyAuthSession
  <2> HIDE DEF y, z, d
  <2>7. \/ CheckPolicyAuthSession(c, i) = c /\ agrees /\ x.commandCode \in {Nothing, c.req.command}
        \/ Refused(c, CheckPolicyAuthSession(c, i))
    BY <1>0, <2>4, <2>5, <2>6 DEF Check, Refused
  <2> QED  BY <1>1, <2>1, <2>2, <2>3, <2>7 DEF d
<1>2. CASE c.req.sessions[i].type # "POLICY"
  <2> DEFINE y == Check(c, ~IsPolicySessionRequired(c, i), "AUTH_TYPE")
  <2>1. y = c \/ Refused(c, y)
    BY <1>0 DEF Check, Refused
  <2>2. Refused(c, y) => y.rc # "SUCCESS"
    BY <1>0, RefusedRc
  <2>3. d = Check(y, IsAuthValueAvailable(c, i), "AUTH_UNAVAILABLE")
    BY <1>2 DEF Permitted
  <2> HIDE DEF y, d
  <2> QED  BY <1>0, <1>2, <2>1, <2>2, <2>3 DEF Check, Refused, d
<1> QED  BY <1>1, <1>2

\* lockoutAuth has no policy, and only a session bound to it leaves it out of the HMAC.
LEMMA LockoutIncluded ==
    ASSUME NEW c, Ready(c), NEW i \in Sessions(c), i \in Authorising(c),
           c.req.sessions[i].type # "PW", c.include[i] = IncludesAuth(c, i), ~c.include[i],
           c.req.sessions[i].type = "POLICY" => IsAuthPolicyAvailable(c, i),
           c.assoc[i] = "lockout"
    PROVE  SessionOf(c, i).bind = "lockout"
<1>1. c.req.sessions[i].type \in {"HMAC", "POLICY"}
  BY AreaTyped DEF Ready, Typed
<1>2. CASE c.req.sessions[i].type = "HMAC"
  BY <1>2, BoundShows
<1>3. CASE c.req.sessions[i].type = "POLICY"
  BY Zenon, <1>3, PublicAssumption DEF IsAuthPolicyAvailable
<1> QED  BY Zenon, <1>1, <1>2, <1>3

\* The checks of a session that authorises.
LEMMA AuthOutcome ==
    ASSUME NEW c, Ready(c), c.rc = "SUCCESS", NEW i \in Sessions(c), i \in Authorising(c),
           c.req.sessions[i].type # "PW" /\ ~IsDAExempted(SessionOf(c, i).bind)
                => ~LockedOut(c.tpm, SessionOf(c, i).bind)
    PROVE  LET d == CheckAuthSession(c, i)
           IN  Outcome(c, d, i) /\ (d.rc = "SUCCESS" => Evident(c, i))
<1> DEFINE s == c.req.sessions[i]
           a == PhysicallyPresent(c, i)
           b == Including(c, i)
           n == NotLockedOut(b, i)
           p == Permitted(b, i)
           d == CheckAuthSession(c, i)
           A == IF a.rc = "SUCCESS" THEN Including(a, i) ELSE a
           B == IF A.rc = "SUCCESS" THEN NotLockedOut(A, i) ELSE A
           C == IF B.rc = "SUCCESS" THEN Permitted(B, i) ELSE B
<1>1. d = IF C.rc = "SUCCESS" THEN Compared(C, i) ELSE C
  BY Zenon DEF CheckAuthSession, Then
<1>2. Typed(c) /\ ~c.tpm.failed
  BY Zenon DEF Ready
<1>3. a = c \/ Refused(c, a)
  <2>1. "PP" \in Plain
    BY DEF Plain
  <2> QED  BY <2>1 DEF PhysicallyPresent, Check, Refused
<1>4. Prepared(c, b, i) /\ (s.type # "PW" => b.include[i] = IncludesAuth(b, i))
  BY Zenon, IncludingPrepared
<1>5. /\ Ready(b) /\ Typed(b) /\ b.rc = "SUCCESS" /\ i \in Sessions(b) /\ i \in Authorising(b)
      /\ ~b.tpm.failed /\ SessionOf(b, i) = SessionOf(c, i) /\ (Evident(b, i) <=> Evident(c, i))
      /\ b.req = c.req /\ b.tpm = c.tpm /\ b.assoc = c.assoc
  BY <1>4, PreparedReady DEF Prepared, Kept, Ready
<1> HIDE DEF a, b, n, p, d
<1>6. \/ /\ n = b
         /\ (s.type = "PW" \/ b.include[i]) /\ ~IsDAExempted(b.assoc[i]) => ~LockedOut(b.tpm, b.assoc[i])
      \/ Refused(b, n)
  BY Zenon, <1>5, LockedOutCases DEF n, NotLockedOut, IsPW
<1>7. \/ /\ p = b
         /\ s.type = "POLICY" =>
                /\ IsAuthPolicyAvailable(b, i)
                /\ SessionOf(b, i).policyDigest = Public[b.assoc[i]].policy
                /\ SessionOf(b, i).commandCode \in {Nothing, b.req.command}
      \/ Refused(b, p)
  BY <1>5, PermittedCases DEF p
<1>8. CASE Refused(c, a)
  <2>1. a.rc # "SUCCESS" /\ Outcome(c, a, i)
    BY <1>2, <1>8, RefusedOutcome
  <2>2. d = a
    BY Zenon, <1>1, <2>1
  <2> QED  BY <2>1, <2>2 DEF d
<1>9. CASE a = c /\ Refused(b, n)
  <2>1. n.rc # "SUCCESS" /\ Outcome(b, n, i)
    BY <1>5, <1>9, RefusedOutcome
  <2>2. d = n
    BY Zenon, <1>1, <1>5, <1>9, <2>1 DEF n, b
  <2> QED  BY Zenon, <1>4, <2>1, <2>2, PreparedOutcome DEF d
<1>10. CASE a = c /\ n = b /\ Refused(b, p)
  <2>1. p.rc # "SUCCESS" /\ Outcome(b, p, i)
    BY Zenon, <1>5, <1>10, RefusedOutcome
  <2>2. d = p
    BY Zenon, <1>1, <1>5, <1>10, <2>1 DEF n, b, p
  <2> QED  BY <1>4, <2>1, <2>2, PreparedOutcome DEF d
<1>11. CASE a = c /\ n = b /\ p = b /\ ~Refused(b, n) /\ ~Refused(b, p)
  <2>1. d = Compared(b, i)
    BY Zenon, <1>1, <1>5, <1>11 DEF n, b, p
  <2>2. s.type # "PW" /\ ~b.include[i] /\ b.assoc[i] = "lockout" => SessionOf(b, i).bind = "lockout"
    BY Zenon, <1>4, <1>5, <1>7, <1>11, LockoutIncluded
  <2>3. Guarded(b, i)
    BY <1>5, <1>6, <1>11, <2>2 DEF Guarded
  <2>4. Outcome(b, d, i) /\ (d.rc = "SUCCESS" => Evident(b, i))
    BY Zenon, <1>4, <1>5, <1>7, <1>11, <2>1, <2>3, ComparedOutcome
  <2> QED  BY Zenon, <1>4, <1>5, <2>4, PreparedOutcome DEF d
<1> QED  BY <1>3, <1>6, <1>7, <1>8, <1>9, <1>10, <1>11

LEMMA AloneOutcome ==
    ASSUME NEW c, Ready(c), c.rc = "SUCCESS", NEW i \in Sessions(c), i \notin Authorising(c),
           c.req.sessions[i].type # "PW", ~c.include[i],
           ~IsDAExempted(SessionOf(c, i).bind) => ~LockedOut(c.tpm, SessionOf(c, i).bind)
    PROVE  LET d == Alone(c, i)
           IN  Outcome(c, d, i) /\ (d.rc = "SUCCESS" => Evident(c, i))
<1> DEFINE d == Alone(c, i)
           y == Check(c, c.req.sessions[i].attributes \cap {"audit", "encrypt", "decrypt"} # {}, "ATTRIBUTES")
<1>1. d = IF y.rc = "SUCCESS" THEN CheckSessionHMAC(Comparing(y, i), i) ELSE y
  BY DEF Alone, Then
<1>2. Typed(c) /\ ~c.tpm.failed /\ "ATTRIBUTES" \in Plain
  BY DEF Ready, Plain
<1>3. y = c \/ Refused(c, y)
  BY Zenon, <1>2 DEF Check, Refused
<1> HIDE DEF y, d
<1>4. CASE Refused(c, y)
  BY <1>1, <1>2, <1>4, RefusedOutcome DEF d
<1>5. CASE y = c
  <2>1. c.assoc[i] = Nothing /\ Nothing # "lockout"
    BY Zenon, PublicAssumption DEF Ready
  <2>2. Guarded(c, i)
    BY Zenon, <2>1 DEF Guarded
  <2>3. Outcome(c, d, i) /\ (d.rc = "SUCCESS" => SameHMAC(c, i))
    BY Zenon, <1>1, <1>5, <2>2, HmacOutcome DEF Ready
  <2>4. SameHMAC(c, i) => Evident(c, i)
    BY Zenon, HmacShows DEF Evident, Proven, Old
  <2> QED  BY Zenon, <2>3, <2>4 DEF d
<1> QED  BY Zenon, <1>3, <1>4, <1>5

\* RetrieveSessionData refuses a password session that audits.
NoPwAudit(c) == \A i \in Sessions(c) : Uses(c, i, "audit") => c.req.sessions[i].type # "PW"
LEMMA SessionOutcome ==
    ASSUME NEW c, Ready(c), NoPwAudit(c), c.rc = "SUCCESS", NEW i \in Sessions(c), ~c.include[i]
    PROVE  LET d == CheckSession(c, i)
           IN  Outcome(c, d, i) /\ (d.rc = "SUCCESS" => Evident(c, i) /\ AuditHashed(c, d, i))
<1> DEFINE s == c.req.sessions[i]
           x == SessionOf(c, i)
           a == Started(c, i)
           h == Hashed(c, i)
           A == IF a.rc = "SUCCESS" THEN Hashed(a, i) ELSE a
           d == CheckSession(c, i)
<1>1. d = IF A.rc = "SUCCESS"
          THEN IF A.assoc[i] # Nothing THEN CheckAuthSession(A, i) ELSE Alone(A, i) ELSE A
  BY DEF CheckSession, Then
<1>2. Typed(c) /\ ~c.tpm.failed
  BY Zenon DEF Ready
<1>3. \/ /\ a = c
         /\ s.type = "PW" => c.assoc[i] # Nothing
         /\ s.type # "PW" /\ ~IsDAExempted(x.bind) => ~LockedOut(c.tpm, x.bind)
      \/ Refused(c, a)
  BY StartedCases
<1>4. Prepared(c, h, i) /\ AuditHashed(c, h, i) /\ h.include = c.include
  <2>1. CASE Uses(c, i, "audit")
    <3>1. s.type # "PW"
      BY Zenon, <2>1 DEF NoPwAudit
    <3> QED  BY <2>1, <3>1, HashedPrepared DEF Ready, AuditHashed, Hashed
  <2>2. CASE ~Uses(c, i, "audit")
    BY <1>2, <2>2 DEF Hashed, AuditHashed, Prepared, Kept
  <2> QED  BY Zenon, <2>1, <2>2
<1>5. /\ Ready(h) /\ Typed(h) /\ h.rc = "SUCCESS" /\ i \in Sessions(h)
      /\ Authorising(h) = Authorising(c) /\ SessionOf(h, i) = x /\ (Evident(h, i) <=> Evident(c, i))
      /\ h.req = c.req /\ h.tpm = c.tpm /\ h.assoc = c.assoc /\ ~h.include[i]
  BY Zenon, <1>4, PreparedReady DEF Prepared, Kept, Ready
<1> HIDE DEF a, h, d, x
<1>6. CASE Refused(c, a)
  BY Zenon, <1>1, <1>2, <1>6, RefusedOutcome DEF d
<1>7. CASE a = c /\ ~Refused(c, a)
  <2>1. d = IF h.assoc[i] # Nothing THEN CheckAuthSession(h, i) ELSE Alone(h, i)
    BY Zenon, <1>1, <1>5, <1>7 DEF h
  <2>2. h.assoc[i] # Nothing <=> i \in Authorising(h)
    <3>1. i \in Authorising(h) => h.req.handles[i] \in Handles
      BY <1>5, RequestTyped DEF Authorising, WellFormed, Typed
    <3>2. Nothing \notin Handles
      BY PublicAssumption DEF Handles
    <3> QED  BY Zenon, <1>5, <3>1, <3>2 DEF Ready
  <2>3. Outcome(h, d, i) /\ (d.rc = "SUCCESS" => Evident(h, i))
    <3>1. CASE i \in Authorising(h)
      BY Zenon, <1>3, <1>5, <1>7, <2>1, <2>2, <3>1, AuthOutcome
    <3>2. CASE i \notin Authorising(h)
      BY Zenon, <1>3, <1>5, <1>7, <2>1, <2>2, <3>2, AloneOutcome
    <3> QED  BY <3>1, <3>2
  <2>4. Outcome(c, d, i) /\ (d.rc = "SUCCESS" => Evident(c, i))
    BY Zenon, <1>4, <1>5, <2>3, PreparedOutcome
  <2>5. AuditHashed(c, d, i)
    BY <1>4, <2>3 DEF AuditHashed, Outcome
  <2> QED  BY Zenon, <2>4, <2>5 DEF d
<1> QED  BY Zenon, <1>3, <1>6, <1>7

-----------------------------------------------------------------------------
(* The checks of all sessions.                                             *)
\* d is the command c with the first k sessions checked.
Checked(c, d, k) ==
    /\ Typed(d) /\ Kept(c, d) /\ Alike(c.tpm, d.tpm) /\ ~d.tpm.failed
    /\ d.tooLate = c.tooLate /\ ~Uncounted(c.tpm, d)
    /\ d.rc = "SUCCESS" =>
        /\ d.tpm = c.tpm
        /\ \A j \in Sessions(c) : j <= k => Evident(c, j) /\ AuditHashed(c, d, j)
        /\ \A j \in Sessions(c) : j > k => ~d.include[j]

LEMMA CheckedReady ==
    ASSUME NEW c, Ready(c), NEW d, NEW k, Checked(c, d, k), d.rc = "SUCCESS"
    PROVE  /\ Ready(d) /\ Sessions(d) = Sessions(c)
           /\ \A j : /\ SessionOf(d, j) = SessionOf(c, j) /\ (Evident(d, j) <=> Evident(c, j))
                     /\ Uses(d, j, "audit") <=> Uses(c, j, "audit")
<1>1. d.tpm = c.tpm /\ d.req = c.req /\ d.attrs = c.attrs /\ d.assoc = c.assoc /\ Typed(d)
  BY DEF Checked, Kept
<1>2. Sessions(d) = Sessions(c) /\ Authorising(d) = Authorising(c)
      /\ \A j : SessionOf(d, j) = SessionOf(c, j) /\ (Uses(d, j, "audit") <=> Uses(c, j, "audit"))
  BY <1>1 DEF Sessions, Authorising, Role, SessionOf, Uses
<1>3. \A j : (Satisfies(d, j) <=> Satisfies(c, j)) /\ (Knows(d, j) <=> Knows(c, j))
  BY Zenon, <1>1, <1>2 DEF Satisfies, Knows
<1>4. \A j : Evident(d, j) <=> Evident(c, j)
  BY Zenon, <1>1, <1>2, <1>3 DEF Evident, Proven, Old
<1>5. Ready(d)
  BY <1>1, <1>2 DEF Ready, Present
<1> QED  BY Zenon, <1>2, <1>4, <1>5

LEMMA CheckedNext ==
    ASSUME NEW c, Ready(c), NoPwAudit(c), NEW k \in 1..3, NEW x, Checked(c, x, k - 1)
    PROVE  Checked(c, CheckEach(x, k), k)
<1> DEFINE d == CheckEach(x, k)
<1>0. Sessions(c) \subseteq Int /\ Sessions(x) = Sessions(c)
  BY DEF Checked, Kept, Sessions
<1>1. CASE k \notin Sessions(c)
  <2>1. d = x
    BY <1>0, <1>1 DEF CheckEach
  <2>2. \A j \in Sessions(c) : (j <= k <=> j <= k - 1) /\ (j > k <=> j > k - 1)
    BY <1>0, <1>1
  <2> QED  BY <2>1, <2>2 DEF Checked
<1>2. CASE k \in Sessions(c) /\ x.rc # "SUCCESS"
  <2>1. CheckSession(x, k) = x
    BY <1>2 DEF CheckSession, Then
  <2>2. d = x
    BY <1>0, <1>2, <2>1 DEF CheckEach
  <2> QED  BY Zenon, <1>2, <2>2 DEF Checked
<1>3. CASE k \in Sessions(c) /\ x.rc = "SUCCESS"
  <2>1. /\ Ready(x) /\ \A j : /\ SessionOf(x, j) = SessionOf(c, j) /\ (Evident(x, j) <=> Evident(c, j))
                              /\ Uses(x, j, "audit") <=> Uses(c, j, "audit")
    BY Zenon, <1>3, CheckedReady
  <2>2. NoPwAudit(x) /\ ~x.include[k]
    BY <1>0, <1>3, <2>1 DEF NoPwAudit, Checked, Kept
  <2>3. Outcome(x, d, k) /\ (d.rc = "SUCCESS" => Evident(x, k) /\ AuditHashed(x, d, k))
    BY Zenon, <1>0, <1>3, <2>1, <2>2, SessionOutcome DEF CheckEach
  <2> HIDE DEF d
  <2>4. /\ Typed(d) /\ Kept(c, d) /\ Alike(c.tpm, d.tpm) /\ ~d.tpm.failed
        /\ d.tooLate = c.tooLate /\ ~Uncounted(c.tpm, d)
    BY Zenon, <1>3, <2>3 DEF Checked, Outcome, Kept
  <2>5. ASSUME d.rc = "SUCCESS"
        PROVE  /\ d.tpm = c.tpm
               /\ \A j \in Sessions(c) : j <= k => Evident(c, j) /\ AuditHashed(c, d, j)
               /\ \A j \in Sessions(c) : j > k => ~d.include[j]
    <3>1. d.tpm = c.tpm
      BY Zenon, <1>3, <2>3, <2>5 DEF Checked, Outcome
    <3>2. Evident(c, k) /\ AuditHashed(c, d, k)
      BY <2>1, <2>3, <2>5 DEF AuditHashed
    <3>3. ASSUME NEW j \in Sessions(c), j <= k PROVE Evident(c, j) /\ AuditHashed(c, d, j)
      <4>1. CASE j = k
        BY Zenon, <3>2, <4>1
      <4>2. CASE j <= k - 1
        BY Zenon, <1>3, <2>3, <4>2 DEF Checked, Outcome, AuditHashed
      <4> QED  BY <1>0, <3>3, <4>1, <4>2
    <3>4. ASSUME NEW j \in Sessions(c), j > k PROVE ~d.include[j]
      <4>1. j > k - 1 /\ j # k
        BY <1>0, <3>4
      <4> QED  BY <1>0, <1>3, <2>3, <4>1 DEF Checked, Outcome
    <3> QED  BY <3>1, <3>3, <3>4
  <2> QED  BY Zenon, <2>4, <2>5 DEF Checked, d
<1> QED  BY Zenon, <1>1, <1>2, <1>3

LEMMA AllChecked ==
    ASSUME NEW c, Ready(c), NoPwAudit(c), c.rc = "SUCCESS", ~c.tooLate,
           \A i \in Sessions(c) : ~c.include[i]
    PROVE  Checked(c, CheckEach(CheckEach(CheckEach(c, 1), 2), MAX_SESSION_NUM), 3)
<1>1. Checked(c, c, 0)
  <2>1. \A j \in Sessions(c) : j \in Int /\ ~(j <= 0)
    BY DEF Sessions
  <2> QED  BY Zenon, <2>1 DEF Checked, Ready, Kept, Alike, Uncounted
<1>2. Checked(c, CheckEach(c, 1), 1)
  BY <1>1, CheckedNext
<1>3. Checked(c, CheckEach(CheckEach(c, 1), 2), 2)
  BY <1>2, CheckedNext
<1> QED  BY <1>3, CheckedNext DEF MAX_SESSION_NUM

LEMMA RefusedAdmitted ==
    ASSUME NEW c, Begun(c), NEW d, Refused(c, d)
    PROVE  Admitted(c, d) /\ d.rc # "SUCCESS"
<1>1. Outcome(c, d, 1) /\ d.rc # "SUCCESS"
  BY Zenon, RefusedOutcome DEF Begun
<1> QED  BY Zenon, <1>1 DEF Outcome, Admitted, Kept, Begun

LEMMA AssociatedFields ==
    ASSUME NEW c, Typed(c)
    PROVE  LET d == Associated(c)
           IN  /\ Typed(d) /\ d.req = c.req /\ d.attrs = c.attrs /\ d.evict = c.evict
               /\ d.clearOrderly = c.clearOrderly /\ d.rc = c.rc /\ d.tpm = c.tpm
               /\ d.include = c.include /\ d.cpHash = c.cpHash /\ d.compared = c.compared
               /\ d.tooLate = c.tooLate
               /\ \A i \in Sessions(c) :
                    d.assoc[i] = IF i \in Authorising(c) THEN c.req.handles[i] ELSE Nothing
<1> DEFINE f == [i \in Sessions(c) |-> IF i \in Authorising(c) THEN c.req.handles[i] ELSE Nothing]
<1>1. Len(c.req.sessions) \in Nat /\ c.req.handles \in Seq(Handles)
  BY RequestTyped DEF Typed, WellFormed
<1>2. ASSUME NEW i \in Authorising(c) PROVE c.req.handles[i] \in Handles
  BY <1>1 DEF Authorising
<1>3. f \in [Sessions(c) -> Places]
  BY <1>2 DEF Places
<1>4. f \in Maps(Places)
  BY <1>1, <1>3 DEF Maps, Sessions
<1>5. \A i \in Sessions(c) : f[i] = IF i \in Authorising(c) THEN c.req.handles[i] ELSE Nothing
  OBVIOUS
<1>6. Associated(c) = [c EXCEPT !.assoc = f]
  BY Zenon DEF Associated
<1> HIDE DEF f
<1> QED  BY Zenon, <1>3, <1>4, <1>5, <1>6 DEF Typed, CommandRecords, Sessions

\* What RetrieveSessionData makes sure of.
LEMMA RetrievedFacts ==
    ASSUME NEW c, Typed(c), TpmInv(c.tpm), \A i \in Sessions(c) : Retrieved(c, i)
    PROVE  /\ Present(c) /\ NoPwAudit(c)
           /\ \A i, j \in Auditing(c) : i = j /\ c.req.sessions[i].type = "HMAC"
<1>1. ASSUME NEW i \in Sessions(c), c.req.sessions[i].type # "PW"
      PROVE  SessionOf(c, i) # NoSession /\ SessionOf(c, i).type = c.req.sessions[i].type
  <2>1. SessionOf(c, i).type = c.req.sessions[i].type
    BY Zenon, <1>1 DEF Retrieved, IsPW
  <2>2. c.req.sessions[i].type \in {"HMAC", "POLICY"}
    BY Zenon, <1>1, AreaTyped DEF Typed
  <2> QED  BY <2>1, <2>2 DEF NoSession
<1>2. ASSUME NEW i \in Sessions(c), Uses(c, i, "audit")
      PROVE  /\ c.req.sessions[i].type = "HMAC" /\ i \in Int
             /\ \A j \in 1..(i - 1) : ~Uses(c, j, "audit")
  <2>1. ~IsPW(c.req.sessions[i])
    BY Zenon, <1>2 DEF Retrieved, Uses
  <2>2. c.req.sessions[i].type # "POLICY" /\ \A j \in 1..(i - 1) : ~Uses(c, j, "audit")
    BY Zenon, <1>2, <2>1 DEF Retrieved
  <2>3. c.req.sessions[i].type \in {"PW", "HMAC", "POLICY"} /\ i \in Int
    BY AreaTyped DEF Typed, Sessions
  <2> QED  BY Zenon, <2>1, <2>2, <2>3 DEF IsPW
<1>3. ASSUME NEW i \in Auditing(c), NEW j \in Auditing(c) PROVE i = j
  <2>1. i \in Int /\ j \in Int /\ 1 <= i /\ 1 <= j
    BY RequestTyped DEF Typed, Auditing, Sessions
  <2> QED  BY <1>2, <2>1 DEF Auditing
<1> QED  BY Zenon, <1>1, <1>2, <1>3 DEF Present, NoPwAudit, Auditing

LEMMA AuditChecked ==
    ASSUME NEW c, Typed(c), c.rc = "SUCCESS"
    PROVE  LET d == CheckCommandAudit(c)
           IN  /\ Typed(d) /\ Kept(c, d) /\ d.rc = "SUCCESS" /\ d.tpm = c.tpm
               /\ d.include = c.include /\ c.cpHash \subseteq d.cpHash
               /\ d.compared = c.compared /\ d.tooLate = c.tooLate
               /\ c.req.command \in c.tpm.auditCommands => c.tpm.auditHashAlg \in d.cpHash
<1>1. c.tpm.auditHashAlg \in HashAlgs
  BY Zenon DEF Typed, CommandRecords, TpmRecords
<1> QED  BY <1>1, HashFields DEF CheckCommandAudit, Kept

LEMMA ParseOutcome ==
    ASSUME NEW c, Begun(c), c.req.sessions # <<>>
    PROVE  Admitted(c, ParseSessionBuffer(c))
<1> DEFINE p == /\ c.attrs.allowed /\ Len(c.req.sessions) <= MAX_SESSION_NUM
                /\ \A i \in Sessions(c) : Retrieved(c, i)
                /\ \A i \in Authorising(c) : i \in Sessions(c)
           a == Check(Check(Check(Check(c, c.attrs.allowed, "AUTH_CONTEXT"),
                          Len(c.req.sessions) <= MAX_SESSION_NUM, "SIZE"),
                    \A i \in Sessions(c) : Retrieved(c, i), "SESSIONS"),
              \A i \in Authorising(c) : i \in Sessions(c), "AUTH_MISSING")
           b == Associated(c)
           e == CheckEach(CheckEach(CheckEach(b, 1), 2), MAX_SESSION_NUM)
           d == ParseSessionBuffer(c)
           A == IF a.rc = "SUCCESS" THEN Associated(a) ELSE a
           B == IF A.rc = "SUCCESS" THEN CheckEach(CheckEach(CheckEach(A, 1), 2), MAX_SESSION_NUM) ELSE A
<1>1. d = IF B.rc = "SUCCESS" THEN CheckCommandAudit(B) ELSE B
  BY Zenon DEF ParseSessionBuffer, Then
<1>2. (a = c /\ p) \/ Refused(c, a)
  <2>1. {"AUTH_CONTEXT", "SIZE", "SESSIONS", "AUTH_MISSING"} \subseteq Plain
        /\ "SUCCESS" \notin Plain
    BY Zenon DEF Plain
  <2>2. ASSUME NEW x PROVE Refused(c, x) => x.rc # "SUCCESS"
    BY Zenon, RefusedRc DEF Begun
  <2> DEFINE a1 == Check(c, c.attrs.allowed, "AUTH_CONTEXT")
             a2 == Check(a1, Len(c.req.sessions) <= MAX_SESSION_NUM, "SIZE")
             a3 == Check(a2, \A i \in Sessions(c) : Retrieved(c, i), "SESSIONS")
  <2>3. (a1 = c /\ c.attrs.allowed) \/ Refused(c, a1)
    BY Zenon, <2>1 DEF Check, Refused, Begun
  <2> HIDE DEF a1
  <2>4. (a2 = c /\ a1 = c /\ Len(c.req.sessions) <= MAX_SESSION_NUM) \/ Refused(c, a2)
    BY Zenon, <2>1, <2>2, <2>3 DEF Check, Refused, Begun
  <2> HIDE DEF a2
  <2>5. (a3 = c /\ a2 = c /\ (\A i \in Sessions(c) : Retrieved(c, i))) \/ Refused(c, a3)
    BY <2>1, <2>2, <2>4 DEF Check, Refused, Begun
  <2> HIDE DEF a3
  <2>6. \/ a = c /\ a3 = c /\ (\A i \in Authorising(c) : i \in Sessions(c))
        \/ Refused(c, a)
    <3> DEFINE a4 == Check(a3, \A i \in Authorising(c) : i \in Sessions(c), "AUTH_MISSING")
    <3>1. \/ a4 = c /\ a3 = c /\ (\A i \in Authorising(c) : i \in Sessions(c))
          \/ Refused(c, a4)
      BY Zenon, <2>1, <2>2, <2>5 DEF Check, Refused, Begun
    <3> QED  BY Zenon, <3>1 DEF a1, a2, a3
  <2>7. Refused(c, c) => FALSE
    BY <2>2 DEF Begun
  <2> QED  BY Zenon, <2>3, <2>4, <2>5, <2>6, <2>7
<1> HIDE DEF a
<1>3. CASE Refused(c, a)
  <2>1. a.rc # "SUCCESS" /\ Admitted(c, a)
    BY Zenon, <1>3, RefusedAdmitted
  <2>2. d = a
    BY Zenon, <1>1, <2>1
  <2> QED  BY <2>1, <2>2
<1>4. CASE a = c /\ p
  <2>0. Typed(c) /\ c.rc = "SUCCESS" /\ TpmInv(c.tpm)
    BY Zenon DEF Begun
  <2>1. /\ Typed(b) /\ b.req = c.req /\ b.attrs = c.attrs /\ b.evict = c.evict
        /\ b.clearOrderly = c.clearOrderly /\ b.rc = c.rc /\ b.tpm = c.tpm
        /\ b.include = c.include /\ b.cpHash = c.cpHash /\ b.compared = c.compared
        /\ b.tooLate = c.tooLate
        /\ \A i \in Sessions(c) :
             b.assoc[i] = IF i \in Authorising(c) THEN c.req.handles[i] ELSE Nothing
    BY Zenon, <2>0, AssociatedFields
  <2> HIDE DEF b
  <2>2. /\ Present(c) /\ NoPwAudit(c)
        /\ \A i, j \in Auditing(c) : i = j /\ c.req.sessions[i].type = "HMAC"
    BY Zenon, <1>4, <2>0, RetrievedFacts
  <2>3. /\ Sessions(b) = Sessions(c) /\ Authorising(b) = Authorising(c)
        /\ \A i : SessionOf(b, i) = SessionOf(c, i) /\ (Uses(b, i, "audit") <=> Uses(c, i, "audit"))
    BY <2>1 DEF Sessions, Authorising, Role, SessionOf, Uses
  <2>4. Ready(b) /\ NoPwAudit(b)
    <3>1. Present(b) /\ NoPwAudit(b)
      BY <2>1, <2>2, <2>3 DEF Present, NoPwAudit
    <3> QED  BY Zenon, <2>1, <2>3, <3>1 DEF Ready, Begun
  <2>5. Checked(b, e, 3)
    BY Zenon, <2>0, <2>1, <2>3, <2>4, AllChecked DEF Begun
  <2> HIDE DEF e
  <2>6. d = IF e.rc = "SUCCESS" THEN CheckCommandAudit(e) ELSE e
    BY Zenon, <1>1, <1>4, <2>0, <2>1 DEF e, b
  <2> HIDE DEF d
  <2>7. CASE e.rc # "SUCCESS"
    <3>1. d = e
      BY <2>6, <2>7
    <3>2. /\ Typed(e) /\ Kept(b, e) /\ Alike(b.tpm, e.tpm) /\ ~e.tpm.failed
          /\ e.tooLate = b.tooLate /\ ~Uncounted(b.tpm, e)
      BY Zenon, <2>5 DEF Checked
    <3>3. e.req = c.req /\ e.attrs = c.attrs /\ e.evict = {} /\ ~e.clearOrderly /\ ~e.tooLate
      BY <2>1, <3>2 DEF Kept, Begun
    <3> QED  BY Zenon, <2>1, <2>7, <3>1, <3>2, <3>3 DEF Admitted, d
  <2>8. CASE e.rc = "SUCCESS"
    <3>1. /\ Typed(d) /\ Kept(e, d) /\ d.rc = "SUCCESS" /\ d.tpm = e.tpm
          /\ e.cpHash \subseteq d.cpHash /\ d.tooLate = e.tooLate
          /\ e.req.command \in e.tpm.auditCommands => e.tpm.auditHashAlg \in d.cpHash
      BY Zenon, <2>5, <2>6, <2>8, AuditChecked DEF Checked
    <3>2. /\ e.tpm = c.tpm /\ e.req = c.req /\ e.attrs = c.attrs /\ e.evict = {} /\ ~e.clearOrderly
          /\ e.assoc = b.assoc /\ ~e.tooLate /\ ~e.tpm.failed
      BY Zenon, <2>1, <2>5, <2>8 DEF Checked, Kept, Begun
    <3>3. \A i \in Sessions(c) : i \in Int /\ i <= 3
      BY <1>4, <2>0, RequestTyped DEF Sessions, MAX_SESSION_NUM, Typed
    <3>4. \A i \in Sessions(c) : Evident(b, i) /\ AuditHashed(b, e, i)
      BY Zenon, <2>3, <2>5, <2>8, <3>3 DEF Checked
    <3>5. \A i \in Sessions(c) : AuditHashed(c, d, i)
      BY <2>3, <3>1, <3>4 DEF AuditHashed
    <3>6. ~Unproved(c) /\ ~Replayed(c)
      <4>1. \A i : (Satisfies(b, i) <=> Satisfies(c, i)) /\ (Knows(b, i) <=> Knows(c, i))
        BY Zenon, <2>1, <2>3 DEF Satisfies, Knows
      <4>2. \A i \in Sessions(c) : Proven(b, i) /\ ~Old(b, i)
        BY <3>4 DEF Evident
      <4>3. ~Unproved(c)
        BY Zenon, <1>4, <2>1, <2>3, <4>1, <4>2 DEF Unproved, Proven
      <4>4. ~Replayed(c)
        BY Zenon, <2>1, <2>3, <4>2 DEF Replayed, Old, IsPW
      <4> QED  BY <4>3, <4>4
    <3>7. \A i \in Sessions(c) : d.assoc[i] # Nothing => i \in 1..Len(c.req.handles)
                                                         /\ d.assoc[i] = c.req.handles[i]
      BY Zenon, <2>1, <3>1, <3>2 DEF Kept, Authorising
    <3>8. ~Uncounted(c.tpm, d) /\ Alike(c.tpm, d.tpm)
      BY Zenon, <3>1, <3>2 DEF Uncounted, Alike
    <3>9. d.req = c.req /\ d.attrs = c.attrs /\ d.evict = {} /\ ~d.clearOrderly /\ ~d.tooLate
      BY Zenon, <3>1, <3>2 DEF Kept
    <3>10. c.attrs.allowed
      BY Zenon, <1>4
    <3> HIDE DEF p
    <3> QED  BY Zenon, <2>2, <3>1, <3>2, <3>5, <3>6, <3>7, <3>8, <3>9, <3>10 DEF Admitted, d
  <2> QED  BY Zenon, <2>7, <2>8 DEF d
<1> QED  BY <1>2, <1>3, <1>4

LEMMA NoSessionOutcome ==
    ASSUME NEW c, Begun(c), c.req.sessions = <<>>
    PROVE  Admitted(c, CheckAuthNoSession(c))
<1> DEFINE a == Check(c, Authorising(c) = {}, "AUTH_MISSING")
           d == CheckAuthNoSession(c)
<1>1. d = IF a.rc = "SUCCESS" THEN CheckCommandAudit(a) ELSE a
  BY Zenon DEF CheckAuthNoSession, Then
<1>2. (a = c /\ Authorising(c) = {}) \/ Refused(c, a)
  <2>1. "AUTH_MISSING" \in Plain
    BY Zenon DEF Plain
  <2> QED  BY Zenon, <2>1 DEF Check, Refused, Begun
<1> HIDE DEF a
<1>3. CASE Refused(c, a)
  BY <1>1, <1>3, RefusedAdmitted
<1>4. CASE a = c /\ Authorising(c) = {}
  <2>0. Typed(c) /\ c.rc = "SUCCESS"
    BY DEF Begun
  <2>1. Sessions(c) = {}
    BY DEF Sessions
  <2>2. d = CheckCommandAudit(c)
    BY Zenon, <1>1, <1>4, <2>0
  <2>3. /\ Typed(d) /\ Kept(c, d) /\ d.rc = "SUCCESS" /\ d.tpm = c.tpm /\ d.tooLate = c.tooLate
        /\ c.req.command \in c.tpm.auditCommands => c.tpm.auditHashAlg \in d.cpHash
    BY Zenon, <2>0, <2>2, AuditChecked
  <2> HIDE DEF d
  <2>4. ~Unproved(c) /\ ~Replayed(c) /\ Present(c) /\ Auditing(c) = {}
    BY Zenon, <1>4, <2>1 DEF Unproved, Replayed, Present, Auditing
  <2> QED  BY Zenon, <2>1, <2>3, <2>4 DEF Admitted, Kept, Begun, Alike, Uncounted, d
<1> QED  BY Zenon, <1>2, <1>3, <1>4

LEMMA AuthorisedOutcome ==
    ASSUME NEW c, Begun(c)
    PROVE  LET d == Then(EntityGetLoadStatus(c), Authorised)
           IN  Admitted(c, d) /\ (d.rc = "SUCCESS" => Loaded(c))
<1> DEFINE p == \A i \in 1..Len(c.req.handles) :
                    c.req.handles[i] \in Entities => c.req.handles[i] \in c.tpm.present
           q == c.req.command \in PolicyCommands \cup {"GetSessionAuditDigest"} =>
                  LET s == c.tpm.sessions[c.req.in.slot]
                  IN  /\ s.type = (IF c.req.command \in PolicyCommands THEN "POLICY" ELSE "HMAC")
                      /\ s.loaded
           a == Check(c, p, "REFERENCE")
           b == Check(a, q, "REFERENCE")
           d == Then(EntityGetLoadStatus(c), Authorised)
<1>0. Typed(c) /\ c.rc = "SUCCESS" /\ "REFERENCE" \in Plain
  BY Zenon DEF Begun, Plain
<1>1. EntityGetLoadStatus(c) = b
  BY Zenon DEF EntityGetLoadStatus
<1>2. p /\ q => Loaded(c)
  BY DEF Loaded
<1> HIDE DEF p, q
<1>3. (a = c /\ p) \/ Refused(c, a)
  BY <1>0 DEF Check, Refused
<1>4. ASSUME NEW x PROVE Refused(c, x) => x.rc # "SUCCESS"
  BY <1>0, RefusedRc
<1> HIDE DEF a
<1>5. (b = c /\ a = c /\ q) \/ Refused(c, b)
  BY <1>0, <1>3, <1>4 DEF Check, Refused
<1> HIDE DEF b
<1>6. d = IF b.rc = "SUCCESS" THEN Authorised(b) ELSE b
  BY <1>1 DEF Then
<1>7. CASE Refused(c, b)
  BY <1>6, <1>7, RefusedAdmitted
<1>8. CASE b = c /\ a = c /\ q
  <2>1. d = Authorised(c) /\ Loaded(c)
    BY Zenon, <1>0, <1>2, <1>3, <1>4, <1>6, <1>8
  <2> QED  BY <2>1, ParseOutcome, NoSessionOutcome DEF Authorised
<1> QED  BY Zenon, <1>5, <1>7, <1>8


-----------------------------------------------------------------------------
(* The whole command. *)
LEMMA CommandConcluded ==
    ASSUME NEW c, Begun(c), c.tpm.auditDigest.size # "one"
    PROVE  Concluded(c, ExecuteCommand(c))
<1> DEFINE e == Then(EntityGetLoadStatus(c), Authorised)
           f == Then(e, CommandDispatcher)
           u == Then(f, Used)
           y == Then(u, BuildResponseSession)
<1>0. ExecuteCommand(c) = Cleanup(y)
  BY Zenon DEF ExecuteCommand
<1>1. Admitted(c, e) /\ (e.rc = "SUCCESS" => Loaded(c))
  BY AuthorisedOutcome
<1> HIDE DEF e
<1>2. CASE e.rc # "SUCCESS"
  <2>1. y = e
    BY <1>2 DEF Then
  <2> HIDE DEF y
  <2> QED  BY Zenon, <1>0, <1>1, <1>2, <2>1, RefusedConcluded DEF Admitted
<1>3. CASE e.rc = "SUCCESS"
  <2>1. f = CommandDispatcher(e)
    BY Zenon, <1>3 DEF Then
  <2>2. e.tpm = c.tpm /\ ~e.tooLate
    BY Zenon, <1>1, <1>3 DEF Admitted
  <2>3. Runs(e)
    BY <1>1, <1>3, AdmittedRuns
  <2>4. Executed(e, f)
    BY <2>1, <2>3, DispatcherExecuted
  <2> HIDE DEF f
  <2>5. CASE f.rc # "SUCCESS"
    <3>1. y = f
      BY Zenon, <2>5 DEF Then
    <3> HIDE DEF y
    <3>2. f.rc \in Plain /\ f.tpm = c.tpm /\ ~f.tooLate /\ Typed(f)
      BY Zenon, <2>2, <2>4, <2>5 DEF Executed
    <3>3. ~Uncounted(c.tpm, f)
      BY Zenon, <3>2 DEF Uncounted, Plain
    <3>4. Alike(c.tpm, f.tpm) /\ ~f.tpm.failed
      BY <3>2 DEF Alike, Begun
    <3> QED  BY Zenon, <1>0, <2>5, <3>1, <3>2, <3>3, <3>4, RefusedConcluded
  <2>6. CASE f.rc = "SUCCESS"
    <3>1. Answers(f) /\ Auditable(f)
      BY <1>1, <1>3, <2>4, <2>6, ExecutedAnswers
    <3>2. Used(f).rc = "SUCCESS"
      BY Zenon, <2>4, <2>6 DEF Used, Executed, Typed, CommandRecords
    <3>3. y = BuildResponseSession(Used(f))
      BY Zenon, <2>6, <3>2 DEF Then
    <3> HIDE DEF y
    <3>4. Answered(f, y)
      BY Zenon, <3>1, <3>3, ResponseBuilt
    <3> QED  BY Zenon, <1>0, <1>1, <1>3, <2>4, <2>6, <3>4, AnsweredConcluded
  <2> QED  BY <2>5, <2>6
<1> QED  BY Zenon, <1>2, <1>3

LEMMA SendKeeps ==
    ASSUME IInv, NEW r \in Scenes[scene], Send(r)
    PROVE  IInv'
<1> DEFINE c == Command(tpm, r)
           d == ExecuteCommand(c)
<1>1. /\ scene \in DOMAIN Scenes /\ TpmInv(tpm) /\ Fresh(tpm) /\ ~tpm.failed /\ audited \in Nat
      /\ AuditsComplete /\ breaches = {}
  BY Zenon DEF IInv, Send
<1>2. /\ tpm' = d.tpm /\ breaches' = breaches \cup BreachesOf(c, d) /\ audited' = AuditedAfter(c, d)
      /\ missed' = MissedAfter(c, d) /\ kept' = KeptAfter(c, d) /\ scene' = scene
  BY Zenon DEF Send
<1>3. Begun(c) /\ c.tpm = tpm
  <2>1. r \in Requests
    BY Zenon, <1>1 DEF Requests
  <2> QED  BY Zenon, <1>1, <2>1, CommandBegun
<1> HIDE DEF c
<1>4. /\ c.tpm.auditDigest.log = audited
      /\ c.tpm.auditDigest.size = IF audited = 0 THEN "zero" ELSE "full"
      /\ \A k \in Slots : c.tpm.exclusive = <<k, "HMAC">> => k \notin missed
  BY Zenon, <1>1, <1>3 DEF AuditsComplete
<1>5. c.tpm.auditDigest.size # "one"
  BY Zenon, <1>4
<1>6. Concluded(c, d)
  BY Zenon, <1>1, <1>3, <1>5, CommandConcluded
<1> HIDE DEF d
<1>7. \A k \in Slots : tpm'.exclusive = <<k, "HMAC">> => k \notin missed'
  BY Zenon, <1>2, <1>3, <1>4, <1>6, NoneMissed
<1>8. /\ audited' \in Nat /\ tpm'.auditDigest.log = audited'
      /\ tpm'.auditDigest.size = IF audited' = 0 THEN "zero" ELSE "full"
  BY <1>1, <1>2, <1>4, <1>6, AllAudited
<1>9. AuditsComplete'
  BY <1>7, <1>8 DEF AuditsComplete
<1>10. TpmInv(tpm') /\ Fresh(tpm') /\ ~tpm'.failed /\ breaches' = {}
  BY Zenon, <1>1, <1>2, <1>6 DEF Concluded
<1>11. TpmInv(tpm)' /\ Fresh(tpm)'
  BY <1>10 DEF TpmInv, Fresh
<1>12. /\ kept' \in Nat /\ tpm'.saved.digest.log = kept'
       /\ tpm'.saved.digest.size = IF kept' = 0 THEN "zero" ELSE "full"
  BY Zenon, <1>2, <1>3, <1>6, AllKept
<1> QED  BY <1>1, <1>2, <1>8, <1>9, <1>10, <1>11, <1>12 DEF IInv

\* The inductive invariant: every record of the TPM is well formed, every session says of
\* the entity it was bound to and of its policy what it should, no nonce has been used,
\* the audit digests are complete and no command was executed or refused without what it
\* needs; what Shutdown(STATE) has saved can be the state of the TPM again, with the
\* digests of that time.
THEOREM Invariance == Spec => []IInv
<1>1. Init => IInv
  BY Zenon, InitEstablishes
<1>2. IInv /\ [Next]_vars => IInv'
  <2> SUFFICES ASSUME IInv, [Next]_vars PROVE IInv'
    OBVIOUS
  <2>1. CASE \E r \in Scenes[scene] : Send(r)
    BY <2>1, SendKeeps
  <2>2. CASE Heal
    BY <2>2, HealKeeps
  <2>3. CASE \E type \in {"CLEAR", "STATE"} : Restart(type)
    BY Zenon, <2>3, RestartKeeps
  <2>4. CASE UNCHANGED vars
    BY <2>4 DEF vars, IInv, TpmInv, Fresh, AuditsComplete
  <2> QED  BY <2>1, <2>2, <2>3, <2>4 DEF Next
<1> QED  BY <1>1, <1>2, PTL DEF Spec

\* CheckAuthSession and what it calls let no command through without the authValue that
\* each entity has then, or a policy whose assertions hold of the command.
THEOREM AlwaysAuthorisationShown == Spec => []AuthorisationShown
<1>1. IInv => AuthorisationShown
  BY DEF IInv, AuthorisationShown
<1> QED  BY <1>1, Invariance, PTL

\* UpdateAllNonceTPM leaves no session with a nonce that an executed command has used.
THEOREM AlwaysNoReplay == Spec => []NoReplay
<1>1. IInv => NoReplay
  BY DEF IInv, NoReplay
<1> QED  BY <1>1, Invariance, PTL

\* CheckLockedOut comes before each comparison with a protected authValue, and
\* IncrementLockout counts each that fails.
THEOREM AlwaysGuessesLimited == Spec => []GuessesLimited
<1>1. IInv => GuessesLimited
  BY DEF IInv, GuessesLimited
<1> QED  BY <1>1, Invariance, PTL

\* UpdateAuditSessionStatus and CommandAudit leave no command out of the digest of the
\* exclusive audit session, or of the command audit digest, whatever is sent between a
\* shutdown and the loss of power; Startup takes both back to Shutdown(STATE).
THEOREM AlwaysAuditsComplete == Spec => []AuditsComplete
<1>1. IInv => AuditsComplete
  BY DEF IInv
<1> QED  BY <1>1, Invariance, PTL

\* The assertions in IncrementLockout, in UpdateAuditDigest and in EntityGetAuthValue hold.
THEOREM AlwaysAssertionsHold == Spec => []AssertionsHold
<1>1. IInv => AssertionsHold
  BY DEF IInv, AssertionsHold
<1> QED  BY <1>1, Invariance, PTL
=============================================================================
