------------------------- MODULE SessionCommandProofs -------------------------
(***************************************************************************)
(* What executing a command and building its response keep true of the TPM *)
(* of module SessionProcess, once its sessions are accepted.               *)
(***************************************************************************)
EXTENDS SessionProcess, TLAPS

-----------------------------------------------------------------------------
(* The inductive invariant.                                                *)
Keys == AuthValues \cup {Nothing}
Places == Handles \cup {Nothing}
Assertions == {TheAuthValue} \cup {TheCommand(code) : code \in CommandNames}
SessionRecords ==
    [type : {"HMAC", "POLICY"}, trial : BOOLEAN, loaded : BOOLEAN, authHashAlg : HashAlgs,
     symmetric : BOOLEAN, sessionKey : Keys, isBound : BOOLEAN,
     boundEntity : Handles \X AuthValues, isDaBound : BOOLEAN, isLockoutBound : BOOLEAN,
     isAudit : BOOLEAN, policyDigest : Seq(Assertions), commandCode : CommandNames \cup {Nothing},
     needs : {"none", "auth", "password"}, bind : Handles, fresh : BOOLEAN]
Digests == [size : {"zero", "one", "full"}, log : Nat]
Saves == [digest : Digests, sessions : [Slots -> SessionRecords \cup {NoSession}]]
TpmRecords ==
    [auths : [Entities -> AuthValues], present : SUBSET Entities,
     sessions : [Slots -> SessionRecords \cup {NoSession}],
     exclusive : (Slots \X {"HMAC"}) \cup {Nothing}, failedTries : Nat,
     lockOutAuthEnabled : BOOLEAN, orderly : {"NONE", "CLEAR", "STATE"},
     auditCommands : SUBSET (CommandNames \cup {"SetCommandCodeAuditStatus"}),
     auditHashAlg : HashAlgs, auditDigest : Digests, saved : Saves, auditCounter : Nat,
     failed : BOOLEAN]

\* What a session says of the entity it was bound to when it started.
BindingInv(s) ==
    /\ s.isBound => s.sessionKey # Nothing /\ s.boundEntity = <<s.bind, s.sessionKey>>
    /\ s.isDaBound = ~IsDAExempted(s.bind)
    /\ s.isLockoutBound = (s.bind = "lockout")

\* What the assertions of a policy have left in the session.
PolicyInv(s) ==
    \A n \in 1..Len(s.policyDigest) :
        \/ s.policyDigest[n] = TheAuthValue /\ s.needs # "none"
        \/ s.policyDigest[n] = TheCommand(s.commandCode) /\ s.commandCode # Nothing

SessionInv(s) == s \in SessionRecords /\ BindingInv(s) /\ PolicyInv(s)

\* What Shutdown(STATE) wrote can be a state of the TPM again.
SavedInv(g) ==
    \A k \in Slots : g.sessions[k] # NoSession => SessionInv(g.sessions[k]) /\ g.sessions[k].fresh

TpmInv(t) ==
    /\ t \in TpmRecords
    /\ \A k \in Slots : t.sessions[k] # NoSession => SessionInv(t.sessions[k])
    /\ "SetCommandCodeAuditStatus" \in t.auditCommands /\ "Shutdown" \notin t.auditCommands
    /\ SavedInv(t.saved)

Fresh(t) == \A k \in Slots : t.sessions[k] # NoSession => t.sessions[k].fresh

IInv ==
    /\ scene \in DOMAIN Scenes /\ TpmInv(tpm) /\ Fresh(tpm) /\ ~tpm.failed
    /\ audited \in Nat /\ AuditsComplete /\ breaches = {}
    /\ kept \in Nat /\ tpm.saved.digest.log = kept
    /\ tpm.saved.digest.size = IF kept = 0 THEN "zero" ELSE "full"
-----------------------------------------------------------------------------
(* A command in progress.                                                  *)
Requests == UNION {Scenes[n] : n \in DOMAIN Scenes}
Maps(S) == UNION {[1..n -> S] : n \in Nat}
Plain ==
    {"REFERENCE", "AUTH_CONTEXT", "SIZE", "SESSIONS", "AUTH_MISSING", "HANDLE", "ATTRIBUTES",
     "LOCKOUT", "PP", "AUTH_TYPE", "AUTH_UNAVAILABLE", "POLICY_FAIL", "POLICY_CC",
     "SESSION_MEMORY", "MODE", "MEMORY", "VALUE", "TYPE"}
Codes == Plain \cup {"SUCCESS", "FAILURE", "BAD_AUTH", "AUTH_FAIL"}
CommandRecords ==
    [tpm : TpmRecords, req : Requests, rc : Codes, attrs : {Row(r.command) : r \in Requests},
     assoc : Maps(Places), include : Maps(BOOLEAN), cpHash : SUBSET HashAlgs,
     evict : SUBSET Entities, clearOrderly : BOOLEAN, compared : SUBSET Places,
     tooLate : BOOLEAN]

Typed(c) ==
    /\ c \in CommandRecords /\ c.attrs = Row(c.req.command)
    /\ c.assoc \in [Sessions(c) -> Places] /\ c.include \in [Sessions(c) -> BOOLEAN]

\* The updates of a command that the checks make.
IncludeSet(c, i, b) == [c EXCEPT !.include[i] = b]
ComparedSet(c, S, b) == [c EXCEPT !.compared = S, !.tooLate = b]
WithTpm(c, t, rc) == [c EXCEPT !.tpm = t, !.rc = rc]
Locked(c) == [c EXCEPT !.tpm.lockOutAuthEnabled = FALSE, !.rc = "AUTH_FAIL"]
Tried(c) == [c EXCEPT !.tpm.failedTries = @ + 1, !.rc = "AUTH_FAIL"]

\* What the checks leave alone in a command, and in the TPM.
Kept(c, d) ==
    /\ d.req = c.req /\ d.attrs = c.attrs /\ d.assoc = c.assoc /\ d.evict = c.evict
    /\ d.clearOrderly = c.clearOrderly
Alike(t, u) ==
    /\ u.auths = t.auths /\ u.present = t.present /\ u.sessions = t.sessions
    /\ u.exclusive = t.exclusive /\ u.auditCommands = t.auditCommands
    /\ u.auditHashAlg = t.auditHashAlg /\ u.auditDigest = t.auditDigest /\ u.saved = t.saved
    /\ u.auditCounter = t.auditCounter

Refused(c, d) == \E rc \in Plain : d = Refuse(c, rc)

\* What is known of a request.
LEMMA RequestTyped ==
    ASSUME NEW c \in CommandRecords
    PROVE  WellFormed(c.req) /\ Len(c.req.sessions) \in Nat /\ Len(c.req.handles) \in Nat
<1>1. c.req \in Requests
  BY DEF CommandRecords
<1>2. WellFormed(c.req)
  BY <1>1, RequestAssumption DEF Requests
<1> QED  BY <1>2 DEF WellFormed

LEMMA AreaTyped ==
    ASSUME NEW c \in CommandRecords, NEW i \in Sessions(c)
    PROVE  LET s == c.req.sessions[i]
           IN  /\ s.type \in {"PW", "HMAC", "POLICY"} /\ s.auth \in AuthValues
               /\ s.type # "PW" => /\ s.slot \in Slots /\ s.hmac \in {"last", "old", "none"}
                                   /\ s.bindAuth \in Keys /\ (s.hmac = "none" => s.auth = EmptyAuth)
<1>1. WellFormed(c.req)
  BY RequestTyped
<1>2. c.req.sessions \in Seq(SessionAreas) /\ i \in 1..Len(c.req.sessions)
  BY <1>1 DEF WellFormed, Sessions
<1>3. c.req.sessions[i] \in SessionAreas
  BY <1>2
<1>4. c.req.sessions[i].type # "PW" /\ c.req.sessions[i].hmac = "none" => c.req.sessions[i].auth = EmptyAuth
  BY <1>1, <1>2 DEF WellFormed
<1> DEFINE s == c.req.sessions[i]
<1>5. s \in SessionAreas
  BY <1>3
<1> HIDE DEF s
<1>6. /\ s.type \in {"PW", "HMAC", "POLICY"} /\ s.auth \in AuthValues
      /\ s.type # "PW" => /\ s.slot \in Slots /\ s.hmac \in {"last", "old", "none"}
                          /\ s.bindAuth \in Keys
  BY <1>5 DEF SessionAreas, Keys
<1> QED  BY <1>4, <1>6 DEF s

LEMMA RefuseFields ==
    ASSUME NEW c, Typed(c), NEW rc \in Codes
    PROVE  LET d == Refuse(c, rc)
           IN  /\ Typed(d) /\ Kept(c, d) /\ d.rc = rc /\ d.tpm = c.tpm /\ d.include = c.include
               /\ d.cpHash = c.cpHash /\ d.compared = c.compared /\ d.tooLate = c.tooLate
  BY Zenon DEF Refuse, Typed, Kept, CommandRecords, Sessions

LEMMA TpmFields ==
    ASSUME NEW c, Typed(c), NEW t \in TpmRecords, NEW rc \in Codes
    PROVE  LET d == WithTpm(c, t, rc)
           IN  /\ Typed(d) /\ Kept(c, d) /\ d.rc = rc /\ d.tpm = t /\ d.include = c.include
               /\ d.cpHash = c.cpHash /\ d.compared = c.compared /\ d.tooLate = c.tooLate
  BY Zenon DEF WithTpm, Typed, Kept, CommandRecords, Sessions

LEMMA Exempt ==
    /\ \A e : IsDAExempted(e) \in BOOLEAN
    /\ ~IsDAExempted("lockout") /\ IsDAExempted(Nothing)
<1>1. ASSUME NEW e PROVE Type(e) \in {"permanent", "transient", "nv", "pcr"}
  BY PublicAssumption DEF Type
<1>2. Type(Nothing) = "permanent" /\ Nothing # "lockout"
  BY PublicAssumption DEF Type
<1> QED  BY Zenon, <1>1, <1>2, PublicAssumption DEF IsDAExempted, Bit

\* The sessions of a command, once they are retrieved.
Present(c) ==
    \A i \in Sessions(c) : c.req.sessions[i].type # "PW" =>
        /\ SessionOf(c, i) # NoSession /\ SessionOf(c, i).type = c.req.sessions[i].type

AuditHashed(c, d, i) == Uses(c, i, "audit") => SessionOf(c, i).authHashAlg \in d.cpHash

\* A command as it begins, and what it is when its sessions are accepted.
Begun(c) ==
    /\ Typed(c) /\ TpmInv(c.tpm) /\ Fresh(c.tpm) /\ ~c.tpm.failed /\ c.rc = "SUCCESS"
    /\ c.cpHash = {} /\ c.evict = {} /\ ~c.clearOrderly /\ c.compared = {} /\ ~c.tooLate
    /\ \A i \in Sessions(c) : ~c.include[i] /\ c.assoc[i] = Nothing

Admitted(c, d) ==
    /\ Typed(d) /\ d.req = c.req /\ d.attrs = c.attrs /\ d.evict = {} /\ ~d.clearOrderly
    /\ Alike(c.tpm, d.tpm) /\ ~d.tpm.failed /\ ~d.tooLate /\ ~Uncounted(c.tpm, d)
    /\ d.rc = "SUCCESS" =>
        /\ d.tpm = c.tpm /\ ~Unproved(c) /\ ~Replayed(c)
        /\ Present(c) /\ (c.req.sessions # <<>> => c.attrs.allowed)
        /\ \A i \in Sessions(c) :
                /\ AuditHashed(c, d, i)
                /\ d.assoc[i] # Nothing => i \in 1..Len(c.req.handles)
                                           /\ d.assoc[i] = c.req.handles[i]
        /\ \A i, j \in Auditing(c) : i = j /\ c.req.sessions[i].type = "HMAC"
        /\ c.req.command \in c.tpm.auditCommands => c.tpm.auditHashAlg \in d.cpHash

-----------------------------------------------------------------------------
(* The command itself.                                                     *)
\* What EntityGetLoadStatus makes sure of.
Loaded(c) ==
    /\ \A i \in 1..Len(c.req.handles) :
            c.req.handles[i] \in Entities => c.req.handles[i] \in c.tpm.present
    /\ c.req.command \in PolicyCommands \cup {"GetSessionAuditDigest"} =>
            c.tpm.sessions[c.req.in.slot].type =
                (IF c.req.command \in PolicyCommands THEN "POLICY" ELSE "HMAC")

\* A command that is about to be executed.
Runs(c) ==
    /\ Typed(c) /\ TpmInv(c.tpm) /\ Fresh(c.tpm) /\ ~c.tpm.failed /\ c.rc = "SUCCESS"
    /\ Loaded(c) /\ c.evict = {} /\ ~c.clearOrderly
    /\ \A i \in Sessions(c) : c.assoc[i] # Nothing =>
            i \in 1..Len(c.req.handles) /\ c.assoc[i] = c.req.handles[i]

Similar(s, u) == u.type = s.type /\ u.authHashAlg = s.authHashAlg

\* What becomes of the command audit digest.
Digested(c, t) ==
    \/ /\ t.auditHashAlg = c.tpm.auditHashAlg
       /\ t.auditDigest = IF c.req.command = "GetCommandAuditDigest" /\ c.req.handles[2] # "null"
                          THEN EmptyDigest ELSE c.tpm.auditDigest
    \/ /\ t.auditHashAlg # c.tpm.auditHashAlg
       /\ c.req.command = "SetCommandCodeAuditStatus" /\ t.auditDigest.size = "one"

\* What is saved for the TPM to start from again.
SavedBy(c) ==
    IF c.req.command = "Shutdown" /\ c.req.in.shutdownType = "STATE"
    THEN [digest |-> c.tpm.auditDigest, sessions |-> c.tpm.sessions] ELSE c.tpm.saved

\* What the execution of c may make of the TPM.
Served(c, t) ==
    /\ TpmInv(t) /\ Fresh(t) /\ ~t.failed
    /\ \A k \in Slots : c.tpm.sessions[k] # NoSession /\ c.req.command # "FlushContext" =>
            /\ t.sessions[k] # NoSession /\ Similar(c.tpm.sessions[k], t.sessions[k])
            /\ t.sessions[k].isAudit = c.tpm.sessions[k].isAudit
    /\ t.exclusive = c.tpm.exclusive \/ (c.req.command = "FlushContext" /\ t.exclusive = Nothing)
    /\ c.req.command \in t.auditCommands <=> c.req.command \in c.tpm.auditCommands
    /\ Digested(c, t) /\ t.saved = SavedBy(c)

Executed(c, d) ==
    /\ Typed(d) /\ d.req = c.req /\ d.attrs = c.attrs /\ d.cpHash = c.cpHash
    /\ d.compared = c.compared /\ d.tooLate = c.tooLate /\ d.include = c.include
    /\ \/ d.rc \in Plain /\ d.tpm = c.tpm /\ d.evict = c.evict
       \/ /\ d.rc = "SUCCESS" /\ Served(c, d.tpm)
          /\ \A i \in Sessions(c) : d.assoc[i] \in Entities => d.assoc[i] \in d.tpm.present

Assocs(c) == [Sessions(c) -> Places]
Ended(c, t, a, b, S) == [c EXCEPT !.tpm = t, !.assoc = a, !.clearOrderly = b, !.evict = S]

LEMMA EndedFields ==
    ASSUME NEW c, Typed(c), NEW t \in TpmRecords, NEW a \in Assocs(c),
           NEW b \in BOOLEAN, NEW S \in SUBSET Entities
    PROVE  LET d == Ended(c, t, a, b, S)
           IN  /\ Typed(d) /\ d.req = c.req /\ d.attrs = c.attrs /\ d.cpHash = c.cpHash
               /\ d.compared = c.compared /\ d.tooLate = c.tooLate /\ d.include = c.include
               /\ d.rc = c.rc /\ d.tpm = t /\ d.assoc = a /\ d.clearOrderly = b /\ d.evict = S
<1>1. Len(c.req.sessions) \in Nat
  BY RequestTyped DEF Typed
<1>2. a \in Maps(Places) /\ a \in [Sessions(c) -> Places]
  BY <1>1 DEF Maps, Sessions, Assocs
<1> QED  BY Zenon, <1>2 DEF Ended, Typed, CommandRecords, Sessions

LEMMA EndedExecuted ==
    ASSUME NEW c, Runs(c), NEW t, Served(c, t), c.tpm.present \subseteq t.present,
           NEW b \in BOOLEAN, NEW S \in SUBSET Entities
    PROVE  Executed(c, Ended(c, t, c.assoc, b, S))
<1> DEFINE d == Ended(c, t, c.assoc, b, S)
<1>1. Typed(c) /\ c.rc = "SUCCESS" /\ c.assoc \in Assocs(c) /\ t \in TpmRecords
  BY DEF Runs, Typed, Served, TpmInv, Assocs
<1>2. /\ Typed(d) /\ d.req = c.req /\ d.attrs = c.attrs /\ d.cpHash = c.cpHash
      /\ d.compared = c.compared /\ d.tooLate = c.tooLate /\ d.include = c.include
      /\ d.rc = c.rc /\ d.tpm = t /\ d.assoc = c.assoc
  BY <1>1, EndedFields
<1> HIDE DEF d
<1>3. \A i \in Sessions(c) : c.assoc[i] \in Entities => c.assoc[i] \in t.present
  BY PublicAssumption DEF Runs, Loaded
<1> QED  BY <1>1, <1>2, <1>3 DEF Executed, d

LEMMA RefusedExecuted ==
    ASSUME NEW c, Runs(c), NEW d, Refused(c, d)
    PROVE  Executed(c, d)
<1>1. PICK rc \in Plain : d = Refuse(c, rc)
  BY DEF Refused
<1>2. rc \in Codes
  BY DEF Codes
<1> QED  BY <1>1, <1>2, RefuseFields DEF Executed, Runs, Kept

\* Sessions.
LEMMA NotNone ==
    ASSUME NEW s \in SessionRecords
    PROVE  s # NoSession
<1>1. s.type # "none"
  BY DEF SessionRecords
<1> QED  BY <1>1 DEF NoSession

\* What a context, the nonces and an audit change in a session.
SetLoaded(s, b) == [s EXCEPT !.loaded = b]
SetFresh(s, b) == [s EXCEPT !.fresh = b]

LEMMA LoadedInv ==
    ASSUME NEW s, SessionInv(s), NEW b \in BOOLEAN
    PROVE  LET u == SetLoaded(s, b)
           IN  SessionInv(u) /\ Similar(s, u) /\ u.isAudit = s.isAudit /\ u.fresh = s.fresh
<1> DEFINE u == SetLoaded(s, b)
<1>1. /\ u \in SessionRecords /\ Similar(s, u) /\ u.isAudit = s.isAudit /\ u.fresh = s.fresh
      /\ u.policyDigest = s.policyDigest /\ u.needs = s.needs /\ u.commandCode = s.commandCode
      /\ u.isBound = s.isBound /\ u.sessionKey = s.sessionKey /\ u.boundEntity = s.boundEntity
      /\ u.bind = s.bind /\ u.isDaBound = s.isDaBound /\ u.isLockoutBound = s.isLockoutBound
  BY DEF SessionInv, SessionRecords, SetLoaded, Similar
<1> HIDE DEF u
<1> QED  BY <1>1 DEF SessionInv, BindingInv, PolicyInv, u

LEMMA FreshInv ==
    ASSUME NEW s, SessionInv(s), NEW b \in BOOLEAN
    PROVE  LET u == SetFresh(s, b)
           IN  SessionInv(u) /\ Similar(s, u) /\ u.isAudit = s.isAudit /\ u.fresh = b
<1> DEFINE u == SetFresh(s, b)
<1>1. /\ u \in SessionRecords /\ Similar(s, u) /\ u.isAudit = s.isAudit /\ u.fresh = b
      /\ u.policyDigest = s.policyDigest /\ u.needs = s.needs /\ u.commandCode = s.commandCode
      /\ u.isBound = s.isBound /\ u.sessionKey = s.sessionKey /\ u.boundEntity = s.boundEntity
      /\ u.bind = s.bind /\ u.isDaBound = s.isDaBound /\ u.isLockoutBound = s.isLockoutBound
  BY DEF SessionInv, SessionRecords, SetFresh, Similar
<1> HIDE DEF u
<1> QED  BY <1>1 DEF SessionInv, BindingInv, PolicyInv, u

LEMMA AuditInv ==
    ASSUME NEW s, SessionInv(s)
    PROVE  LET u == InitAuditSession(s)
           IN  SessionInv(u) /\ Similar(s, u) /\ u.isAudit /\ u.fresh = s.fresh
<1> DEFINE u == InitAuditSession(s)
<1>1. /\ u \in SessionRecords /\ Similar(s, u) /\ u.isAudit /\ u.fresh = s.fresh
      /\ u.policyDigest = s.policyDigest /\ u.needs = s.needs /\ u.commandCode = s.commandCode
      /\ ~u.isBound /\ u.bind = s.bind /\ u.isDaBound = s.isDaBound
      /\ u.isLockoutBound = s.isLockoutBound
  BY Zenon DEF SessionInv, SessionRecords, InitAuditSession, Similar
<1> HIDE DEF u
<1> QED  BY <1>1 DEF SessionInv, BindingInv, PolicyInv, u

LEMMA ResetInv ==
    ASSUME NEW s, SessionInv(s)
    PROVE  LET u == SessionResetPolicyData(s)
           IN  SessionInv(u) /\ Similar(s, u) /\ u.isAudit = s.isAudit /\ u.fresh = s.fresh
<1> DEFINE u == SessionResetPolicyData(s)
<1>1. <<>> \in Seq(Assertions)
  OBVIOUS
<1>2. u \in SessionRecords /\ u.policyDigest = <<>> /\ u.fresh = s.fresh /\ Similar(s, u)
      /\ u.isAudit = s.isAudit
  BY Zenon, <1>1 DEF SessionInv, SessionRecords, SessionResetPolicyData, Similar
<1>3. BindingInv(u)
  BY DEF SessionInv, SessionRecords, SessionResetPolicyData, BindingInv
<1>4. PolicyInv(u)
  BY <1>2 DEF PolicyInv
<1> QED  BY <1>2, <1>3, <1>4 DEF SessionInv

Asserted(s, a, code, needs) ==
    [s EXCEPT !.policyDigest = Append(@, a), !.commandCode = code, !.needs = needs]

LEMMA AssertedInv ==
    ASSUME NEW s, SessionInv(s), NEW a \in Assertions, NEW code \in CommandNames \cup {Nothing},
           NEW needs \in {"none", "auth", "password"},
           s.commandCode # Nothing => code = s.commandCode,
           s.needs # "none" => needs # "none",
           (a = TheAuthValue /\ needs # "none") \/ (a = TheCommand(code) /\ code # Nothing)
    PROVE  LET u == Asserted(s, a, code, needs)
           IN  SessionInv(u) /\ Similar(s, u) /\ u.isAudit = s.isAudit /\ u.fresh = s.fresh
<1> DEFINE u == Asserted(s, a, code, needs)
           p == s.policyDigest
<1>1. p \in Seq(Assertions) /\ Len(p) \in Nat
  BY DEF SessionInv, SessionRecords
<1>2. Append(p, a) \in Seq(Assertions) /\ Len(Append(p, a)) = Len(p) + 1
      /\ Append(p, a)[Len(p) + 1] = a /\ \A n \in 1..Len(p) : Append(p, a)[n] = p[n]
  BY <1>1
<1>3. /\ u \in SessionRecords /\ u.policyDigest = Append(p, a) /\ u.commandCode = code
      /\ u.needs = needs /\ u.fresh = s.fresh /\ Similar(s, u)
      /\ u.isAudit = s.isAudit
  BY Zenon, <1>2 DEF SessionInv, SessionRecords, Asserted, Similar
<1>4. BindingInv(u)
  BY DEF SessionInv, SessionRecords, Asserted, BindingInv
<1> HIDE DEF u
<1>5. PolicyInv(u)
  <2> SUFFICES ASSUME NEW n \in 1..Len(u.policyDigest)
               PROVE  \/ u.policyDigest[n] = TheAuthValue /\ u.needs # "none"
                      \/ u.policyDigest[n] = TheCommand(u.commandCode) /\ u.commandCode # Nothing
    BY DEF PolicyInv
  <2>1. CASE n = Len(p) + 1
    BY <1>2, <1>3, <2>1
  <2>2. CASE n \in 1..Len(p)
    <3>1. u.policyDigest[n] = p[n]
      BY <1>2, <1>3, <2>2
    <3>2. \/ p[n] = TheAuthValue /\ s.needs # "none"
          \/ p[n] = TheCommand(s.commandCode) /\ s.commandCode # Nothing
      BY <2>2 DEF SessionInv, PolicyInv
    <3> QED  BY <1>3, <3>1, <3>2
  <2> QED  BY <1>1, <1>2, <1>3, <2>1, <2>2
<1> QED  BY <1>3, <1>4, <1>5 DEF SessionInv, u

LEMMA AssertedForms ==
    ASSUME NEW s \in SessionRecords, NEW code
    PROVE  /\ PolicyAuthValue(s) = Asserted(s, TheAuthValue, s.commandCode, "auth")
           /\ PolicyPassword(s) = Asserted(s, TheAuthValue, s.commandCode, "password")
           /\ PolicyCommandCode(s, code) = Asserted(s, TheCommand(code), code, s.needs)
<1>1. PolicyAuthValue(s) = Asserted(s, TheAuthValue, s.commandCode, "auth")
  BY Zenon DEF PolicyAuthValue, Asserted, SessionRecords
<1>2. PolicyPassword(s) = Asserted(s, TheAuthValue, s.commandCode, "password")
  BY Zenon DEF PolicyPassword, Asserted, SessionRecords
<1>3. PolicyCommandCode(s, code) = Asserted(s, TheCommand(code), code, s.needs)
  BY Zenon DEF PolicyCommandCode, Asserted, SessionRecords
<1> QED  BY <1>1, <1>2, <1>3

LEMMA AuthAssertedInv ==
    ASSUME NEW s, SessionInv(s), NEW needs \in {"auth", "password"}
    PROVE  LET u == Asserted(s, TheAuthValue, s.commandCode, needs)
           IN  SessionInv(u) /\ Similar(s, u) /\ u.isAudit = s.isAudit /\ u.fresh = s.fresh
<1>1. s.commandCode \in CommandNames \cup {Nothing} /\ TheAuthValue \in Assertions
  BY Zenon DEF SessionInv, SessionRecords, Assertions
<1>2. needs \in {"none", "auth", "password"} /\ needs # "none"
  OBVIOUS
<1> QED  BY Zenon, <1>1, <1>2, AssertedInv

LEMMA CreatedInv ==
    ASSUME NEW t \in TpmRecords, NEW type \in {"HMAC", "POLICY", "TRIAL"}, NEW bind \in Handles,
           NEW symmetric \in BOOLEAN
    PROVE  LET s == SessionCreate(t, type, bind, symmetric)
           IN  SessionInv(s) /\ s.fresh
<1> DEFINE s == SessionCreate(t, type, bind, symmetric)
           v == EntityGetAuthValue(t, bind)
<1>1. v \in AuthValues
  BY PublicAssumption DEF EntityGetAuthValue, TpmRecords
<1>2. v # Nothing /\ IsDAExempted(bind) \in BOOLEAN
  BY <1>1, PublicAssumption, Exempt
<1>3. <<bind, v>> \in Handles \X AuthValues /\ <<>> \in Seq(Assertions)
  BY <1>1
<1> HIDE DEF v
<1>4. /\ s = [type |-> IF type = "TRIAL" THEN "POLICY" ELSE type, trial |-> type = "TRIAL",
              loaded |-> TRUE, authHashAlg |-> "SHA256", symmetric |-> symmetric,
              sessionKey |-> IF bind = "null" THEN Nothing ELSE v,
              isBound |-> bind # "null" /\ type = "HMAC", boundEntity |-> <<bind, v>>,
              isDaBound |-> ~IsDAExempted(bind), isLockoutBound |-> bind = "lockout",
              isAudit |-> FALSE, policyDigest |-> <<>>, commandCode |-> Nothing, needs |-> "none",
              bind |-> bind, fresh |-> TRUE]
  BY DEF SessionCreate, SessionComputeBoundEntity, v
<1>5. s \in SessionRecords
  BY <1>1, <1>2, <1>3, <1>4 DEF SessionRecords, Keys, HashAlgs
<1>6. /\ s.isBound = (bind # "null" /\ type = "HMAC") /\ s.boundEntity = <<bind, v>>
      /\ s.sessionKey = (IF bind = "null" THEN Nothing ELSE v) /\ s.bind = bind
      /\ s.isDaBound = ~IsDAExempted(bind) /\ s.isLockoutBound = (bind = "lockout")
      /\ s.policyDigest = <<>> /\ s.fresh
  BY <1>4
<1> HIDE DEF s
<1>7. BindingInv(s)
  BY Zenon, <1>2, <1>6 DEF BindingInv
<1>8. PolicyInv(s)
  BY <1>6 DEF PolicyInv
<1> QED  BY <1>5, <1>6, <1>7, <1>8 DEF SessionInv, s

\* The updates of the TPM that the commands make.
SetSession(t, k, s) == [t EXCEPT !.sessions[k] = s]

LEMMA SetFields ==
    ASSUME NEW t, TpmInv(t), Fresh(t), NEW k \in Slots, NEW s,
           s = NoSession \/ (SessionInv(s) /\ s.fresh)
    PROVE  LET u == SetSession(t, k, s)
           IN  /\ TpmInv(u) /\ Fresh(u) /\ u.sessions[k] = s
               /\ \A m \in Slots : m # k => u.sessions[m] = t.sessions[m]
               /\ u.present = t.present /\ u.exclusive = t.exclusive /\ u.orderly = t.orderly
               /\ u.auditCommands = t.auditCommands /\ u.auditHashAlg = t.auditHashAlg
               /\ u.auditDigest = t.auditDigest /\ u.saved = t.saved /\ u.failed = t.failed
<1> DEFINE f == [t.sessions EXCEPT ![k] = s]
           u == SetSession(t, k, s)
<1>1. t.sessions \in [Slots -> SessionRecords \cup {NoSession}] /\ t \in TpmRecords
  BY DEF TpmInv, TpmRecords
<1>2. s \in SessionRecords \cup {NoSession}
  BY DEF SessionInv
<1>3. /\ f \in [Slots -> SessionRecords \cup {NoSession}] /\ f[k] = s
      /\ \A m \in Slots : m # k => f[m] = t.sessions[m]
  BY <1>1, <1>2
<1>4. u = [t EXCEPT !.sessions = f]
  BY DEF SetSession
<1> HIDE DEF f
<1>5. /\ u \in TpmRecords /\ u.sessions = f
      /\ u.present = t.present /\ u.exclusive = t.exclusive /\ u.orderly = t.orderly
      /\ u.auditCommands = t.auditCommands /\ u.auditHashAlg = t.auditHashAlg
      /\ u.auditDigest = t.auditDigest /\ u.saved = t.saved /\ u.failed = t.failed
  BY <1>1, <1>3, <1>4 DEF TpmRecords
<1> HIDE DEF u
<1>6. \A m \in Slots : u.sessions[m] # NoSession => SessionInv(u.sessions[m]) /\ u.sessions[m].fresh
  BY Zenon, <1>3, <1>5 DEF TpmInv, Fresh
<1> QED  BY <1>3, <1>5, <1>6 DEF TpmInv, Fresh, u

\* A command that changes one session.
LEMMA ServedSession ==
    ASSUME NEW c, Runs(c), 
           c.req.command \notin {"GetCommandAuditDigest", "FlushContext", "Shutdown"},
           NEW k \in Slots, NEW s, SessionInv(s), s.fresh,
           c.tpm.sessions[k] # NoSession =>
                Similar(c.tpm.sessions[k], s) /\ s.isAudit = c.tpm.sessions[k].isAudit
    PROVE  Served(c, SetSession(c.tpm, k, s)) /\ SetSession(c.tpm, k, s).present = c.tpm.present
<1> DEFINE t == c.tpm
           u == SetSession(t, k, s)
<1>1. TpmInv(t) /\ Fresh(t) /\ ~t.failed
  BY Zenon DEF Runs
<1>2. /\ TpmInv(u) /\ Fresh(u) /\ u.sessions[k] = s
      /\ \A m \in Slots : m # k => u.sessions[m] = t.sessions[m]
      /\ u.present = t.present /\ u.exclusive = t.exclusive /\ u.orderly = t.orderly
      /\ u.auditCommands = t.auditCommands /\ u.auditHashAlg = t.auditHashAlg
      /\ u.auditDigest = t.auditDigest /\ u.saved = t.saved /\ u.failed = t.failed
  BY <1>1, SetFields
<1> HIDE DEF u
<1>3. s # NoSession
  BY NotNone DEF SessionInv
<1>4. \A m \in Slots : t.sessions[m] # NoSession =>
            /\ u.sessions[m] # NoSession /\ Similar(t.sessions[m], u.sessions[m])
            /\ u.sessions[m].isAudit = t.sessions[m].isAudit
  BY <1>2, <1>3 DEF Similar
<1> QED  BY <1>1, <1>2, <1>4 DEF Served, Digested, SavedBy, u

\* A command that changes none of the sessions and none of what is audited.
LEMMA ServedBeside ==
    ASSUME NEW c, Runs(c), NEW u \in TpmRecords,
           c.req.command \notin {"GetCommandAuditDigest", "Shutdown"}, u.saved = c.tpm.saved,
           u.sessions = c.tpm.sessions, u.exclusive = c.tpm.exclusive,
           u.auditCommands = c.tpm.auditCommands,
           u.auditHashAlg = c.tpm.auditHashAlg, u.auditDigest = c.tpm.auditDigest,
           u.failed = c.tpm.failed
    PROVE  Served(c, u)
<1>1. TpmInv(u) /\ Fresh(u)
  BY DEF Runs, TpmInv, Fresh
<1> QED  BY <1>1 DEF Served, Digested, SavedBy, Runs, Similar

LEMMA StartAuthSessionExecuted ==
    ASSUME NEW c, Runs(c), c.req.command = "StartAuthSession"
    PROVE  Executed(c, StartAuthSession(c))
<1> DEFINE t == c.tpm
           free == {k \in Slots : t.sessions[k] = NoSession}
           k == CHOOSE m \in free : \A n \in free : m <= n
           s == SessionCreate(t, c.req.in.type, c.req.handles[2], c.req.in.symmetric)
           d == StartAuthSession(c)
<1>0. Typed(c) /\ t \in TpmRecords /\ c.rc = "SUCCESS" /\ c.evict = {} /\ ~c.clearOrderly
  BY DEF Runs, TpmInv
<1>1. WellFormed(c.req)
  BY <1>0, RequestTyped DEF Typed
<1>2. CASE Bit(c.req.handles[2], "publicOnly") \/ free = {}
  <2>1. {"HANDLE", "SESSION_MEMORY"} \subseteq Plain
    BY DEF Plain
  <2>2. Refused(c, d)
    BY Zenon, <1>2, <2>1 DEF StartAuthSession, Refused, Bit
  <2> QED  BY <2>2, RefusedExecuted
<1>3. CASE ~Bit(c.req.handles[2], "publicOnly") /\ free # {}
  <2>1. \E m \in free : \A n \in free : m <= n
    BY Zenon, <1>3, BoundsAssumption
  <2>2. k \in free
    BY <2>1
  <2>3. k \in Slots /\ t.sessions[k] = NoSession
    BY <2>2
  <2>4. SessionInv(s) /\ s.fresh
    <3>1. /\ c.req.in.type \in {"HMAC", "POLICY", "TRIAL"} /\ c.req.in.symmetric \in BOOLEAN
          /\ c.req.handles[2] \in Handles
      BY <1>1 DEF WellFormed
    <3> QED  BY <1>0, <3>1, CreatedInv
  <2>5. d = [c EXCEPT !.tpm.sessions[k] = s]
    BY <1>3 DEF StartAuthSession
  <2> HIDE DEF k, s
  <2>6. d = Ended(c, SetSession(t, k, s), c.assoc, FALSE, {})
    BY Zenon, <1>0, <2>5 DEF Ended, SetSession, Typed, CommandRecords
  <2>7. Served(c, SetSession(t, k, s)) /\ SetSession(t, k, s).present = t.present
    BY <2>3, <2>4, ServedSession
  <2> QED  BY Zenon, <2>6, <2>7, EndedExecuted
<1> QED  BY <1>2, <1>3

\* TpmRecords, field by field.
LEMMA TpmTyped ==
    ASSUME NEW t \in TpmRecords
    PROVE  /\ t.auths \in [Entities -> AuthValues] /\ t.present \subseteq Entities
           /\ t.sessions \in [Slots -> SessionRecords \cup {NoSession}]
           /\ t.exclusive \in (Slots \X {"HMAC"}) \cup {Nothing} /\ t.failedTries \in Nat
           /\ t.lockOutAuthEnabled \in BOOLEAN
           /\ t.orderly \in {"NONE", "CLEAR", "STATE"}
           /\ t.auditCommands \subseteq CommandNames \cup {"SetCommandCodeAuditStatus"}
           /\ t.auditHashAlg \in HashAlgs /\ t.auditDigest \in Digests /\ t.saved \in Saves
           /\ t.auditCounter \in Nat /\ t.failed \in BOOLEAN
  BY DEF TpmRecords

Flushed(t, k, e) == [t EXCEPT !.sessions[k] = NoSession, !.exclusive = e]

LEMMA FlushContextExecuted ==
    ASSUME NEW c, Runs(c), c.req.command = "FlushContext"
    PROVE  Executed(c, FlushContext(c))
<1> DEFINE t == c.tpm
           h == Handle(c.req.in)
           k == c.req.in.slot
           e == IF t.exclusive = h THEN Nothing ELSE t.exclusive
           u == Flushed(t, k, e)
           d == FlushContext(c)
<1>0. Typed(c) /\ t \in TpmRecords /\ c.rc = "SUCCESS" /\ c.evict = {} /\ ~c.clearOrderly
      /\ TpmInv(t) /\ Fresh(t)
  BY Zenon DEF Runs, TpmInv
<1>1. k \in Slots
  BY <1>0, RequestTyped DEF Typed, WellFormed
<1>2. h[1] = k
  BY DEF Handle
<1>3. CASE t.sessions[k] = NoSession
  <2>1. d = Refuse(c, "HANDLE") /\ "HANDLE" \in Plain
    BY <1>2, <1>3 DEF FlushContext, Plain
  <2> QED  BY <2>1, RefusedExecuted DEF Refused
<1>4. CASE t.sessions[k] # NoSession
  <2>1. d = [c EXCEPT !.tpm.sessions[k] = NoSession, !.tpm.exclusive = e]
    BY <1>2, <1>4 DEF FlushContext
  <2>2. e \in {t.exclusive, Nothing}
    OBVIOUS
  <2> HIDE DEF e, d
  <2>3. d = Ended(c, u, c.assoc, FALSE, {})
    BY Zenon, <1>0, <2>1 DEF Ended, Flushed, Typed, CommandRecords, TpmRecords
  <2>4. u = [SetSession(t, k, NoSession) EXCEPT !.exclusive = e]
    BY <1>0 DEF Flushed, SetSession, TpmRecords
  <2> DEFINE v == SetSession(t, k, NoSession)
  <2>5. /\ TpmInv(v) /\ Fresh(v) /\ v.sessions[k] = NoSession
        /\ \A m \in Slots : m # k => v.sessions[m] = t.sessions[m]
        /\ v.present = t.present /\ v.exclusive = t.exclusive /\ v.orderly = t.orderly
        /\ v.auditCommands = t.auditCommands /\ v.auditHashAlg = t.auditHashAlg
        /\ v.auditDigest = t.auditDigest /\ v.saved = t.saved /\ v.failed = t.failed
    BY <1>0, <1>1, SetFields
  <2> HIDE DEF u, v
  <2>6. /\ u \in TpmRecords /\ u.exclusive = e /\ u.sessions = v.sessions /\ u.present = v.present
        /\ u.orderly = v.orderly /\ u.auditCommands = v.auditCommands
        /\ u.auditHashAlg = v.auditHashAlg /\ u.auditDigest = v.auditDigest
        /\ u.saved = v.saved /\ u.failed = v.failed
    BY Zenon, <1>0, <2>2, <2>4, <2>5 DEF TpmInv, TpmRecords, v
  <2>7. TpmInv(u) /\ Fresh(u)
    BY Zenon, <2>5, <2>6 DEF TpmInv, Fresh
  <2>8. Served(c, u)
    BY <1>0, <2>2, <2>5, <2>6, <2>7 DEF Served, Digested, SavedBy, Runs
  <2>9. Executed(c, d)
    BY Zenon, <2>3, <2>5, <2>6, <2>8, EndedExecuted
  <2> QED  BY <2>9 DEF d
<1> QED  BY <1>3, <1>4

LEMMA ContextExecuted ==
    ASSUME NEW c, Runs(c), c.req.command \in {"ContextSave", "ContextLoad"}
    PROVE  /\ c.req.command = "ContextSave" => Executed(c, ContextSave(c))
           /\ c.req.command = "ContextLoad" => Executed(c, ContextLoad(c))
<1> DEFINE t == c.tpm
           k == c.req.in.slot
<1>0. Typed(c) /\ t \in TpmRecords /\ c.rc = "SUCCESS" /\ c.evict = {} /\ TpmInv(t) /\ Fresh(t)
  BY Zenon DEF Runs, TpmInv
<1>1. k \in Slots
  BY <1>0, RequestTyped DEF Typed, WellFormed
<1>2. Executed(c, Refuse(c, "HANDLE"))
  <2>1. "HANDLE" \in Plain
    BY DEF Plain
  <2> QED  BY <2>1, RefusedExecuted DEF Refused
<1>3. ASSUME NEW b \in BOOLEAN, t.sessions[k] # NoSession
      PROVE  Executed(c, [c EXCEPT !.tpm.sessions[k].loaded = b, !.clearOrderly = TRUE])
  <2> DEFINE s == SetLoaded(t.sessions[k], b)
             d == [c EXCEPT !.tpm.sessions[k].loaded = b, !.clearOrderly = TRUE]
  <2>1. SessionInv(t.sessions[k]) /\ t.sessions[k].fresh
    BY <1>0, <1>1, <1>3 DEF TpmInv, Fresh
  <2>2. SessionInv(s) /\ Similar(t.sessions[k], s) /\ s.isAudit = t.sessions[k].isAudit /\ s.fresh
    BY Zenon, <2>1, LoadedInv
  <2>3. d = Ended(c, SetSession(t, k, s), c.assoc, TRUE, {})
    BY Zenon, <1>0, <1>1 DEF Ended, SetSession, SetLoaded, Typed, CommandRecords, TpmRecords
  <2> HIDE DEF s, d
  <2>4. Served(c, SetSession(t, k, s)) /\ SetSession(t, k, s).present = t.present
    BY <1>1, <2>2, ServedSession
  <2>5. Executed(c, d)
    BY Zenon, <2>3, <2>4, EndedExecuted
  <2> QED  BY Zenon, <2>5 DEF d
<1>4. Executed(c, [c EXCEPT !.rc = "HANDLE", !.clearOrderly = TRUE])
  <2>1. "HANDLE" \in Plain /\ "HANDLE" \in Codes
    BY DEF Plain, Codes
  <2> QED  BY Zenon, <1>0, <2>1 DEF Executed, Typed, CommandRecords, Sessions
<1> QED  BY Zenon, <1>2, <1>3, <1>4 DEF ContextSave, ContextLoad

LEMMA HierarchyChangeAuthExecuted ==
    ASSUME NEW c, Runs(c), c.req.command = "HierarchyChangeAuth"
    PROVE  Executed(c, HierarchyChangeAuth(c))
<1> DEFINE t == c.tpm
           h == c.req.handles[1]
           f == [t.auths EXCEPT ![h] = c.req.in.newAuth]
           u == [t EXCEPT !.auths = f]
           b == h = "platform"
<1>0. Typed(c) /\ t \in TpmRecords /\ c.rc = "SUCCESS" /\ c.evict = {} /\ WellFormed(c.req)
  BY RequestTyped DEF Runs, TpmInv, Typed
<1>1. f \in [Entities -> AuthValues]
  BY <1>0 DEF WellFormed, TpmRecords
<1>2. HierarchyChangeAuth(c) = Ended(c, u, c.assoc, b, {})
  BY Zenon, <1>0 DEF HierarchyChangeAuth, Ended, Typed, CommandRecords
<1> HIDE DEF f
<1>3. /\ u \in TpmRecords /\ u.sessions = t.sessions /\ u.exclusive = t.exclusive
      /\ u.saved = t.saved /\ u.auditCommands = t.auditCommands
      /\ u.auditHashAlg = t.auditHashAlg /\ u.auditDigest = t.auditDigest
      /\ u.failed = t.failed /\ u.present = t.present
  BY <1>0, <1>1 DEF TpmRecords
<1> HIDE DEF u
<1>4. Served(c, u)
  BY <1>3, ServedBeside
<1>5. b \in BOOLEAN
  OBVIOUS
<1> HIDE DEF b
<1> QED  BY <1>2, <1>3, <1>4, <1>5, EndedExecuted

LEMMA NV_UndefineSpaceSpecialExecuted ==
    ASSUME NEW c, Runs(c), c.req.command = "NV_UndefineSpaceSpecial"
    PROVE  Executed(c, NV_UndefineSpaceSpecial(c))
<1> DEFINE t == c.tpm
           e == c.req.handles[1]
           u == [t EXCEPT !.present = @ \ {e}]
           a == [i \in DOMAIN c.assoc |-> IF c.assoc[i] = e THEN "null" ELSE c.assoc[i]]
           d == Ended(c, u, a, FALSE, {})
<1>0. Typed(c) /\ t \in TpmRecords /\ c.rc = "SUCCESS" /\ c.evict = {} /\ ~c.clearOrderly
  BY DEF Runs, TpmInv
<1>1. CASE ~Bit(e, "POLICY_DELETE")
  <2>1. NV_UndefineSpaceSpecial(c) = Refuse(c, "ATTRIBUTES") /\ "ATTRIBUTES" \in Plain
    BY <1>1 DEF NV_UndefineSpaceSpecial, Plain
  <2> QED  BY <2>1, RefusedExecuted DEF Refused
<1>2. CASE Bit(e, "POLICY_DELETE")
  <2>1. NV_UndefineSpaceSpecial(c) = d
    BY Zenon, <1>0, <1>2 DEF NV_UndefineSpaceSpecial, Ended, Typed, CommandRecords
  <2>2. a \in Assocs(c)
    BY <1>0 DEF Typed, Places, Handles, Assocs
  <2>3. /\ u \in TpmRecords /\ u.sessions = t.sessions /\ u.exclusive = t.exclusive
        /\ u.saved = t.saved /\ u.auditCommands = t.auditCommands
        /\ u.auditHashAlg = t.auditHashAlg /\ u.auditDigest = t.auditDigest
        /\ u.failed = t.failed /\ u.present = t.present \ {e}
    BY <1>0 DEF TpmRecords
  <2> HIDE DEF u
  <2>4. Served(c, u)
    BY <2>3, ServedBeside
  <2>5. \A i \in Sessions(c) : a[i] \in Entities => a[i] \in u.present
    <3> SUFFICES ASSUME NEW i \in Sessions(c), a[i] \in Entities PROVE a[i] \in u.present
      OBVIOUS
    <3>1. i \in DOMAIN c.assoc
      BY <1>0 DEF Typed
    <3>2. a[i] = c.assoc[i] /\ c.assoc[i] # e
      BY Zenon, <3>1, PublicAssumption
    <3>3. c.assoc[i] \in t.present
      BY <3>2, PublicAssumption DEF Runs, Loaded
    <3> QED  BY <2>3, <3>2, <3>3
  <2> HIDE DEF a
  <2>6. /\ Typed(d) /\ d.req = c.req /\ d.attrs = c.attrs /\ d.cpHash = c.cpHash
        /\ d.compared = c.compared /\ d.tooLate = c.tooLate /\ d.include = c.include
        /\ d.rc = c.rc /\ d.tpm = u /\ d.assoc = a
    <3> DEFINE b == FALSE
               S == {}
    <3>1. b \in BOOLEAN /\ S \in SUBSET Entities /\ u \in TpmRecords
      BY <2>3
    <3>2. d = Ended(c, u, a, b, S)
      OBVIOUS
    <3> HIDE DEF b, S, d
    <3> QED  BY <1>0, <2>2, <3>1, <3>2, EndedFields
  <2> HIDE DEF d
  <2>7. Executed(c, d)
    BY <1>0, <2>4, <2>5, <2>6 DEF Executed
  <2> QED  BY <2>1, <2>7
<1> QED  BY <1>1, <1>2

LEMMA SequenceCompleteExecuted ==
    ASSUME NEW c, Runs(c), c.req.command = "SequenceComplete"
    PROVE  Executed(c, SequenceComplete(c))
<1> DEFINE t == c.tpm
           e == c.req.handles[1]
<1>0. Typed(c) /\ t \in TpmRecords /\ c.rc = "SUCCESS" /\ c.evict = {} /\ ~c.clearOrderly
  BY DEF Runs, TpmInv
<1>1. CASE ~Bit(e, "sequence")
  <2>1. SequenceComplete(c) = Refuse(c, "MODE") /\ "MODE" \in Plain
    BY <1>1 DEF SequenceComplete, Plain
  <2> QED  BY <2>1, RefusedExecuted DEF Refused
<1>2. CASE Bit(e, "sequence")
  <2>1. SequenceComplete(c) = Ended(c, t, c.assoc, FALSE, {e})
    BY Zenon, <1>0, <1>2 DEF SequenceComplete, Ended, Typed, CommandRecords
  <2>2. {e} \in SUBSET Entities
    BY <1>2 DEF Bit
  <2>3. Served(c, t)
    BY <1>0, ServedBeside
  <2> QED  BY Zenon, <2>1, <2>2, <2>3, EndedExecuted
<1> QED  BY <1>1, <1>2

LEMMA CreationExecuted ==
    ASSUME NEW c, Runs(c), c.req.command \in {"Load", "HashSequenceStart", "NV_DefineSpace"}
    PROVE  Executed(c, Creation(c))
<1> DEFINE t == c.tpm
           e == c.req.in.entity
           f == [t.auths EXCEPT ![e] = InitialAuth[e]]
           u == [t EXCEPT !.present = @ \cup {e}, !.auths = f]
<1>0. Typed(c) /\ t \in TpmRecords /\ c.rc = "SUCCESS" /\ c.evict = {} /\ ~c.clearOrderly
      /\ WellFormed(c.req)
  BY Zenon, RequestTyped DEF Runs, TpmInv, Typed
<1>1. e \in Entities
  BY <1>0 DEF WellFormed
<1>2. CASE e \in t.present
  <2>1. Creation(c) = Refuse(c, "MEMORY") /\ "MEMORY" \in Plain
    BY <1>2 DEF Creation, Plain
  <2> QED  BY <2>1, RefusedExecuted DEF Refused
<1>3. CASE e \notin t.present
  <2>1. Creation(c) = Ended(c, u, c.assoc, FALSE, {})
    BY Zenon, <1>0, <1>3 DEF Creation, Ended, Typed, CommandRecords, TpmRecords
  <2>2. f \in [Entities -> AuthValues]
    BY <1>0, <1>1, PublicAssumption DEF TpmRecords
  <2> HIDE DEF f
  <2>3. /\ u \in TpmRecords /\ u.sessions = t.sessions /\ u.exclusive = t.exclusive
        /\ u.saved = t.saved /\ u.auditCommands = t.auditCommands
        /\ u.auditHashAlg = t.auditHashAlg /\ u.auditDigest = t.auditDigest
        /\ u.failed = t.failed /\ t.present \subseteq u.present
    BY Zenon, <1>0, <1>1, <2>2 DEF TpmRecords
  <2> HIDE DEF u
  <2>4. Served(c, u)
    BY <2>3, ServedBeside
  <2> QED  BY Zenon, <2>1, <2>3, <2>4, EndedExecuted
<1> QED  BY <1>2, <1>3

LEMMA LockResetExecuted ==
    ASSUME NEW c, Runs(c), c.req.command = "DictionaryAttackLockReset"
    PROVE  Executed(c, [c EXCEPT !.tpm.failedTries = 0])
<1> DEFINE t == c.tpm
           u == [t EXCEPT !.failedTries = 0]
           d == [c EXCEPT !.tpm.failedTries = 0]
<1>0. Typed(c) /\ t \in TpmRecords /\ c.evict = {} /\ ~c.clearOrderly
  BY DEF Runs, TpmInv
<1>1. d = Ended(c, u, c.assoc, FALSE, {})
  BY Zenon, <1>0 DEF Ended, Typed, CommandRecords
<1>2. /\ u \in TpmRecords /\ u.sessions = t.sessions /\ u.exclusive = t.exclusive
      /\ u.saved = t.saved /\ u.auditCommands = t.auditCommands
      /\ u.auditHashAlg = t.auditHashAlg /\ u.auditDigest = t.auditDigest
      /\ u.failed = t.failed /\ u.present = t.present
  BY <1>0 DEF TpmRecords
<1> HIDE DEF u, d
<1>3. Served(c, u)
  BY <1>2, ServedBeside
<1>4. Executed(c, d)
  BY Zenon, <1>1, <1>2, <1>3, EndedExecuted
<1> QED  BY <1>4 DEF d

LEMMA SameExecuted ==
    ASSUME NEW c, Runs(c), c.req.command = "GetCommandAuditDigest" => c.req.handles[2] = "null",
           c.req.command # "Shutdown"
    PROVE  Executed(c, c)
<1>1. Served(c, c.tpm)
  BY Zenon DEF Runs, Served, Digested, SavedBy, Similar
<1>2. \A i \in Sessions(c) : c.assoc[i] \in Entities => c.assoc[i] \in c.tpm.present
  BY Zenon, PublicAssumption DEF Runs, Loaded
<1> QED  BY Zenon, <1>1, <1>2 DEF Executed, Runs

LEMMA SetCommandCodeAuditStatusExecuted ==
    ASSUME NEW c, Runs(c), c.req.command = "SetCommandCodeAuditStatus"
    PROVE  Executed(c, SetCommandCodeAuditStatus(c))
<1> DEFINE t == c.tpm
           in == c.req.in
<1>0. Typed(c) /\ t \in TpmRecords /\ c.rc = "SUCCESS" /\ c.evict = {} /\ ~c.clearOrderly
      /\ WellFormed(c.req) /\ TpmInv(t) /\ Fresh(t) /\ ~t.failed
  BY Zenon, RequestTyped DEF Runs, TpmInv, Typed
<1>1. /\ in.auditAlg \in HashAlgs \cup {Nothing}
      /\ in.setList \subseteq CommandNames /\ in.clearList \subseteq CommandNames
  BY <1>0 DEF WellFormed
<1>2. CASE in.auditAlg \in {Nothing, t.auditHashAlg}
  <2> DEFINE S == (t.auditCommands \cup (in.setList \ {"Shutdown"}))
                      \ (in.clearList \ {"SetCommandCodeAuditStatus"})
             u == [t EXCEPT !.auditCommands = S]
  <2>1. SetCommandCodeAuditStatus(c) = Ended(c, u, c.assoc, FALSE, {})
    BY Zenon, <1>0, <1>2 DEF SetCommandCodeAuditStatus, Ended, Typed, CommandRecords, TpmRecords
  <2>2. /\ S \subseteq CommandNames \cup {"SetCommandCodeAuditStatus"}
        /\ "SetCommandCodeAuditStatus" \in S /\ "Shutdown" \notin S
    BY <1>0, <1>1, TpmTyped DEF TpmInv
  <2> HIDE DEF S
  <2>3. /\ u \in TpmRecords /\ u.sessions = t.sessions /\ u.exclusive = t.exclusive
        /\ u.saved = t.saved /\ u.auditCommands = S
        /\ u.auditHashAlg = t.auditHashAlg /\ u.auditDigest = t.auditDigest
        /\ u.failed = t.failed /\ u.present = t.present
    BY Zenon, <1>0, <2>2 DEF TpmRecords
  <2> HIDE DEF u
  <2>4. TpmInv(u) /\ Fresh(u)
    BY <1>0, <2>2, <2>3 DEF TpmInv, Fresh
  <2>5. "SetCommandCodeAuditStatus" \in t.auditCommands
    BY Zenon, <1>0 DEF TpmInv
  <2>6. Served(c, u)
    BY <1>0, <2>2, <2>3, <2>4, <2>5 DEF Served, Digested, SavedBy, Similar
  <2> QED  BY Zenon, <2>1, <2>3, <2>6, EndedExecuted
<1>3. CASE in.auditAlg \notin {Nothing, t.auditHashAlg} /\ (in.setList # {} \/ in.clearList # {})
  <2>1. SetCommandCodeAuditStatus(c) = Refuse(c, "VALUE") /\ "VALUE" \in Plain
    BY <1>3 DEF SetCommandCodeAuditStatus, Plain
  <2> QED  BY <2>1, RefusedExecuted DEF Refused
<1>4. CASE in.auditAlg \notin {Nothing, t.auditHashAlg} /\ ~(in.setList # {} \/ in.clearList # {})
  <2> DEFINE g == [t.auditDigest EXCEPT !.size = "one"]
             u == [t EXCEPT !.auditHashAlg = in.auditAlg, !.auditDigest = g]
  <2>1. SetCommandCodeAuditStatus(c) = Ended(c, u, c.assoc, FALSE, {})
    BY Zenon, <1>0, <1>4 DEF SetCommandCodeAuditStatus, Ended, Typed, CommandRecords, TpmRecords
  <2>2. g \in Digests /\ g.size = "one" /\ in.auditAlg \in HashAlgs
    BY <1>0, <1>1, <1>4, TpmTyped DEF Digests
  <2> HIDE DEF g
  <2>3. /\ u \in TpmRecords /\ u.sessions = t.sessions /\ u.exclusive = t.exclusive
        /\ u.saved = t.saved /\ u.auditCommands = t.auditCommands
        /\ u.auditHashAlg = in.auditAlg /\ u.auditDigest = g
        /\ u.failed = t.failed /\ u.present = t.present
    BY Zenon, <1>0, <2>2 DEF TpmRecords
  <2> HIDE DEF u
  <2>4. TpmInv(u) /\ Fresh(u)
    BY Zenon, <1>0, <2>2, <2>3 DEF TpmInv, Fresh
  <2>5. Served(c, u)
    BY <1>0, <1>4, <2>2, <2>3, <2>4 DEF Served, Digested, SavedBy, Similar
  <2> QED  BY Zenon, <2>1, <2>3, <2>5, EndedExecuted
<1> QED  BY Zenon, <1>2, <1>3, <1>4

LEMMA GetCommandAuditDigestExecuted ==
    ASSUME NEW c, Runs(c), c.req.command = "GetCommandAuditDigest"
    PROVE  Executed(c, GetCommandAuditDigest(c))
<1> DEFINE t == c.tpm
           u == [t EXCEPT !.auditDigest = EmptyDigest]
<1>0. Typed(c) /\ t \in TpmRecords /\ c.rc = "SUCCESS" /\ c.evict = {} /\ ~c.clearOrderly
      /\ TpmInv(t) /\ Fresh(t) /\ ~t.failed
  BY DEF Runs, TpmInv
<1>1. CASE c.req.handles[2] = "null"
  BY <1>1, SameExecuted DEF GetCommandAuditDigest
<1>2. CASE c.req.handles[2] # "null"
  <2>1. GetCommandAuditDigest(c) = Ended(c, u, c.assoc, FALSE, {})
    BY Zenon, <1>0, <1>2 DEF GetCommandAuditDigest, Ended, Typed, CommandRecords
  <2>2. EmptyDigest \in Digests
    BY DEF EmptyDigest, Digests
  <2>3. /\ u \in TpmRecords /\ u.sessions = t.sessions /\ u.exclusive = t.exclusive
        /\ u.saved = t.saved /\ u.auditCommands = t.auditCommands
        /\ u.auditHashAlg = t.auditHashAlg /\ u.auditDigest = EmptyDigest
        /\ u.failed = t.failed /\ u.present = t.present
    BY <1>0, <2>2 DEF TpmRecords
  <2> HIDE DEF u
  <2>4. TpmInv(u) /\ Fresh(u)
    BY Zenon, <1>0, <2>3 DEF TpmInv, Fresh
  <2>5. Served(c, u)
    BY <1>0, <1>2, <2>3, <2>4 DEF Served, Digested, SavedBy, Similar
  <2> QED  BY Zenon, <2>1, <2>3, <2>5, EndedExecuted
<1> QED  BY Zenon, <1>1, <1>2

LEMMA ShutdownExecuted ==
    ASSUME NEW c, Runs(c), c.req.command = "Shutdown"
    PROVE  Executed(c, Shutdown(c))
<1> DEFINE t == c.tpm
           type == c.req.in.shutdownType
           g == IF type = "STATE" THEN [digest |-> t.auditDigest, sessions |-> t.sessions]
                ELSE t.saved
           u == [t EXCEPT !.orderly = type, !.saved = g]
<1>0. Typed(c) /\ t \in TpmRecords /\ c.rc = "SUCCESS" /\ c.evict = {} /\ ~c.clearOrderly
      /\ WellFormed(c.req) /\ TpmInv(t) /\ Fresh(t) /\ ~t.failed
  BY RequestTyped DEF Runs, TpmInv, Typed
<1>1. Shutdown(c) = Ended(c, u, c.assoc, FALSE, {})
  BY Zenon, <1>0 DEF Shutdown, Ended, Typed, CommandRecords, TpmRecords
<1>2. type \in {"CLEAR", "STATE"} /\ g \in Saves
  BY <1>0, TpmTyped DEF WellFormed, Saves
<1>6. SavedInv(g) /\ g = SavedBy(c)
  BY <1>0 DEF TpmInv, Fresh, SavedInv, SavedBy
<1> HIDE DEF g
<1>3. /\ u \in TpmRecords /\ u.sessions = t.sessions /\ u.exclusive = t.exclusive
      /\ u.orderly = type /\ u.saved = g /\ u.auditCommands = t.auditCommands
      /\ u.auditHashAlg = t.auditHashAlg /\ u.auditDigest = t.auditDigest
      /\ u.failed = t.failed /\ u.present = t.present
  BY Zenon, <1>0, <1>2 DEF TpmRecords
<1> HIDE DEF u
<1>4. TpmInv(u) /\ Fresh(u)
  BY Zenon, <1>0, <1>6, <1>3 DEF TpmInv, Fresh
<1>5. Served(c, u)
  BY <1>0, <1>3, <1>4, <1>6 DEF Served, Digested, Similar
<1> QED  BY Zenon, <1>1, <1>3, <1>5, EndedExecuted

LEMMA PolicyCommandExecuted ==
    ASSUME NEW c, Runs(c), c.req.command \in PolicyCommands
    PROVE  Executed(c, PolicyCommand(c))
<1> DEFINE t == c.tpm
           k == c.req.in.slot
           s == t.sessions[k]
           code == c.req.in.code
<1>0. Typed(c) /\ t \in TpmRecords /\ c.rc = "SUCCESS" /\ c.evict = {} /\ ~c.clearOrderly
      /\ WellFormed(c.req) /\ TpmInv(t) /\ Fresh(t)
  BY Zenon, RequestTyped DEF Runs, TpmInv, Typed
<1>1. k \in Slots
  BY Zenon, <1>0 DEF WellFormed
<1>2. SessionInv(s) /\ s.fresh
  <2>1. s.type = "POLICY"
    BY DEF Runs, Loaded
  <2>2. s # NoSession
    BY <2>1 DEF NoSession
  <2> QED  BY Zenon, <1>0, <1>1, <2>2 DEF TpmInv, Fresh
<1>3. ASSUME NEW u, SessionInv(u), Similar(s, u), u.isAudit = s.isAudit, u.fresh = s.fresh
      PROVE  Executed(c, [c EXCEPT !.tpm.sessions[k] = u])
  <2> DEFINE d == [c EXCEPT !.tpm.sessions[k] = u]
  <2>1. d = Ended(c, SetSession(t, k, u), c.assoc, FALSE, {})
    BY Zenon, <1>0 DEF Ended, SetSession, Typed, CommandRecords
  <2>2. c.req.command \notin {"GetCommandAuditDigest", "FlushContext", "Shutdown"}
    BY DEF PolicyCommands
  <2>3. Served(c, SetSession(t, k, u)) /\ SetSession(t, k, u).present = t.present
    BY Zenon, <1>1, <1>2, <1>3, <2>2, ServedSession
  <2> HIDE DEF d
  <2>4. Executed(c, d)
    BY Zenon, <2>1, <2>3, EndedExecuted
  <2> QED  BY <2>4 DEF d
<1>4. /\ s.commandCode \in CommandNames \cup {Nothing} /\ s.needs \in {"none", "auth", "password"}
      /\ TheAuthValue \in Assertions /\ s \in SessionRecords
  BY Zenon, <1>2 DEF SessionInv, SessionRecords, Assertions
<1>5. CASE c.req.command = "PolicyRestart"
  <2>1. PolicyCommand(c) = [c EXCEPT !.tpm.sessions[k] = SessionResetPolicyData(s)]
    BY <1>5 DEF PolicyCommand
  <2> DEFINE u == SessionResetPolicyData(s)
  <2>2. SessionInv(u) /\ Similar(s, u) /\ u.isAudit = s.isAudit /\ u.fresh = s.fresh
    BY Zenon, <1>2, ResetInv
  <2> QED  BY Zenon, <1>3, <2>1, <2>2
<1>6. CASE c.req.command = "PolicyAuthValue"
  <2>1. PolicyCommand(c) = [c EXCEPT !.tpm.sessions[k] = PolicyAuthValue(s)]
    BY Zenon, <1>6 DEF PolicyCommand
  <2> DEFINE u == PolicyAuthValue(s)
  <2>2. u = Asserted(s, TheAuthValue, s.commandCode, "auth")
    BY Zenon, <1>4, AssertedForms
  <2> HIDE DEF u
  <2>3. SessionInv(u) /\ Similar(s, u) /\ u.isAudit = s.isAudit /\ u.fresh = s.fresh
    BY Zenon, <1>2, <2>2, AuthAssertedInv
  <2>4. Executed(c, [c EXCEPT !.tpm.sessions[k] = u])
    BY Zenon, <1>3, <2>3
  <2> QED  BY <2>1, <2>4 DEF u
<1>7. CASE c.req.command = "PolicyPassword"
  <2>1. PolicyCommand(c) = [c EXCEPT !.tpm.sessions[k] = PolicyPassword(s)]
    BY <1>7 DEF PolicyCommand
  <2> DEFINE u == PolicyPassword(s)
  <2>2. u = Asserted(s, TheAuthValue, s.commandCode, "password")
    BY Zenon, <1>4, AssertedForms
  <2> HIDE DEF u
  <2>3. SessionInv(u) /\ Similar(s, u) /\ u.isAudit = s.isAudit /\ u.fresh = s.fresh
    BY Zenon, <1>2, <2>2, AuthAssertedInv
  <2>4. Executed(c, [c EXCEPT !.tpm.sessions[k] = u])
    BY Zenon, <1>3, <2>3
  <2> QED  BY <2>1, <2>4 DEF u
<1>8. CASE c.req.command = "PolicyCommandCode" /\ s.commandCode \in {Nothing, code}
  <2>1. PolicyCommand(c) = [c EXCEPT !.tpm.sessions[k] = PolicyCommandCode(s, code)]
    BY <1>8 DEF PolicyCommand
  <2> DEFINE u == PolicyCommandCode(s, code)
  <2>2. u = Asserted(s, TheCommand(code), code, s.needs)
    BY Zenon, <1>4, AssertedForms
  <2>3. code \in CommandNames
    BY <1>0, <1>8 DEF WellFormed
  <2>4. TheCommand(code) \in Assertions
    BY <2>3 DEF Assertions
  <2>5. code # Nothing
    BY Zenon, <2>3, CommandAssumption
  <2>6. s.commandCode # Nothing => code = s.commandCode
    BY <1>8
  <2> DEFINE a == TheCommand(code)
             n == s.needs
  <2>7. /\ u = Asserted(s, a, code, n) /\ a \in Assertions /\ code \in CommandNames \cup {Nothing}
        /\ n \in {"none", "auth", "password"} /\ (s.needs # "none" => n # "none")
        /\ (a = TheAuthValue /\ n # "none") \/ (a = TheCommand(code) /\ code # Nothing)
    BY Zenon, <1>4, <2>2, <2>3, <2>4, <2>5
  <2> HIDE DEF u, s, code, a, n
  <2>8. SessionInv(Asserted(s, a, code, n)) /\ Similar(s, Asserted(s, a, code, n))
        /\ Asserted(s, a, code, n).isAudit = s.isAudit /\ Asserted(s, a, code, n).fresh = s.fresh
    BY Zenon, <1>2, <2>6, <2>7, AssertedInv
  <2>9. Executed(c, [c EXCEPT !.tpm.sessions[k] = u])
    BY <1>3, <2>7, <2>8
  <2> QED  BY <2>1, <2>9 DEF u
<1>9. CASE c.req.command = "PolicyCommandCode" /\ s.commandCode \notin {Nothing, code}
  <2>1. PolicyCommand(c) = Refuse(c, "VALUE") /\ "VALUE" \in Plain
    BY <1>9 DEF PolicyCommand, Plain
  <2> QED  BY Zenon, <2>1, RefusedExecuted DEF Refused
<1> QED  BY Zenon, <1>5, <1>6, <1>7, <1>8, <1>9 DEF PolicyCommands

LEMMA GetSessionAuditDigestExecuted ==
    ASSUME NEW c, Runs(c), c.req.command = "GetSessionAuditDigest"
    PROVE  Executed(c, GetSessionAuditDigest(c))
<1>1. "TYPE" \in Plain /\ c.rc = "SUCCESS"
  BY Zenon DEF Plain, Runs
<1>2. GetSessionAuditDigest(c) = c \/ Refused(c, GetSessionAuditDigest(c))
  BY <1>1 DEF GetSessionAuditDigest, Check, Refused
<1> QED  BY <1>2, SameExecuted, RefusedExecuted

\* Every command, whatever it does, leaves the invariant of the TPM as it is.
LEMMA DispatcherExecuted ==
    ASSUME NEW c, Runs(c)
    PROVE  Executed(c, CommandDispatcher(c))
<1> DEFINE m == c.req.command
<1>1. CASE m \in {"StartAuthSession", "FlushContext"}
  <2>1. m = "StartAuthSession" => CommandDispatcher(c) = StartAuthSession(c)
    BY DEF CommandDispatcher, PolicyCommands
  <2>2. m = "FlushContext" => CommandDispatcher(c) = FlushContext(c)
    BY DEF CommandDispatcher, PolicyCommands
  <2> QED  BY <1>1, <2>1, <2>2, StartAuthSessionExecuted, FlushContextExecuted
<1>9. CASE m \in {"ContextSave", "ContextLoad"}
  <2>1. m = "ContextSave" => CommandDispatcher(c) = ContextSave(c)
    BY DEF CommandDispatcher, PolicyCommands
  <2>2. m = "ContextLoad" => CommandDispatcher(c) = ContextLoad(c)
    BY DEF CommandDispatcher, PolicyCommands
  <2>3. /\ m = "ContextSave" => Executed(c, ContextSave(c))
        /\ m = "ContextLoad" => Executed(c, ContextLoad(c))
    BY <1>9, ContextExecuted
  <2> QED  BY <1>9, <2>1, <2>2, <2>3
<1>2. CASE m \in {"HierarchyChangeAuth", "NV_UndefineSpaceSpecial", "SequenceComplete"}
  <2>1. m = "HierarchyChangeAuth" => CommandDispatcher(c) = HierarchyChangeAuth(c)
    BY DEF CommandDispatcher, PolicyCommands
  <2>2. m = "NV_UndefineSpaceSpecial" => CommandDispatcher(c) = NV_UndefineSpaceSpecial(c)
    BY DEF CommandDispatcher, PolicyCommands
  <2>3. m = "SequenceComplete" => CommandDispatcher(c) = SequenceComplete(c)
    BY DEF CommandDispatcher, PolicyCommands
  <2> QED
    BY <1>2, <2>1, <2>2, <2>3,
       HierarchyChangeAuthExecuted, NV_UndefineSpaceSpecialExecuted, SequenceCompleteExecuted
<1>3. CASE m \in {"Load", "HashSequenceStart", "NV_DefineSpace"}
  <2>1. CommandDispatcher(c) = Creation(c)
    BY <1>3 DEF CommandDispatcher, PolicyCommands
  <2> QED  BY <1>3, <2>1, CreationExecuted
<1>4. CASE m \in {"SetCommandCodeAuditStatus", "GetCommandAuditDigest", "GetSessionAuditDigest"}
  <2>1. m = "SetCommandCodeAuditStatus" => CommandDispatcher(c) = SetCommandCodeAuditStatus(c)
    BY DEF CommandDispatcher, PolicyCommands
  <2>2. m = "GetCommandAuditDigest" => CommandDispatcher(c) = GetCommandAuditDigest(c)
    BY DEF CommandDispatcher, PolicyCommands
  <2>3. m = "GetSessionAuditDigest" => CommandDispatcher(c) = GetSessionAuditDigest(c)
    BY DEF CommandDispatcher, PolicyCommands
  <2> QED
    BY <1>4, <2>1, <2>2, <2>3,
       SetCommandCodeAuditStatusExecuted, GetCommandAuditDigestExecuted, GetSessionAuditDigestExecuted
<1>5. CASE m = "DictionaryAttackLockReset"
  <2>1. CommandDispatcher(c) = [c EXCEPT !.tpm.failedTries = 0]
    BY <1>5 DEF CommandDispatcher, PolicyCommands
  <2> QED  BY <1>5, <2>1, LockResetExecuted
<1>6. CASE m \in PolicyCommands
  <2>1. CommandDispatcher(c) = PolicyCommand(c)
    BY <1>6 DEF CommandDispatcher, PolicyCommands
  <2> QED  BY <1>6, <2>1, PolicyCommandExecuted
<1>7. CASE m = "Shutdown"
  <2>1. CommandDispatcher(c) = Shutdown(c)
    BY <1>7 DEF CommandDispatcher, PolicyCommands
  <2> QED  BY <1>7, <2>1, ShutdownExecuted
<1>8. CASE m \notin {"StartAuthSession", "FlushContext", "ContextSave", "ContextLoad",
                     "HierarchyChangeAuth", "NV_UndefineSpaceSpecial", "SequenceComplete",
                     "Load", "HashSequenceStart", "NV_DefineSpace", "SetCommandCodeAuditStatus",
                     "GetCommandAuditDigest", "GetSessionAuditDigest",
                     "DictionaryAttackLockReset", "Shutdown"} \cup PolicyCommands
  <2>1. CommandDispatcher(c) = c
    BY <1>8 DEF CommandDispatcher
  <2>2. m # "GetCommandAuditDigest" /\ m # "Shutdown"
    BY <1>8
  <2> QED  BY <2>1, <2>2, SameExecuted
<1> QED  BY <1>1, <1>2, <1>3, <1>4, <1>5, <1>6, <1>7, <1>8, <1>9
-----------------------------------------------------------------------------
(* The response.                                                           *)
\* Nothing of a command but the TPM changes while the response is built.
Same(x, y) ==
    /\ Typed(y) /\ Kept(x, y) /\ y.rc = x.rc /\ y.include = x.include /\ y.cpHash = x.cpHash
    /\ y.compared = x.compared /\ y.tooLate = x.tooLate

\* The sessions that two states of the TPM have, and what they have in common.
Alive(t, u) ==
    \A k \in Slots : /\ (u.sessions[k] = NoSession) <=> (t.sessions[k] = NoSession)
                     /\ t.sessions[k] # NoSession => Similar(t.sessions[k], u.sessions[k])
SameAudit(t, u) ==
    \A k \in Slots : t.sessions[k] # NoSession => u.sessions[k].isAudit = t.sessions[k].isAudit
SameRest(t, u) ==
    /\ u.present = t.present /\ u.saved = t.saved /\ u.auditCommands = t.auditCommands
    /\ u.auditHashAlg = t.auditHashAlg /\ u.failed = t.failed

\* The sessions of a TPM replaced.
Sessioned(t, g) == [t EXCEPT !.sessions = g]

LEMMA SessionedFields ==
    ASSUME NEW t, TpmInv(t), NEW g, g \in [Slots -> SessionRecords \cup {NoSession}],
           \A k \in Slots : g[k] # NoSession => SessionInv(g[k])
    PROVE  LET u == Sessioned(t, g)
           IN  /\ TpmInv(u) /\ u.sessions = g /\ SameRest(t, u) /\ u.exclusive = t.exclusive
               /\ u.auditDigest = t.auditDigest /\ u.saved = t.saved
<1> DEFINE u == Sessioned(t, g)
<1>1. /\ u \in TpmRecords /\ u.sessions = g /\ SameRest(t, u) /\ u.exclusive = t.exclusive
      /\ u.auditDigest = t.auditDigest /\ u.saved = t.saved
  BY DEF TpmInv, TpmRecords, Sessioned, SameRest
<1> HIDE DEF u
<1>2. TpmInv(u)
  BY <1>1 DEF TpmInv, SameRest
<1> QED  BY <1>1, <1>2 DEF u

LEMMA UpdatedSame ==
    ASSUME NEW x, Typed(x), NEW t \in TpmRecords
    PROVE  Same(x, WithTpm(x, t, x.rc)) /\ WithTpm(x, t, x.rc).tpm = t
<1>1. x.rc \in Codes
  BY DEF Typed, CommandRecords
<1> QED  BY <1>1, TpmFields DEF Same

\* Every session that was used has a new nonce.
LEMMA NoncesUpdated ==
    ASSUME NEW x, Typed(x), TpmInv(x.tpm), Fresh(x.tpm),
           \A k \in Slots : InSlot(x, k) # {} => x.tpm.sessions[k] # NoSession
    PROVE  LET y == UpdateAllNonceTPM(Used(x))
               t == x.tpm
               u == y.tpm
           IN  /\ Same(x, y) /\ TpmInv(u) /\ Fresh(u) /\ Alive(t, u) /\ SameAudit(t, u)
               /\ SameRest(t, u) /\ u.exclusive = t.exclusive /\ u.auditDigest = t.auditDigest
<1> DEFINE t == x.tpm
           used(k) == InSlot(x, k) # {} /\ t.sessions[k] # NoSession
           f == [k \in Slots |-> IF used(k) THEN SetFresh(t.sessions[k], FALSE) ELSE t.sessions[k]]
           g == [k \in Slots |-> IF InSlot(x, k) # {} THEN SetFresh(f[k], TRUE) ELSE f[k]]
           y == UpdateAllNonceTPM(Used(x))
<1>1. \A k \in Slots : t.sessions[k] # NoSession => SessionInv(t.sessions[k]) /\ t.sessions[k].fresh
  BY DEF TpmInv, Fresh
<1>2. ASSUME NEW k \in Slots
      PROVE  /\ (f[k] = NoSession) <=> (t.sessions[k] = NoSession)
             /\ t.sessions[k] # NoSession => /\ SessionInv(f[k]) /\ Similar(t.sessions[k], f[k])
                                             /\ f[k].isAudit = t.sessions[k].isAudit
             /\ InSlot(x, k) = {} => f[k] = t.sessions[k]
  BY Zenon, <1>1, FreshInv, NotNone DEF SessionInv, Similar
<1>3. ASSUME NEW k \in Slots
      PROVE  /\ (g[k] = NoSession) <=> (t.sessions[k] = NoSession)
             /\ t.sessions[k] # NoSession => /\ SessionInv(g[k]) /\ Similar(t.sessions[k], g[k])
                                             /\ g[k].isAudit = t.sessions[k].isAudit /\ g[k].fresh
  <2>1. CASE InSlot(x, k) = {}
    BY Zenon, <1>1, <1>2, <2>1
  <2>2. CASE InSlot(x, k) # {}
    <3>1. g[k] = SetFresh(f[k], TRUE) /\ t.sessions[k] # NoSession
      BY Zenon, <2>2
    <3>2. SessionInv(f[k]) /\ Similar(t.sessions[k], f[k]) /\ f[k].isAudit = t.sessions[k].isAudit
      BY Zenon, <1>2, <3>1
    <3> HIDE DEF f, g
    <3>3. SessionInv(g[k]) /\ Similar(f[k], g[k]) /\ g[k].isAudit = f[k].isAudit /\ g[k].fresh
      BY Zenon, <3>1, <3>2, FreshInv
    <3>4. g[k] # NoSession
      BY <3>3, NotNone DEF SessionInv
    <3> QED  BY Zenon, <3>1, <3>2, <3>3, <3>4 DEF Similar
  <2> QED  BY Zenon, <2>1, <2>2
<1>4. g \in [Slots -> SessionRecords \cup {NoSession}]
  <2>1. \A k \in Slots : g[k] \in SessionRecords \cup {NoSession}
    BY Zenon, <1>3 DEF SessionInv
  <2>2. g = [k \in Slots |-> g[k]]
    OBVIOUS
  <2> HIDE DEF g
  <2> QED  BY <2>1, <2>2
<1>5. y = WithTpm(x, Sessioned(t, g), x.rc)
  <2>1. x \in CommandRecords /\ t \in TpmRecords
    BY DEF Typed, TpmInv
  <2>2. Used(x) = [x EXCEPT !.tpm.sessions = f]
    BY DEF Used, SetFresh
  <2>3. UpdateAllNonceTPM([x EXCEPT !.tpm.sessions = f])
        = [[x EXCEPT !.tpm.sessions = f] EXCEPT !.tpm.sessions = g]
    <3> DEFINE z == [x EXCEPT !.tpm.sessions = f]
    <3>1. z.req = x.req /\ z.tpm.sessions = f
      BY Zenon, <2>1 DEF CommandRecords, TpmRecords
    <3> HIDE DEF f, z
    <3>2. \A k \in Slots : InSlot(z, k) = InSlot(x, k)
      BY <3>1 DEF InSlot, Sessions
    <3>3. UpdateAllNonceTPM(z) = [z EXCEPT !.tpm.sessions = g]
      BY Zenon, <3>1, <3>2 DEF UpdateAllNonceTPM, SetFresh
    <3> QED  BY <3>3 DEF z
  <2> HIDE DEF f, g
  <2>4. [[x EXCEPT !.tpm.sessions = f] EXCEPT !.tpm.sessions = g]
        = WithTpm(x, Sessioned(t, g), x.rc)
    BY Zenon, <2>1 DEF WithTpm, Sessioned, CommandRecords, TpmRecords
  <2> QED  BY <2>2, <2>3, <2>4
<1> HIDE DEF f, g
<1>6. LET u == Sessioned(t, g)
      IN  /\ TpmInv(u) /\ u.sessions = g /\ SameRest(t, u) /\ u.exclusive = t.exclusive
          /\ u.auditDigest = t.auditDigest
  BY <1>3, <1>4, SessionedFields
<1>7. Same(x, y) /\ y.tpm = Sessioned(t, g)
  BY Zenon, <1>5, <1>6, UpdatedSame DEF TpmInv
<1> HIDE DEF y
<1> QED  BY Zenon, <1>3, <1>6, <1>7 DEF Fresh, Alive, SameAudit, y

\* A command while its response is built: its sessions and entities are there.
Answers(x) ==
    /\ Typed(x) /\ TpmInv(x.tpm) /\ Fresh(x.tpm) /\ ~x.tpm.failed /\ x.rc = "SUCCESS"
    /\ \A k \in Slots : InSlot(x, k) # {} => x.tpm.sessions[k] # NoSession
    /\ \A i \in Sessions(x) : x.assoc[i] \in Entities => x.assoc[i] \in x.tpm.present

\* There is a cpHash for each digest that the command goes into.
Auditable(x) ==
    /\ \A i \in Auditing(x) :
            /\ i \in Sessions(x) /\ x.req.sessions[i].slot \in Slots
            /\ x.req.sessions[i].type = "HMAC" /\ SessionOf(x, i) # NoSession
            /\ SessionOf(x, i).authHashAlg \in x.cpHash
    /\ x.req.command \in x.tpm.auditCommands =>
            x.tpm.auditDigest.size = "one" \/ x.tpm.auditHashAlg \in x.cpHash

\* The handle of the exclusive audit session after a response.
ExclusiveAfter(x, e) ==
    \/ \E i \in Auditing(x) : /\ e = Handle(x.req.sessions[i])
                              /\ Begins(x, i) \/ x.tpm.exclusive = Handle(x.req.sessions[i])
    \/ e = Nothing
    \/ ~x.attrs.allowed /\ Auditing(x) = {} /\ e = x.tpm.exclusive

AuditedSession(t, k, s, e) == [t EXCEPT !.sessions[k] = s, !.exclusive = e]

LEMMA AuditedFields ==
    ASSUME NEW t, TpmInv(t), Fresh(t), NEW k \in Slots, t.sessions[k] # NoSession,
           NEW s, SessionInv(s), s.fresh, Similar(t.sessions[k], s),
           NEW e \in (Slots \X {"HMAC"}) \cup {Nothing}
    PROVE  LET u == AuditedSession(t, k, s, e)
           IN  /\ TpmInv(u) /\ Fresh(u) /\ Alive(t, u) /\ SameRest(t, u) /\ u.exclusive = e
               /\ u.auditDigest = t.auditDigest
<1> DEFINE u == AuditedSession(t, k, s, e)
<1>1. t \in TpmRecords /\ s \in SessionRecords /\ s # NoSession
  BY NotNone DEF TpmInv, SessionInv
<1>2. /\ u \in TpmRecords /\ SameRest(t, u) /\ u.exclusive = e /\ u.auditDigest = t.auditDigest
      /\ u.saved = t.saved /\ u.sessions[k] = s
      /\ \A n \in Slots : n # k => u.sessions[n] = t.sessions[n]
  BY Zenon, <1>1 DEF TpmRecords, AuditedSession, SameRest
<1> HIDE DEF u
<1>3. TpmInv(u)
  BY Zenon, <1>1, <1>2 DEF TpmInv, SameRest
<1>4. Fresh(u) /\ Alive(t, u)
  BY <1>1, <1>2 DEF Fresh, Alive, Similar
<1> QED  BY <1>2, <1>3, <1>4 DEF u

\* The audit session has the command, and nothing else is exclusive.
LEMMA AuditSessionUpdated ==
    ASSUME NEW x, Answers(x), Auditable(x)
    PROVE  LET y == UpdateAuditSessionStatus(x)
           IN  /\ Same(x, y) /\ TpmInv(y.tpm) /\ Fresh(y.tpm) /\ Alive(x.tpm, y.tpm)
               /\ SameRest(x.tpm, y.tpm) /\ y.tpm.auditDigest = x.tpm.auditDigest
               /\ ExclusiveAfter(x, y.tpm.exclusive)
<1> DEFINE y == UpdateAuditSessionStatus(x)
           t == x.tpm
<1>0. /\ Typed(x) /\ TpmInv(t) /\ Fresh(t) /\ t \in TpmRecords /\ x \in CommandRecords
      /\ x.attrs.allowed => Auditing(x) # {} \/ y = [x EXCEPT !.tpm.exclusive = Nothing]
  BY Zenon DEF Answers, TpmInv, Typed, UpdateAuditSessionStatus
<1>1. CASE Auditing(x) # {}
  <2> DEFINE i == CHOOSE j \in Auditing(x) : TRUE
             k == x.req.sessions[i].slot
             s == IF Begins(x, i) THEN InitAuditSession(t.sessions[k]) ELSE t.sessions[k]
             h == Handle(x.req.sessions[i])
             e == IF Begins(x, i) \/ t.exclusive = h THEN h ELSE Nothing
  <2>1. i \in Auditing(x)
    BY <1>1
  <2>2. y = Audit(x, i)
    BY <1>1 DEF UpdateAuditSessionStatus
  <2> HIDE DEF i
  <2>3. /\ k \in Slots /\ h = <<k, "HMAC">> /\ t.sessions[k] # NoSession
        /\ SessionOf(x, i).authHashAlg \in x.cpHash
    BY Zenon, <2>1 DEF Auditable, Handle, SessionOf
  <2>4. SessionInv(t.sessions[k]) /\ t.sessions[k].fresh
    BY Zenon, <1>0, <2>3 DEF TpmInv, Fresh
  <2>5. SessionInv(s) /\ s.fresh /\ Similar(t.sessions[k], s)
    BY Zenon, <2>4, AuditInv DEF Similar
  <2>6. e \in (Slots \X {"HMAC"}) \cup {Nothing}
    BY <2>3
  <2>7. y = [x EXCEPT !.tpm.sessions[k] = s, !.tpm.exclusive = e]
    BY Zenon, <2>2, <2>3 DEF Audit
  <2>8. ExclusiveAfter(x, e)
    BY <2>1 DEF ExclusiveAfter
  <2> HIDE DEF y, k, s, e, h
  <2>9. y = WithTpm(x, AuditedSession(t, k, s, e), x.rc)
    BY Zenon, <1>0, <2>7 DEF WithTpm, AuditedSession, CommandRecords, TpmRecords
  <2>10. LET u == AuditedSession(t, k, s, e)
         IN  /\ TpmInv(u) /\ Fresh(u) /\ Alive(t, u) /\ SameRest(t, u) /\ u.exclusive = e
             /\ u.auditDigest = t.auditDigest /\ u \in TpmRecords
    BY <1>0, <2>3, <2>4, <2>5, <2>6, AuditedFields DEF TpmInv
  <2>11. Same(x, y) /\ y.tpm = AuditedSession(t, k, s, e)
    BY Zenon, <1>0, <2>9, <2>10, UpdatedSame
  <2> QED  BY <2>8, <2>10, <2>11 DEF y
<1>2. CASE Auditing(x) = {} /\ x.attrs.allowed
  <2> DEFINE u == [t EXCEPT !.exclusive = Nothing]
  <2>1. y = WithTpm(x, u, x.rc)
    BY Zenon, <1>0, <1>2 DEF WithTpm, CommandRecords, TpmRecords
  <2>2. /\ u \in TpmRecords /\ SameRest(t, u) /\ u.exclusive = Nothing /\ u.saved = t.saved
        /\ u.auditDigest = t.auditDigest /\ u.sessions = t.sessions
    BY <1>0 DEF TpmRecords, SameRest
  <2> HIDE DEF u, y
  <2>3. TpmInv(u) /\ Fresh(u) /\ Alive(t, u)
    BY <1>0, <2>2 DEF TpmInv, Fresh, Alive, SameRest, Similar
  <2>4. Same(x, y) /\ y.tpm = u
    BY <1>0, <2>1, <2>2, UpdatedSame
  <2> QED  BY <2>2, <2>3, <2>4 DEF ExclusiveAfter, y
<1>3. CASE Auditing(x) = {} /\ ~x.attrs.allowed
  <2>1. y = x
    BY Zenon, <1>3 DEF UpdateAuditSessionStatus
  <2> QED  BY <1>0, <1>3, <2>1 DEF Same, Kept, Alive, SameRest, ExclusiveAfter, Similar
<1> QED  BY Zenon, <1>1, <1>2, <1>3

\* The command audit digest, when the command is to be audited.
Extended(d, u) == u = IF d.size = "one" THEN EmptyDigest ELSE [size |-> "full", log |-> d.log + 1]

LEMMA CommandAudited ==
    ASSUME NEW x, Answers(x), Auditable(x), x.req.command \in x.tpm.auditCommands
    PROVE  LET y == CommandAudit(x)
           IN  /\ Same(x, y) /\ TpmInv(y.tpm) /\ y.tpm.sessions = x.tpm.sessions
               /\ SameRest(x.tpm, y.tpm) /\ y.tpm.exclusive = x.tpm.exclusive
               /\ Extended(x.tpm.auditDigest, y.tpm.auditDigest)
<1> DEFINE t == x.tpm
           a == t.auditDigest
           b == IF a.size = "one" THEN EmptyDigest ELSE [size |-> "full", log |-> a.log + 1]
           n == IF a.size = "zero" THEN t.auditCounter + 1 ELSE t.auditCounter
           u == [t EXCEPT !.auditDigest = b, !.auditCounter = n]
           y == CommandAudit(x)
<1>0. Typed(x) /\ x \in CommandRecords /\ TpmInv(t) /\ t \in TpmRecords /\ a \in Digests
  BY Zenon DEF Answers, Typed, TpmInv, TpmRecords
<1>1. b \in Digests /\ n \in Nat /\ (a.size = "one" => n = t.auditCounter)
  BY <1>0 DEF Digests, EmptyDigest, TpmRecords
<1>2. y = IF a.size = "one" THEN [x EXCEPT !.tpm.auditDigest = b]
          ELSE [x EXCEPT !.tpm.auditDigest = b, !.tpm.auditCounter = n]
  BY DEF CommandAudit, Auditable
<1>3. Extended(a, b)
  BY DEF Extended
<1> HIDE DEF b, n, y
<1>4. y = WithTpm(x, u, x.rc)
  <2>1. t \in TpmRecords => [t EXCEPT !.auditDigest = b] =
            [t EXCEPT !.auditDigest = b, !.auditCounter = t.auditCounter]
    BY Zenon DEF TpmRecords
  <2>2. y = [x EXCEPT !.tpm = u]
    <3>1. CASE a.size = "one"
      <4>1. u = [t EXCEPT !.auditDigest = b]
        BY Zenon, <1>0, <1>1, <2>1, <3>1
      <4>2. y = [x EXCEPT !.tpm.auditDigest = b]
        BY <1>2, <3>1
      <4> HIDE DEF u
      <4> QED  BY <1>0, <4>1, <4>2 DEF CommandRecords
    <3>2. CASE a.size # "one"
      <4>1. y = [x EXCEPT !.tpm.auditDigest = b, !.tpm.auditCounter = n]
        BY <1>2, <3>2
      <4> QED  BY Zenon, <1>0, <4>1 DEF CommandRecords, TpmRecords
    <3> QED  BY <3>1, <3>2
  <2> QED  BY Zenon, <1>0, <2>2 DEF WithTpm, CommandRecords
<1>5. /\ u \in TpmRecords /\ SameRest(t, u) /\ u.exclusive = t.exclusive /\ u.auditDigest = b
      /\ u.sessions = t.sessions
  BY Zenon, <1>0, <1>1 DEF TpmRecords, SameRest
<1> HIDE DEF u
<1>6. TpmInv(u)
  BY Zenon, <1>0, <1>5 DEF TpmInv, SameRest, Auditable
<1>7. Same(x, y) /\ y.tpm = u
  BY Zenon, <1>0, <1>4, <1>5, UpdatedSame
<1> QED  BY <1>3, <1>5, <1>6, <1>7 DEF y

\* The sessions that continue, and the policies that begin again.
LEMMA SessionsContinued ==
    ASSUME NEW x, Answers(x)
    PROVE  LET y == Continued(x)
           IN  /\ Same(x, y) /\ TpmInv(y.tpm) /\ Fresh(y.tpm) /\ SameRest(x.tpm, y.tpm)
               /\ y.tpm.exclusive = x.tpm.exclusive /\ y.tpm.auditDigest = x.tpm.auditDigest
<1> DEFINE t == x.tpm
           s == t.sessions
           g == [k \in Slots |->
                   CASE InSlot(x, k) = {} -> s[k]
                     [] \E i \in InSlot(x, k) : ~Uses(x, i, "continueSession") -> NoSession
                     [] \E i \in InSlot(x, k) : Uses(x, i, "continueSession") ->
                           IF s[k].type = "POLICY" THEN SessionResetPolicyData(s[k]) ELSE s[k]]
           y == Continued(x)
<1>0. Typed(x) /\ x \in CommandRecords /\ TpmInv(t) /\ t \in TpmRecords
  BY Zenon DEF Answers, Typed, TpmInv
<1>1. ASSUME NEW k \in Slots
      PROVE  g[k] \in SessionRecords \cup {NoSession}
             /\ (g[k] # NoSession => SessionInv(g[k]) /\ g[k].fresh)
  <2>1. g[k] \in {s[k], NoSession}
        \/ (InSlot(x, k) # {} /\ g[k] = SessionResetPolicyData(s[k]))
    BY DEF Uses
  <2> HIDE DEF g
  <2>2. s[k] \in SessionRecords \cup {NoSession}
    BY Zenon, <1>0 DEF TpmRecords
  <2>3. s[k] # NoSession => SessionInv(s[k]) /\ s[k].fresh
    BY <1>0 DEF TpmInv, Answers, Fresh
  <2>4. InSlot(x, k) # {} => s[k] # NoSession
    BY DEF Answers
  <2> HIDE DEF s
  <2>5. CASE g[k] \in {s[k], NoSession}
    BY Zenon, <2>2, <2>3, <2>5
  <2>6. CASE InSlot(x, k) # {} /\ g[k] = SessionResetPolicyData(s[k])
    BY <2>3, <2>4, <2>6, ResetInv DEF SessionInv
  <2> QED  BY Zenon, <2>1, <2>5, <2>6
<1>2. y = [x EXCEPT !.tpm.sessions = g]
  BY DEF Continued
<1>3. g = [k \in Slots |-> g[k]]
  OBVIOUS
<1> HIDE DEF g, y
<1>4. y = WithTpm(x, Sessioned(t, g), x.rc)
  BY Zenon, <1>0, <1>2 DEF WithTpm, Sessioned, CommandRecords, TpmRecords
<1>5. g \in [Slots -> SessionRecords \cup {NoSession}]
  BY Zenon, <1>1, <1>3
<1>6. LET u == Sessioned(t, g)
      IN  /\ TpmInv(u) /\ u.sessions = g /\ SameRest(t, u) /\ u.exclusive = t.exclusive
          /\ u.auditDigest = t.auditDigest
  BY <1>0, <1>1, <1>5, SessionedFields
<1>7. Same(x, y) /\ y.tpm = Sessioned(t, g)
  BY Zenon, <1>0, <1>4, <1>6, UpdatedSame DEF TpmInv
<1> QED  BY Zenon, <1>1, <1>6, <1>7 DEF Fresh, y

\* What the response leaves of the TPM.
Answered(x, y) ==
    /\ Same(x, y) /\ TpmInv(y.tpm) /\ Fresh(y.tpm) /\ SameRest(x.tpm, y.tpm)
    /\ ExclusiveAfter(x, y.tpm.exclusive)
    /\ IF x.req.command \in x.tpm.auditCommands
       THEN Extended(x.tpm.auditDigest, y.tpm.auditDigest)
       ELSE y.tpm.auditDigest = x.tpm.auditDigest

LEMMA StillAnswers ==
    ASSUME NEW x, Answers(x), NEW y, Same(x, y), TpmInv(y.tpm), Fresh(y.tpm), Alive(x.tpm, y.tpm),
           SameRest(x.tpm, y.tpm)
    PROVE  /\ Answers(y)
           /\ Auditable(x) /\ y.tpm.auditDigest = x.tpm.auditDigest => Auditable(y)
<1>1. /\ y.req = x.req /\ y.assoc = x.assoc /\ y.rc = x.rc /\ y.cpHash = x.cpHash /\ Typed(y)
      /\ y.tpm.present = x.tpm.present /\ y.tpm.failed = x.tpm.failed
      /\ y.tpm.auditCommands = x.tpm.auditCommands /\ y.tpm.saved = x.tpm.saved
      /\ y.tpm.auditHashAlg = x.tpm.auditHashAlg
  BY Zenon DEF Same, Kept, SameRest
<1>2. Sessions(y) = Sessions(x) /\ Auditing(y) = Auditing(x)
  BY Zenon, <1>1 DEF Sessions, Auditing, Uses
<1>3. \A k \in Slots : InSlot(y, k) = InSlot(x, k)
  BY <1>1, <1>2 DEF InSlot
<1>4. Answers(y)
  BY Zenon, <1>1, <1>2, <1>3 DEF Answers, Alive
<1>5. ASSUME Auditable(x), y.tpm.auditDigest = x.tpm.auditDigest PROVE Auditable(y)
  <2>1. ASSUME NEW i \in Auditing(y)
        PROVE  /\ i \in Sessions(y) /\ y.req.sessions[i].slot \in Slots
               /\ y.req.sessions[i].type = "HMAC" /\ SessionOf(y, i) # NoSession
               /\ SessionOf(y, i).authHashAlg \in y.cpHash
    BY Zenon, <1>1, <1>2, <1>5, <2>1 DEF Auditable, SessionOf, Alive, Similar
  <2>2. y.req.command \in y.tpm.auditCommands =>
            y.tpm.auditDigest.size = "one" \/ y.tpm.auditHashAlg \in y.cpHash
    BY Zenon, <1>1, <1>5 DEF Auditable
  <2> QED  BY Zenon, <2>1, <2>2 DEF Auditable
<1> QED  BY Zenon, <1>4, <1>5

\* BuildResponseSession, once the nonces of the command are used.
LEMMA ResponseBuilt ==
    ASSUME NEW x, Answers(x), Auditable(x)
    PROVE  Answered(x, BuildResponseSession(Used(x)))
<1> DEFINE a == UpdateAllNonceTPM(Used(x))
           b == UpdateAuditSessionStatus(a)
           p == x.req.command \in x.tpm.auditCommands
           d == IF p THEN CommandAudit(b) ELSE b
           y == BuildResponseSession(Used(x))
<1>0. Typed(x) /\ x \in CommandRecords /\ TpmInv(x.tpm) /\ x.rc = "SUCCESS" /\ Fresh(x.tpm)
  BY DEF Answers, Typed
<1>1. (Used(x).req.command \in Used(x).tpm.auditCommands) <=> p
  BY <1>0 DEF Used, CommandRecords, TpmRecords
<1>2. /\ Same(x, a) /\ TpmInv(a.tpm) /\ Fresh(a.tpm) /\ Alive(x.tpm, a.tpm)
      /\ SameAudit(x.tpm, a.tpm) /\ SameRest(x.tpm, a.tpm)
      /\ a.tpm.exclusive = x.tpm.exclusive /\ a.tpm.auditDigest = x.tpm.auditDigest
  BY Zenon, <1>0, NoncesUpdated DEF Answers
<1> HIDE DEF a
<1>3. Answers(a) /\ Auditable(a)
  BY <1>2, StillAnswers
<1>4. /\ Same(a, b) /\ TpmInv(b.tpm) /\ Fresh(b.tpm) /\ Alive(a.tpm, b.tpm)
      /\ SameRest(a.tpm, b.tpm) /\ b.tpm.auditDigest = a.tpm.auditDigest
      /\ ExclusiveAfter(a, b.tpm.exclusive)
  BY <1>3, AuditSessionUpdated
<1> HIDE DEF b
<1>5. Answers(b) /\ Auditable(b)
  BY <1>3, <1>4, StillAnswers
<1>6. b.req.command \in b.tpm.auditCommands <=> p
  BY Zenon, <1>2, <1>4 DEF Same, Kept, SameRest
<1>7. /\ Same(b, d) /\ TpmInv(d.tpm) /\ d.tpm.sessions = b.tpm.sessions
      /\ SameRest(b.tpm, d.tpm) /\ d.tpm.exclusive = b.tpm.exclusive
      /\ IF p THEN Extended(b.tpm.auditDigest, d.tpm.auditDigest)
              ELSE d.tpm.auditDigest = b.tpm.auditDigest
  <2>1. CASE p
    BY Zenon, <1>5, <1>6, <2>1, CommandAudited
  <2>2. CASE ~p
    BY Zenon, <1>5, <2>2 DEF Answers, Same, Kept, SameRest
  <2> QED  BY Zenon, <2>1, <2>2
<1>8. Answers(d) /\ d.rc = "SUCCESS"
  <2> HIDE DEF d
  <2>1. Fresh(d.tpm) /\ Alive(b.tpm, d.tpm)
    BY Zenon, <1>4, <1>7 DEF Fresh, Alive, Similar
  <2>2. Answers(d)
    BY <1>5, <1>7, <2>1, StillAnswers
  <2> QED  BY Zenon, <2>2 DEF Answers
<1>9. y = Continued(d)
  <2>1. b.rc = "SUCCESS"
    BY <1>5 DEF Answers
  <2>2. When(Used(x).req.command \in Used(x).tpm.auditCommands, b, CommandAudit) = d
    BY <1>1, <2>1 DEF When, Then
  <2>3. y = Then(Then(d, ComputeResponseHMAC), Continued)
    BY Zenon, <2>2 DEF BuildResponseSession, a, b
  <2> HIDE DEF d, y
  <2>4. ComputeResponseHMAC(d) = d
    BY Zenon, <1>8 DEF ComputeResponseHMAC, Answers
  <2> QED  BY Zenon, <1>8, <2>3, <2>4 DEF Then
<1> HIDE DEF d
<1>10. /\ Same(d, y) /\ TpmInv(y.tpm) /\ Fresh(y.tpm) /\ SameRest(d.tpm, y.tpm)
       /\ y.tpm.exclusive = d.tpm.exclusive /\ y.tpm.auditDigest = d.tpm.auditDigest
  BY <1>8, <1>9, SessionsContinued
<1> HIDE DEF y
<1>11. ExclusiveAfter(x, y.tpm.exclusive)
  <2>1. y.tpm.exclusive = b.tpm.exclusive
    BY Zenon, <1>7, <1>10
  <2>2. a.req = x.req /\ a.attrs = x.attrs
    BY <1>2 DEF Same, Kept
  <2>3. Auditing(a) = Auditing(x)
    BY <2>2 DEF Auditing, Sessions, Uses
  <2>4. \A i \in Auditing(x) : Begins(a, i) <=> Begins(x, i)
    BY Zenon, <1>2, <2>2 DEF Begins, SessionOf, Uses, SameAudit, Auditable
  <2> QED  BY Zenon, <1>2, <1>4, <2>1, <2>2, <2>3, <2>4 DEF ExclusiveAfter
<1>12. Same(x, y)
  BY Zenon, <1>2, <1>4, <1>7, <1>10 DEF Same, Kept
<1>13. SameRest(x.tpm, y.tpm)
  BY Zenon, <1>2, <1>4, <1>7, <1>10 DEF SameRest
<1>14. IF p THEN Extended(x.tpm.auditDigest, y.tpm.auditDigest)
            ELSE y.tpm.auditDigest = x.tpm.auditDigest
  BY Zenon, <1>2, <1>4, <1>7, <1>10
<1> QED  BY Zenon, <1>10, <1>11, <1>12, <1>13, <1>14 DEF Answered, y

-----------------------------------------------------------------------------
(* The whole command.                                                      *)
\* A command whose sessions are accepted can be executed.
LEMMA AdmittedRuns ==
    ASSUME NEW c, Begun(c), NEW e, Admitted(c, e), e.rc = "SUCCESS", Loaded(c)
    PROVE  Runs(e)
<1>1. Typed(e) /\ e.tpm = c.tpm /\ e.req = c.req /\ e.evict = {} /\ ~e.clearOrderly
  BY Zenon DEF Admitted
<1>2. Loaded(e)
  BY Zenon, <1>1 DEF Loaded
<1>3. \A i \in Sessions(e) : e.assoc[i] # Nothing =>
            i \in 1..Len(e.req.handles) /\ e.assoc[i] = e.req.handles[i]
  BY <1>1 DEF Admitted, Sessions
<1> QED  BY Zenon, <1>1, <1>2, <1>3 DEF Runs, Begun

\* Its response can be built: sessions, entities and cpHash are still there.
LEMMA ExecutedAnswers ==
    ASSUME NEW c, Begun(c), NEW e, Admitted(c, e), e.rc = "SUCCESS",
           NEW f, Executed(e, f), f.rc = "SUCCESS"
    PROVE  Answers(f) /\ Auditable(f)
<1>0. /\ Typed(c) /\ c \in CommandRecords /\ TpmInv(c.tpm) /\ e.tpm = c.tpm /\ e.req = c.req
      /\ Present(c) /\ f.req = c.req /\ f.cpHash = e.cpHash /\ e.attrs = c.attrs
  BY Zenon DEF Begun, Typed, Admitted, Executed
<1>1. "SUCCESS" \notin Plain
  BY Zenon DEF Plain
<1>2. /\ Typed(f) /\ Served(e, f.tpm)
      /\ \A i \in Sessions(e) : f.assoc[i] \in Entities => f.assoc[i] \in f.tpm.present
  BY Zenon, <1>1 DEF Executed
<1>3. /\ Sessions(f) = Sessions(c) /\ Sessions(e) = Sessions(c) /\ Auditing(f) = Auditing(c)
      /\ \A k \in Slots : InSlot(f, k) = InSlot(c, k)
  BY <1>0 DEF Sessions, Auditing, Uses, InSlot
<1>4. ASSUME NEW i \in Sessions(c), c.req.sessions[i].type # "PW"
      PROVE  /\ c.req.sessions[i].slot \in Slots
             /\ SessionOf(f, i) # NoSession /\ Similar(SessionOf(c, i), SessionOf(f, i))
  <2>1. c.req.sessions[i].slot \in Slots /\ SessionOf(c, i) # NoSession
    BY Zenon, <1>0, <1>4, AreaTyped DEF Present
  <2>2. c.req.sessions # <<>>
    BY <1>4 DEF Sessions
  <2>3. c.req.command # "FlushContext"
    BY Zenon, <1>0, <2>2, CommandAssumption DEF Admitted, Typed
  <2> QED  BY Zenon, <1>0, <1>2, <2>1, <2>3 DEF Served, SessionOf
<1>5. \A k \in Slots : InSlot(f, k) # {} => f.tpm.sessions[k] # NoSession
  BY Zenon, <1>0, <1>3, <1>4 DEF InSlot, IsPW, SessionOf
<1>6. Answers(f)
  BY Zenon, <1>2, <1>3, <1>5 DEF Answers, Served
<1>7. ASSUME NEW i \in Auditing(f)
      PROVE  /\ i \in Sessions(f) /\ f.req.sessions[i].slot \in Slots
             /\ f.req.sessions[i].type = "HMAC" /\ SessionOf(f, i) # NoSession
             /\ SessionOf(f, i).authHashAlg \in f.cpHash
  <2>1. i \in Sessions(c) /\ c.req.sessions[i].type = "HMAC" /\ AuditHashed(c, e, i)
    BY Zenon, <1>3 DEF Admitted, Auditing
  <2>2. SessionOf(c, i).authHashAlg \in e.cpHash
    BY Zenon, <1>3, <2>1 DEF AuditHashed, Auditing
  <2> QED  BY Zenon, <1>0, <1>3, <1>4, <2>1, <2>2 DEF Similar
<1>8. ASSUME f.req.command \in f.tpm.auditCommands
      PROVE  f.tpm.auditDigest.size = "one" \/ f.tpm.auditHashAlg \in f.cpHash
  <2>1. c.req.command \in c.tpm.auditCommands
    BY Zenon, <1>0, <1>2, <1>8 DEF Served
  <2>2. c.tpm.auditHashAlg \in e.cpHash
    BY Zenon, <1>0, <2>1 DEF TpmInv, Admitted
  <2> QED  BY Zenon, <1>0, <1>2, <2>2 DEF Served, Digested
<1> QED  BY Zenon, <1>6, <1>7, <1>8 DEF Auditable

\* The end of a command.
LEMMA CleanedUp ==
    ASSUME NEW y, Typed(y), TpmInv(y.tpm)
    PROVE  LET d == Cleanup(y)
           IN  /\ TpmInv(d.tpm) /\ d.rc = y.rc /\ d.compared = y.compared /\ d.tooLate = y.tooLate
               /\ d.tpm.sessions = y.tpm.sessions /\ d.tpm.exclusive = y.tpm.exclusive
               /\ d.tpm.auditDigest = y.tpm.auditDigest /\ d.tpm.failed = y.tpm.failed
               /\ d.tpm.auditHashAlg = y.tpm.auditHashAlg /\ d.tpm.saved = y.tpm.saved
               /\ d.tpm.failedTries = y.tpm.failedTries
               /\ d.tpm.lockOutAuthEnabled = y.tpm.lockOutAuthEnabled
<1> DEFINE t == y.tpm
           o == IF y.clearOrderly THEN "NONE" ELSE t.orderly
           p == t.present \ y.evict
           u == [t EXCEPT !.orderly = o, !.present = p]
           d == Cleanup(y)
<1>0. y \in CommandRecords /\ t \in TpmRecords
  BY Zenon DEF Typed, TpmInv
<1>1. o \in {"NONE", "CLEAR", "STATE"} /\ p \in SUBSET Entities
  BY <1>0 DEF TpmRecords
<1>2. d = [y EXCEPT !.tpm.orderly = o, !.tpm.present = p]
  BY <1>0 DEF Cleanup, CommandRecords, TpmRecords
<1> HIDE DEF o, p, d
<1>3. /\ u \in TpmRecords /\ u.sessions = t.sessions /\ u.exclusive = t.exclusive
      /\ u.auditDigest = t.auditDigest /\ u.failed = t.failed /\ u.auditHashAlg = t.auditHashAlg
      /\ u.failedTries = t.failedTries /\ u.lockOutAuthEnabled = t.lockOutAuthEnabled
      /\ u.orderly = o /\ u.saved = t.saved /\ u.auditCommands = t.auditCommands
  BY Zenon, <1>0, <1>1 DEF TpmRecords
<1>4. d.tpm = u /\ d.rc = y.rc /\ d.compared = y.compared /\ d.tooLate = y.tooLate
  BY <1>0, <1>2 DEF CommandRecords, TpmRecords
<1> HIDE DEF u
<1>5. TpmInv(u)
  BY <1>1, <1>3 DEF TpmInv
<1> QED  BY <1>3, <1>4, <1>5 DEF d

\* What a command leaves behind: no breach, and digests that have what they should.
DigestAfter(c, t) ==
    IF t.auditHashAlg # c.tpm.auditHashAlg THEN t.auditDigest = EmptyDigest
    ELSE LET begun == IF c.req.command = "GetCommandAuditDigest" /\ c.req.handles[2] # "null"
                      THEN EmptyDigest ELSE c.tpm.auditDigest
         IN  t.auditDigest = IF c.req.command \in c.tpm.auditCommands
                             THEN [size |-> "full", log |-> begun.log + 1] ELSE begun

Concluded(c, d) ==
    /\ TpmInv(d.tpm) /\ Fresh(d.tpm) /\ ~d.tpm.failed /\ BreachesOf(c, d) = {}
    /\ d.rc # "SUCCESS" => /\ d.tpm.exclusive = c.tpm.exclusive
                           /\ d.tpm.auditDigest = c.tpm.auditDigest
                           /\ d.tpm.saved = c.tpm.saved
    /\ d.rc = "SUCCESS" =>
        /\ ExclusiveAfter(c, d.tpm.exclusive) /\ DigestAfter(c, d.tpm) /\ d.tpm.saved = SavedBy(c)
        /\ c.req.sessions # <<>> => c.attrs.allowed
        /\ \A i, j \in Auditing(c) : i = j /\ c.req.sessions[i].type = "HMAC"

\* A command that is refused, by the checks or by itself.
LEMMA RefusedConcluded ==
    ASSUME NEW c, Begun(c), NEW y, Typed(y), Alike(c.tpm, y.tpm), ~y.tpm.failed, ~y.tooLate,
           y.rc # "SUCCESS", ~Uncounted(c.tpm, y)
    PROVE  Concluded(c, Cleanup(y))
<1> DEFINE d == Cleanup(y)
<1>1. TpmInv(y.tpm) /\ Fresh(y.tpm)
  BY DEF Begun, TpmInv, Fresh, Alike, Typed, CommandRecords
<1>2. /\ TpmInv(d.tpm) /\ d.rc = y.rc /\ d.compared = y.compared /\ d.tooLate = y.tooLate
      /\ d.tpm.sessions = y.tpm.sessions /\ d.tpm.exclusive = y.tpm.exclusive
      /\ d.tpm.auditDigest = y.tpm.auditDigest /\ d.tpm.failed = y.tpm.failed
      /\ d.tpm.failedTries = y.tpm.failedTries /\ d.tpm.saved = y.tpm.saved
      /\ d.tpm.lockOutAuthEnabled = y.tpm.lockOutAuthEnabled
  BY Zenon, <1>1, CleanedUp
<1> HIDE DEF d
<1>3. ~Uncounted(c.tpm, d)
  BY <1>2 DEF Uncounted
<1>4. BreachesOf(c, d) = {}
  BY Zenon, <1>2, <1>3 DEF BreachesOf
<1>5. Concluded(c, d)
  BY Zenon, <1>1, <1>2, <1>4 DEF Concluded, Fresh, Alike
<1> QED  BY Zenon, <1>5 DEF d

\* A command that is executed, and its response.
LEMMA AnsweredConcluded ==
    ASSUME NEW c, Begun(c), c.tpm.auditDigest.size # "one", NEW e, Admitted(c, e), e.rc = "SUCCESS",
           NEW f, Executed(e, f), f.rc = "SUCCESS", NEW y, Answered(f, y)
    PROVE  Concluded(c, Cleanup(y))
<1> DEFINE d == Cleanup(y)
<1>0. /\ Typed(c) /\ TpmInv(c.tpm) /\ e.tpm = c.tpm /\ e.req = c.req /\ e.attrs = c.attrs
      /\ f.req = c.req /\ f.attrs = c.attrs /\ ~f.tooLate /\ ~Unproved(c) /\ ~Replayed(c)
      /\ c.req.sessions # <<>> => c.attrs.allowed
      /\ \A i, j \in Auditing(c) : i = j /\ c.req.sessions[i].type = "HMAC"
      /\ Present(c) /\ c \in CommandRecords
  BY Zenon DEF Begun, Admitted, Executed, Typed
<1>1. Served(e, f.tpm)
  BY Zenon DEF Executed, Plain
<1>2. Typed(y) /\ TpmInv(y.tpm) /\ Fresh(y.tpm) /\ y.rc = "SUCCESS" /\ ~y.tooLate /\ ~y.tpm.failed
      /\ y.tpm.auditHashAlg = f.tpm.auditHashAlg
  BY Zenon, <1>0, <1>1 DEF Answered, Same, SameRest, Served
<1>3. /\ TpmInv(d.tpm) /\ d.rc = y.rc /\ d.tooLate = y.tooLate
      /\ d.tpm.sessions = y.tpm.sessions /\ d.tpm.exclusive = y.tpm.exclusive
      /\ d.tpm.auditDigest = y.tpm.auditDigest /\ d.tpm.failed = y.tpm.failed
      /\ d.tpm.auditHashAlg = y.tpm.auditHashAlg /\ d.tpm.saved = y.tpm.saved
  BY Zenon, <1>2, CleanedUp
<1> HIDE DEF d
<1>4. BreachesOf(c, d) = {}
  BY Zenon, <1>0, <1>2, <1>3 DEF BreachesOf, Uncounted
<1>5. ExclusiveAfter(c, d.tpm.exclusive)
  <2>0. f.req = c.req /\ f.attrs = c.attrs
    BY Zenon, <1>0
  <2>1. ExclusiveAfter(f, d.tpm.exclusive)
    BY Zenon, <1>3 DEF Answered
  <2>2. Auditing(f) = Auditing(c)
    BY Zenon, <1>0 DEF Auditing, Sessions, Uses
  <2>3. CASE c.req.sessions = <<>>
    <3>1. Auditing(c) = {}
      BY <2>3 DEF Auditing, Sessions
    <3> QED  BY Zenon, <1>0, <1>1, <2>1, <2>2, <3>1 DEF ExclusiveAfter, Served
  <2>4. CASE c.req.sessions # <<>>
    <3>1. c.req.command # "FlushContext"
      BY Zenon, <1>0, <2>4, CommandAssumption DEF Typed
    <3>2. f.tpm.exclusive = c.tpm.exclusive
      BY Zenon, <1>0, <1>1, <3>1 DEF Served
    <3>3. ASSUME NEW i \in Auditing(c) PROVE Begins(f, i) <=> Begins(c, i)
      <4>1. i \in Sessions(c) /\ c.req.sessions[i].type # "PW"
        BY Zenon, <1>0 DEF Auditing
      <4>2. c.req.sessions[i].slot \in Slots /\ SessionOf(c, i) # NoSession
        BY Zenon, <1>0, <4>1, AreaTyped DEF Present
      <4>3. SessionOf(f, i).isAudit = SessionOf(c, i).isAudit
        BY Zenon, <1>0, <1>1, <3>1, <4>2 DEF Served, SessionOf
      <4> QED  BY Zenon, <1>0, <4>3 DEF Begins, Uses
    <3> QED  BY <2>0, <2>1, <2>2, <3>2, <3>3 DEF ExclusiveAfter
  <2> QED  BY <2>3, <2>4
<1>6. DigestAfter(c, d.tpm)
  <2>1. f.req.command \in f.tpm.auditCommands <=> c.req.command \in c.tpm.auditCommands
    BY Zenon, <1>0, <1>1 DEF Served
  <2>2. CASE f.tpm.auditHashAlg # c.tpm.auditHashAlg
    <3>1. c.req.command = "SetCommandCodeAuditStatus" /\ f.tpm.auditDigest.size = "one"
      BY Zenon, <1>0, <1>1, <2>2 DEF Served, Digested
    <3>2. c.req.command \in c.tpm.auditCommands
      BY Zenon, <1>0, <3>1 DEF TpmInv
    <3>3. d.tpm.auditDigest = EmptyDigest
      BY <1>3, <2>1, <3>1, <3>2 DEF Answered, Extended
    <3> QED  BY Zenon, <1>2, <1>3, <2>2, <3>3 DEF DigestAfter
  <2>3. CASE f.tpm.auditHashAlg = c.tpm.auditHashAlg
    <3> DEFINE begun == IF c.req.command = "GetCommandAuditDigest" /\ c.req.handles[2] # "null"
                        THEN EmptyDigest ELSE c.tpm.auditDigest
    <3>1. f.tpm.auditDigest = begun
      <4>1. Digested(e, f.tpm)
        BY Zenon, <1>1 DEF Served
      <4> QED  BY Zenon, <1>0, <2>3, <4>1 DEF Digested
    <3>2. begun.size # "one"
      BY Zenon DEF EmptyDigest
    <3>3. DigestAfter(c, d.tpm) <=>
            d.tpm.auditDigest = IF c.req.command \in c.tpm.auditCommands
                                THEN [size |-> "full", log |-> begun.log + 1] ELSE begun
      BY Zenon, <1>2, <1>3, <2>3 DEF DigestAfter
    <3> HIDE DEF begun
    <3> QED  BY Zenon, <1>3, <2>1, <3>1, <3>2, <3>3 DEF Answered, Extended
  <2> QED  BY Zenon, <2>2, <2>3
<1>8. d.tpm.saved = SavedBy(c)
  <2>1. d.tpm.saved = SavedBy(e)
    BY Zenon, <1>1, <1>3 DEF Answered, SameRest, Served
  <2> QED  BY <1>0, <2>1 DEF SavedBy
<1>7. Concluded(c, d)
  BY Zenon, <1>0, <1>2, <1>3, <1>4, <1>5, <1>6, <1>8 DEF Concluded, Fresh
<1> QED  BY <1>7 DEF d

-----------------------------------------------------------------------------
(* The steps.                                                              *)
LEMMA CommandBegun ==
    ASSUME NEW t, TpmInv(t), Fresh(t), ~t.failed, NEW r \in Requests
    PROVE  LET c == Command(t, r) IN Begun(c) /\ c.tpm = t /\ c.req = r /\ c.attrs = Row(r.command)
<1> DEFINE c == Command(t, r)
           n == Len(r.sessions)
           a == [i \in 1..n |-> Nothing]
           b == [i \in 1..n |-> FALSE]
<1>1. n \in Nat
  BY RequestAssumption DEF Requests, WellFormed
<1>2. /\ c.tpm = t /\ c.req = r /\ c.rc = "SUCCESS" /\ c.attrs = Row(r.command) /\ c.assoc = a
      /\ c.include = b /\ c.cpHash = {} /\ c.evict = {} /\ ~c.clearOrderly /\ c.compared = {}
      /\ ~c.tooLate
  BY DEF Command
<1>3. a \in [1..n -> Places] /\ b \in [1..n -> BOOLEAN]
  BY DEF Places
<1>4. a \in Maps(Places) /\ b \in Maps(BOOLEAN)
  BY Zenon, <1>1, <1>3 DEF Maps
<1>5. \A i \in 1..n : a[i] = Nothing /\ ~b[i]
  OBVIOUS
<1> HIDE DEF a, b
<1>6. t \in TpmRecords /\ "SUCCESS" \in Codes /\ Row(r.command) \in {Row(q.command) : q \in Requests}
  BY Zenon DEF TpmInv, Codes
<1>7. c \in CommandRecords
  <2>1. c = [tpm |-> t, req |-> r, rc |-> "SUCCESS", attrs |-> Row(r.command), assoc |-> a,
             include |-> b, cpHash |-> {}, evict |-> {}, clearOrderly |-> FALSE,
             compared |-> {}, tooLate |-> FALSE]
    BY Zenon DEF Command, a, b
  <2> HIDE DEF c, n
  <2> QED  BY Zenon, <1>4, <1>6, <2>1 DEF CommandRecords
<1> HIDE DEF c
<1>8. Sessions(c) = 1..n
  BY Zenon, <1>2 DEF Sessions
<1>9. Typed(c)
  BY Zenon, <1>2, <1>3, <1>7, <1>8 DEF Typed
<1>10. Begun(c)
  BY Zenon, <1>2, <1>5, <1>8, <1>9 DEF Begun
<1> QED  BY Zenon, <1>2, <1>10 DEF c

\* The exclusive audit session misses no command.
LEMMA NoneMissed ==
    ASSUME NEW c, Begun(c), NEW d, Concluded(c, d),
           \A k \in Slots : c.tpm.exclusive = <<k, "HMAC">> => k \notin missed,
           NEW k \in Slots, d.tpm.exclusive = <<k, "HMAC">>
    PROVE  k \notin MissedAfter(c, d)
<1>0. <<k, "HMAC">> # Nothing
  BY BoundsAssumption
<1>1. CASE d.rc # "SUCCESS"
  BY <1>1 DEF Concluded, MissedAfter
<1>2. CASE d.rc = "SUCCESS" /\ ~c.attrs.allowed
  <2>1. c.req.sessions = <<>>
    BY Zenon, <1>2 DEF Concluded
  <2>2. Auditing(c) = {}
    BY <2>1 DEF Auditing, Sessions
  <2> QED  BY Zenon, <1>0, <1>2, <2>2 DEF Concluded, ExclusiveAfter, MissedAfter
<1>3. CASE d.rc = "SUCCESS" /\ c.attrs.allowed
  <2>1. PICK i \in Auditing(c) :
            /\ d.tpm.exclusive = Handle(c.req.sessions[i])
            /\ Begins(c, i) \/ c.tpm.exclusive = Handle(c.req.sessions[i])
    BY Zenon, <1>0, <1>3 DEF Concluded, ExclusiveAfter
  <2>2. k = c.req.sessions[i].slot /\ Handle(c.req.sessions[i]) = <<k, "HMAC">>
    BY <2>1 DEF Handle
  <2>3. CASE Begins(c, i)
    BY Zenon, <1>3, <2>2, <2>3 DEF MissedAfter
  <2>4. CASE c.tpm.exclusive = <<k, "HMAC">>
    BY Zenon, <1>3, <2>2, <2>4 DEF MissedAfter
  <2> QED  BY Zenon, <2>1, <2>2, <2>3, <2>4
<1> QED  BY <1>1, <1>2, <1>3

\* The command audit digest has what was to be audited.
LEMMA AllAudited ==
    ASSUME NEW c, NEW d, Concluded(c, d), audited \in Nat, c.tpm.auditDigest.log = audited,
           c.tpm.auditDigest.size = IF audited = 0 THEN "zero" ELSE "full"
    PROVE  LET n == AuditedAfter(c, d)
           IN  /\ n \in Nat /\ d.tpm.auditDigest.log = n
               /\ d.tpm.auditDigest.size = IF n = 0 THEN "zero" ELSE "full"
<1> DEFINE n == AuditedAfter(c, d)
           reported == c.req.command = "GetCommandAuditDigest" /\ c.req.handles[2] # "null"
           begun == IF reported THEN EmptyDigest ELSE c.tpm.auditDigest
           m == IF reported THEN 0 ELSE audited
<1>1. m \in Nat /\ begun.log = m /\ begun.size = IF m = 0 THEN "zero" ELSE "full"
  BY DEF EmptyDigest
<1>2. CASE d.rc # "SUCCESS"
  BY <1>2 DEF Concluded, AuditedAfter
<1>3. CASE d.rc = "SUCCESS" /\ d.tpm.auditHashAlg # c.tpm.auditHashAlg
  BY <1>3 DEF Concluded, AuditedAfter, DigestAfter, EmptyDigest
<1>4. CASE d.rc = "SUCCESS" /\ d.tpm.auditHashAlg = c.tpm.auditHashAlg
  <2>1. /\ n = m + (IF c.req.command \in c.tpm.auditCommands THEN 1 ELSE 0)
        /\ d.tpm.auditDigest = IF c.req.command \in c.tpm.auditCommands
                               THEN [size |-> "full", log |-> begun.log + 1] ELSE begun
    BY Zenon, <1>4 DEF Concluded, AuditedAfter, DigestAfter
  <2> HIDE DEF n, m, begun
  <2>2. n \in Nat /\ d.tpm.auditDigest.log = n
        /\ d.tpm.auditDigest.size = IF n = 0 THEN "zero" ELSE "full"
    BY <1>1, <2>1
  <2> QED  BY <2>2 DEF n
<1> QED  BY Zenon, <1>2, <1>3, <1>4

\* What is saved has what the command audit digest had then.
LEMMA AllKept ==
    ASSUME IInv, NEW c, c.tpm = tpm, NEW d, Concluded(c, d)
    PROVE  LET n == KeptAfter(c, d)
           IN  /\ n \in Nat /\ d.tpm.saved.digest.log = n
               /\ d.tpm.saved.digest.size = IF n = 0 THEN "zero" ELSE "full"
<1>1. CASE d.rc = "SUCCESS" /\ c.req.command = "Shutdown" /\ c.req.in.shutdownType = "STATE"
  <2>1. KeptAfter(c, d) = audited /\ d.tpm.saved.digest = tpm.auditDigest
    BY <1>1 DEF KeptAfter, Concluded, SavedBy
  <2> QED  BY <2>1 DEF IInv, AuditsComplete
<1>2. CASE ~(d.rc = "SUCCESS" /\ c.req.command = "Shutdown" /\ c.req.in.shutdownType = "STATE")
  <2>1. KeptAfter(c, d) = kept /\ d.tpm.saved = tpm.saved
    BY Zenon, <1>2 DEF KeptAfter, Concluded, SavedBy
  <2> QED  BY <2>1 DEF IInv
<1> QED  BY <1>1, <1>2

LEMMA HealKeeps ==
    ASSUME IInv, Heal
    PROVE  IInv'
<1>1. /\ TpmInv(tpm) /\ tpm \in TpmRecords /\ tpm.failedTries \in Nat
      /\ UNCHANGED <<scene, audited, kept, missed, breaches>>
  BY DEF IInv, TpmInv, TpmRecords, Heal
<1>2. tpm' \in TpmRecords /\ Alike(tpm, tpm') /\ tpm'.failed = tpm.failed
  <2>1. CASE tpm.failedTries > 0 /\ tpm' = [tpm EXCEPT !.failedTries = @ - 1]
    <3> DEFINE n == tpm.failedTries - 1
    <3>1. n \in Nat /\ tpm' = [tpm EXCEPT !.failedTries = n]
      BY <1>1, <2>1
    <3> HIDE DEF n
    <3> QED  BY <1>1, <3>1 DEF TpmRecords, Alike
  <2>2. CASE tpm' = [tpm EXCEPT !.lockOutAuthEnabled = TRUE]
    BY Zenon, <1>1, <2>2 DEF TpmRecords, Alike
  <2> QED  BY <2>1, <2>2 DEF Heal
<1>3. TpmInv(tpm)' /\ Fresh(tpm)' /\ ~tpm'.failed
  BY Zenon, <1>2 DEF IInv, TpmInv, Fresh, Alike
<1>4. AuditsComplete'
  BY <1>1, <1>2 DEF IInv, AuditsComplete, Alike
<1>5. tpm'.saved = tpm.saved
  BY <1>2 DEF Alike
<1> QED  BY <1>1, <1>3, <1>4, <1>5 DEF IInv

LEMMA NothingSavedTyped ==
    /\ NothingSaved \in Saves /\ SavedInv(NothingSaved) /\ NothingSaved.digest = EmptyDigest
    /\ EmptyDigest \in Digests /\ EmptyDigest.log = 0 /\ EmptyDigest.size = "zero"
<1>1. EmptyDigest \in Digests /\ EmptyDigest.log = 0 /\ EmptyDigest.size = "zero"
  BY DEF Digests, EmptyDigest
<1> QED  BY <1>1 DEF NothingSaved, Saves, SavedInv

LEMMA RestartKeeps ==
    ASSUME IInv, NEW type \in {"CLEAR", "STATE"}, Restart(type)
    PROVE  IInv'
<1> DEFINE reset == tpm.orderly # "STATE"
           s == tpm.saved.sessions
           counts == tpm.orderly = "NONE" /\ tpm.failedTries < MaxTries
           g == [k \in Slots |-> IF reset \/ s[k] = NoSession \/ s[k].loaded THEN NoSession ELSE s[k]]
           p == tpm.present \ {e \in tpm.present : Type(e) = "transient"}
           a == [tpm.auths EXCEPT !["platform"] = IF type = "STATE" THEN @ ELSE EmptyAuth]
           n == IF counts THEN tpm.failedTries + 1 ELSE tpm.failedTries
           b == IF reset THEN EmptyDigest ELSE tpm.saved.digest
<1>0. TpmInv(tpm) /\ tpm \in TpmRecords /\ ~tpm.failed /\ AuditsComplete /\ tpm.saved \in Saves
  BY DEF IInv, TpmInv, TpmRecords
<1>1. /\ audited' = (IF reset THEN 0 ELSE kept) /\ kept' = 0 /\ missed' \subseteq missed
      /\ UNCHANGED <<scene, breaches>>
  BY DEF Restart
<1>2. tpm' = [tpm EXCEPT !.sessions = g, !.present = p, !.auths = a, !.failedTries = n,
                         !.auditDigest = b, !.orderly = "NONE", !.saved = NothingSaved]
  BY <1>0 DEF Restart, TpmRecords
<1>3. \A k \in Slots : g[k] \in {s[k], NoSession}
  OBVIOUS
<1>4. g \in [Slots -> SessionRecords \cup {NoSession}]
  <2>1. g = [k \in Slots |-> g[k]]
    OBVIOUS
  <2>2. \A k \in Slots : s[k] \in SessionRecords \cup {NoSession}
    BY Zenon, <1>0 DEF Saves
  <2> HIDE DEF g
  <2> QED  BY <1>3, <2>1, <2>2
<1>5. p \in SUBSET Entities /\ n \in Nat
  BY <1>0, TpmTyped
<1>11. b \in Digests
  BY <1>0, NothingSavedTyped DEF Saves
<1>6. a \in [Entities -> AuthValues]
  BY Zenon, <1>0, PublicAssumption DEF TpmRecords
<1>7. b.log = audited' /\ b.size = (IF audited' = 0 THEN "zero" ELSE "full") /\ audited' \in Nat
  BY <1>1, NothingSavedTyped DEF IInv
<1> HIDE DEF g, p, a, n, b, reset, counts
<1>8. /\ tpm' \in TpmRecords /\ tpm'.sessions = g /\ tpm'.exclusive = tpm.exclusive
      /\ tpm'.auditCommands = tpm.auditCommands /\ tpm'.saved = NothingSaved
      /\ tpm'.auditDigest = b /\ tpm'.failed = tpm.failed
  BY Zenon, <1>0, <1>2, <1>4, <1>5, <1>6, <1>11, NothingSavedTyped DEF TpmRecords
<1>9. TpmInv(tpm)' /\ Fresh(tpm)'
  BY Zenon, <1>0, <1>3, <1>8, NothingSavedTyped DEF TpmInv, Fresh, SavedInv
<1>10. AuditsComplete'
  BY Zenon, <1>0, <1>1, <1>7, <1>8 DEF AuditsComplete
<1>12. kept' \in Nat /\ tpm'.saved.digest.log = kept'
       /\ tpm'.saved.digest.size = IF kept' = 0 THEN "zero" ELSE "full"
  BY <1>1, <1>8, NothingSavedTyped
<1> QED  BY Zenon, <1>0, <1>1, <1>7, <1>8, <1>9, <1>10, <1>12 DEF IInv

LEMMA InitEstablishes ==
    ASSUME Init
    PROVE  IInv
<1> DEFINE s == [k \in Slots |-> NoSession]
<1>1. tpm = [auths |-> InitialAuth, present |-> Entities, sessions |-> s, exclusive |-> Nothing,
             failedTries |-> 0, lockOutAuthEnabled |-> TRUE, orderly |-> "NONE",
             auditCommands |-> {"SetCommandCodeAuditStatus"}, auditHashAlg |-> "SHA256",
             auditDigest |-> EmptyDigest, auditCounter |-> 0, failed |-> FALSE,
             saved |-> NothingSaved]
  BY DEF Init
<1>2. s \in [Slots -> SessionRecords \cup {NoSession}] /\ \A k \in Slots : s[k] = NoSession
  OBVIOUS
<1>4. InitialAuth \in [Entities -> AuthValues]
  BY Zenon, PublicAssumption
<1> HIDE DEF s
<1>5. tpm \in TpmRecords
  BY Zenon, <1>1, <1>2, <1>4, NothingSavedTyped DEF TpmRecords, HashAlgs
<1>6. TpmInv(tpm) /\ Fresh(tpm) /\ ~tpm.failed
  BY Zenon, <1>1, <1>2, <1>5, NothingSavedTyped DEF TpmInv, Fresh
<1>7. AuditsComplete
  BY <1>1, NothingSavedTyped, BoundsAssumption DEF AuditsComplete, Init
<1>8. kept \in Nat /\ tpm.saved.digest.log = kept
      /\ tpm.saved.digest.size = IF kept = 0 THEN "zero" ELSE "full"
  BY <1>1, NothingSavedTyped DEF Init
<1> QED  BY Zenon, <1>6, <1>7, <1>8 DEF IInv, Init
=============================================================================
