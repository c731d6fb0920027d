---------------------------- MODULE SessionProcess ----------------------------
(***************************************************************************)
(* ExecuteCommand: the sessions of a command are checked, the command is   *)
(* executed, and the sessions are brought up to date for the response      *)
(* (SessionProcess.c).  The TPM serves one command at a time: a command is *)
(* one step, from c, the command in progress, to the next of its stages.   *)
(*                                                                         *)
(* The TPM's data is a record.  An HMAC is what it was computed with: the  *)
(* authValue behind the session key, the authValue of the entity, and the  *)
(* session's last nonce or one before it.  The restrictions of a policy    *)
(* are those of module PolicySession; here are the digest, the command     *)
(* code and the authValue.  NV is always available, as it is on the        *)
(* platform of Samples/Google, and dictionary attack protection is on:     *)
(* gp.recoveryTime and gp.lockoutRecovery are not zero.                    *)
(***************************************************************************)
EXTENDS Integers, Sequences

CONSTANTS Public,        \* of each entity: its type, attribute bits and policy
          CommandRows,   \* of each command: what the attribute tables say of it
          AuthValues,    \* the authValues
          InitialAuth,   \* of each entity: its authValue at first
          Slots,         \* session handles without their type
          Scenes,        \* sets of requests by name, one of which is sent in a behaviour
          PpList,        \* gp.ppList, the commands that need physical presence
          MaxTries,      \* gp.maxTries
          MaxAudited,    \* bound on the commands in an audit digest
          MaxCounter,    \* bound on gp.auditCounter
          MaxPolicy,     \* bound on the assertions in a policy session
          Nothing        \* TPM_RH_UNASSIGNED, no session key, no command code

VARIABLES scene,         \* the name of the requests
          tpm,           \* the TPM's data
          audited,       \* history: commands to audit since the last report of the digest
          kept,          \* history: audited at the last Shutdown(STATE)
          missed,        \* history: audit sessions whose digest lacks a command
          breaches       \* history: what a command was executed or refused without
vars == <<scene, tpm, audited, kept, missed, breaches>>

Entities == DOMAIN Public
Type(e) == IF e \in Entities THEN Public[e].type ELSE "permanent"
Bit(e, b) == e \in Entities /\ b \in Public[e].bits
NoSession == [type |-> "none"]
MAX_SESSION_NUM == 3
\* An authValue of no bytes.
EmptyAuth == "empty"

Row(command) == CHOOSE row \in CommandRows : row.command = command

-----------------------------------------------------------------------------
(* A command in progress: the TPM, the request, the response code, the     *)
(* entity that each session is for and whether its authValue is part of    *)
(* the session's key (includeAuth), the hashes that cpHash was computed    *)
(* with, the objects to go and g_clearOrderly, and which protected         *)
(* authValues have been compared.                                          *)

Command(t, r) ==
    [tpm |-> t, req |-> r, rc |-> "SUCCESS",
     attrs |-> Row(r.command),
     assoc |-> [i \in 1..Len(r.sessions) |-> Nothing],
     include |-> [i \in 1..Len(r.sessions) |-> FALSE],
     cpHash |-> {}, evict |-> {}, clearOrderly |-> FALSE,
     compared |-> {}, tooLate |-> FALSE]

Refuse(c, rc) == [c EXCEPT !.rc = rc]
Check(c, condition, rc) == IF c.rc = "SUCCESS" /\ ~condition THEN Refuse(c, rc) ELSE c
Then(c, Op(_)) == IF c.rc = "SUCCESS" THEN Op(c) ELSE c
When(condition, c, Op(_)) == IF condition THEN Then(c, Op) ELSE c
\* pAssert: the TPM enters failure mode.
Fail(c) == [c EXCEPT !.rc = "FAILURE", !.tpm.failed = TRUE]

ComputeCpHash(c, hashAlg) == [c EXCEPT !.cpHash = @ \cup {hashAlg}]

Role(c, i) == IF i <= 2 THEN c.attrs.roles[i] ELSE "AUTH_NONE"
IsPW(s) == s.type = "PW"
Handle(s) == <<s.slot, s.type>>
SessionOf(c, i) == c.tpm.sessions[c.req.sessions[i].slot]
Uses(c, i, attribute) == attribute \in c.req.sessions[i].attributes
Sessions(c) == 1..Len(c.req.sessions)

-----------------------------------------------------------------------------
(* Entities.                                                               *)
EntityGetAuthValue(t, e) == IF e \in Entities THEN t.auths[e] ELSE EmptyAuth

\* A bug: a session stays bound to the entity when the entity's authValue changes.
SessionComputeBoundEntityByName(t, e) == <<e, EmptyAuth>>

SessionComputeBoundEntity(t, e) == <<e, EntityGetAuthValue(t, e)>>

IsDAExempted(e) ==
    CASE Type(e) = "permanent" -> e # "lockout"
      [] Type(e) \in {"transient", "nv"} -> Bit(e, "noDA")
      [] Type(e) = "pcr" -> TRUE

IsPolicySessionRequired(c, i) ==
    LET e == c.assoc[i]
    IN  \/ Role(c, i) = "AUTH_DUP"
        \/ Role(c, i) = "AUTH_ADMIN" /\ (Type(e) = "transient" => Bit(e, "adminWithPolicy"))
        \/ Type(e) = "pcr" /\ Bit(e, "policyGroup") /\ Public[e].policy # <<>>

IsAuthValueAvailable(c, i) ==
    LET e == c.assoc[i]
    IN  CASE Type(e) = "permanent" -> TRUE
          [] Type(e) = "transient" ->
                \/ Bit(e, "sequence")
                \/ /\ ~Bit(e, "publicOnly")
                   /\ \/ Bit(e, "userWithAuth")
                      \/ Role(c, i) = "AUTH_ADMIN" /\ ~Bit(e, "adminWithPolicy")
          [] Type(e) = "nv" -> Bit(e, IF c.attrs.write THEN "AUTHWRITE" ELSE "AUTHREAD")
          [] Type(e) = "pcr" -> TRUE

IsAuthPolicyAvailable(c, i) ==
    LET e == c.assoc[i]
    IN  CASE Type(e) = "permanent" -> e \in Entities /\ Public[e].policy # <<>>
          [] Type(e) = "transient" -> ~Bit(e, "publicOnly") /\ ~Bit(e, "sequence")
          [] Type(e) = "nv" ->
                /\ Public[e].policy # <<>>
                /\ \/ IsPolicySessionRequired(c, i)
                   \/ Bit(e, IF c.attrs.write THEN "POLICYWRITE" ELSE "POLICYREAD")
          [] Type(e) = "pcr" -> Bit(e, "policyGroup")

-----------------------------------------------------------------------------
(* Dictionary attack protection.                                           *)
CheckLockedOut(c, lockoutAuthCheck) ==
    Check(c, IF lockoutAuthCheck THEN c.tpm.lockOutAuthEnabled
             ELSE c.tpm.failedTries < MaxTries, "LOCKOUT")

\* A bug: it does not matter what the session is bound to.
IncrementLockoutByEntity(c, i) ==
    IF IsDAExempted(c.assoc[i]) \/ ~(IsPW(c.req.sessions[i]) \/ c.include[i])
    THEN Refuse(c, "BAD_AUTH")
    ELSE [c EXCEPT !.tpm.failedTries = @ + 1, !.rc = "AUTH_FAIL"]

IncrementLockout(c, i) ==
    LET pw == IsPW(c.req.sessions[i])
        handle == IF ~pw /\ SessionOf(c, i).isLockoutBound THEN "lockout" ELSE c.assoc[i]
        uncounted == /\ ~pw => ~SessionOf(c, i).isDaBound
                     /\ IsDAExempted(handle) \/ (~pw /\ ~c.include[i])
    IN  CASE uncounted -> Refuse(c, "BAD_AUTH")
          [] ~uncounted /\ handle = "lockout" ->
                IF c.tpm.lockOutAuthEnabled
                THEN [c EXCEPT !.tpm.lockOutAuthEnabled = FALSE, !.rc = "AUTH_FAIL"]
                ELSE Fail(c)
          [] ~uncounted /\ handle # "lockout" ->
                [c EXCEPT !.tpm.failedTries = @ + 1, !.rc = "AUTH_FAIL"]

\* History: the protected authValues that the outcome of a comparison tells about, and
\* whether the TPM is locked out for one of them.
Protected(c, i) ==
    LET pw == IsPW(c.req.sessions[i])
    IN  {e \in (IF pw \/ c.include[i] THEN {c.assoc[i]} ELSE {})
               \cup (IF pw THEN {} ELSE {SessionOf(c, i).bind}) : ~IsDAExempted(e)}

LockedOut(t, e) == IF e = "lockout" THEN ~t.lockOutAuthEnabled ELSE t.failedTries >= MaxTries

Comparing(c, i) ==
    [c EXCEPT !.compared = Protected(c, i),
              !.tooLate = @ \/ \E e \in Protected(c, i) : LockedOut(c.tpm, e)]

-----------------------------------------------------------------------------
(* The checks of a session.                                                *)
\* The digest of a session without assertions is not empty, unlike no policy.
CheckPolicyAuthSession(c, i) ==
    LET s == SessionOf(c, i)
        policy == Public[c.assoc[i]].policy
        agrees == /\ policy # <<>> /\ s.policyDigest = policy
                  /\ s.commandCode = Nothing => Role(c, i) \notin {"AUTH_ADMIN", "AUTH_DUP"}
    IN  Check(Check(c, agrees, "POLICY_FAIL"),
              s.commandCode \in {Nothing, c.req.command}, "POLICY_CC")

CheckPWAuthSession(c, i) ==
    IF c.req.sessions[i].auth = EntityGetAuthValue(c.tpm, c.assoc[i])
    THEN c ELSE IncrementLockout(c, i)

\* The HMAC of the caller is what ComputeCommandHMAC gives.
SameHMAC(c, i) ==
    LET given == c.req.sessions[i]
        s == SessionOf(c, i)
        authValue == IF c.include[i] THEN EntityGetAuthValue(c.tpm, c.assoc[i]) ELSE EmptyAuth
    IN  IF given.hmac = "none" THEN s.sessionKey = Nothing /\ authValue = EmptyAuth
        ELSE /\ given.hmac = "last" \/ (given.hmac = "old" /\ ~s.fresh)
             /\ given.bindAuth = s.sessionKey /\ given.auth = authValue

CheckSessionHMAC(c, i) ==
    LET d == IF c.req.sessions[i].hmac = "none" THEN c
             ELSE ComputeCpHash(c, SessionOf(c, i).authHashAlg)
    IN  IF SameHMAC(d, i) THEN d ELSE IncrementLockout(d, i)

\* With IsSessionBindEntity.
IncludesAuth(c, i) ==
    LET s == SessionOf(c, i)
    IN  IF s.type = "POLICY" THEN s.needs # "none"
        ELSE ~(s.isBound /\ s.boundEntity = SessionComputeBoundEntity(c.tpm, c.assoc[i]))

PhysicallyPresent(c, i) ==
    Check(c, c.assoc[i] = "platform" /\ c.req.command \in PpList => c.req.pp, "PP")

Including(c, i) ==
    IF IsPW(c.req.sessions[i]) THEN c ELSE [c EXCEPT !.include[i] = IncludesAuth(c, i)]

NotLockedOut(c, i) ==
    IF (IsPW(c.req.sessions[i]) \/ c.include[i]) /\ ~IsDAExempted(c.assoc[i])
    THEN CheckLockedOut(c, c.assoc[i] = "lockout") ELSE c

\* By the authValue, or by the policy.
Permitted(c, i) ==
    IF c.req.sessions[i].type = "POLICY"
    THEN Then(Check(c, IsAuthPolicyAvailable(c, i), "AUTH_UNAVAILABLE"),
              LAMBDA x : CheckPolicyAuthSession(x, i))
    ELSE Check(Check(c, ~IsPolicySessionRequired(c, i), "AUTH_TYPE"),
               IsAuthValueAvailable(c, i), "AUTH_UNAVAILABLE")

Compared(c, i) ==
    IF IsPW(c.req.sessions[i]) \/ SessionOf(c, i).needs = "password"
    THEN CheckPWAuthSession(Comparing(c, i), i)
    ELSE CheckSessionHMAC(Comparing(c, i), i)

CheckAuthSession(c, i) ==
    Then(Then(Then(Then(PhysicallyPresent(c, i),
        LAMBDA x : Including(x, i)),
        LAMBDA x : NotLockedOut(x, i)),
        LAMBDA x : Permitted(x, i)),
        LAMBDA x : Compared(x, i))

-----------------------------------------------------------------------------
(* ParseSessionBuffer and CheckAuthNoSession.                              *)
\* What RetrieveSessionData asks of the i-th session, given those before it.
Retrieved(c, i) ==
    LET s == c.req.sessions[i]
        x == SessionOf(c, i)
        First(attribute) == \A j \in 1..(i - 1) : ~Uses(c, j, attribute)
    IN  IF IsPW(s) THEN s.attributes \subseteq {"continueSession"}
        ELSE /\ x.type = s.type /\ x.loaded
             /\ \A j \in 1..(i - 1) : IsPW(c.req.sessions[j])
                                      \/ Handle(c.req.sessions[j]) # Handle(s)
             /\ Uses(c, i, "decrypt") => c.attrs.decrypt /\ First("decrypt") /\ x.symmetric
             /\ Uses(c, i, "encrypt") => c.attrs.encrypt /\ First("encrypt") /\ x.symmetric
             /\ Uses(c, i, "audit") =>
                    /\ First("audit") /\ s.type # "POLICY"
                    /\ ~Uses(c, i, "auditReset") /\ x.isAudit /\ Uses(c, i, "auditExclusive")
                         => c.tpm.exclusive = Handle(s)

\* A password authorises; the lockout of the entity that a session is bound to counts
\* whatever the session is for.
Started(c, i) ==
    LET x == SessionOf(c, i)
        NotTrial == Check(c, ~x.trial, "ATTRIBUTES")
    IN  IF IsPW(c.req.sessions[i]) THEN Check(c, c.assoc[i] # Nothing, "HANDLE")
        ELSE IF x.isDaBound THEN CheckLockedOut(NotTrial, x.isLockoutBound) ELSE NotTrial

Hashed(c, i) ==
    IF Uses(c, i, "audit") THEN ComputeCpHash(c, SessionOf(c, i).authHashAlg) ELSE c

\* A session that authorises nothing.
Alone(c, i) ==
    Then(Check(c, c.req.sessions[i].attributes \cap {"audit", "encrypt", "decrypt"} # {},
               "ATTRIBUTES"),
         LAMBDA x : CheckSessionHMAC(Comparing(x, i), i))

CheckSession(c, i) ==
    Then(Then(Then(c, LAMBDA x : Started(x, i)),
        LAMBDA x : Hashed(x, i)),
        LAMBDA x : IF x.assoc[i] # Nothing THEN CheckAuthSession(x, i) ELSE Alone(x, i))

CheckCommandAudit(c) ==
    IF c.req.command \in c.tpm.auditCommands
    THEN ComputeCpHash(c, c.tpm.auditHashAlg) ELSE c

Authorising(c) == {i \in 1..Len(c.req.handles) : Role(c, i) # "AUTH_NONE"}

Associated(c) ==
    [c EXCEPT !.assoc = [i \in Sessions(c) |->
        IF i \in Authorising(c) THEN c.req.handles[i] ELSE Nothing]]

CheckEach(c, i) == IF i \in Sessions(c) THEN CheckSession(c, i) ELSE c

ParseSessionBuffer(c) ==
    Then(Then(Then(
        Check(Check(Check(Check(c, c.attrs.allowed, "AUTH_CONTEXT"),
                          Len(c.req.sessions) <= MAX_SESSION_NUM, "SIZE"),
                    \A i \in Sessions(c) : Retrieved(c, i), "SESSIONS"),
              \A i \in Authorising(c) : i \in Sessions(c), "AUTH_MISSING"),
        Associated),
        LAMBDA x : CheckEach(CheckEach(CheckEach(x, 1), 2), MAX_SESSION_NUM)),
        CheckCommandAudit)

CheckAuthNoSession(c) ==
    Then(Check(c, Authorising(c) = {}, "AUTH_MISSING"), CheckCommandAudit)

-----------------------------------------------------------------------------
(* The commands: what they do to sessions, authValues and audit.           *)
SessionCreate(t, type, bind, symmetric) ==
    [type |-> IF type = "TRIAL" THEN "POLICY" ELSE type, trial |-> type = "TRIAL", loaded |-> TRUE,
     authHashAlg |-> "SHA256", symmetric |-> symmetric,
     sessionKey |-> IF bind = "null" THEN Nothing ELSE EntityGetAuthValue(t, bind),
     isBound |-> bind # "null" /\ type = "HMAC",
     boundEntity |-> SessionComputeBoundEntity(t, bind),
     isDaBound |-> ~IsDAExempted(bind), isLockoutBound |-> bind = "lockout",
     isAudit |-> FALSE, policyDigest |-> <<>>, commandCode |-> Nothing, needs |-> "none",
     bind |-> bind, fresh |-> TRUE]

StartAuthSession(c) ==
    LET free == {k \in Slots : c.tpm.sessions[k] = NoSession}
        k == CHOOSE m \in free : \A n \in free : m <= n
    IN  CASE Bit(c.req.handles[2], "publicOnly") -> Refuse(c, "HANDLE")
          [] ~Bit(c.req.handles[2], "publicOnly") /\ free = {} -> Refuse(c, "SESSION_MEMORY")
          [] ~Bit(c.req.handles[2], "publicOnly") /\ free # {} ->
                [c EXCEPT !.tpm.sessions[k] =
                    SessionCreate(c.tpm, c.req.in.type, c.req.handles[2], c.req.in.symmetric)]

\* The type in the handle does not matter to SessionIsLoaded, SessionIsSaved, SessionFlush.
FlushContext(c) ==
    LET h == Handle(c.req.in)
    IN  IF c.tpm.sessions[h[1]] = NoSession THEN Refuse(c, "HANDLE")
        ELSE [c EXCEPT !.tpm.sessions[h[1]] = NoSession,
                       !.tpm.exclusive = IF @ = h THEN Nothing ELSE @]

\* The contexts themselves are those of module SessionContext.
ContextSave(c) ==
    LET k == c.req.in.slot
    IN  IF c.tpm.sessions[k] # NoSession /\ c.tpm.sessions[k].loaded
        THEN [c EXCEPT !.tpm.sessions[k].loaded = FALSE, !.clearOrderly = TRUE]
        ELSE Refuse(c, "HANDLE")
ContextLoad(c) ==
    LET k == c.req.in.slot
    IN  IF c.tpm.sessions[k] # NoSession /\ ~c.tpm.sessions[k].loaded
        THEN [c EXCEPT !.tpm.sessions[k].loaded = TRUE, !.clearOrderly = TRUE]
        ELSE [c EXCEPT !.rc = "HANDLE", !.clearOrderly = TRUE]

HierarchyChangeAuth(c) ==
    [c EXCEPT !.tpm.auths[c.req.handles[1]] = c.req.in.newAuth,
              !.clearOrderly = (c.req.handles[1] = "platform")]

\* A bug: the session stays associated with the index that is gone.
NV_UndefineSpaceSpecialKeepsAssociation(c) ==
    LET e == c.req.handles[1]
    IN  IF ~Bit(e, "POLICY_DELETE") THEN Refuse(c, "ATTRIBUTES")
        ELSE [c EXCEPT !.tpm.present = @ \ {e}]

\* With SessionRemoveAssociationToHandle.
NV_UndefineSpaceSpecial(c) ==
    LET e == c.req.handles[1]
    IN  IF ~Bit(e, "POLICY_DELETE") THEN Refuse(c, "ATTRIBUTES")
        ELSE [c EXCEPT !.tpm.present = @ \ {e},
                       !.assoc = [i \in DOMAIN @ |-> IF @[i] = e THEN "null" ELSE @[i]]]

\* The sequence object goes when the command is over.
SequenceComplete(c) ==
    LET e == c.req.handles[1]
    IN  IF Bit(e, "sequence") THEN [c EXCEPT !.evict = {e}] ELSE Refuse(c, "MODE")

\* Load, HashSequenceStart and NV_DefineSpace: an entity with its authValue.  There is
\* room for one of each.
Creation(c) ==
    LET e == c.req.in.entity
    IN  IF e \in c.tpm.present THEN Refuse(c, "MEMORY")
        ELSE [c EXCEPT !.tpm.present = @ \cup {e}, !.tpm.auths[e] = InitialAuth[e]]

EmptyDigest == [size |-> "zero", log |-> 0]
\* The copy of gr in NV, which is of no use once Startup has read it.
NothingSaved == [digest |-> EmptyDigest, sessions |-> [k \in Slots |-> NoSession]]

SetCommandCodeAuditStatus(c) ==
    LET in == c.req.in
    IN  CASE in.auditAlg \in {Nothing, c.tpm.auditHashAlg} ->
                [c EXCEPT !.tpm.auditCommands =
                    (@ \cup (in.setList \ {"Shutdown"}))
                        \ (in.clearList \ {"SetCommandCodeAuditStatus"})]
          [] in.auditAlg \notin {Nothing, c.tpm.auditHashAlg} ->
                IF in.setList # {} \/ in.clearList # {} THEN Refuse(c, "VALUE")
                ELSE [c EXCEPT !.tpm.auditHashAlg = in.auditAlg,
                               !.tpm.auditDigest.size = "one"]

GetCommandAuditDigest(c) ==
    IF c.req.handles[2] = "null" THEN c ELSE [c EXCEPT !.tpm.auditDigest = EmptyDigest]

GetSessionAuditDigest(c) ==
    Check(c, c.tpm.sessions[c.req.in.slot].isAudit, "TYPE")

\* The assertions of a policy.
TheAuthValue == <<"PolicyAuthValue">>
TheCommand(code) == <<"PolicyCommandCode", code>>

SessionResetPolicyData(s) ==
    [s EXCEPT !.policyDigest = <<>>, !.commandCode = Nothing, !.needs = "none"]

PolicyAuthValue(s) ==
    [s EXCEPT !.policyDigest = Append(@, TheAuthValue), !.needs = "auth"]
PolicyPassword(s) ==
    [s EXCEPT !.policyDigest = Append(@, TheAuthValue), !.needs = "password"]
PolicyCommandCode(s, code) ==
    [s EXCEPT !.policyDigest = Append(@, TheCommand(code)), !.commandCode = code]

\* A command on a policy session.
PolicyCommand(c) ==
    LET k == c.req.in.slot
        s == c.tpm.sessions[k]
    IN  CASE c.req.command = "PolicyRestart" ->
                [c EXCEPT !.tpm.sessions[k] = SessionResetPolicyData(s)]
          [] c.req.command = "PolicyAuthValue" ->
                [c EXCEPT !.tpm.sessions[k] = PolicyAuthValue(s)]
          [] c.req.command = "PolicyPassword" ->
                [c EXCEPT !.tpm.sessions[k] = PolicyPassword(s)]
          [] c.req.command = "PolicyCommandCode" ->
                IF s.commandCode \in {Nothing, c.req.in.code}
                THEN [c EXCEPT !.tpm.sessions[k] = PolicyCommandCode(s, c.req.in.code)]
                ELSE Refuse(c, "VALUE")

\* STATE writes gr, in which the audit digest and the table of the sessions are, to NV.
Shutdown(c) ==
    [c EXCEPT !.tpm.orderly = c.req.in.shutdownType,
              !.tpm.saved = IF c.req.in.shutdownType = "STATE"
                            THEN [digest |-> c.tpm.auditDigest, sessions |-> c.tpm.sessions]
                            ELSE @]

PolicyCommands == {"PolicyRestart", "PolicyAuthValue", "PolicyPassword", "PolicyCommandCode"}

CommandDispatcher(c) ==
    CASE c.req.command = "StartAuthSession" -> StartAuthSession(c)
      [] c.req.command = "FlushContext" -> FlushContext(c)
      [] c.req.command = "ContextSave" -> ContextSave(c)
      [] c.req.command = "ContextLoad" -> ContextLoad(c)
      [] c.req.command = "HierarchyChangeAuth" -> HierarchyChangeAuth(c)
      [] c.req.command = "NV_UndefineSpaceSpecial" -> NV_UndefineSpaceSpecial(c)
      [] c.req.command = "SequenceComplete" -> SequenceComplete(c)
      [] c.req.command \in {"Load", "HashSequenceStart", "NV_DefineSpace"} -> Creation(c)
      [] c.req.command = "SetCommandCodeAuditStatus" -> SetCommandCodeAuditStatus(c)
      [] c.req.command = "GetCommandAuditDigest" -> GetCommandAuditDigest(c)
      [] c.req.command = "GetSessionAuditDigest" -> GetSessionAuditDigest(c)
      [] c.req.command = "DictionaryAttackLockReset" -> [c EXCEPT !.tpm.failedTries = 0]
      [] c.req.command \in PolicyCommands -> PolicyCommand(c)
      [] c.req.command = "Shutdown" -> Shutdown(c)
      \* The others leave all of this alone.
      [] OTHER -> c

-----------------------------------------------------------------------------
(* BuildResponseSession.                                                   *)
InSlot(c, k) == {i \in Sessions(c) : ~IsPW(c.req.sessions[i]) /\ c.req.sessions[i].slot = k}

\* A bug: only the sessions that authorise get a nonce.
UpdateAllNonceTPMOfAuthorisations(c) ==
    [c EXCEPT !.tpm.sessions = [k \in Slots |->
        IF {i \in InSlot(c, k) : c.assoc[i] # Nothing} # {}
        THEN [@[k] EXCEPT !.fresh = TRUE] ELSE @[k]]]

UpdateAllNonceTPM(c) ==
    [c EXCEPT !.tpm.sessions = [k \in Slots |->
        IF InSlot(c, k) # {} THEN [@[k] EXCEPT !.fresh = TRUE] ELSE @[k]]]

InitAuditSession(s) == [s EXCEPT !.isAudit = TRUE, !.isBound = FALSE]

Begins(c, i) == ~SessionOf(c, i).isAudit \/ Uses(c, i, "auditReset")

\* The i-th session audits the command.  UpdateAuditDigest asserts that there is a cpHash
\* of the algorithm.
Audit(c, i) ==
    LET s == c.req.sessions[i]
    IN  IF SessionOf(c, i).authHashAlg \notin c.cpHash THEN Fail(c)
        ELSE [c EXCEPT !.tpm.sessions[s.slot] = IF Begins(c, i) THEN InitAuditSession(@) ELSE @,
                       !.tpm.exclusive = IF Begins(c, i) \/ @ = Handle(s) THEN Handle(s)
                                         ELSE Nothing]

Auditing(c) == {i \in Sessions(c) : Uses(c, i, "audit")}

\* A bug: a command without an audit session is not noticed.
UpdateAuditSessionStatusOfAudited(c) ==
    IF Auditing(c) # {} THEN Audit(c, CHOOSE i \in Auditing(c) : TRUE) ELSE c

UpdateAuditSessionStatus(c) ==
    CASE Auditing(c) # {} -> Audit(c, CHOOSE i \in Auditing(c) : TRUE)
      [] Auditing(c) = {} -> IF c.attrs.allowed THEN [c EXCEPT !.tpm.exclusive = Nothing] ELSE c

CommandAudit(c) ==
    LET d == c.tpm.auditDigest
    IN  CASE d.size = "one" -> [c EXCEPT !.tpm.auditDigest = EmptyDigest]
          [] d.size # "one" /\ c.tpm.auditHashAlg \notin c.cpHash -> Fail(c)
          [] d.size # "one" /\ c.tpm.auditHashAlg \in c.cpHash ->
                [c EXCEPT !.tpm.auditDigest = [size |-> "full", log |-> d.log + 1],
                          !.tpm.auditCounter = IF d.size = "zero" THEN @ + 1 ELSE @]

\* The authValue of the entity is taken for the key of the HMAC, unless a password was
\* needed, and for the key that encrypts the response.
TakesAuth(c, i) == \/ Uses(c, i, "encrypt")
                   \/ c.include[i] /\ SessionOf(c, i).needs # "password"

\* EntityGetAuthValue asserts that the entity is there.
ComputeResponseHMAC(c) ==
    IF \A i \in Sessions(c) :
            TakesAuth(c, i) /\ c.assoc[i] \in Entities => c.assoc[i] \in c.tpm.present
    THEN c ELSE Fail(c)

\* UpdateInternalSession, and SessionFlush of what does not continue.
Continued(c) ==
    [c EXCEPT !.tpm.sessions = [k \in Slots |->
        CASE InSlot(c, k) = {} -> @[k]
          [] \E i \in InSlot(c, k) : ~Uses(c, i, "continueSession") -> NoSession
          [] \E i \in InSlot(c, k) : Uses(c, i, "continueSession") ->
                IF @[k].type = "POLICY" THEN SessionResetPolicyData(@[k]) ELSE @[k]]]

BuildResponseSession(c) ==
    Then(Then(When(c.req.command \in c.tpm.auditCommands,
                   UpdateAuditSessionStatus(UpdateAllNonceTPM(c)), CommandAudit),
              ComputeResponseHMAC), Continued)

-----------------------------------------------------------------------------
(* ExecuteCommand.                                                         *)
\* The handles name entities that are there, sessions that are loaded.
EntityGetLoadStatus(c) ==
    Check(Check(c, \A i \in 1..Len(c.req.handles) :
                        c.req.handles[i] \in Entities => c.req.handles[i] \in c.tpm.present,
                "REFERENCE"),
          c.req.command \in PolicyCommands \cup {"GetSessionAuditDigest"} =>
              LET s == c.tpm.sessions[c.req.in.slot]
              IN  /\ s.type = (IF c.req.command \in PolicyCommands THEN "POLICY" ELSE "HMAC")
                  /\ s.loaded,
          "REFERENCE")

\* History: the nonces that have been used.
Used(c) ==
    [c EXCEPT !.tpm.sessions = [k \in Slots |->
        IF InSlot(c, k) # {} /\ @[k] # NoSession THEN [@[k] EXCEPT !.fresh = FALSE] ELSE @[k]]]

Authorised(c) == IF c.req.sessions # <<>> THEN ParseSessionBuffer(c) ELSE CheckAuthNoSession(c)

Cleanup(c) ==
    [c EXCEPT !.tpm.orderly = IF c.clearOrderly THEN "NONE" ELSE @,
              !.tpm.present = @ \ c.evict]

ExecuteCommand(c) ==
    Cleanup(Then(Then(Then(Then(EntityGetLoadStatus(c), Authorised),
                           CommandDispatcher), Used), BuildResponseSession))

-----------------------------------------------------------------------------
(* History: what a command was executed without, or refused without.       *)
\* The authValue of the i-th handle is one that the caller has used for it.
Knows(c, i) ==
    LET s == c.req.sessions[i]
        authValue == EntityGetAuthValue(c.tpm, c.req.handles[i])
    IN  \/ s.auth = authValue
        \/ s.type = "HMAC" /\ SessionOf(c, i).bind = c.req.handles[i] /\ s.bindAuth = authValue

\* The assertions of the policy of the i-th handle hold of the command.
Satisfies(c, i) ==
    \A n \in 1..Len(Public[c.req.handles[i]].policy) :
        LET assertion == Public[c.req.handles[i]].policy[n]
        IN  IF assertion = TheAuthValue THEN Knows(c, i)
            ELSE assertion = TheCommand(c.req.command)

Unproved(c) ==
    \E i \in Authorising(c) :
        IF c.req.sessions[i].type = "POLICY" THEN ~Satisfies(c, i) ELSE ~Knows(c, i)

\* An HMAC with a nonce of an earlier command, where it is not a password that counts.
Replayed(c) ==
    \E i \in Sessions(c) : /\ ~IsPW(c.req.sessions[i]) /\ c.req.sessions[i].hmac = "old"
                           /\ ~(i \in Authorising(c) /\ SessionOf(c, i).needs = "password")

Uncounted(t, d) ==
    /\ d.rc \in {"BAD_AUTH", "AUTH_FAIL"} /\ d.compared # {}
    /\ d.tpm.failedTries = t.failedTries /\ d.tpm.lockOutAuthEnabled

BreachesOf(c, d) ==
    {b \in {"unproved", "replayed", "uncounted", "late"} :
        CASE b = "unproved" -> d.rc = "SUCCESS" /\ Unproved(c)
          [] b = "replayed" -> d.rc = "SUCCESS" /\ Replayed(c)
          [] b = "uncounted" -> Uncounted(c.tpm, d)
          [] b = "late" -> d.tooLate}

\* A report of the digest and a change of its algorithm begin another one.
AuditedAfter(c, d) ==
    CASE d.rc # "SUCCESS" -> audited
      [] d.rc = "SUCCESS" /\ d.tpm.auditHashAlg # c.tpm.auditHashAlg -> 0
      [] d.rc = "SUCCESS" /\ d.tpm.auditHashAlg = c.tpm.auditHashAlg ->
            (IF c.req.command = "GetCommandAuditDigest" /\ c.req.handles[2] # "null"
             THEN 0 ELSE audited)
            + (IF c.req.command \in c.tpm.auditCommands THEN 1 ELSE 0)

KeptAfter(c, d) ==
    IF d.rc = "SUCCESS" /\ c.req.command = "Shutdown" /\ c.req.in.shutdownType = "STATE"
    THEN audited ELSE kept

\* The audit sessions that a command with sessions is not audited in.
MissedAfter(c, d) ==
    LET in == {c.req.sessions[i].slot : i \in Auditing(c)}
        begun == {c.req.sessions[i].slot : i \in {j \in Auditing(c) : Begins(c, j)}}
    IN  IF d.rc # "SUCCESS" \/ ~c.attrs.allowed THEN missed
        ELSE {k \in Slots \ begun : /\ d.tpm.sessions[k] # NoSession
                                    /\ d.tpm.sessions[k].isAudit
                                    /\ k \in missed \/ k \notin in}

-----------------------------------------------------------------------------
(* What is taken for granted.                                              *)
\* The entities.  No policy is set for lockoutAuth: with one, the assertion in
\* IncrementLockout need not hold.
ASSUME PublicAssumption ==
    /\ "null" \notin Entities /\ Nothing \notin Entities \cup {"null", "lockout"}
    /\ InitialAuth \in [Entities -> AuthValues]
    /\ EmptyAuth \in AuthValues /\ Nothing \notin AuthValues
    /\ \A e \in Entities : Public[e].type \in {"permanent", "transient", "nv", "pcr"}
    /\ Type("lockout") = "permanent"
    /\ "lockout" \in Entities => Public["lockout"].policy = <<>>
ASSUME BoundsAssumption ==
    /\ \A S \in SUBSET Slots : S # {} => \E m \in S : \A n \in S : m <= n
    /\ MaxTries \in Nat /\ Nothing \notin Slots \X {"HMAC"}

\* What unmarshalling makes of a session area and of a command.
Handles == Entities \cup {"null"}
CommandNames == {row.command : row \in CommandRows}
\* NO_SESSIONS: no session is in use while it is flushed.
ASSUME CommandAssumption == Nothing \notin CommandNames /\ ~Row("FlushContext").allowed

HashAlgs == {"SHA1", "SHA256", "SHA384"}
TPMA_SESSION == {"continueSession", "auditExclusive", "auditReset", "decrypt", "encrypt", "audit"}
SessionAreas ==
    [type : {"PW"}, auth : AuthValues, attributes : SUBSET TPMA_SESSION]
    \cup [type : {"HMAC", "POLICY"}, slot : Slots, hmac : {"last", "old", "none"},
          auth : AuthValues, bindAuth : AuthValues \cup {Nothing},
          attributes : SUBSET TPMA_SESSION]

\* A caller who sends no HMAC sends no proof of an authValue.
WellFormed(r) ==
    /\ r.command \in CommandNames
    /\ r.handles \in Seq(Handles) /\ r.sessions \in Seq(SessionAreas)
    /\ \A i \in 1..Len(r.sessions) :
            r.sessions[i].type # "PW" /\ r.sessions[i].hmac = "none"
                => r.sessions[i].auth = EmptyAuth
    /\ r.command \in PolicyCommands \cup {"FlushContext", "ContextSave", "ContextLoad",
                                         "GetSessionAuditDigest"} => r.in.slot \in Slots
    /\ r.command = "FlushContext" => r.in.type \in {"HMAC", "POLICY"}
    /\ r.command = "StartAuthSession" =>
            /\ Len(r.handles) = 2
            /\ r.in.type \in {"HMAC", "POLICY", "TRIAL"} /\ r.in.symmetric \in BOOLEAN
    /\ r.command = "HierarchyChangeAuth" =>
            Len(r.handles) = 1 /\ r.handles[1] \in Entities /\ r.in.newAuth \in AuthValues
    /\ r.command \in {"NV_UndefineSpaceSpecial", "SequenceComplete"} =>
            r.handles # <<>> /\ r.handles[1] \in Entities
    /\ r.command \in {"Load", "HashSequenceStart", "NV_DefineSpace"} => r.in.entity \in Entities
    /\ r.command = "SetCommandCodeAuditStatus" =>
            /\ r.in.auditAlg \in HashAlgs \cup {Nothing}
            /\ r.in.setList \subseteq CommandNames /\ r.in.clearList \subseteq CommandNames
    /\ r.command = "PolicyCommandCode" => r.in.code \in CommandNames
    /\ r.command = "Shutdown" => r.in.shutdownType \in {"CLEAR", "STATE"}
ASSUME RequestAssumption == \A n \in DOMAIN Scenes : \A r \in Scenes[n] : WellFormed(r)

-----------------------------------------------------------------------------
Init ==
    /\ scene \in DOMAIN Scenes
    /\ tpm = [auths |-> InitialAuth, present |-> Entities,
              sessions |-> [k \in Slots |-> NoSession], exclusive |-> Nothing,
              failedTries |-> 0, lockOutAuthEnabled |-> TRUE, orderly |-> "NONE",
              auditCommands |-> {"SetCommandCodeAuditStatus"}, auditHashAlg |-> "SHA256",
              auditDigest |-> EmptyDigest, auditCounter |-> 0, failed |-> FALSE,
              saved |-> NothingSaved]
    /\ audited = 0 /\ kept = 0 /\ missed = {} /\ breaches = {}

\* A caller sends the request, also after Shutdown.
Send(r) ==
    /\ ~tpm.failed
    /\ LET c == Command(tpm, r)
           d == ExecuteCommand(c)
       IN  /\ d.tpm.auditDigest.log <= MaxAudited /\ d.tpm.auditCounter <= MaxCounter
           /\ \A k \in Slots : d.tpm.sessions[k].type = "POLICY" =>
                                Len(d.tpm.sessions[k].policyDigest) <= MaxPolicy
           /\ tpm' = d.tpm
           /\ breaches' = breaches \cup BreachesOf(c, d)
           /\ audited' = AuditedAfter(c, d)
           /\ kept' = KeptAfter(c, d)
           /\ missed' = MissedAfter(c, d)
    /\ UNCHANGED scene

\* DASelfHeal: failures are forgotten and lockoutAuth can be used again as time goes by.
Heal ==
    /\ ~tpm.failed
    /\ \/ tpm.failedTries > 0 /\ tpm' = [tpm EXCEPT !.failedTries = @ - 1]
       \/ ~tpm.lockOutAuthEnabled /\ tpm' = [tpm EXCEPT !.lockOutAuthEnabled = TRUE]
    /\ UNCHANGED <<scene, audited, kept, missed, breaches>>

\* Power is lost and TPM2_Startup(type) follows: after Shutdown(STATE) it reads gr back, of
\* which SessionStartup keeps the sessions whose context was saved.
Restart(type) ==
    LET reset == tpm.orderly # "STATE"
        resume == type = "STATE"
        transient == {e \in tpm.present : Type(e) = "transient"}
        counts == tpm.orderly = "NONE" /\ tpm.failedTries < MaxTries
    IN  /\ ~tpm.failed
        /\ resume => ~reset
        /\ tpm' = [tpm EXCEPT
              !.sessions = [k \in Slots |->
                  IF reset \/ tpm.saved.sessions[k] = NoSession \/ tpm.saved.sessions[k].loaded
                  THEN NoSession ELSE tpm.saved.sessions[k]],
              !.present = @ \ transient,
              !.auths["platform"] = IF resume THEN @ ELSE EmptyAuth,
              !.failedTries = IF counts THEN @ + 1 ELSE @,
              !.auditDigest = IF reset THEN EmptyDigest ELSE tpm.saved.digest,
              !.orderly = "NONE", !.saved = NothingSaved]
        /\ audited' = (IF reset THEN 0 ELSE kept) /\ kept' = 0
        /\ missed' = {k \in missed : tpm'.sessions[k] # NoSession
                                     /\ tpm'.sessions[k] = tpm.sessions[k]}
        /\ UNCHANGED <<scene, breaches>>

Next ==
    \/ \E r \in Scenes[scene] : Send(r)
    \/ Heal
    \/ \E type \in {"CLEAR", "STATE"} : Restart(type)

Spec == Init /\ [][Next]_vars

-----------------------------------------------------------------------------
(* Properties.                                                             *)
\* No command is executed unless its caller has shown, for every handle that needs an
\* authorisation, the authValue that the entity has then, or the assertions of the
\* entity's policy hold of the command.  A session bound to an entity shows the authValue
\* of the time it was started, and a policy session is used again and again.
AuthorisationShown == "unproved" \notin breaches

\* An HMAC that authorised, audited or encrypted one executed command is never accepted
\* with another: every session of a response has a new nonce.
NoReplay == "replayed" \notin breaches

\* A wrong authValue of an entity that is protected against dictionary attacks is always
\* counted, whether the caller gives it in a password, in an HMAC, or only in the key of
\* a bound session, and none is compared while the TPM is locked out.
GuessesLimited == breaches \cap {"uncounted", "late"} = {}

\* The digest of the exclusive audit session has every command that was executed since
\* the session began to audit, apart from those that take no session; and the command
\* audit digest has the commands that were to be audited since it was last reported or
\* its algorithm changed, no less and no more, across an orderly shutdown, a TPM Resume
\* and a TPM Restart; a TPM Reset begins another.  Both Resume and Restart go back to
\* Shutdown(STATE): of what is executed between it and the loss of power the digest has
\* nothing (CommandAudit does not clear the orderly state), and a session that was
\* flushed then is back.  What that session lacks then is not counted: Startup leaves
\* g_exclusiveAuditSession alone, and it may name the session by accident.
AuditsComplete ==
    /\ \A k \in Slots : tpm.exclusive = <<k, "HMAC">> => k \notin missed
    /\ tpm.auditDigest.log = audited
    /\ tpm.auditDigest.size = IF audited = 0 THEN "zero" ELSE "full"

\* None of the assertions of the session processing fails: the TPM is never in failure
\* mode.
AssertionsHold == ~tpm.failed
=============================================================================
