------------------------- MODULE PolicySessionProofs -------------------------
(***************************************************************************)
(* A policy session enforces what was asserted in it and nothing else, for *)
(* any commands, hashes, localities, times and PCR values and any number   *)
(* of assertions.                                                          *)
(*                                                                         *)
(* The argument: a policy command only ever tightens the restrictions that *)
(* the session remembers (Tightens), it leaves those of its own assertion  *)
(* in the session (Kept), and what is kept stays kept under tightening.    *)
(* Meanwhile time only passes, which does no harm to a timeout, and a      *)
(* change of PCR makes the counter in the session out of date.             *)
(*                                                                         *)
(* Conversely a command adds no restriction but that of its own assertion  *)
(* (Adds), so that every restriction was asked for (Asked).                *)
(*                                                                         *)
(* The digest is backed by what happened in the session, and that of a     *)
(* trial session given the same assertions is the same: a successful       *)
(* command appends its assertion to the digest, or replaces the digest by  *)
(* an alternative or an approval that the old digest has earned, and it    *)
(* does to the trial session, which it does not check, what it does to the *)
(* session.                                                                *)
(***************************************************************************)
EXTENDS PolicySession, TLAPS

-----------------------------------------------------------------------------
(* The inductive invariant.                                                *)
\* A session structure that is not of a trial session, while the PCR counter is n.
SessionOK(s, n) ==
    /\ DOMAIN s = {"trial", "digest", "code", "locality", "u1", "isCpHash", "isTemplate",
                   "timeout", "start", "pcrCounter", "isPP", "auth", "nvWritten"}
    /\ s.trial = FALSE
    /\ s.isCpHash \in BOOLEAN /\ s.isTemplate \in BOOLEAN /\ s.isPP \in BOOLEAN
    /\ s.isCpHash \/ s.isTemplate => s.u1 # {}
    /\ s.timeout \in Nat /\ s.start \in Nat /\ s.pcrCounter \in 0..n

\* The restrictions in s that stand for the claim.
Kept(s, cl) ==
    LET op == cl.by[1]
        arg == cl.by[2]
    IN  /\ op = "CommandCode" => arg # {} /\ s.code = arg
        /\ op = "DuplicationSelect" => s.code = {"Duplicate"}
        /\ op = "Locality" => s.locality # {} /\ s.locality \subseteq arg
        /\ op = "PCR" => s.pcrCounter # 0
        /\ op = "PhysicalPresence" => s.isPP
        /\ op = "Template" => arg # {} /\ s.u1 = arg /\ s.isTemplate
        /\ op = "NvWritten" => arg # {} /\ s.nvWritten = arg
        /\ op = "AuthValue" => s.auth # "none"
        /\ cl.cp # {} => s.u1 = cl.cp /\ s.isCpHash
        /\ cl.name # {} => s.u1 = cl.name /\ ~s.isTemplate
        /\ cl.until # 0 => s.timeout # 0 /\ s.timeout <= cl.until

\* The PCR are those of the claim as long as the session is up to date.
PcrKept(s, cl) == cl.by[1] = "PCR" /\ s.pcrCounter = pcrCounter => pcrs \in cl.by[2]

TicketOK(t) ==
    /\ t.tag \in {"Signed", "Secret"} /\ t.timeout \in Nat /\ t.until \in Nat
    /\ t.until # 0 => t.timeout # 0 /\ t.timeout <= t.until
    /\ t.timeout # 0 => t.until # 0 /\ t.until < t.timeout + Second

\* Every restriction in s comes from one of the claims cls.
Asked(s, cls) ==
    /\ s.code # {} =>
          \E cl \in cls : \/ cl.by[1] = "CommandCode" /\ cl.by[2] = s.code
                          \/ cl.by[1] = "DuplicationSelect" /\ s.code = {"Duplicate"}
    /\ s.locality # {} =>
          \A c \in Commands :
             (\A cl \in cls : cl.by[1] = "Locality" => c.locality \in cl.by[2])
             => c.locality \in s.locality
    /\ s.isPP => \E cl \in cls : cl.by[1] = "PhysicalPresence"
    /\ s.u1 # {} =>
          \E cl \in cls :
             CASE s.isCpHash -> cl.cp = s.u1
               [] ~s.isCpHash /\ s.isTemplate -> cl.by[1] = "Template" /\ cl.by[2] = s.u1
               [] OTHER -> cl.name = s.u1
    /\ s.nvWritten # {} => \E cl \in cls : cl.by[1] = "NvWritten" /\ cl.by[2] = s.nvWritten
    /\ s.auth # "none" => \E cl \in cls : cl.by[1] = "AuthValue"
    /\ s.timeout # 0 => \E cl \in cls : cl.until # 0 /\ cl.until < s.timeout + Second

\* The restrictions of every assertion are in the session and nothing else is, and
\* those of every authorisation behind a ticket are in the ticket.
PolicyInv ==
    /\ live \in BOOLEAN /\ time \in Nat /\ pcrCounter \in Nat \ {0}
    /\ SessionOK(session, pcrCounter)
    /\ \A t \in tickets : TicketOK(t)
    /\ ~live => claims = {}
    /\ \A cl \in claims : cl.until \in Nat /\ Kept(session, cl) /\ PcrKept(session, cl)
    /\ Asked(session, claims)

-----------------------------------------------------------------------------
(* Tightening.                                                             *)
\* Every restriction in s is in u, or a narrower one.
Tightens(s, u) ==
    /\ s.code # {} => u.code = s.code
    /\ s.locality # {} => u.locality # {} /\ u.locality \subseteq s.locality
    /\ s.pcrCounter # 0 => u.pcrCounter = s.pcrCounter
    /\ s.isPP => u.isPP
    /\ s.u1 # {} => u.u1 = s.u1 /\ u.isTemplate = s.isTemplate
    /\ s.isCpHash => u.isCpHash
    /\ s.nvWritten # {} => u.nvWritten = s.nvWritten
    /\ s.auth # "none" => u.auth # "none"
    /\ s.timeout # 0 => u.timeout # 0 /\ u.timeout <= s.timeout

\* Every restriction in u is in s, or is the one that the claim asks for.
Adds(s, u, cl) ==
    LET op == cl.by[1]
        arg == cl.by[2]
    IN  /\ \/ u.code = s.code
           \/ op = "CommandCode" /\ u.code = arg
           \/ op = "DuplicationSelect" /\ u.code = {"Duplicate"}
        /\ \/ u.locality = s.locality
           \/ op = "Locality" /\ u.locality = IF s.locality = {} THEN arg ELSE s.locality \cap arg
        /\ u.isPP = s.isPP \/ op = "PhysicalPresence"
        /\ \/ u.u1 = s.u1 /\ u.isCpHash = s.isCpHash /\ u.isTemplate = s.isTemplate
           \/ u.isCpHash /\ u.u1 = cl.cp
           \/ ~u.isCpHash /\ u.isTemplate /\ op = "Template" /\ u.u1 = arg
           \/ ~u.isCpHash /\ ~u.isTemplate /\ u.u1 = cl.name
        /\ u.nvWritten = s.nvWritten \/ (op = "NvWritten" /\ u.nvWritten = arg)
        /\ u.auth = s.auth \/ op = "AuthValue"
        /\ u.timeout = s.timeout \/ (cl.until # 0 /\ cl.until < u.timeout + Second)

\* What is kept in a session is kept in one that is tighter, so that no policy
\* command undoes an assertion.
LEMMA TighteningKeeps ==
    ASSUME NEW s, NEW u, NEW cl, NEW n, SessionOK(s, n), SessionOK(u, n),
           cl.until \in Nat, Tightens(s, u), Kept(s, cl)
    PROVE  Kept(u, cl)
BY DEF SessionOK, Tightens, Kept

\* Kept restrictions are what CheckPolicyAuthSession looks at.
LEMMA KeptIsEnforced ==
    ASSUME NEW s, NEW cl, NEW c \in Commands, SessionOK(s, pcrCounter), time \in Nat,
           cl.until \in Nat, Kept(s, cl), PcrKept(s, cl), CheckAuthSession(s, c), Meant(cl)
    PROVE  Holds(cl, c)
<1> USE DEF Kept, CheckAuthSession, CheckPolicyAuthSession
<1> DEFINE op == cl.by[1]
           arg == cl.by[2]
<1>1. op = "PCR" => pcrs \in arg
  BY DEF PcrKept, SessionPCRValueIsCurrent
<1>2. op = "Template" => c.template = arg
  BY DEF Meant
<1>3. cl.name # {} => c.name \in cl.name
  BY DEF Meant
<1>4. cl.until # 0 => time <= cl.until
  BY DEF SessionOK
<1>5. cl.cp # {} => c.cp \in cl.cp
  OBVIOUS
<1>6. /\ op = "CommandCode" => c.code \in arg
      /\ op = "DuplicationSelect" => c.code = "Duplicate"
      /\ op = "Locality" => c.locality \in arg
      /\ op = "PhysicalPresence" => c.pp
      /\ op = "NvWritten" => c.index /\ c.written \in arg
      /\ op = "AuthValue" => c.knows
  OBVIOUS
<1> QED BY <1>1, <1>2, <1>3, <1>4, <1>5, <1>6 DEF Holds

\* What a command makes of the session s: u, with the restrictions of the claim.
Outcome(s, u, cl, n) ==
    SessionOK(u, n) /\ Tightens(s, u) /\ Kept(u, cl) /\ Adds(s, u, cl) /\ cl.until \in Nat

\* The fields of a claim without conditions.
LEMMA PlainClaim ==
    ASSUME NEW op, NEW arg
    PROVE  /\ Claim(<<op, arg>>).by[1] = op /\ Claim(<<op, arg>>).by[2] = arg
           /\ Claim(<<op, arg>>).cp = {} /\ Claim(<<op, arg>>).name = {}
           /\ Claim(<<op, arg>>).until = 0
BY DEF Claim

\* TPM2_PolicyCommandCode, which a session that is for another command refuses.
LEMMA CommandCodeOutcome ==
    ASSUME NEW s, NEW n \in Nat, SessionOK(s, n), NEW code,
           WithCommandCode(s, code).digest # s.digest
    PROVE  Outcome(s, WithCommandCode(s, code), Claim(<<"CommandCode", {code}>>), n)
<1>1. PICK u : u = WithCommandCode(s, code)
  OBVIOUS
<1>2. s.code \subseteq {code}
  BY DEF WithCommandCode, SessionOK
<1>3. PICK d : u = [[s EXCEPT !.digest = d] EXCEPT !.code = {code}]
  BY Zenon, <1>1, <1>2 DEF WithCommandCode, Extend
<1>4. SessionOK(u, n) /\ u.code = {code}
  BY <1>2, <1>3 DEF SessionOK
<1>5. Tightens(s, u)
  BY <1>2, <1>3 DEF SessionOK, Tightens
<1>6. PICK cl : cl = Claim(<<"CommandCode", {code}>>)
  OBVIOUS
<1>7. cl.by[1] = "CommandCode" /\ cl.by[2] = {code} /\ cl.cp = {} /\ cl.name = {} /\ cl.until = 0
  BY <1>6, PlainClaim
<1>8. Kept(u, cl)
  BY <1>4, <1>7 DEF Kept
<1>9. Adds(s, u, cl)
  BY <1>2, <1>3, <1>7 DEF SessionOK, Adds
<1> QED BY <1>1, <1>4, <1>5, <1>6, <1>7, <1>8, <1>9 DEF Outcome

\* TPM2_PolicyNvWritten, which a session that is for the other state refuses.
LEMMA NvWrittenOutcome ==
    ASSUME NEW s, NEW n \in Nat, SessionOK(s, n), NEW written,
           WithNvWritten(s, written).digest # s.digest
    PROVE  Outcome(s, WithNvWritten(s, written), Claim(<<"NvWritten", {written}>>), n)
<1>1. PICK u : u = WithNvWritten(s, written)
  OBVIOUS
<1>2. s.nvWritten \subseteq {written}
  BY DEF WithNvWritten, SessionOK
<1>3. PICK d : u = [[s EXCEPT !.digest = d] EXCEPT !.nvWritten = {written}]
  BY Zenon, <1>1, <1>2 DEF WithNvWritten, Extend
<1>4. SessionOK(u, n) /\ u.nvWritten = {written}
  BY <1>2, <1>3 DEF SessionOK
<1>5. Tightens(s, u)
  BY <1>2, <1>3 DEF SessionOK, Tightens
<1>6. PICK cl : cl = Claim(<<"NvWritten", {written}>>)
  OBVIOUS
<1>7. cl.by[1] = "NvWritten" /\ cl.by[2] = {written} /\ cl.cp = {} /\ cl.name = {} /\ cl.until = 0
  BY <1>6, PlainClaim
<1>8. Kept(u, cl)
  BY <1>4, <1>7 DEF Kept
<1>9. Adds(s, u, cl)
  BY <1>2, <1>3, <1>7 DEF SessionOK, Adds
<1> QED BY <1>1, <1>4, <1>5, <1>6, <1>7, <1>8, <1>9 DEF Outcome

\* TPM2_PolicyPhysicalPresence.
LEMMA PhysicalPresenceOutcome ==
    ASSUME NEW s, NEW n \in Nat, SessionOK(s, n),
           WithPhysicalPresence(s).digest # s.digest
    PROVE  Outcome(s, WithPhysicalPresence(s), Claim(<<"PhysicalPresence", {}>>), n)
<1>1. PICK u : u = WithPhysicalPresence(s)
  OBVIOUS
<1>2. PICK d : u = [[s EXCEPT !.digest = d] EXCEPT !.isPP = TRUE]
  BY Zenon, <1>1 DEF WithPhysicalPresence, Extend
<1>3. SessionOK(u, n) /\ u.isPP = TRUE
  BY <1>2 DEF SessionOK
<1>4. Tightens(s, u)
  BY <1>2 DEF SessionOK, Tightens
<1>5. PICK cl : cl = Claim(<<"PhysicalPresence", {}>>)
  OBVIOUS
<1>6. cl.by[1] = "PhysicalPresence" /\ cl.by[2] = {} /\ cl.cp = {} /\ cl.name = {} /\ cl.until = 0
  BY <1>5, PlainClaim
<1>7. Kept(u, cl)
  BY <1>3, <1>6 DEF Kept
<1>8. Adds(s, u, cl)
  BY <1>2, <1>6 DEF SessionOK, Adds
<1> QED BY <1>1, <1>3, <1>4, <1>5, <1>6, <1>7, <1>8 DEF Outcome

\* TPM2_PolicyAuthValue and TPM2_PolicyPassword: one replaces the other, and the
\* authValue is needed all the same.
LEMMA AuthValueOutcome ==
    ASSUME NEW s, NEW n \in Nat, SessionOK(s, n), NEW auth \in {"value", "password"},
           WithAuthValue(s, auth).digest # s.digest
    PROVE  Outcome(s, WithAuthValue(s, auth), Claim(<<"AuthValue", {}>>), n)
<1>1. PICK u : u = WithAuthValue(s, auth)
  OBVIOUS
<1>2. PICK d : u = [[s EXCEPT !.digest = d] EXCEPT !.auth = auth]
  BY Zenon, <1>1 DEF WithAuthValue, Extend
<1>3. SessionOK(u, n) /\ u.auth = auth
  BY <1>2 DEF SessionOK
<1>4. Tightens(s, u)
  BY <1>2 DEF SessionOK, Tightens
<1>5. PICK cl : cl = Claim(<<"AuthValue", {}>>)
  OBVIOUS
<1>6. cl.by[1] = "AuthValue" /\ cl.by[2] = {} /\ cl.cp = {} /\ cl.name = {} /\ cl.until = 0
  BY <1>5, PlainClaim
<1>7. Kept(u, cl)
  BY <1>3, <1>6 DEF Kept
<1>8. Adds(s, u, cl)
  BY <1>2, <1>6 DEF SessionOK, Adds
<1> QED BY <1>1, <1>3, <1>4, <1>5, <1>6, <1>7, <1>8 DEF Outcome

\* TPM2_PolicyTemplate: the shared hash is free, or is this template already.
LEMMA TemplateOutcome ==
    ASSUME NEW s, NEW n \in Nat, SessionOK(s, n), NEW h,
           WithTemplate(s, h).digest # s.digest
    PROVE  Outcome(s, WithTemplate(s, h), Claim(<<"Template", {h}>>), n)
<1>1. PICK u : u = WithTemplate(s, h)
  OBVIOUS
<1>2. s.u1 = {} \/ (s.isTemplate = TRUE /\ s.u1 = {h})
  BY DEF WithTemplate, SessionOK
<1>3. PICK d : u = [[s EXCEPT !.digest = d] EXCEPT !.u1 = {h}, !.isTemplate = TRUE]
  BY Zenon, <1>1, <1>2 DEF WithTemplate, Extend
<1>4. SessionOK(u, n) /\ u.u1 = {h} /\ u.isTemplate = TRUE
  BY <1>2, <1>3 DEF SessionOK
<1>5. Tightens(s, u)
  <2>1. s.u1 # {} => u.u1 = s.u1 /\ u.isTemplate = s.isTemplate
    BY Zenon, <1>2, <1>4
  <2>2. /\ u.code = s.code /\ u.locality = s.locality /\ u.pcrCounter = s.pcrCounter
        /\ u.isPP = s.isPP /\ u.isCpHash = s.isCpHash /\ u.nvWritten = s.nvWritten
        /\ u.auth = s.auth /\ u.timeout = s.timeout
    BY <1>3 DEF SessionOK
  <2> QED BY <2>1, <2>2 DEF SessionOK, Tightens
<1>6. PICK cl : cl = Claim(<<"Template", {h}>>)
  OBVIOUS
<1>7. cl.by[1] = "Template" /\ cl.by[2] = {h} /\ cl.cp = {} /\ cl.name = {} /\ cl.until = 0
  BY <1>6, PlainClaim
<1>8. Kept(u, cl)
  BY <1>4, <1>7 DEF Kept
<1>9. Adds(s, u, cl)
  BY Zenon, <1>2, <1>3, <1>7 DEF SessionOK, Adds
<1> QED BY <1>1, <1>4, <1>5, <1>6, <1>7, <1>8, <1>9 DEF Outcome

\* TPM2_PolicyCpHash: the shared hash is free, or is this cpHash already.
LEMMA CpHashOutcome ==
    ASSUME NEW s, NEW n \in Nat, SessionOK(s, n), NEW h,
           WithCpHash(s, h).digest # s.digest
    PROVE  Outcome(s, WithCpHash(s, h), [Claim(<<"CpHash", {h}>>) EXCEPT !.cp = {h}], n)
<1>1. PICK u : u = WithCpHash(s, h)
  OBVIOUS
<1>2. s.u1 = {} \/ (s.isCpHash /\ s.u1 = {h})
  BY DEF WithCpHash, SessionOK
<1>3. PICK d : u = [[s EXCEPT !.digest = d] EXCEPT !.u1 = {h}, !.isCpHash = TRUE]
  BY Zenon, <1>1, <1>2 DEF WithCpHash, Extend
<1>4. SessionOK(u, n) /\ u.u1 = {h} /\ u.isCpHash
  BY <1>2, <1>3 DEF SessionOK
<1>5. Tightens(s, u)
  BY <1>2, <1>3 DEF SessionOK, Tightens
<1>6. PICK cl : cl = [Claim(<<"CpHash", {h}>>) EXCEPT !.cp = {h}]
  BY Zenon
<1>7. cl.by[1] = "CpHash" /\ cl.cp = {h} /\ cl.name = {} /\ cl.until = 0
  BY <1>6 DEF Claim
<1>8. Kept(u, cl)
  BY <1>4, <1>7 DEF Kept
<1>9. Adds(s, u, cl)
  BY <1>2, <1>3, <1>7 DEF SessionOK, Adds
<1> QED BY <1>1, <1>4, <1>5, <1>6, <1>7, <1>8, <1>9 DEF Outcome

\* TPM2_PolicyNameHash: the shared hash is free.
LEMMA NameHashOutcome ==
    ASSUME NEW s, NEW n \in Nat, SessionOK(s, n), NEW h,
           WithNameHash(s, h).digest # s.digest
    PROVE  Outcome(s, WithNameHash(s, h),
                   [Claim(<<"NameHash", {h}>>) EXCEPT !.name = {h}], n)
<1>1. PICK u : u = WithNameHash(s, h)
  OBVIOUS
<1>2. s.u1 = {} /\ ~s.isCpHash /\ ~s.isTemplate
  BY DEF WithNameHash, SessionOK
<1>3. PICK d : u = [[s EXCEPT !.digest = d] EXCEPT !.u1 = {h}]
  BY Zenon, <1>1, <1>2 DEF WithNameHash, Extend
<1>4. SessionOK(u, n) /\ u.u1 = {h} /\ ~u.isTemplate
  BY <1>2, <1>3 DEF SessionOK
<1>5. Tightens(s, u)
  BY <1>2, <1>3 DEF SessionOK, Tightens
<1>6. PICK cl : cl = [Claim(<<"NameHash", {h}>>) EXCEPT !.name = {h}]
  BY Zenon
<1>7. cl.by[1] = "NameHash" /\ cl.cp = {} /\ cl.name = {h} /\ cl.until = 0
  BY <1>6 DEF Claim
<1>8. Kept(u, cl)
  BY <1>4, <1>7 DEF Kept
<1>9. Adds(s, u, cl)
  BY <1>2, <1>3, <1>7 DEF SessionOK, Adds
<1> QED BY <1>1, <1>4, <1>5, <1>6, <1>7, <1>8, <1>9 DEF Outcome

\* TPM2_PolicyDuplicationSelect: the shared hash and the command code are free.
LEMMA DuplicationSelectOutcome ==
    ASSUME NEW s, NEW n \in Nat, SessionOK(s, n), NEW h, NEW include,
           WithDuplicationSelect(s, h, include).digest # s.digest
    PROVE  Outcome(s, WithDuplicationSelect(s, h, include),
                   [Claim(DuplicationElement(h, include)) EXCEPT !.name = {h}], n)
<1>1. PICK u : u = WithDuplicationSelect(s, h, include)
  OBVIOUS
<1>2. s.u1 = {} /\ s.code = {}
  BY DEF WithDuplicationSelect, SessionOK
<1>3. PICK d : u = [[s EXCEPT !.digest = d] EXCEPT !.u1 = {h}, !.code = {"Duplicate"}]
  BY Zenon, <1>1, <1>2 DEF WithDuplicationSelect, Extend
<1>4. SessionOK(u, n) /\ u.u1 = {h} /\ ~u.isTemplate /\ u.code = {"Duplicate"}
  BY <1>2, <1>3 DEF SessionOK
<1>5. Tightens(s, u)
  BY <1>2, <1>3 DEF SessionOK, Tightens
<1>6. PICK cl : cl = [Claim(DuplicationElement(h, include)) EXCEPT !.name = {h}]
  BY Zenon
<1>7. cl.by[1] = "DuplicationSelect" /\ cl.cp = {} /\ cl.name = {h} /\ cl.until = 0
  BY <1>6 DEF Claim, DuplicationElement
<1>8. Kept(u, cl)
  BY <1>4, <1>7 DEF Kept
<1>9. Adds(s, u, cl)
  BY <1>2, <1>3, <1>7 DEF SessionOK, Adds
<1> QED BY <1>1, <1>4, <1>5, <1>6, <1>7, <1>8, <1>9 DEF Outcome

\* TPM2_PolicyOR replaces the digest and nothing else.
LEMMA OROutcome ==
    ASSUME NEW s, NEW n \in Nat, SessionOK(s, n), NEW list,
           WithOR(s, list).digest # s.digest
    PROVE  Outcome(s, WithOR(s, list), Claim(<<"OR", list>>), n)
<1>1. PICK u : u = WithOR(s, list)
  OBVIOUS
<1>2. PICK d : u = [s EXCEPT !.digest = d]
  BY Zenon, <1>1 DEF WithOR
<1>3. SessionOK(u, n)
  BY <1>2 DEF SessionOK
<1>4. Tightens(s, u)
  BY <1>2 DEF SessionOK, Tightens
<1>5. PICK cl : cl = Claim(<<"OR", list>>)
  OBVIOUS
<1>6. cl.by[1] = "OR" /\ cl.by[2] = list /\ cl.cp = {} /\ cl.name = {} /\ cl.until = 0
  BY <1>5, PlainClaim
<1>7. Kept(u, cl)
  BY <1>3, <1>6 DEF Kept
<1>8. Adds(s, u, cl)
  BY <1>2, <1>6 DEF SessionOK, Adds
<1> QED BY <1>1, <1>3, <1>4, <1>5, <1>6, <1>7, <1>8 DEF Outcome

\* TPM2_PolicyNV and TPM2_PolicyCounterTimer compare at once and restrict nothing.
LEMMA ComparisonOutcome ==
    ASSUME NEW s, NEW n \in Nat, SessionOK(s, n), NEW op \in {"NV", "CounterTimer"},
           NEW name, NEW comparison, NEW a, NEW arg,
           WithComparison(s, op, name, comparison, a).digest # s.digest
    PROVE  Outcome(s, WithComparison(s, op, name, comparison, a),
                   Claim(<<op, arg>>), n)
<1>1. PICK u : u = WithComparison(s, op, name, comparison, a)
  OBVIOUS
<1>2. PICK d : u = [s EXCEPT !.digest = d]
  BY Zenon, <1>1 DEF WithComparison, Extend
<1>3. SessionOK(u, n)
  BY <1>2 DEF SessionOK
<1>4. Tightens(s, u)
  BY <1>2 DEF SessionOK, Tightens
<1>5. PICK cl : cl = Claim(<<op, arg>>)
  OBVIOUS
<1>6. cl.by[1] = op /\ cl.cp = {} /\ cl.name = {} /\ cl.until = 0
  BY <1>5, PlainClaim
<1>7. Kept(u, cl)
  BY <1>6 DEF Kept
<1>8. Adds(s, u, cl)
  BY <1>2, <1>6 DEF SessionOK, Adds
<1> QED BY <1>1, <1>3, <1>4, <1>5, <1>6, <1>7, <1>8 DEF Outcome

\* TPM2_PolicyLocality: what is left is common to all the sets that were given.
LEMMA LocalityOutcome ==
    ASSUME NEW s, NEW n \in Nat, SessionOK(s, n), NEW l,
           WithLocality(s, l).digest # s.digest
    PROVE  Outcome(s, WithLocality(s, l), Claim(<<"Locality", l>>), n)
<1>1. PICK u : u = WithLocality(s, l)
  OBVIOUS
<1>2. PICK new : new = IF s.locality = {} THEN l ELSE s.locality \cap l
  BY Zenon
<1>3. new # {} /\ new \subseteq l /\ (s.locality # {} => new \subseteq s.locality)
  BY <1>2 DEF WithLocality
<1>4. PICK d : u = [[s EXCEPT !.digest = d] EXCEPT !.locality = new]
  BY Zenon, <1>1, <1>2, <1>3 DEF WithLocality, Extend
<1>5. SessionOK(u, n) /\ u.locality = new
  BY <1>4 DEF SessionOK
<1>6. Tightens(s, u)
  BY <1>3, <1>4 DEF SessionOK, Tightens
<1>7. PICK cl : cl = Claim(<<"Locality", l>>)
  OBVIOUS
<1>8. cl.by[1] = "Locality" /\ cl.by[2] = l /\ cl.cp = {} /\ cl.name = {} /\ cl.until = 0
  BY <1>7, PlainClaim
<1>9. Kept(u, cl)
  BY <1>3, <1>5, <1>8 DEF Kept
<1>10. Adds(s, u, cl)
  BY <1>2, <1>4, <1>8 DEF SessionOK, Adds
<1> QED BY <1>1, <1>5, <1>6, <1>7, <1>8, <1>9, <1>10 DEF Outcome

\* TPM2_PolicyPCR: the session remembers the counter at its first check and refuses
\* another one when the PCR have changed.
LEMMA PCROutcome ==
    ASSUME NEW s, pcrCounter \in Nat \ {0}, SessionOK(s, pcrCounter), NEW given,
           WithPCR(s, given).digest # s.digest
    PROVE  /\ Outcome(s, WithPCR(s, given), Claim(<<"PCR", {pcrs}>>), pcrCounter)
           /\ PcrKept(WithPCR(s, given), Claim(<<"PCR", {pcrs}>>))
<1>1. PICK u : u = WithPCR(s, given)
  OBVIOUS
<1>2. s.trial = FALSE /\ (s.pcrCounter # 0 => s.pcrCounter = pcrCounter)
  BY DEF WithPCR, PcrCheckStands, SessionOK
<1>3. PICK d : u = [[s EXCEPT !.digest = d] EXCEPT !.pcrCounter = pcrCounter]
  BY Zenon, <1>1, <1>2 DEF WithPCR, Extend
<1>4. SessionOK(u, pcrCounter) /\ u.pcrCounter = pcrCounter
  BY <1>3 DEF SessionOK
<1>5. Tightens(s, u)
  BY <1>2, <1>3 DEF SessionOK, Tightens
<1>6. PICK cl : cl = Claim(<<"PCR", {pcrs}>>)
  OBVIOUS
<1>7. cl.by[1] = "PCR" /\ cl.by[2] = {pcrs} /\ cl.cp = {} /\ cl.name = {} /\ cl.until = 0
  BY <1>6, PlainClaim
<1>8. Kept(u, cl) /\ PcrKept(u, cl)
  BY <1>4, <1>7 DEF Kept, PcrKept
<1>9. Adds(s, u, cl)
  BY <1>3, <1>7 DEF SessionOK, Adds
<1> QED BY <1>1, <1>4, <1>5, <1>6, <1>7, <1>8, <1>9 DEF Outcome

-----------------------------------------------------------------------------
(* Authorisations.                                                         *)
\* What PolicyContextUpdate changes beside the digest.
Updates(s, u, cp, timeout) ==
    /\ u.code = s.code /\ u.locality = s.locality /\ u.isPP = s.isPP /\ u.isTemplate = s.isTemplate
    /\ u.nvWritten = s.nvWritten /\ u.auth = s.auth
    /\ IF cp # {} THEN u.u1 = cp /\ u.isCpHash ELSE u.u1 = s.u1 /\ u.isCpHash = s.isCpHash
    /\ u.timeout = s.timeout \/ (timeout # 0 /\ u.timeout = timeout)

\* PolicyContextUpdate leaves the cpHash and the earlier of the two timeouts.
LEMMA ContextUpdate ==
    ASSUME NEW s, NEW n \in Nat, SessionOK(s, n), NEW e, NEW cp, NEW timeout \in Nat,
           cp # {} /\ s.u1 # {} => cp = s.u1
    PROVE  LET u == PolicyContextUpdate(s, e, cp, timeout)
           IN  /\ SessionOK(u, n) /\ Tightens(s, u)
               /\ cp # {} => u.u1 = cp /\ u.isCpHash
               /\ timeout # 0 => u.timeout # 0 /\ u.timeout <= timeout
               /\ Updates(s, u, cp, timeout)
<1>1. PICK u : u = PolicyContextUpdate(s, e, cp, timeout)
  OBVIOUS
<1>2. PICK d, hash, marked, last :
         /\ hash = (IF cp # {} THEN cp ELSE s.u1) /\ marked = (s.isCpHash \/ cp # {})
         /\ last = (IF timeout # 0 /\ (s.timeout = 0 \/ s.timeout > timeout)
                    THEN timeout ELSE s.timeout)
         /\ u = [[s EXCEPT !.digest = d] EXCEPT !.u1 = hash, !.isCpHash = marked, !.timeout = last]
  BY Zenon, <1>1 DEF PolicyContextUpdate, Extend, SessionOK
<1>3. /\ DOMAIN u = DOMAIN s /\ u.trial = s.trial /\ u.isTemplate = s.isTemplate
      /\ u.code = s.code /\ u.locality = s.locality /\ u.pcrCounter = s.pcrCounter
      /\ u.isPP = s.isPP /\ u.nvWritten = s.nvWritten /\ u.auth = s.auth /\ u.start = s.start
      /\ u.u1 = hash /\ u.isCpHash = marked /\ u.timeout = last
  BY <1>2 DEF SessionOK
<1>4. last \in Nat /\ (timeout # 0 => last # 0 /\ last <= timeout)
      /\ (s.timeout # 0 => last # 0 /\ last <= s.timeout)
  BY <1>2 DEF SessionOK
<1>5. /\ marked \in BOOLEAN /\ (s.isCpHash => marked) /\ (cp # {} => marked /\ hash = cp)
      /\ marked \/ s.isTemplate => hash # {}
      /\ s.u1 # {} => hash = s.u1
  BY Zenon, <1>2 DEF SessionOK
<1>6. SessionOK(u, n)
  BY <1>3, <1>4, <1>5 DEF SessionOK
<1>7. Tightens(s, u)
  BY <1>3, <1>4, <1>5 DEF SessionOK, Tightens
<1>8. Updates(s, u, cp, timeout)
  BY Zenon, <1>2, <1>3 DEF SessionOK, Updates
<1> QED BY <1>1, <1>3, <1>4, <1>5, <1>6, <1>7, <1>8

\* A session or a ticket never outlives the time that ComputeAuthTimeout was asked for,
\* and ends less than a second before it.
LEMMA Timeouts ==
    ASSUME NEW s, s.start \in Nat, time \in Nat, NEW expiration \in Int, NEW nonce \in BOOLEAN
    PROVE  LET timeout == ComputeAuthTimeout(s, expiration, nonce)
               until == LastMoment(s, expiration, nonce)
           IN  /\ timeout \in Nat /\ until \in Nat
               /\ until # 0 => timeout # 0 /\ timeout <= until
               /\ timeout # 0 => until # 0 /\ until < timeout + Second
<1>1. CASE expiration = 0
  BY <1>1 DEF ComputeAuthTimeout, LastMoment
<1>2. CASE expiration # 0
  <2>1. PICK k : k = Abs(expiration)
    OBVIOUS
  <2>2. k \in Nat /\ k >= 1
    BY <1>2, <2>1 DEF Abs
  <2>3. Second \in Nat /\ Second >= 1
    BY PolicyAssumption
  <2>4. PICK p : p = k * Second
    OBVIOUS
  <2>5. p \in Nat /\ p >= 1 /\ (k + 1) * Second - 1 = p + Second - 1
    BY <2>2, <2>3, <2>4
  <2>6. time % Second \in Nat /\ time % Second <= Second - 1
    BY <2>3
  <2>7. CASE nonce
    <3>1. ComputeAuthTimeout(s, expiration, nonce) = s.start + p
      BY <1>2, <2>1, <2>4, <2>7 DEF ComputeAuthTimeout
    <3>2. LastMoment(s, expiration, nonce) = s.start + p
      BY <1>2, <2>1, <2>4, <2>7 DEF LastMoment
    <3> QED BY <2>3, <2>5, <3>1, <3>2
  <2>8. CASE ~nonce
    <3>1. ComputeAuthTimeout(s, expiration, nonce) = p + (time % Second)
      BY <1>2, <2>1, <2>4, <2>8 DEF ComputeAuthTimeout
    <3>2. LastMoment(s, expiration, nonce) = p + Second - 1
      BY <1>2, <2>1, <2>4, <2>5, <2>8 DEF LastMoment
    <3> QED BY <2>3, <2>5, <2>6, <3>1, <3>2
  <2> QED BY <2>7, <2>8
<1> QED BY <1>1, <1>2

\* The fields of a claim with conditions.
LEMMA LimitedClaim ==
    ASSUME NEW op, NEW arg, NEW cp, NEW until
    PROVE  LET cl == [Claim(<<op, arg>>) EXCEPT !.cp = cp, !.until = until]
           IN  /\ cl.by[1] = op /\ cl.by[2] = arg /\ cl.cp = cp /\ cl.name = {}
               /\ cl.until = until
BY DEF Claim

\* TPM2_PolicySigned and TPM2_PolicySecret.
LEMMA AuthorizationOutcome ==
    ASSUME NEW s, NEW n \in Nat, SessionOK(s, n), time \in Nat,
           NEW op \in {"Signed", "Secret"}, NEW name, NEW expiration \in Int,
           NEW nonce \in BOOLEAN, NEW cp,
           WithAuthorization(s, <<op, {name}>>, expiration, nonce, cp).digest # s.digest
    PROVE  Outcome(s, WithAuthorization(s, <<op, {name}>>, expiration, nonce, cp),
                   [Claim(<<op, {name}>>) EXCEPT
                       !.cp = cp, !.until = LastMoment(s, expiration, nonce)], n)
<1>1. PICK timeout : timeout = ComputeAuthTimeout(s, expiration, nonce)
  OBVIOUS
<1>2. PICK until : until = LastMoment(s, expiration, nonce)
  OBVIOUS
<1>3. /\ timeout \in Nat /\ until \in Nat
      /\ until # 0 => timeout # 0 /\ timeout <= until
      /\ timeout # 0 => until # 0 /\ until < timeout + Second
  BY <1>1, <1>2, Timeouts DEF SessionOK
<1>4. PICK u : u = WithAuthorization(s, <<op, {name}>>, expiration, nonce, cp)
  OBVIOUS
<1>5. s.trial = FALSE
  BY DEF SessionOK
<1>6. /\ u = PolicyContextUpdate(s, <<op, {name}>>, cp, timeout)
      /\ cp # {} /\ s.u1 # {} => cp = s.u1
  BY <1>1, <1>4, <1>5 DEF WithAuthorization, PolicyParameterChecks
<1>7. /\ SessionOK(u, n) /\ Tightens(s, u)
      /\ cp # {} => u.u1 = cp /\ u.isCpHash
      /\ timeout # 0 => u.timeout # 0 /\ u.timeout <= timeout
      /\ Updates(s, u, cp, timeout)
  BY <1>3, <1>6, ContextUpdate
<1>8. PICK cl : cl = [Claim(<<op, {name}>>) EXCEPT !.cp = cp, !.until = until]
  OBVIOUS
<1>9. cl.by[1] = op /\ cl.cp = cp /\ cl.name = {} /\ cl.until = until
  BY <1>8, LimitedClaim
<1>10. until # 0 => u.timeout # 0 /\ u.timeout <= until
  BY <1>3, <1>7 DEF SessionOK
<1>11. Kept(u, cl)
  BY <1>7, <1>9, <1>10 DEF Kept
<1>12. Adds(s, u, cl)
  BY <1>3, <1>7, <1>9 DEF Updates, Adds
<1> QED BY <1>2, <1>3, <1>4, <1>7, <1>8, <1>9, <1>11, <1>12 DEF Outcome

\* TPM2_PolicyTicket: the ticket stands in for the authorisation.
LEMMA TicketOutcome ==
    ASSUME NEW s, NEW n \in Nat, SessionOK(s, n), NEW t, TicketOK(t),
           WithTicket(s, t).digest # s.digest
    PROVE  Outcome(s, WithTicket(s, t),
                   [Claim(TicketElement(t)) EXCEPT !.cp = t.cp, !.until = t.until], n)
<1>1. PICK u : u = WithTicket(s, t)
  OBVIOUS
<1>2. /\ u = PolicyContextUpdate(s, TicketElement(t), t.cp, t.timeout)
      /\ t.cp # {} /\ s.u1 # {} => t.cp = s.u1
  BY <1>1 DEF WithTicket, PolicyParameterChecks
<1>3. /\ SessionOK(u, n) /\ Tightens(s, u)
      /\ t.cp # {} => u.u1 = t.cp /\ u.isCpHash
      /\ t.timeout # 0 => u.timeout # 0 /\ u.timeout <= t.timeout
      /\ Updates(s, u, t.cp, t.timeout)
  BY <1>2, ContextUpdate DEF TicketOK
<1>4. PICK cl : cl = [Claim(<<t.tag, {t.name}>>) EXCEPT !.cp = t.cp, !.until = t.until]
  OBVIOUS
<1>5. cl.by[1] = t.tag /\ cl.cp = t.cp /\ cl.name = {} /\ cl.until = t.until
  BY <1>4, LimitedClaim
<1>6. t.until # 0 => u.timeout # 0 /\ u.timeout <= t.until
  BY <1>3 DEF SessionOK, TicketOK
<1>7. Kept(u, cl) /\ cl.until \in Nat
  BY <1>3, <1>5, <1>6 DEF Kept, TicketOK
<1>8. Adds(s, u, cl)
  BY <1>3, <1>5 DEF TicketOK, Updates, Adds
<1> QED BY <1>1, <1>3, <1>4, <1>7, <1>8 DEF Outcome, TicketElement

\* TPM2_PolicyAuthorize and TPM2_PolicyAuthorizeNV replace the digest and keep the
\* restrictions of the policy that was approved.
LEMMA ApprovalOutcome ==
    ASSUME NEW s, NEW n \in Nat, SessionOK(s, n), NEW op \in {"Authorize", "AuthorizeNV"},
           NEW name, NEW policy,
           WithApproval(s, op, name, policy).digest # s.digest
    PROVE  Outcome(s, WithApproval(s, op, name, policy), Claim(<<op, {name}>>), n)
<1>1. PICK u : u = WithApproval(s, op, name, policy)
  OBVIOUS
<1>2. PICK r : r = PolicyDigestClear(s)
  OBVIOUS
<1>3. SessionOK(r, n)
  BY <1>2 DEF PolicyDigestClear, SessionOK
<1>4. Tightens(s, r)
  BY <1>2 DEF PolicyDigestClear, SessionOK, Tightens
<1>5. u = PolicyContextUpdate(r, <<op, {name}>>, {}, 0)
  BY Zenon, <1>1, <1>2 DEF WithApproval
<1>6. SessionOK(u, n) /\ Tightens(r, u) /\ Updates(r, u, {}, 0)
  BY Zenon, <1>3, <1>5, ContextUpdate
<1>7. Tightens(s, u)
  BY <1>3, <1>4, <1>6 DEF Tightens, SessionOK
<1>8. PICK cl : cl = Claim(<<op, {name}>>)
  OBVIOUS
<1>9. cl.by[1] = op /\ cl.cp = {} /\ cl.name = {} /\ cl.until = 0
  BY <1>8, PlainClaim
<1>10. Kept(u, cl)
  BY <1>9 DEF Kept
<1>11. Adds(s, u, cl)
  BY <1>2, <1>6, <1>9 DEF PolicyDigestClear, SessionOK, Updates, Adds
<1> QED BY <1>1, <1>6, <1>7, <1>8, <1>9, <1>10, <1>11 DEF Outcome

-----------------------------------------------------------------------------
(* The steps.                                                              *)
\* The session asks for nothing but what was asserted after one more assertion.
LEMMA AskedStays ==
    ASSUME NEW s, NEW u, NEW cl, NEW cls, Asked(s, cls), Adds(s, u, cl),
           s.isCpHash \in BOOLEAN, s.isTemplate \in BOOLEAN
    PROVE  Asked(u, cls \cup {cl})
<1>1. u.code # {} =>
         \E k \in cls \cup {cl} :
            \/ k.by[1] = "CommandCode" /\ k.by[2] = u.code
            \/ k.by[1] = "DuplicationSelect" /\ u.code = {"Duplicate"}
  BY DEF Asked, Adds
<1>2. u.locality # {} =>
         \A c \in Commands :
            (\A k \in cls \cup {cl} : k.by[1] = "Locality" => c.locality \in k.by[2])
            => c.locality \in u.locality
  BY DEF Asked, Adds
<1>3. u.isPP => \E k \in cls \cup {cl} : k.by[1] = "PhysicalPresence"
  BY Zenon DEF Asked, Adds
<1>4. u.u1 # {} =>
         \E k \in cls \cup {cl} :
            CASE u.isCpHash -> k.cp = u.u1
              [] ~u.isCpHash /\ u.isTemplate -> k.by[1] = "Template" /\ k.by[2] = u.u1
              [] OTHER -> k.name = u.u1
  <2>1. CASE u.u1 = s.u1 /\ u.isCpHash = s.isCpHash /\ u.isTemplate = s.isTemplate
    BY <2>1 DEF Asked
  <2>2. CASE ~(u.u1 = s.u1 /\ u.isCpHash = s.isCpHash /\ u.isTemplate = s.isTemplate)
    BY <2>2 DEF Adds
  <2> QED BY <2>1, <2>2
<1>5. u.nvWritten # {} =>
         \E k \in cls \cup {cl} : k.by[1] = "NvWritten" /\ k.by[2] = u.nvWritten
  BY DEF Asked, Adds
<1>6. u.auth # "none" => \E k \in cls \cup {cl} : k.by[1] = "AuthValue"
  BY DEF Asked, Adds
<1>7. u.timeout # 0 => \E k \in cls \cup {cl} : k.until # 0 /\ k.until < u.timeout + Second
  BY DEF Asked, Adds
<1> QED BY <1>1, <1>2, <1>3, <1>4, <1>5, <1>6, <1>7 DEF Asked

\* A successful policy command preserves the invariant.
LEMMA AssertedKeeps ==
    ASSUME PolicyInv, NEW cl, NEW u, NEW t, Asserted(cl, u, t),
           Outcome(session, u, cl, pcrCounter), PcrKept(u, cl),
           \A k \in tickets' : TicketOK(k)
    PROVE  PolicyInv'
<1>1. /\ session' = u /\ claims' = claims \cup {cl}
      /\ time' = time /\ pcrs' = pcrs /\ pcrCounter' = pcrCounter
  BY DEF Asserted, env
<1>2. /\ SessionOK(u, pcrCounter) /\ Tightens(session, u) /\ Kept(u, cl) /\ cl.until \in Nat
      /\ Adds(session, u, cl)
  BY DEF Outcome
<1>3. ASSUME NEW old \in claims
      PROVE  old.until \in Nat /\ Kept(u, old) /\ PcrKept(u, old)
  <2>1. old.until \in Nat /\ Kept(session, old) /\ PcrKept(session, old)
    BY <1>3 DEF PolicyInv
  <2>2. SessionOK(session, pcrCounter)
    BY DEF PolicyInv
  <2>3. Kept(u, old)
    BY <1>2, <2>1, <2>2, TighteningKeeps
  <2>4. old.by[1] = "PCR" => u.pcrCounter = session.pcrCounter
    BY <1>2, <2>1 DEF Kept, Tightens
  <2> QED BY <2>1, <2>3, <2>4 DEF PcrKept
<1>4. \A c \in claims' : c.until \in Nat /\ Kept(u, c) /\ PcrKept(u, c)
  BY <1>1, <1>2, <1>3
<1>5. \A c \in claims' : c.until \in Nat /\ Kept(session', c) /\ PcrKept(session, c)'
  BY <1>1, <1>4 DEF PcrKept
<1>6. live' /\ live' = live
  BY Zenon DEF Asserted
<1>7. Asked(u, claims \cup {cl})
  BY <1>2, AskedStays DEF PolicyInv, SessionOK
<1>8. Asked(session, claims)'
  BY <1>1, <1>7 DEF Asked
<1> QED BY <1>1, <1>2, <1>5, <1>6, <1>8 DEF PolicyInv

\* The same for those that give no ticket; all but TPM2_PolicyPCR leave the PCR alone.
LEMMA AssertionKeeps ==
    ASSUME PolicyInv, NEW cl, NEW u, NEW t, Assertion(cl, u, t),
           Outcome(session, u, cl, pcrCounter), cl.by[1] # "PCR" \/ PcrKept(u, cl)
    PROVE  PolicyInv'
<1>1. Asserted(cl, u, t) /\ tickets' = tickets
  BY DEF Assertion
<1>2. PcrKept(u, cl)
  BY DEF PcrKept
<1>3. \A k \in tickets' : TicketOK(k)
  BY <1>1 DEF PolicyInv
<1> QED BY <1>1, <1>2, <1>3, AssertedKeeps

\* A session that begins another policy has nothing to keep.
LEMMA NewPolicyKeeps ==
    ASSUME PolicyInv, SessionOK(session', pcrCounter), Asked(session', {}), claims' = {},
           tickets' = tickets, live' \in BOOLEAN, UNCHANGED env
    PROVE  PolicyInv'
<1>1. Asked(session, claims)'
  BY DEF Asked
<1> QED BY <1>1 DEF PolicyInv, env

\* SessionResetPolicyData, alone and before SessionSetStartTime, gives a sound session.
LEMMA ResetOK ==
    ASSUME NEW s, NEW n \in Nat, SessionOK(s, n), time \in Nat
    PROVE  /\ SessionOK(SessionResetPolicyData(s), n)
           /\ SessionOK(SessionSetStartTime(SessionResetPolicyData(s)), n)
           /\ Asked(SessionResetPolicyData(s), {})
           /\ Asked(SessionSetStartTime(SessionResetPolicyData(s)), {})
<1>1. PICK u : u = SessionResetPolicyData(s)
  OBVIOUS
<1>2. DOMAIN u = DOMAIN s /\ u.trial = s.trial /\ u.start = s.start
  BY Zenon, <1>1 DEF SessionResetPolicyData, Restrictions, SessionOK
<1>3. u.u1 = {} /\ u.isCpHash = FALSE /\ u.isTemplate = FALSE
  BY <1>1 DEF SessionResetPolicyData, Restrictions, SessionOK
<1>4. u.timeout = 0 /\ u.pcrCounter = 0 /\ u.isPP = FALSE
  BY <1>1 DEF SessionResetPolicyData, Restrictions, SessionOK
<1>5. /\ u.isCpHash \in BOOLEAN /\ u.isTemplate \in BOOLEAN /\ u.isPP \in BOOLEAN
      /\ ~(u.isCpHash \/ u.isTemplate)
  BY Zenon, <1>3, <1>4
<1>6. u.timeout \in Nat /\ u.pcrCounter \in 0..n
  BY <1>4
<1>7. SessionOK(u, n)
  BY <1>2, <1>5, <1>6 DEF SessionOK
<1>8. SessionOK(SessionSetStartTime(u), n)
  BY <1>7 DEF SessionSetStartTime, SessionOK
<1>9. u.code = {} /\ u.locality = {} /\ u.auth = "none" /\ u.nvWritten = {}
  BY <1>1 DEF SessionResetPolicyData, Restrictions, SessionOK
<1>10. Asked(u, {})
  BY <1>3, <1>4, <1>9 DEF Asked
<1>11. Asked(SessionSetStartTime(u), {})
  <2>1. PICK v : v = SessionSetStartTime(u)
    OBVIOUS
  <2>2. /\ v.code = {} /\ v.locality = {} /\ v.auth = "none" /\ v.nvWritten = {} /\ v.u1 = {}
        /\ v.isPP = FALSE /\ v.timeout = 0
    BY <1>3, <1>4, <1>7, <1>9, <2>1 DEF SessionSetStartTime, SessionOK
  <2> QED BY <2>1, <2>2 DEF Asked
<1> QED BY <1>1, <1>7, <1>8, <1>10, <1>11

\* So does SessionCreate.
LEMMA CreatedOK ==
    ASSUME NEW n \in Nat, NEW now \in Nat
    PROVE  SessionOK(SessionCreate(FALSE, now), n) /\ Asked(SessionCreate(FALSE, now), {})
<1>1. SessionOK(SessionCreate(FALSE, now), n)
  BY DEF SessionCreate, SessionOK
<1>2. Asked(SessionCreate(FALSE, now), {})
  BY DEF SessionCreate, Asked
<1> QED BY Zenon, <1>1, <1>2

\* A TPM starts without sessions and tickets.
LEMMA PolicyInit ==
    ASSUME Init
    PROVE  PolicyInv
<1>1. SessionOK(session, pcrCounter) /\ Asked(session, {})
  BY Zenon, CreatedOK DEF Init, Gone
<1>2. time \in Nat /\ pcrCounter \in Nat \ {0}
  BY DEF Init
<1>3. tickets = {} /\ claims = {}
  BY DEF Init
<1>4. live \in BOOLEAN
  BY Zenon DEF Init
<1> QED BY <1>1, <1>2, <1>3, <1>4 DEF PolicyInv

\* The invariant is inductive.
LEMMA PolicyStep ==
    ASSUME PolicyInv, [Next]_vars
    PROVE  PolicyInv'
<1> USE PolicyAssumption
<1>0. /\ time \in Nat /\ pcrCounter \in Nat /\ pcrCounter # 0 /\ pcrCounter \in Nat \ {0}
      /\ SessionOK(session, pcrCounter) /\ \A t \in tickets : TicketOK(t)
  BY DEF PolicyInv
<1>1. ASSUME NEW op \in {"Signed", "Secret"}, NEW name, NEW e \in Expirations,
             NEW nonce \in BOOLEAN, NEW cp, NEW may,
             Authorization(op, name, e, nonce, cp, may)
      PROVE  PolicyInv'
  <2>1. PICK until, u, t :
           /\ until = LastMoment(session, e, nonce)
           /\ u = WithAuthorization(session, <<op, {name}>>, e, nonce, cp)
           /\ Asserted([Claim(<<op, {name}>>) EXCEPT !.cp = cp, !.until = until], u, t)
    BY Zenon, <1>1 DEF Authorization
  <2>2. e \in Int
    OBVIOUS
  <2>3. u.digest # session.digest
    BY <2>1 DEF Asserted
  <2>4. Outcome(session, u, [Claim(<<op, {name}>>) EXCEPT !.cp = cp, !.until = until],
                pcrCounter)
    BY Zenon, <1>0, <2>1, <2>2, <2>3, AuthorizationOutcome
  <2>5. PICK cl : cl = [Claim(<<op, {name}>>) EXCEPT !.cp = cp, !.until = until]
    OBVIOUS
  <2>6. cl.by[1] = op
    BY <2>5, LimitedClaim
  <2>7. PcrKept(u, cl)
    BY <2>6 DEF PcrKept
  <2>8. PICK k : k = [tag |-> op, name |-> name, cp |-> cp, until |-> until,
                      timeout |-> ComputeAuthTimeout(session, e, nonce)]
    BY Zenon
  <2>9. TicketOK(k)
    BY Zenon, <1>0, <2>1, <2>2, <2>8, Timeouts DEF TicketOK, SessionOK
  <2>10. tickets' = tickets \/ tickets' = tickets \cup {k}
    BY <1>1, <2>1, <2>8 DEF Authorization
  <2>11. \A x \in tickets' : TicketOK(x)
    BY <1>0, <2>9, <2>10
  <2> QED BY <2>1, <2>4, <2>5, <2>7, <2>11, AssertedKeeps
<1>2. ASSUME NEW t \in tickets, PolicyTicket(t)
      PROVE  PolicyInv'
  <2>1. PICK u, v : /\ u = WithTicket(session, t)
                    /\ Assertion([Claim(TicketElement(t)) EXCEPT !.cp = t.cp, !.until = t.until],
                                 u, v)
    BY Zenon, <1>2 DEF PolicyTicket
  <2>2. u.digest # session.digest
    BY <2>1 DEF Assertion, Asserted
  <2>3. PICK cl : cl = [Claim(TicketElement(t)) EXCEPT !.cp = t.cp, !.until = t.until]
    OBVIOUS
  <2>4. Outcome(session, u, cl, pcrCounter)
    BY Zenon, <1>0, <2>1, <2>2, <2>3, TicketOutcome
  <2>5. TicketElement(t) = <<t.tag, {t.name}>> /\ t.tag # "PCR"
    BY <1>0 DEF TicketElement, TicketOK
  <2>6. cl.by[1] # "PCR"
    BY <2>3, <2>5, LimitedClaim
  <2> QED BY Zenon, <2>1, <2>3, <2>4, <2>6, AssertionKeeps
<1>3. ASSUME NEW list, PolicyOR(list)
      PROVE  PolicyInv'
  <2>1. PICK u, v, cl : /\ u = WithOR(session, list) /\ cl = Claim(<<"OR", list>>)
                        /\ Assertion(cl, u, v)
    BY <1>3 DEF PolicyOR
  <2>2. u.digest # session.digest
    BY Zenon, <2>1 DEF Assertion, Asserted
  <2>3. Outcome(session, u, cl, pcrCounter)
    BY <1>0, <2>1, <2>2, OROutcome
  <2>4. cl.by[1] # "PCR"
    BY <2>1, PlainClaim
  <2> QED BY <2>1, <2>3, <2>4, AssertionKeeps
<1>4. ASSUME NEW key, NEW policy, PolicyAuthorize(key, policy)
      PROVE  PolicyInv'
  <2>1. PICK u, v, cl : /\ u = WithApproval(session, "Authorize", key, policy)
                        /\ cl = Claim(<<"Authorize", {key}>>)
                        /\ Assertion(cl, u, v)
    BY <1>4 DEF PolicyAuthorize
  <2>2. u.digest # session.digest
    BY Zenon, <2>1 DEF Assertion, Asserted
  <2>3. Outcome(session, u, cl, pcrCounter)
    BY Zenon, <1>0, <2>1, <2>2, ApprovalOutcome
  <2>4. cl.by[1] # "PCR"
    BY <2>1, PlainClaim
  <2> QED BY <2>1, <2>3, <2>4, AssertionKeeps
<1>5. ASSUME NEW index, NEW policy, PolicyAuthorizeNV(index, policy)
      PROVE  PolicyInv'
  <2>1. PICK u, v, cl : /\ u = WithApproval(session, "AuthorizeNV", index, policy)
                        /\ cl = Claim(<<"AuthorizeNV", {index}>>)
                        /\ Assertion(cl, u, v)
    BY <1>5 DEF PolicyAuthorizeNV
  <2>2. u.digest # session.digest
    BY Zenon, <2>1 DEF Assertion, Asserted
  <2>3. Outcome(session, u, cl, pcrCounter)
    BY Zenon, <1>0, <2>1, <2>2, ApprovalOutcome
  <2>4. cl.by[1] # "PCR"
    BY <2>1, PlainClaim
  <2> QED BY <2>1, <2>3, <2>4, AssertionKeeps
<1>6. ASSUME NEW given, PolicyPCR(given)
      PROVE  PolicyInv'
  <2>1. PICK u, v, cl : /\ u = WithPCR(session, given) /\ cl = Claim(<<"PCR", {pcrs}>>)
                        /\ Assertion(cl, u, v)
    BY <1>6 DEF PolicyPCR
  <2>2. u.digest # session.digest
    BY Zenon, <2>1 DEF Assertion, Asserted
  <2>3. Outcome(session, u, cl, pcrCounter)
    BY <1>0, <2>1, <2>2, PCROutcome
  <2>4. PcrKept(u, cl)
    BY Zenon, <1>0, <2>1, <2>2, PCROutcome
  <2> QED BY <2>1, <2>3, <2>4, AssertionKeeps
<1>7. ASSUME NEW l, PolicyLocality(l)
      PROVE  PolicyInv'
  <2>1. PICK u, v, cl : /\ u = WithLocality(session, l) /\ cl = Claim(<<"Locality", l>>)
                        /\ Assertion(cl, u, v)
    BY <1>7 DEF PolicyLocality
  <2>2. u.digest # session.digest
    BY Zenon, <2>1 DEF Assertion, Asserted
  <2>3. Outcome(session, u, cl, pcrCounter)
    BY <1>0, <2>1, <2>2, LocalityOutcome
  <2>4. cl.by[1] # "PCR"
    BY <2>1, PlainClaim
  <2> QED BY <2>1, <2>3, <2>4, AssertionKeeps
<1>8. ASSUME NEW code, PolicyCommandCode(code)
      PROVE  PolicyInv'
  <2>1. PICK u, v, cl : /\ u = WithCommandCode(session, code)
                        /\ cl = Claim(<<"CommandCode", {code}>>)
                        /\ Assertion(cl, u, v)
    BY <1>8 DEF PolicyCommandCode
  <2>2. u.digest # session.digest
    BY Zenon, <2>1 DEF Assertion, Asserted
  <2>3. Outcome(session, u, cl, pcrCounter)
    BY <1>0, <2>1, <2>2, CommandCodeOutcome
  <2>4. cl.by[1] # "PCR"
    BY <2>1, PlainClaim
  <2> QED BY <2>1, <2>3, <2>4, AssertionKeeps
<1>9. ASSUME NEW h, PolicyCpHash(h)
      PROVE  PolicyInv'
  <2>1. PICK u, v, cl : /\ u = WithCpHash(session, h)
                        /\ cl = [Claim(<<"CpHash", {h}>>) EXCEPT !.cp = {h}]
                        /\ Assertion(cl, u, v)
    BY <1>9 DEF PolicyCpHash
  <2>2. u.digest # session.digest
    BY <2>1 DEF Assertion, Asserted
  <2>3. Outcome(session, u, cl, pcrCounter)
    BY <1>0, <2>1, <2>2, CpHashOutcome
  <2>4. cl.by[1] # "PCR"
    BY <2>1 DEF Claim
  <2> QED BY Zenon, <2>1, <2>3, <2>4, AssertionKeeps
<1>10. ASSUME NEW h, PolicyNameHash(h)
      PROVE  PolicyInv'
  <2>1. PICK u, v, cl : /\ u = WithNameHash(session, h)
                        /\ cl = [Claim(<<"NameHash", {h}>>) EXCEPT !.name = {h}]
                        /\ Assertion(cl, u, v)
    BY <1>10 DEF PolicyNameHash
  <2>2. u.digest # session.digest
    BY <2>1 DEF Assertion, Asserted
  <2>3. Outcome(session, u, cl, pcrCounter)
    BY <1>0, <2>1, <2>2, NameHashOutcome
  <2>4. cl.by[1] # "PCR"
    BY Zenon, <2>1 DEF Claim
  <2> QED BY Zenon, <2>1, <2>3, <2>4, AssertionKeeps
<1>11. ASSUME NEW h, PolicyTemplate(h)
      PROVE  PolicyInv'
  <2>1. PICK u, v, cl : /\ u = WithTemplate(session, h)
                        /\ cl = Claim(<<"Template", {h}>>)
                        /\ Assertion(cl, u, v)
    BY <1>11 DEF PolicyTemplate
  <2>2. u.digest # session.digest
    BY Zenon, <2>1 DEF Assertion, Asserted
  <2>3. Outcome(session, u, cl, pcrCounter)
    BY Zenon, <1>0, <2>1, <2>2, TemplateOutcome
  <2>4. cl.by[1] # "PCR"
    BY <2>1, PlainClaim
  <2> QED BY <2>1, <2>3, <2>4, AssertionKeeps
<1>12. ASSUME NEW h, NEW include, PolicyDuplicationSelect(h, include)
      PROVE  PolicyInv'
  <2>1. PICK u, v, cl : /\ u = WithDuplicationSelect(session, h, include)
                        /\ cl = [Claim(DuplicationElement(h, include)) EXCEPT !.name = {h}]
                        /\ Assertion(cl, u, v)
    BY <1>12 DEF PolicyDuplicationSelect
  <2>2. u.digest # session.digest
    BY <2>1 DEF Assertion, Asserted
  <2>3. Outcome(session, u, cl, pcrCounter)
    BY <1>0, <2>1, <2>2, DuplicationSelectOutcome
  <2>4. cl.by[1] # "PCR"
    BY <2>1 DEF Claim, DuplicationElement
  <2> QED BY Zenon, <2>1, <2>3, <2>4, AssertionKeeps
<1>13. ASSUME NEW written, PolicyNvWritten(written)
      PROVE  PolicyInv'
  <2>1. PICK u, v, cl : /\ u = WithNvWritten(session, written)
                        /\ cl = Claim(<<"NvWritten", {written}>>)
                        /\ Assertion(cl, u, v)
    BY <1>13 DEF PolicyNvWritten
  <2>2. u.digest # session.digest
    BY <2>1 DEF Assertion, Asserted
  <2>3. Outcome(session, u, cl, pcrCounter)
    BY <1>0, <2>1, <2>2, NvWrittenOutcome
  <2>4. cl.by[1] # "PCR"
    BY <2>1, PlainClaim
  <2> QED BY <2>1, <2>3, <2>4, AssertionKeeps
<1>14. ASSUME PolicyPhysicalPresence
      PROVE  PolicyInv'
  <2>1. PICK u, v, cl : /\ u = WithPhysicalPresence(session)
                        /\ cl = Claim(<<"PhysicalPresence", {}>>)
                        /\ Assertion(cl, u, v)
    BY Zenon, <1>14 DEF PolicyPhysicalPresence
  <2>2. u.digest # session.digest
    BY Zenon, <2>1 DEF Assertion, Asserted
  <2>3. Outcome(session, u, cl, pcrCounter)
    BY Zenon, <1>0, <2>1, <2>2, PhysicalPresenceOutcome
  <2>4. cl.by[1] # "PCR"
    BY <2>1, PlainClaim
  <2> QED BY <2>1, <2>3, <2>4, AssertionKeeps
<1>15. ASSUME PolicyAuthValue
      PROVE  PolicyInv'
  <2>1. PICK u, v, cl : /\ u = WithAuthValue(session, "value")
                        /\ cl = Claim(<<"AuthValue", {}>>)
                        /\ Assertion(cl, u, v)
    BY <1>15 DEF PolicyAuthValue
  <2>2. u.digest # session.digest
    BY Zenon, <2>1 DEF Assertion, Asserted
  <2>3. Outcome(session, u, cl, pcrCounter)
    BY <1>0, <2>1, <2>2, AuthValueOutcome
  <2>4. cl.by[1] # "PCR"
    BY <2>1, PlainClaim
  <2> QED BY <2>1, <2>3, <2>4, AssertionKeeps
<1>16. ASSUME PolicyPassword
      PROVE  PolicyInv'
  <2>1. PICK u, v, cl : /\ u = WithAuthValue(session, "password")
                        /\ cl = Claim(<<"AuthValue", {}>>)
                        /\ Assertion(cl, u, v)
    BY <1>16 DEF PolicyPassword
  <2>2. u.digest # session.digest
    BY Zenon, <2>1 DEF Assertion, Asserted
  <2>3. Outcome(session, u, cl, pcrCounter)
    BY <1>0, <2>1, <2>2, AuthValueOutcome
  <2>4. cl.by[1] # "PCR"
    BY <2>1, PlainClaim
  <2> QED BY <2>1, <2>3, <2>4, AssertionKeeps
<1>17. ASSUME NEW index, NEW b, NEW a, PolicyNV(index, b, a)
      PROVE  PolicyInv'
  <2>1. PICK u, v, cl : /\ u = WithComparison(session, "NV", index, b, a)
                        /\ cl = Claim(<<"NV", {<<index>> \o b}>>)
                        /\ Assertion(cl, u, v)
    BY <1>17 DEF PolicyNV
  <2>2. u.digest # session.digest
    BY Zenon, <2>1 DEF Assertion, Asserted
  <2>3. Outcome(session, u, cl, pcrCounter)
    BY Zenon, <1>0, <2>1, <2>2, ComparisonOutcome
  <2>4. cl.by[1] # "PCR"
    BY <2>1, PlainClaim
  <2> QED BY <2>1, <2>3, <2>4, AssertionKeeps
<1>18. ASSUME NEW b, PolicyCounterTimer(b)
      PROVE  PolicyInv'
  <2>1. PICK u, v, cl : /\ u = WithComparison(session, "CounterTimer", "TIME", b, time)
                        /\ cl = Claim(<<"CounterTimer", {<<"TIME">> \o b}>>)
                        /\ Assertion(cl, u, v)
    BY <1>18 DEF PolicyCounterTimer
  <2>2. u.digest # session.digest
    BY Zenon, <2>1 DEF Assertion, Asserted
  <2>3. Outcome(session, u, cl, pcrCounter)
    BY Zenon, <1>0, <2>1, <2>2, ComparisonOutcome
  <2>4. cl.by[1] # "PCR"
    BY <2>1, PlainClaim
  <2> QED BY <2>1, <2>3, <2>4, AssertionKeeps
<1>19. ASSUME Immediate
      PROVE  PolicyInv'
  BY Zenon, <1>19, <1>1, <1>2, <1>17, <1>18 DEF Immediate, PolicySigned, PolicySecret
<1>20. ASSUME Compound
      PROVE  PolicyInv'
  BY Zenon, <1>20, <1>3, <1>4, <1>5 DEF Compound
<1>21. ASSUME Deferred
      PROVE  PolicyInv'
  BY <1>21, <1>6, <1>7, <1>8, <1>9, <1>10, <1>11, <1>12, <1>13, <1>14, <1>15, <1>16 DEF Deferred
<1>22. ASSUME NEW continue \in BOOLEAN, UpdateInternalSession(continue)
      PROVE  PolicyInv'
  <2>1. SessionOK(session', pcrCounter) /\ Asked(session', {})
    BY Zenon, <1>0, <1>22, ResetOK, CreatedOK DEF UpdateInternalSession, Gone
  <2> QED BY <1>22, <2>1, NewPolicyKeeps DEF UpdateInternalSession, NewPolicy
<1>23. ASSUME Use
      PROVE  PolicyInv'
  BY <1>22, <1>23 DEF Use, Authorize, Encrypt
<1>24. ASSUME PolicyRestart
      PROVE  PolicyInv'
  <2>1. SessionOK(session', pcrCounter) /\ Asked(session', {})
    BY <1>0, <1>24, ResetOK DEF PolicyRestart
  <2> QED BY <1>24, <2>1, NewPolicyKeeps DEF PolicyRestart, NewPolicy
<1>25. ASSUME StartAuthSession
      PROVE  PolicyInv'
  <2>1. SessionOK(session', pcrCounter) /\ Asked(session', {})
    BY Zenon, <1>0, <1>25, CreatedOK DEF StartAuthSession
  <2>2. claims' = {}
    BY <1>25 DEF StartAuthSession, PolicyInv
  <2>3. live' \in BOOLEAN /\ tickets' = tickets /\ UNCHANGED env
    BY <1>25 DEF StartAuthSession
  <2> QED BY <2>1, <2>2, <2>3, NewPolicyKeeps
<1>26. ASSUME Tick
      PROVE  PolicyInv'
  BY <1>0, <1>26 DEF Tick, PolicyInv, PcrKept, Asked
<1>27. ASSUME NEW v, PCRChanged(v)
      PROVE  PolicyInv'
  <2>1. /\ pcrCounter' = pcrCounter + 1 /\ session' = session /\ claims' = claims
        /\ time' = time /\ tickets' = tickets /\ live' = live
    BY Zenon, <1>27 DEF PCRChanged
  <2>2. session.pcrCounter # pcrCounter' /\ SessionOK(session, pcrCounter')
    BY <1>0, <2>1 DEF SessionOK
  <2>3. \A cl \in claims : PcrKept(session, cl)'
    BY <2>1, <2>2 DEF PcrKept
  <2>4. Asked(session, claims)'
    BY <2>1 DEF PolicyInv, Asked
  <2> QED BY <1>0, <2>1, <2>2, <2>3, <2>4 DEF PolicyInv
<1>28. CASE UNCHANGED vars
  BY <1>28 DEF vars, env, PolicyInv, PcrKept, Asked
<1> QED
  BY <1>19, <1>20, <1>21, <1>23, <1>24, <1>25, <1>26, <1>27, <1>28 DEF Next

\* Whatever was asserted since the policy of a session was begun holds whenever the
\* session authorises a command (TPM2_Policy...() against CheckPolicyAuthSession).
THEOREM PolicyEnforced == Spec => []AssertionsEnforced
<1>1. Init => PolicyInv
  BY PolicyInit
<1>2. PolicyInv /\ [Next]_vars => PolicyInv'
  BY PolicyStep
<1>3. PolicyInv => AssertionsEnforced
  <2> SUFFICES ASSUME PolicyInv, NEW cl \in claims, Meant(cl), NEW c \in Commands,
                      CheckAuthSession(session, c)
               PROVE  Holds(cl, c)
    BY DEF AssertionsEnforced
  <2> QED BY KeptIsEnforced DEF PolicyInv
<1> QED BY <1>1, <1>2, <1>3, PTL DEF Spec

\* If all that was asserted since the policy of a session was begun holds, with a second
\* to spare, the session authorises an ordinary command: nothing of an earlier policy is
\* left (SessionResetPolicyData), and no command restricts more than it says.
THEOREM NothingElseIsAsked == Spec => []NothingElseAsked
<1>1. PolicyInv => NothingElseAsked
  <2> SUFFICES ASSUME PolicyInv, NEW c \in Commands, SessionPCRValueIsCurrent(session),
                      c.role = "user", c.code # "PolicySecret",
                      \A cl \in claims : Holds(cl, c) /\ (cl.until # 0 => time + Second <= cl.until)
               PROVE  CheckAuthSession(session, c)
    BY DEF NothingElseAsked
  <2>0. /\ Asked(session, claims) /\ SessionOK(session, pcrCounter) /\ time \in Nat
        /\ \A cl \in claims : cl.until \in Nat
    BY DEF PolicyInv
  <2>1. session.timeout # 0 => session.timeout >= time
    BY <2>0, PolicyAssumption DEF Asked, SessionOK
  <2>2. IF session.code # {} THEN c.code \in session.code ELSE c.role = "user"
    BY <2>0 DEF Asked, Holds
  <2>3. session.locality # {} => c.locality \in session.locality
    BY <2>0 DEF Asked, Holds
  <2>4. (session.isPP => c.pp) /\ (session.auth # "none" => c.knows)
    BY <2>0 DEF Asked, Holds
  <2>5. session.u1 # {} => CASE session.isCpHash -> c.cp \in session.u1
                             [] ~session.isCpHash /\ session.isTemplate -> c.template = session.u1
                             [] OTHER -> c.name \in session.u1
    BY <2>0 DEF Asked, Holds
  <2>6. session.nvWritten # {} => c.index /\ c.written \in session.nvWritten
    BY <2>0 DEF Asked, Holds
  <2> QED BY <2>1, <2>2, <2>3, <2>4, <2>5, <2>6 DEF CheckAuthSession, CheckPolicyAuthSession
<1>2. Init => PolicyInv
  BY PolicyInit
<1>3. PolicyInv /\ [Next]_vars => PolicyInv'
  BY PolicyStep
<1> QED BY <1>1, <1>2, <1>3, PTL DEF Spec


-----------------------------------------------------------------------------
(* The inductive invariant.                                                *)
TrialOK(t) ==
    /\ DOMAIN t = {"trial", "digest", "code", "locality", "u1", "isCpHash", "isTemplate",
                   "timeout", "start", "pcrCounter", "isPP", "auth", "nvWritten"}
    /\ t.trial = TRUE

\* Two sessions that were given the same assertions: what later ones depend on.
Alike(s, t) ==
    /\ t.digest = s.digest /\ t.code = s.code /\ t.locality = s.locality /\ t.u1 = s.u1
    /\ t.isCpHash = s.isCpHash /\ t.isTemplate = s.isTemplate /\ t.nvWritten = s.nvWritten

IsSeq(d) == \E S : d \in Seq(S)

\* The digests that the session has had are backed, and the trial session is alike.
DigestInv ==
    /\ PolicyInv /\ DigestBacked
    /\ \A d \in reached : IsSeq(d)
    /\ TrialOK(trial) /\ Alike(session, trial)
    /\ ~live => session = Gone

-----------------------------------------------------------------------------
(* What the commands do to the session s and the trial session t.          *)
\* Both get the digest d.
Both(s, u, t, v, d) == u.digest = d /\ TrialOK(v) /\ Alike(u, v)

\* TPM2_PolicyCommandCode.
LEMMA CommandCodeOfBoth ==
    ASSUME NEW s, NEW n \in Nat, SessionOK(s, n), NEW t, TrialOK(t), Alike(s, t), NEW code,
           WithCommandCode(s, code).digest # s.digest
    PROVE  Both(s, WithCommandCode(s, code), t, WithCommandCode(t, code),
                Append(s.digest, <<"CommandCode", {code}>>))
<1>1. s.code \subseteq {code} /\ t.code \subseteq {code}
  BY Zenon DEF WithCommandCode, Alike, SessionOK
<1>2. PICK e : e = <<"CommandCode", {code}>>
  BY Zenon
<1>3. PICK u : u = WithCommandCode(s, code)
  BY Zenon
<1>4. PICK v : v = WithCommandCode(t, code)
  OBVIOUS
<1>5. /\ u = [[s EXCEPT !.digest = Append(@, e)] EXCEPT !.code = {code}]
      /\ v = [[t EXCEPT !.digest = Append(@, e)] EXCEPT !.code = {code}]
  BY <1>1, <1>2, <1>3, <1>4 DEF WithCommandCode, Extend
<1>6. u.digest = Append(s.digest, e) /\ TrialOK(v)
  BY <1>5 DEF SessionOK, TrialOK
<1>7. Alike(u, v)
  BY <1>5 DEF SessionOK, TrialOK, Alike
<1> QED BY <1>2, <1>3, <1>4, <1>6, <1>7 DEF Both

\* TPM2_PolicyNvWritten.
LEMMA NvWrittenOfBoth ==
    ASSUME NEW s, NEW n \in Nat, SessionOK(s, n), NEW t, TrialOK(t), Alike(s, t), NEW written,
           WithNvWritten(s, written).digest # s.digest
    PROVE  Both(s, WithNvWritten(s, written), t, WithNvWritten(t, written),
                Append(s.digest, <<"NvWritten", {written}>>))
<1>1. s.nvWritten \subseteq {written} /\ t.nvWritten \subseteq {written}
  BY DEF WithNvWritten, Alike, SessionOK
<1>2. PICK e : e = <<"NvWritten", {written}>>
  BY Zenon
<1>3. PICK u : u = WithNvWritten(s, written)
  OBVIOUS
<1>4. PICK v : v = WithNvWritten(t, written)
  OBVIOUS
<1>5. /\ u = [[s EXCEPT !.digest = Append(@, e)] EXCEPT !.nvWritten = {written}]
      /\ v = [[t EXCEPT !.digest = Append(@, e)] EXCEPT !.nvWritten = {written}]
  BY <1>1, <1>2, <1>3, <1>4 DEF WithNvWritten, Extend
<1>6. u.digest = Append(s.digest, e) /\ TrialOK(v)
  BY <1>5 DEF SessionOK, TrialOK
<1>7. Alike(u, v)
  BY <1>5 DEF SessionOK, TrialOK, Alike
<1> QED BY <1>2, <1>3, <1>4, <1>6, <1>7 DEF Both

\* TPM2_PolicyPhysicalPresence.
LEMMA PhysicalPresenceOfBoth ==
    ASSUME NEW s, NEW n \in Nat, SessionOK(s, n), NEW t, TrialOK(t), Alike(s, t),
           WithPhysicalPresence(s).digest # s.digest
    PROVE  Both(s, WithPhysicalPresence(s), t, WithPhysicalPresence(t),
                Append(s.digest, <<"PhysicalPresence", {}>>))
<1>1. s.trial = FALSE /\ t.trial = TRUE
  BY DEF SessionOK, TrialOK
<1>2. PICK e : e = <<"PhysicalPresence", {}>>
  BY Zenon
<1>3. PICK u : u = WithPhysicalPresence(s)
  OBVIOUS
<1>4. PICK v : v = WithPhysicalPresence(t)
  OBVIOUS
<1>5. /\ u = [[s EXCEPT !.digest = Append(@, e)] EXCEPT !.isPP = TRUE]
      /\ v = [[t EXCEPT !.digest = Append(@, e)] EXCEPT !.isPP = TRUE]
  BY <1>1, <1>2, <1>3, <1>4 DEF WithPhysicalPresence, Extend
<1>6. u.digest = Append(s.digest, e) /\ TrialOK(v)
  BY <1>5 DEF SessionOK, TrialOK
<1>7. Alike(u, v)
  BY <1>5 DEF SessionOK, TrialOK, Alike
<1> QED BY <1>2, <1>3, <1>4, <1>6, <1>7 DEF Both

\* TPM2_PolicyAuthValue and TPM2_PolicyPassword.
LEMMA AuthValueOfBoth ==
    ASSUME NEW s, NEW n \in Nat, SessionOK(s, n), NEW t, TrialOK(t), Alike(s, t), NEW auth,
           WithAuthValue(s, auth).digest # s.digest
    PROVE  Both(s, WithAuthValue(s, auth), t, WithAuthValue(t, auth),
                Append(s.digest, <<"AuthValue", {}>>))
<1>1. s.trial = FALSE /\ t.trial = TRUE
  BY DEF SessionOK, TrialOK
<1>2. PICK e : e = <<"AuthValue", {}>>
  BY Zenon
<1>3. PICK u : u = WithAuthValue(s, auth)
  OBVIOUS
<1>4. PICK v : v = WithAuthValue(t, auth)
  OBVIOUS
<1>5. /\ u = [[s EXCEPT !.digest = Append(@, e)] EXCEPT !.auth = auth]
      /\ v = [[t EXCEPT !.digest = Append(@, e)] EXCEPT !.auth = auth]
  BY <1>1, <1>2, <1>3, <1>4 DEF WithAuthValue, Extend
<1>6. u.digest = Append(s.digest, e) /\ TrialOK(v)
  BY <1>5 DEF SessionOK, TrialOK
<1>7. Alike(u, v)
  BY <1>5 DEF SessionOK, TrialOK, Alike
<1> QED BY <1>2, <1>3, <1>4, <1>6, <1>7 DEF Both

\* TPM2_PolicyTemplate.
LEMMA TemplateOfBoth ==
    ASSUME NEW s, NEW n \in Nat, SessionOK(s, n), NEW t, TrialOK(t), Alike(s, t), NEW h,
           WithTemplate(s, h).digest # s.digest
    PROVE  Both(s, WithTemplate(s, h), t, WithTemplate(t, h),
                Append(s.digest, <<"Template", {h}>>))
<1>1. /\ ~(IF s.isTemplate THEN s.u1 # {h} ELSE s.u1 # {})
      /\ ~(IF t.isTemplate THEN t.u1 # {h} ELSE t.u1 # {})
  BY DEF WithTemplate, Alike, SessionOK
<1>2. PICK e : e = <<"Template", {h}>>
  BY Zenon
<1>3. PICK u : u = WithTemplate(s, h)
  OBVIOUS
<1>4. PICK v : v = WithTemplate(t, h)
  OBVIOUS
<1>5. /\ u = [[s EXCEPT !.digest = Append(@, e)] EXCEPT !.u1 = {h}, !.isTemplate = TRUE]
      /\ v = [[t EXCEPT !.digest = Append(@, e)] EXCEPT !.u1 = {h}, !.isTemplate = TRUE]
  BY <1>1, <1>2, <1>3, <1>4 DEF WithTemplate, Extend
<1>6. u.digest = Append(s.digest, e) /\ TrialOK(v)
  BY <1>5 DEF SessionOK, TrialOK
<1>7. Alike(u, v)
  BY <1>5 DEF SessionOK, TrialOK, Alike
<1> QED BY <1>2, <1>3, <1>4, <1>6, <1>7 DEF Both

\* TPM2_PolicyCpHash.
LEMMA CpHashOfBoth ==
    ASSUME NEW s, NEW n \in Nat, SessionOK(s, n), NEW t, TrialOK(t), Alike(s, t), NEW h,
           WithCpHash(s, h).digest # s.digest
    PROVE  Both(s, WithCpHash(s, h), t, WithCpHash(t, h),
                Append(s.digest, <<"CpHash", {h}>>))
<1>1. /\ ~(s.u1 # {} /\ (~s.isCpHash \/ s.u1 # {h}))
      /\ ~(t.u1 # {} /\ (~t.isCpHash \/ t.u1 # {h}))
  BY DEF WithCpHash, Alike, SessionOK
<1>2. PICK e : e = <<"CpHash", {h}>>
  BY Zenon
<1>3. PICK u : u = WithCpHash(s, h)
  OBVIOUS
<1>4. PICK v : v = WithCpHash(t, h)
  OBVIOUS
<1>5. /\ u = [[s EXCEPT !.digest = Append(@, e)] EXCEPT !.u1 = {h}, !.isCpHash = TRUE]
      /\ v = [[t EXCEPT !.digest = Append(@, e)] EXCEPT !.u1 = {h}, !.isCpHash = TRUE]
  BY <1>1, <1>2, <1>3, <1>4 DEF WithCpHash, Extend
<1>6. u.digest = Append(s.digest, e) /\ TrialOK(v)
  BY <1>5 DEF SessionOK, TrialOK
<1>7. Alike(u, v)
  BY <1>5 DEF SessionOK, TrialOK, Alike
<1> QED BY <1>2, <1>3, <1>4, <1>6, <1>7 DEF Both

\* TPM2_PolicyNameHash.
LEMMA NameHashOfBoth ==
    ASSUME NEW s, NEW n \in Nat, SessionOK(s, n), NEW t, TrialOK(t), Alike(s, t), NEW h,
           WithNameHash(s, h).digest # s.digest
    PROVE  Both(s, WithNameHash(s, h), t, WithNameHash(t, h),
                Append(s.digest, <<"NameHash", {h}>>))
<1>1. ~(s.u1 # {} \/ s.isCpHash \/ s.isTemplate) /\ ~(t.u1 # {} \/ t.isCpHash \/ t.isTemplate)
  BY DEF WithNameHash, Alike, SessionOK
<1>2. PICK e : e = <<"NameHash", {h}>>
  BY Zenon
<1>3. PICK u : u = WithNameHash(s, h)
  OBVIOUS
<1>4. PICK v : v = WithNameHash(t, h)
  OBVIOUS
<1>5. /\ u = [[s EXCEPT !.digest = Append(@, e)] EXCEPT !.u1 = {h}]
      /\ v = [[t EXCEPT !.digest = Append(@, e)] EXCEPT !.u1 = {h}]
  BY <1>1, <1>2, <1>3, <1>4 DEF WithNameHash, Extend
<1>6. u.digest = Append(s.digest, e) /\ TrialOK(v)
  BY <1>5 DEF SessionOK, TrialOK
<1>7. Alike(u, v)
  BY <1>5 DEF SessionOK, TrialOK, Alike
<1> QED BY <1>2, <1>3, <1>4, <1>6, <1>7 DEF Both

\* TPM2_PolicyDuplicationSelect.
LEMMA DuplicationSelectOfBoth ==
    ASSUME NEW s, NEW n \in Nat, SessionOK(s, n), NEW t, TrialOK(t), Alike(s, t),
           NEW h, NEW include,
           WithDuplicationSelect(s, h, include).digest # s.digest
    PROVE  Both(s, WithDuplicationSelect(s, h, include), t, WithDuplicationSelect(t, h, include),
                Append(s.digest, DuplicationElement(h, include)))
<1>1. ~(s.u1 # {} \/ s.code # {}) /\ ~(t.u1 # {} \/ t.code # {})
  BY DEF WithDuplicationSelect, Alike, SessionOK
<1>2. PICK e : e = DuplicationElement(h, include)
  BY Zenon
<1>3. PICK u : u = WithDuplicationSelect(s, h, include)
  OBVIOUS
<1>4. PICK v : v = WithDuplicationSelect(t, h, include)
  OBVIOUS
<1>5. /\ u = [[s EXCEPT !.digest = Append(@, e)] EXCEPT !.u1 = {h}, !.code = {"Duplicate"}]
      /\ v = [[t EXCEPT !.digest = Append(@, e)] EXCEPT !.u1 = {h}, !.code = {"Duplicate"}]
  BY <1>1, <1>2, <1>3, <1>4 DEF WithDuplicationSelect, Extend
<1>6. u.digest = Append(s.digest, e) /\ TrialOK(v)
  BY <1>5 DEF SessionOK, TrialOK
<1>7. Alike(u, v)
  BY <1>5 DEF SessionOK, TrialOK, Alike
<1> QED BY <1>2, <1>3, <1>4, <1>6, <1>7 DEF Both

\* TPM2_PolicyNV and TPM2_PolicyCounterTimer.
LEMMA ComparisonOfBoth ==
    ASSUME NEW s, NEW n \in Nat, SessionOK(s, n), NEW t, TrialOK(t), Alike(s, t),
           NEW op, NEW name, NEW comparison, NEW a,
           WithComparison(s, op, name, comparison, a).digest # s.digest
    PROVE  Both(s, WithComparison(s, op, name, comparison, a),
                t, WithComparison(t, op, name, comparison, a),
                Append(s.digest, <<op, {<<name>> \o comparison}>>))
<1> DEFINE e == <<op, {<<name>> \o comparison}>>
<1>1. PICK u : u = WithComparison(s, op, name, comparison, a)
  BY Zenon
<1>2. PICK v : v = WithComparison(t, op, name, comparison, a)
  BY Zenon
<1>3. s.trial = FALSE /\ t.trial = TRUE
  BY DEF SessionOK, TrialOK
<1>4. PolicySptCheckCondition(comparison[1], a, comparison[2])
  BY <1>3 DEF WithComparison
<1>5. u = Extend(s, e) /\ v = Extend(t, e)
  BY <1>1, <1>2, <1>3, <1>4, Zenon DEF WithComparison
<1> HIDE DEF e
<1>6. u.digest = Append(s.digest, e) /\ TrialOK(v)
  BY <1>5 DEF Extend, SessionOK, TrialOK
<1>7. Alike(u, v)
  BY Zenon, <1>5 DEF Extend, SessionOK, TrialOK, Alike
<1>8. Both(s, u, t, v, Append(s.digest, e))
  BY <1>6, <1>7 DEF Both
<1> QED BY <1>1, <1>2, <1>8, Zenon DEF e

\* TPM2_PolicyLocality.
LEMMA LocalityOfBoth ==
    ASSUME NEW s, NEW n \in Nat, SessionOK(s, n), NEW t, TrialOK(t), Alike(s, t), NEW l,
           WithLocality(s, l).digest # s.digest
    PROVE  Both(s, WithLocality(s, l), t, WithLocality(t, l),
                Append(s.digest, <<"Locality", l>>))
<1>1. PICK new : new = IF s.locality = {} THEN l ELSE s.locality \cap l
  BY Zenon
<1>2. new # {} /\ t.locality = s.locality
  BY <1>1 DEF WithLocality, Alike
<1>3. PICK u : u = WithLocality(s, l)
  OBVIOUS
<1>4. PICK v : v = WithLocality(t, l)
  OBVIOUS
<1>5. PICK e : e = <<"Locality", l>>
  BY Zenon
<1>6. /\ u = [[s EXCEPT !.digest = Append(@, e)] EXCEPT !.locality = new]
      /\ v = [[t EXCEPT !.digest = Append(@, e)] EXCEPT !.locality = new]
  BY <1>1, <1>2, <1>3, <1>4, <1>5 DEF WithLocality, Extend
<1>7. u.digest = Append(s.digest, e) /\ TrialOK(v)
  BY <1>6 DEF SessionOK, TrialOK
<1>8. Alike(u, v)
  BY <1>6 DEF SessionOK, TrialOK, Alike
<1> QED BY <1>3, <1>4, <1>5, <1>7, <1>8 DEF Both

\* TPM2_PolicyPCR: the trial session believes the caller where the session has checked.
LEMMA PCROfBoth ==
    ASSUME NEW s, NEW n \in Nat, SessionOK(s, n), NEW t, TrialOK(t), Alike(s, t), NEW given,
           WithPCR(s, given).digest # s.digest
    PROVE  Both(s, WithPCR(s, given), t, WithPCR(t, given), Append(s.digest, <<"PCR", {pcrs}>>))
<1>1. s.trial = FALSE /\ t.trial = TRUE
  BY DEF SessionOK, TrialOK
<1>2. PcrCheckStands(s) /\ given \subseteq {pcrs}
  BY <1>1 DEF WithPCR
<1>3. PICK u : u = WithPCR(s, given)
  OBVIOUS
<1>4. PICK v : v = WithPCR(t, given)
  OBVIOUS
<1>5. PICK e : e = <<"PCR", {pcrs}>>
  BY Zenon
<1>6. (IF given # {} THEN given ELSE {pcrs}) = {pcrs}
  BY Zenon, <1>2
<1>7. u = [[s EXCEPT !.digest = Append(@, e)] EXCEPT !.pcrCounter = pcrCounter]
  BY <1>1, <1>2, <1>3, <1>5 DEF WithPCR, Extend
<1>8. v = [t EXCEPT !.digest = Append(@, e)]
  BY Zenon, <1>1, <1>4, <1>5, <1>6 DEF WithPCR, Extend
<1>9. u.digest = Append(s.digest, e) /\ TrialOK(v)
  BY <1>7, <1>8 DEF SessionOK, TrialOK
<1>10. Alike(u, v)
  BY <1>7, <1>8 DEF SessionOK, TrialOK, Alike
<1> QED BY Zenon, <1>3, <1>4, <1>5, <1>9, <1>10 DEF Both

\* PolicyContextUpdate: timeouts may differ.
LEMMA ContextUpdateOfBoth ==
    ASSUME NEW s, NEW n \in Nat, SessionOK(s, n), NEW t, TrialOK(t), Alike(s, t),
           NEW e, NEW cp, NEW timeout, NEW other
    PROVE  Both(s, PolicyContextUpdate(s, e, cp, timeout), t, PolicyContextUpdate(t, e, cp, other),
                Append(s.digest, e))
<1>1. PICK u : u = PolicyContextUpdate(s, e, cp, timeout)
  OBVIOUS
<1>2. PICK v : v = PolicyContextUpdate(t, e, cp, other)
  OBVIOUS
<1>3. PICK hash, marked, last :
         /\ hash = (IF cp # {} THEN cp ELSE s.u1) /\ marked = (s.isCpHash \/ cp # {})
         /\ u = [[s EXCEPT !.digest = Append(@, e)] EXCEPT
                    !.u1 = hash, !.isCpHash = marked, !.timeout = last]
  BY Zenon, <1>1 DEF PolicyContextUpdate, Extend, SessionOK
<1>4. PICK mine : v = [[t EXCEPT !.digest = Append(@, e)] EXCEPT
                          !.u1 = hash, !.isCpHash = marked, !.timeout = mine]
  BY Zenon, <1>2, <1>3 DEF PolicyContextUpdate, Extend, TrialOK, Alike
<1>5. u.digest = Append(s.digest, e) /\ TrialOK(v)
  BY <1>3, <1>4 DEF SessionOK, TrialOK
<1>6. Alike(u, v)
  BY <1>3, <1>4 DEF SessionOK, TrialOK, Alike
<1> QED BY <1>1, <1>2, <1>5, <1>6 DEF Both

\* TPM2_PolicySigned and TPM2_PolicySecret.
LEMMA AuthorizationOfBoth ==
    ASSUME NEW s, NEW n \in Nat, SessionOK(s, n), NEW t, TrialOK(t), Alike(s, t),
           NEW e, NEW expiration, NEW nonce, NEW cp,
           WithAuthorization(s, e, expiration, nonce, cp).digest # s.digest
    PROVE  Both(s, WithAuthorization(s, e, expiration, nonce, cp),
                t, WithAuthorization(t, e, expiration, nonce, cp), Append(s.digest, e))
<1>1. s.trial = FALSE /\ t.trial = TRUE
  BY Zenon DEF SessionOK, TrialOK
<1>2. PICK timeout : WithAuthorization(s, e, expiration, nonce, cp)
                     = PolicyContextUpdate(s, e, cp, timeout)
  BY Zenon, <1>1 DEF WithAuthorization
<1>3. WithAuthorization(t, e, expiration, nonce, cp) = PolicyContextUpdate(t, e, cp, 0)
  BY Zenon, <1>1 DEF WithAuthorization
<1> QED BY Zenon, <1>2, <1>3, ContextUpdateOfBoth

\* TPM2_PolicyTicket, where the trial session is given the authorisation itself.
LEMMA TicketOfBoth ==
    ASSUME NEW s, NEW n \in Nat, SessionOK(s, n), NEW t, TrialOK(t), Alike(s, t), NEW k,
           WithTicket(s, k).digest # s.digest
    PROVE  Both(s, WithTicket(s, k), t, WithAuthorization(t, <<k.tag, {k.name}>>, 0, FALSE, k.cp),
                Append(s.digest, TicketElement(k)))
<1>1. t.trial = TRUE
  BY Zenon DEF TrialOK
<1>2. TicketElement(k) = <<k.tag, {k.name}>>
  BY Zenon DEF TicketElement
<1>3. WithTicket(s, k) = PolicyContextUpdate(s, TicketElement(k), k.cp, k.timeout)
  BY DEF WithTicket
<1>4. WithAuthorization(t, <<k.tag, {k.name}>>, 0, FALSE, k.cp)
      = PolicyContextUpdate(t, TicketElement(k), k.cp, 0)
  BY Zenon, <1>1, <1>2 DEF WithAuthorization
<1> QED BY Zenon, <1>3, <1>4, ContextUpdateOfBoth

\* TPM2_PolicyOR: the digest was one of the list.
LEMMA OROfBoth ==
    ASSUME NEW s, NEW n \in Nat, SessionOK(s, n), NEW t, TrialOK(t), Alike(s, t), NEW list,
           WithOR(s, list).digest # s.digest
    PROVE  /\ Both(s, WithOR(s, list), t, WithOR(t, list), << <<"OR", list>> >>)
           /\ s.digest \in list
<1>1. s.trial = FALSE /\ t.trial = TRUE
  BY DEF SessionOK, TrialOK
<1>2. s.digest \in list
  BY <1>1 DEF WithOR
<1>3. PICK d : d = << <<"OR", list>> >>
  BY Zenon
<1>4. PICK u : u = WithOR(s, list)
  OBVIOUS
<1>5. PICK v : v = WithOR(t, list)
  OBVIOUS
<1>6. u = [s EXCEPT !.digest = d] /\ v = [t EXCEPT !.digest = d]
  BY <1>1, <1>2, <1>3, <1>4, <1>5 DEF WithOR
<1>7. u.digest = d /\ TrialOK(v)
  BY <1>6 DEF SessionOK, TrialOK
<1>8. Alike(u, v)
  BY <1>6 DEF SessionOK, TrialOK, Alike
<1> QED BY Zenon, <1>2, <1>3, <1>4, <1>5, <1>7, <1>8 DEF Both

\* TPM2_PolicyAuthorize and TPM2_PolicyAuthorizeNV: the digest was approved.
LEMMA ApprovalOfBoth ==
    ASSUME NEW s, NEW n \in Nat, SessionOK(s, n), NEW t, TrialOK(t), Alike(s, t),
           NEW op, NEW name, NEW policy,
           WithApproval(s, op, name, policy).digest # s.digest
    PROVE  /\ Both(s, WithApproval(s, op, name, policy), t, WithApproval(t, op, name, policy),
                   Append(<<>>, <<op, {name}>>))
           /\ s.digest \in Approved[name]
<1>1. s.trial = FALSE /\ t.trial = TRUE
  BY DEF SessionOK, TrialOK
<1>2. s.digest = policy /\ policy \in Approved[name]
  BY Zenon, <1>1 DEF WithApproval
<1>3. PICK r : r = PolicyDigestClear(s)
  BY Zenon
<1>4. PICK q : q = PolicyDigestClear(t)
  OBVIOUS
<1>5. SessionOK(r, n) /\ r.digest = <<>>
  BY <1>3 DEF PolicyDigestClear, SessionOK
<1>6. TrialOK(q) /\ Alike(r, q)
  BY Zenon, <1>3, <1>4 DEF PolicyDigestClear, SessionOK, TrialOK, Alike
<1>7. /\ WithApproval(s, op, name, policy) = PolicyContextUpdate(r, <<op, {name}>>, {}, 0)
      /\ WithApproval(t, op, name, policy) = PolicyContextUpdate(q, <<op, {name}>>, {}, 0)
  BY <1>1, <1>2, <1>3, <1>4 DEF WithApproval
<1>8. Both(r, WithApproval(s, op, name, policy), q, WithApproval(t, op, name, policy),
           Append(r.digest, <<op, {name}>>))
  BY Zenon, <1>5, <1>6, <1>7, ContextUpdateOfBoth
<1> QED BY <1>2, <1>5, <1>8 DEF Both

-----------------------------------------------------------------------------
(* The digests.                                                            *)
\* A digest that is extended is the old one and the new element.
LEMMA AppendToDigest ==
    ASSUME NEW d, IsSeq(d), NEW e
    PROVE  /\ IsSeq(Append(d, e))
           /\ \A i \in DOMAIN Append(d, e) :
                 (i \in DOMAIN d /\ Append(d, e)[i] = d[i]) \/ Append(d, e)[i] = e
<1>1. PICK S : d \in Seq(S)
  BY DEF IsSeq
<1>2. d \in Seq(S \cup {e}) /\ e \in S \cup {e}
  BY <1>1
<1>3. Append(d, e) \in Seq(S \cup {e})
  BY <1>2
<1>4. \A i \in DOMAIN Append(d, e) :
         (i \in DOMAIN d /\ Append(d, e)[i] = d[i]) \/ Append(d, e)[i] = e
  BY <1>2
<1> QED BY <1>3, <1>4 DEF IsSeq

\* What backs an element is not forgotten before the policy is begun anew.
LEMMA BackedStays ==
    ASSUME claims \subseteq claims', reached \subseteq reached', NEW e, Backed(e)
    PROVE  Backed(e)'
<1>1. CASE e[1] = "OR"
  <2>1. e[2] \cap reached # {}
    BY <1>1 DEF Backed
  <2>2. e[2] \cap reached' # {}
    BY <2>1
  <2> QED BY <1>1, <2>2 DEF Backed
<1>2. CASE e[1] \in {"Authorize", "AuthorizeNV"}
  <2>1. PICK name \in e[2] : Approved[name] \cap reached # {}
    BY <1>2 DEF Backed
  <2>2. Approved[name] \cap reached' # {}
    BY <2>1
  <2> QED BY <1>2, <2>2 DEF Backed
<1>3. CASE e[1] \notin {"OR", "Authorize", "AuthorizeNV"}
  <2>1. PICK cl \in claims : cl.by = e
    BY <1>3 DEF Backed
  <2> QED BY <1>3, <2>1 DEF Backed
<1> QED BY <1>1, <1>2, <1>3

\* A command gives the session and the trial session a digest that is backed.
LEMMA NewDigestKeeps ==
    ASSUME DigestInv, PolicyInv', NEW cl, NEW u, NEW v, Asserted(cl, u, v),
           NEW d, Both(session, u, trial, v, d), IsSeq(d), \A i \in DOMAIN d : Backed(d[i])'
    PROVE  DigestInv'
<1>1. /\ session' = u /\ trial' = v /\ reached' = reached \cup {d} /\ live /\ live' = live
      /\ claims \subseteq claims' /\ u.digest = d
  BY DEF Asserted, Both
<1>2. TrialOK(trial') /\ Alike(session', trial')
  BY Zenon, <1>1 DEF Both
<1>3. \A x \in reached' : IsSeq(x)
  BY ZenonT(40), <1>1 DEF DigestInv
<1>4. ASSUME NEW x \in reached', NEW i \in DOMAIN x
      PROVE  Backed(x[i])'
  <2>1. CASE x \in reached
    <3>1. Backed(x[i])
      BY ZenonT(40), <2>1 DEF DigestInv, DigestBacked
    <3> QED BY Zenon, <1>1, <3>1, BackedStays
  <2>2. CASE x = d
    BY <2>2
  <2> QED BY <1>1, <2>1, <2>2
<1>5. session'.digest \in reached'
  BY Zenon, <1>1
<1>6. DigestBacked'
  BY Zenon, <1>4, <1>5 DEF DigestBacked
<1> QED BY Zenon, <1>1, <1>2, <1>3, <1>6 DEF DigestInv

\* A command that extends the digest by its assertion.
LEMMA ExtensionKeeps ==
    ASSUME DigestInv, PolicyInv', NEW cl, NEW u, NEW v, Asserted(cl, u, v),
           NEW e, e[1] \notin {"OR", "Authorize", "AuthorizeNV"}, cl.by = e,
           Both(session, u, trial, v, Append(session.digest, e))
    PROVE  DigestInv'
<1>1. PICK d : d = Append(session.digest, e)
  BY Zenon
<1>2. IsSeq(session.digest) /\ session.digest \in reached
  BY DEF DigestInv, DigestBacked
<1>3. claims' = claims \cup {cl} /\ reached \subseteq reached'
  BY DEF Asserted
<1>4. Backed(e)'
  BY Zenon, <1>3 DEF Backed
<1>5. ASSUME NEW i \in DOMAIN d
      PROVE  Backed(d[i])'
  <2>1. CASE i \in DOMAIN session.digest /\ d[i] = session.digest[i]
    <3>1. Backed(session.digest[i])
      BY Zenon, <1>2, <2>1 DEF DigestInv, DigestBacked
    <3>2. Backed(d[i])
      BY Zenon, <2>1, <3>1
    <3> QED BY Zenon, <1>3, <3>2, BackedStays
  <2>2. CASE d[i] = e
    BY Zenon, <1>4, <2>2
  <2> QED BY Zenon, <1>1, <1>2, <2>1, <2>2, AppendToDigest
<1>6. IsSeq(d)
  BY <1>1, <1>2, AppendToDigest
<1> QED BY Zenon, <1>1, <1>5, <1>6, NewDigestKeeps

\* A command that replaces the digest by one element that the old digest has earned.
LEMMA ReplacementKeeps ==
    ASSUME DigestInv, PolicyInv', NEW cl, NEW u, NEW v, Asserted(cl, u, v),
           NEW e, Backed(e)', NEW d, d = << e >>, Both(session, u, trial, v, d)
    PROVE  DigestInv'
<1>1. IsSeq(d)
  <2>1. d \in Seq({e})
    OBVIOUS
  <2> QED BY Zenon, <2>1 DEF IsSeq
<1>2. \A i \in DOMAIN d : d[i] = e
  OBVIOUS
<1>3. ASSUME NEW i \in DOMAIN d
      PROVE  Backed(d[i])'
  BY <1>2
<1> QED BY <1>1, <1>3, NewDigestKeeps

\* A session whose policy is begun anew.
LEMMA AnewKeeps ==
    ASSUME PolicyInv', TrialOK(trial'), Alike(session', trial'), ~live' => session' = Gone,
           session'.digest = <<>>, reached' = {<<>>}
    PROVE  DigestInv'
<1>1. IsSeq(<<>>)
  <2>1. <<>> \in Seq({})
    OBVIOUS
  <2> QED BY <2>1 DEF IsSeq
<1>2. DigestBacked'
  BY DEF DigestBacked
<1> QED BY <1>1, <1>2 DEF DigestInv

\* The trial session and the session are reset alike.
LEMMA ResetOfBoth ==
    ASSUME NEW s, NEW n \in Nat, SessionOK(s, n), NEW t, TrialOK(t), time \in Nat
    PROVE  LET r == SessionResetPolicyData(s)
               q == SessionResetPolicyData(t)
           IN  /\ r.digest = <<>> /\ SessionSetStartTime(r).digest = <<>> /\ TrialOK(q)
               /\ Alike(r, q) /\ Alike(SessionSetStartTime(r), q) /\ Alike(Gone, q)
<1>1. PICK r : r = SessionResetPolicyData(s)
  OBVIOUS
<1>2. PICK q : q = SessionResetPolicyData(t)
  OBVIOUS
<1>3. /\ DOMAIN r = DOMAIN s /\ r.digest = <<>> /\ r.code = {} /\ r.locality = {}
      /\ r.u1 = {} /\ r.isCpHash = FALSE
  BY Zenon, <1>1 DEF SessionResetPolicyData, Restrictions, SessionOK
<1>4. r.isTemplate = FALSE /\ r.nvWritten = {}
  BY <1>1 DEF SessionResetPolicyData, Restrictions, SessionOK
<1>5. /\ DOMAIN q = DOMAIN t /\ q.trial = t.trial /\ q.digest = <<>> /\ q.code = {}
      /\ q.locality = {} /\ q.u1 = {} /\ q.isCpHash = FALSE
  BY Zenon, <1>2 DEF SessionResetPolicyData, Restrictions, TrialOK
<1>6. q.isTemplate = FALSE /\ q.nvWritten = {}
  BY Zenon, <1>2 DEF SessionResetPolicyData, Restrictions, TrialOK
<1>7. TrialOK(q)
  BY Zenon, <1>5 DEF TrialOK
<1>8. Alike(r, q)
  BY Zenon, <1>3, <1>4, <1>5, <1>6 DEF Alike
<1>9. PICK w : w = SessionSetStartTime(r)
  OBVIOUS
<1>10. /\ w.digest = r.digest /\ w.code = r.code /\ w.locality = r.locality /\ w.u1 = r.u1
       /\ w.isCpHash = r.isCpHash /\ w.isTemplate = r.isTemplate
       /\ w.nvWritten = r.nvWritten
  BY <1>3, <1>9 DEF SessionSetStartTime, SessionOK
<1>11. Alike(w, q)
  BY Zenon, <1>8, <1>10 DEF Alike
<1>12. Alike(Gone, q)
  BY Zenon, <1>5, <1>6 DEF Alike, Gone, SessionCreate
<1> QED BY <1>1, <1>2, <1>3, <1>7, <1>8, <1>9, <1>10, <1>11, <1>12

\* The invariant is inductive.
LEMMA DigestStep ==
    ASSUME DigestInv, [Next]_vars
    PROVE  DigestInv'
<1> USE PolicyAssumption
<1>0. /\ PolicyInv /\ time \in Nat /\ pcrCounter \in Nat /\ SessionOK(session, pcrCounter)
      /\ \A t \in tickets : TicketOK(t)
      /\ TrialOK(trial) /\ Alike(session, trial) /\ session.digest \in reached
      /\ PolicyInv'
  BY PolicyStep DEF DigestInv, PolicyInv, DigestBacked
<1>1. ASSUME NEW op \in {"Signed", "Secret"}, NEW name, NEW e, NEW nonce, NEW cp, NEW may,
             Authorization(op, name, e, nonce, cp, may)
      PROVE  DigestInv'
  <2>1. PICK el, cl, u, v :
           /\ el = <<op, {name}>> /\ u = WithAuthorization(session, el, e, nonce, cp)
           /\ v = WithAuthorization(trial, el, e, nonce, cp)
           /\ cl = [Claim(el) EXCEPT !.cp = cp, !.until = LastMoment(session, e, nonce)]
           /\ Asserted(cl, u, v)
    BY Zenon, <1>1 DEF Authorization
  <2>2. u.digest # session.digest
    BY <2>1 DEF Asserted
  <2>3. Both(session, u, trial, v, Append(session.digest, el))
    BY <1>0, <2>1, <2>2, AuthorizationOfBoth
  <2>4. cl.by = el
    BY <2>1 DEF Claim
  <2>5. el[1] \notin {"OR", "Authorize", "AuthorizeNV"}
    BY <2>1
  <2> QED BY Zenon, <1>0, <2>1, <2>3, <2>4, <2>5, ExtensionKeeps
<1>2. ASSUME NEW k \in tickets, PolicyTicket(k)
      PROVE  DigestInv'
  <2>1. PICK el, cl, u, v :
           /\ el = TicketElement(k) /\ u = WithTicket(session, k)
           /\ v = WithAuthorization(trial, <<k.tag, {k.name}>>, 0, FALSE, k.cp)
           /\ cl = [Claim(el) EXCEPT !.cp = k.cp, !.until = k.until]
           /\ Asserted(cl, u, v)
    BY Zenon, <1>2 DEF PolicyTicket, Assertion
  <2>2. u.digest # session.digest
    BY <2>1 DEF Asserted
  <2>3. Both(session, u, trial, v, Append(session.digest, el))
    BY Zenon, <1>0, <2>1, <2>2, TicketOfBoth
  <2>4. cl.by = el
    BY <2>1 DEF Claim
  <2>5. el[1] \notin {"OR", "Authorize", "AuthorizeNV"}
    BY <1>0, <2>1 DEF TicketElement, TicketOK
  <2> QED BY Zenon, <1>0, <2>1, <2>3, <2>4, <2>5, ExtensionKeeps
<1>3. ASSUME NEW list, PolicyOR(list)
      PROVE  DigestInv'
  <2>1. PICK el, d, cl, u, v :
           /\ el = <<"OR", list>> /\ d = << el >> /\ u = WithOR(session, list)
           /\ v = WithOR(trial, list) /\ Asserted(cl, u, v)
    BY Zenon, <1>3 DEF PolicyOR, Assertion
  <2>2. u.digest # session.digest
    BY ZenonT(40), <2>1 DEF Asserted
  <2>3. Both(session, u, trial, v, d) /\ session.digest \in list
    BY <1>0, <2>1, <2>2, OROfBoth
  <2>4. session.digest \in reached'
    BY <1>0, <2>1 DEF Asserted
  <2>5. Backed(el)'
    BY <2>1, <2>3, <2>4 DEF Backed
  <2> QED BY <1>0, <2>1, <2>3, <2>5, ReplacementKeeps
<1>4. ASSUME NEW op \in {"Authorize", "AuthorizeNV"}, NEW name, NEW policy, NEW c,
             Assertion(c, WithApproval(session, op, name, policy),
                       WithApproval(trial, op, name, policy))
      PROVE  DigestInv'
  <2>1. PICK el, d, u, v :
           /\ el = <<op, {name}>> /\ d = Append(<<>>, el)
           /\ u = WithApproval(session, op, name, policy)
           /\ v = WithApproval(trial, op, name, policy) /\ Asserted(c, u, v)
    BY Zenon, <1>4 DEF Assertion
  <2>2. u.digest # session.digest
    BY <2>1 DEF Asserted
  <2>3. Both(session, u, trial, v, d) /\ session.digest \in Approved[name]
    BY Zenon, <1>0, <2>1, <2>2, ApprovalOfBoth
  <2>4. session.digest \in reached'
    BY <1>0, <2>1 DEF Asserted
  <2>5. Approved[name] \cap reached' # {}
    BY <2>3, <2>4
  <2>6. Backed(el)'
    BY <2>1, <2>5 DEF Backed
  <2>7. d = << el >>
    BY <2>1
  <2> QED BY Zenon, <1>0, <2>1, <2>3, <2>6, <2>7, ReplacementKeeps
<1>5. ASSUME NEW given, PolicyPCR(given)
      PROVE  DigestInv'
  <2>1. PICK el, cl, u, v :
           /\ el = <<"PCR", {pcrs}>> /\ cl = Claim(el)
           /\ u = WithPCR(session, given)
           /\ v = WithPCR(trial, given)
           /\ Asserted(cl, u, v)
    BY <1>5 DEF PolicyPCR, Assertion
  <2>2. u.digest # session.digest
    BY Zenon, <2>1 DEF Asserted
  <2>3. Both(session, u, trial, v, Append(session.digest, el))
    BY Zenon, <1>0, <2>1, <2>2, PCROfBoth
  <2>4. cl.by = el
    BY <2>1 DEF Claim
  <2>5. el[1] \notin {"OR", "Authorize", "AuthorizeNV"}
    BY Zenon, <2>1
  <2> QED BY Zenon, <1>0, <2>1, <2>3, <2>4, <2>5, ExtensionKeeps
<1>6. ASSUME NEW l, PolicyLocality(l)
      PROVE  DigestInv'
  <2>1. PICK el, cl, u, v :
           /\ el = <<"Locality", l>> /\ cl = Claim(el)
           /\ u = WithLocality(session, l)
           /\ v = WithLocality(trial, l)
           /\ Asserted(cl, u, v)
    BY Zenon, <1>6 DEF PolicyLocality, Assertion
  <2>2. u.digest # session.digest
    BY <2>1 DEF Asserted
  <2>3. Both(session, u, trial, v, Append(session.digest, el))
    BY Zenon, <1>0, <2>1, <2>2, LocalityOfBoth
  <2>4. cl.by = el
    BY <2>1 DEF Claim
  <2>5. el[1] \notin {"OR", "Authorize", "AuthorizeNV"}
    BY Zenon, <2>1
  <2> QED BY <1>0, <2>1, <2>3, <2>4, <2>5, ExtensionKeeps
<1>7. ASSUME NEW code, PolicyCommandCode(code)
      PROVE  DigestInv'
  <2>1. PICK el, cl, u, v :
           /\ el = <<"CommandCode", {code}>> /\ cl = Claim(el)
           /\ u = WithCommandCode(session, code)
           /\ v = WithCommandCode(trial, code)
           /\ Asserted(cl, u, v)
    BY <1>7 DEF PolicyCommandCode, Assertion
  <2>2. u.digest # session.digest
    BY Zenon, <2>1 DEF Asserted
  <2>3. Both(session, u, trial, v, Append(session.digest, el))
    BY <1>0, <2>1, <2>2, CommandCodeOfBoth
  <2>4. cl.by = el
    BY <2>1 DEF Claim
  <2>5. el[1] \notin {"OR", "Authorize", "AuthorizeNV"}
    BY <2>1
  <2> QED BY Zenon, <1>0, <2>1, <2>3, <2>4, <2>5, ExtensionKeeps
<1>8. ASSUME NEW h, PolicyCpHash(h)
      PROVE  DigestInv'
  <2>1. PICK el, cl, u, v :
           /\ el = <<"CpHash", {h}>> /\ cl = [Claim(el) EXCEPT !.cp = {h}]
           /\ u = WithCpHash(session, h)
           /\ v = WithCpHash(trial, h)
           /\ Asserted(cl, u, v)
    BY <1>8 DEF PolicyCpHash, Assertion
  <2>2. u.digest # session.digest
    BY <2>1 DEF Asserted
  <2>3. Both(session, u, trial, v, Append(session.digest, el))
    BY <1>0, <2>1, <2>2, CpHashOfBoth
  <2>4. cl.by = el
    BY <2>1 DEF Claim
  <2>5. el[1] \notin {"OR", "Authorize", "AuthorizeNV"}
    BY <2>1
  <2> QED BY Zenon, <1>0, <2>1, <2>3, <2>4, <2>5, ExtensionKeeps
<1>9. ASSUME NEW h, PolicyNameHash(h)
      PROVE  DigestInv'
  <2>1. PICK el, cl, u, v :
           /\ el = <<"NameHash", {h}>> /\ cl = [Claim(el) EXCEPT !.name = {h}]
           /\ u = WithNameHash(session, h)
           /\ v = WithNameHash(trial, h)
           /\ Asserted(cl, u, v)
    BY <1>9 DEF PolicyNameHash, Assertion
  <2>2. u.digest # session.digest
    BY <2>1 DEF Asserted
  <2>3. Both(session, u, trial, v, Append(session.digest, el))
    BY <1>0, <2>1, <2>2, NameHashOfBoth
  <2>4. cl.by = el
    BY <2>1 DEF Claim
  <2>5. el[1] \notin {"OR", "Authorize", "AuthorizeNV"}
    BY <2>1
  <2> QED BY Zenon, <1>0, <2>1, <2>3, <2>4, <2>5, ExtensionKeeps
<1>10. ASSUME NEW h, PolicyTemplate(h)
      PROVE  DigestInv'
  <2>1. PICK el, cl, u, v :
           /\ el = <<"Template", {h}>> /\ cl = Claim(el)
           /\ u = WithTemplate(session, h)
           /\ v = WithTemplate(trial, h)
           /\ Asserted(cl, u, v)
    BY <1>10 DEF PolicyTemplate, Assertion
  <2>2. u.digest # session.digest
    BY <2>1 DEF Asserted
  <2>3. Both(session, u, trial, v, Append(session.digest, el))
    BY Zenon, <1>0, <2>1, <2>2, TemplateOfBoth
  <2>4. cl.by = el
    BY <2>1 DEF Claim
  <2>5. el[1] \notin {"OR", "Authorize", "AuthorizeNV"}
    BY <2>1
  <2> QED BY Zenon, <1>0, <2>1, <2>3, <2>4, <2>5, ExtensionKeeps
<1>11. ASSUME NEW h, NEW include, PolicyDuplicationSelect(h, include)
      PROVE  DigestInv'
  <2>1. PICK el, cl, u, v :
           /\ el = DuplicationElement(h, include) /\ cl = [Claim(el) EXCEPT !.name = {h}]
           /\ u = WithDuplicationSelect(session, h, include)
           /\ v = WithDuplicationSelect(trial, h, include)
           /\ Asserted(cl, u, v)
    BY <1>11 DEF PolicyDuplicationSelect, Assertion
  <2>2. u.digest # session.digest
    BY <2>1 DEF Asserted
  <2>3. Both(session, u, trial, v, Append(session.digest, el))
    BY <1>0, <2>1, <2>2, DuplicationSelectOfBoth
  <2>4. cl.by = el
    BY <2>1 DEF Claim
  <2>5. el[1] \notin {"OR", "Authorize", "AuthorizeNV"}
    BY <2>1 DEF DuplicationElement
  <2> QED BY Zenon, <1>0, <2>1, <2>3, <2>4, <2>5, ExtensionKeeps
<1>12. ASSUME NEW written, PolicyNvWritten(written)
      PROVE  DigestInv'
  <2>1. PICK el, cl, u, v :
           /\ el = <<"NvWritten", {written}>> /\ cl = Claim(el)
           /\ u = WithNvWritten(session, written)
           /\ v = WithNvWritten(trial, written)
           /\ Asserted(cl, u, v)
    BY Zenon, <1>12 DEF PolicyNvWritten, Assertion
  <2>2. u.digest # session.digest
    BY <2>1 DEF Asserted
  <2>3. Both(session, u, trial, v, Append(session.digest, el))
    BY Zenon, <1>0, <2>1, <2>2, NvWrittenOfBoth
  <2>4. cl.by = el
    BY <2>1 DEF Claim
  <2>5. el[1] \notin {"OR", "Authorize", "AuthorizeNV"}
    BY <2>1
  <2> QED BY Zenon, <1>0, <2>1, <2>3, <2>4, <2>5, ExtensionKeeps
<1>13. ASSUME PolicyPhysicalPresence
      PROVE  DigestInv'
  <2>1. PICK el, cl, u, v :
           /\ el = <<"PhysicalPresence", {}>> /\ cl = Claim(el)
           /\ u = WithPhysicalPresence(session)
           /\ v = WithPhysicalPresence(trial)
           /\ Asserted(cl, u, v)
    BY Zenon, <1>13 DEF PolicyPhysicalPresence, Assertion
  <2>2. u.digest # session.digest
    BY <2>1 DEF Asserted
  <2>3. Both(session, u, trial, v, Append(session.digest, el))
    BY Zenon, <1>0, <2>1, <2>2, PhysicalPresenceOfBoth
  <2>4. cl.by = el
    BY <2>1 DEF Claim
  <2>5. el[1] \notin {"OR", "Authorize", "AuthorizeNV"}
    BY <2>1
  <2> QED BY Zenon, <1>0, <2>1, <2>3, <2>4, <2>5, ExtensionKeeps
<1>14. ASSUME PolicyAuthValue
      PROVE  DigestInv'
  <2>1. PICK el, cl, u, v :
           /\ el = <<"AuthValue", {}>> /\ cl = Claim(el)
           /\ u = WithAuthValue(session, "value")
           /\ v = WithAuthValue(trial, "value")
           /\ Asserted(cl, u, v)
    BY Zenon, <1>14 DEF PolicyAuthValue, Assertion
  <2>2. u.digest # session.digest
    BY <2>1 DEF Asserted
  <2>3. Both(session, u, trial, v, Append(session.digest, el))
    BY Zenon, <1>0, <2>1, <2>2, AuthValueOfBoth
  <2>4. cl.by = el
    BY <2>1 DEF Claim
  <2>5. el[1] \notin {"OR", "Authorize", "AuthorizeNV"}
    BY <2>1
  <2> QED BY Zenon, <1>0, <2>1, <2>3, <2>4, <2>5, ExtensionKeeps
<1>15. ASSUME PolicyPassword
      PROVE  DigestInv'
  <2>1. PICK el, cl, u, v :
           /\ el = <<"AuthValue", {}>> /\ cl = Claim(el)
           /\ u = WithAuthValue(session, "password")
           /\ v = WithAuthValue(trial, "password")
           /\ Asserted(cl, u, v)
    BY Zenon, <1>15 DEF PolicyPassword, Assertion
  <2>2. u.digest # session.digest
    BY <2>1 DEF Asserted
  <2>3. Both(session, u, trial, v, Append(session.digest, el))
    BY Zenon, <1>0, <2>1, <2>2, AuthValueOfBoth
  <2>4. cl.by = el
    BY <2>1 DEF Claim
  <2>5. el[1] \notin {"OR", "Authorize", "AuthorizeNV"}
    BY Zenon, <2>1
  <2> QED BY Zenon, <1>0, <2>1, <2>3, <2>4, <2>5, ExtensionKeeps
<1>16. ASSUME NEW index, NEW b, NEW a, PolicyNV(index, b, a)
      PROVE  DigestInv'
  <2>1. PICK cl, u, v :
           /\ cl = Claim(<<"NV", {<<index>> \o b}>>)
           /\ u = WithComparison(session, "NV", index, b, a)
           /\ v = WithComparison(trial, "NV", index, b, a)
           /\ Asserted(cl, u, v)
    BY Zenon, <1>16 DEF PolicyNV, Assertion
  <2>2. u.digest # session.digest
    BY <2>1 DEF Asserted
  <2>3. PICK arg : arg = {<<index>> \o b}
    BY Zenon
  <2>4. PICK el : el = <<"NV", arg>>
    BY Zenon
  <2>5. Both(session, u, trial, v, Append(session.digest, el))
    BY Zenon, <1>0, <2>1, <2>2, <2>3, <2>4, ComparisonOfBoth
  <2>6. cl = Claim(el)
    BY <2>1, <2>3, <2>4
  <2>7. cl.by = el
    BY <2>6 DEF Claim
  <2>8. el[1] \notin {"OR", "Authorize", "AuthorizeNV"}
    BY <2>4
  <2> QED BY ZenonT(40), <1>0, <2>1, <2>5, <2>7, <2>8, ExtensionKeeps
<1>17. ASSUME NEW b, PolicyCounterTimer(b)
      PROVE  DigestInv'
  <2>1. PICK cl, u, v :
           /\ cl = Claim(<<"CounterTimer", {<<"TIME">> \o b}>>)
           /\ u = WithComparison(session, "CounterTimer", "TIME", b, time)
           /\ v = WithComparison(trial, "CounterTimer", "TIME", b, time)
           /\ Asserted(cl, u, v)
    BY Zenon, <1>17 DEF PolicyCounterTimer, Assertion
  <2>2. u.digest # session.digest
    BY <2>1 DEF Asserted
  <2>3. PICK arg : arg = {<<"TIME">> \o b}
    BY Zenon
  <2>4. PICK el : el = <<"CounterTimer", arg>>
    BY Zenon
  <2>5. Both(session, u, trial, v, Append(session.digest, el))
    BY Zenon, <1>0, <2>1, <2>2, <2>3, <2>4, ComparisonOfBoth
  <2>6. cl = Claim(el)
    BY <2>1, <2>3, <2>4
  <2>7. cl.by = el
    BY <2>6 DEF Claim
  <2>8. el[1] \notin {"OR", "Authorize", "AuthorizeNV"}
    BY Zenon, <2>4
  <2> QED BY Zenon, <1>0, <2>1, <2>5, <2>7, <2>8, ExtensionKeeps
<1>18. ASSUME Immediate
      PROVE  DigestInv'
  BY Zenon, <1>18, <1>1, <1>2, <1>16, <1>17 DEF Immediate, PolicySigned, PolicySecret
<1>19. ASSUME Compound
      PROVE  DigestInv'
  BY Zenon, <1>19, <1>3, <1>4 DEF Compound, PolicyAuthorize, PolicyAuthorizeNV
<1>20. ASSUME Deferred
      PROVE  DigestInv'
  BY <1>20, <1>5, <1>6, <1>7, <1>8, <1>9, <1>10, <1>11, <1>12, <1>13, <1>14, <1>15 DEF Deferred
<1>21. ASSUME NEW continue \in BOOLEAN, UpdateInternalSession(continue)
      PROVE  DigestInv'
  <2>1. /\ trial' = SessionResetPolicyData(trial) /\ reached' = {<<>>} /\ live' = continue
        /\ \/ session' = Gone
           \/ live' /\ session' = SessionSetStartTime(SessionResetPolicyData(session))
    BY Zenon, <1>21 DEF UpdateInternalSession, NewPolicy
  <2>2. Gone.digest = <<>>
    BY Zenon DEF Gone, SessionCreate
  <2>3. TrialOK(trial') /\ Alike(session', trial') /\ session'.digest = <<>>
    BY <1>0, <2>1, <2>2, ResetOfBoth
  <2>4. ~live' => session' = Gone
    BY Zenon, <2>1
  <2> QED BY <1>0, <2>1, <2>3, <2>4, AnewKeeps
<1>22. ASSUME Use
      PROVE  DigestInv'
  BY <1>21, <1>22 DEF Use, Authorize, Encrypt
<1>23. ASSUME PolicyRestart
      PROVE  DigestInv'
  <2>1. /\ trial' = SessionResetPolicyData(trial) /\ reached' = {<<>>} /\ live' /\ live
        /\ session' = SessionResetPolicyData(session)
    BY Zenon, <1>23 DEF PolicyRestart, NewPolicy
  <2>2. TrialOK(trial') /\ Alike(session', trial') /\ session'.digest = <<>>
    BY Zenon, <1>0, <2>1, ResetOfBoth
  <2> QED BY <1>0, <2>1, <2>2, AnewKeeps
<1>24. ASSUME StartAuthSession
      PROVE  DigestInv'
  <2>1. session = Gone
    BY <1>24, Zenon DEF StartAuthSession, DigestInv
  <2>2. live'
    BY <1>24, Zenon DEF StartAuthSession
  <2>3. session' = SessionCreate(FALSE, time)
    BY <1>24 DEF StartAuthSession
  <2>4. trial' = trial /\ claims' = claims /\ reached' = reached
    BY <1>24 DEF StartAuthSession
  <2>5. Alike(session', trial') /\ session'.digest = session.digest
    BY Zenon, <1>0, <2>1, <2>3, <2>4 DEF Alike, Gone, SessionCreate
  <2>6. session'.digest \in reached'
    BY <1>0, <2>4, <2>5
  <2>7. ASSUME NEW d \in reached', NEW i \in DOMAIN d
        PROVE  Backed(d[i])'
    <3>1. Backed(d[i])
      BY <2>4 DEF DigestInv, DigestBacked
    <3> QED BY Zenon, <2>4, <3>1, BackedStays
  <2>8. DigestBacked'
    BY Zenon, <2>6, <2>7 DEF DigestBacked
  <2> QED BY <1>0, <2>2, <2>4, <2>5, <2>8 DEF DigestInv
<1>25. ASSUME UNCHANGED <<live, session, trial, claims, reached>>
      PROVE  DigestInv'
  <2>1. DigestBacked'
    BY <1>25 DEF DigestInv, DigestBacked, Backed
  <2> QED BY <1>0, <1>25, <2>1 DEF DigestInv
<1> QED
  BY <1>18, <1>19, <1>20, <1>22, <1>23, <1>24, <1>25
  DEF Next, Tick, PCRChanged, vars, env

\* The invariant is one of the specification.
LEMMA DigestInvariant == Spec => []DigestInv
<1>1. Init => DigestInv
  <2> SUFFICES ASSUME Init PROVE DigestInv
    OBVIOUS
  <2>1. PolicyInv
    BY PolicyInit
  <2>2. /\ session = Gone /\ trial = SessionCreate(TRUE, 0) /\ reached = {<<>>}
    BY DEF Init
  <2>3. TrialOK(trial) /\ Alike(session, trial) /\ session.digest = <<>>
    BY Zenon, <2>2 DEF TrialOK, Alike, Gone, SessionCreate
  <2>4. IsSeq(<<>>)
    <3>1. <<>> \in Seq({})
      OBVIOUS
    <3> QED BY <3>1 DEF IsSeq
  <2>5. DigestBacked
    BY <2>2, <2>3 DEF DigestBacked
  <2> QED BY Zenon, <2>1, <2>2, <2>3, <2>4, <2>5 DEF DigestInv
<1>2. DigestInv /\ [Next]_vars => DigestInv'
  BY DigestStep
<1> QED BY <1>1, <1>2, PTL DEF Spec

-----------------------------------------------------------------------------
(* The theorems.                                                           *)
\* Every digest that a session has had since its policy was begun is backed by what
\* was asserted in it, so that an authPolicy is met only by a session in which it is
\* true (PolicyContextUpdate, TPM2_PolicyOR, TPM2_PolicyAuthorize).
THEOREM DigestsAreBacked == Spec => []DigestBacked
<1>1. DigestInv => DigestBacked
  BY Zenon DEF DigestInv
<1> QED BY <1>1, DigestInvariant, PTL

\* The digest that a trial session computes, without any check, is the digest of a
\* session that is given the same assertions (the isTrialPolicy branches of the
\* TPM2_Policy...() commands).
THEOREM TrialsAgree == Spec => []TrialAgrees
<1>1. DigestInv => TrialAgrees
  BY DEF DigestInv, Alike, TrialAgrees
<1> QED BY <1>1, DigestInvariant, PTL
=============================================================================
