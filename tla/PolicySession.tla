---------------------------- MODULE PolicySession ----------------------------
(***************************************************************************)
(* A policy session: the assertions that TPM2_Policy...() commands collect *)
(* in it, the restrictions it remembers until it is used, and the check of *)
(* those restrictions when it authorises a command.  A trial session gets  *)
(* the same assertions, as a caller does who computes an authPolicy.       *)
(*                                                                         *)
(* A restriction is the set of the values it admits, empty when there is   *)
(* none (a zero or an empty buffer in the code).  A policy digest is the   *)
(* sequence of what was hashed into it, <<assertion, arguments>> each.     *)
(*                                                                         *)
(* The session lives between two starts of the TPM, so its epoch is the    *)
(* current one.  PCR are those whose changes the TPM counts.               *)
(*                                                                         *)
(* A member of Commands is a command with what surrounds it: its code and  *)
(* the role it is authorised in ("user", or one that asks for a command    *)
(* code); its cpHash, the hash of its names and, if it has one, of its     *)
(* template; whether the entity is an NV index and written; locality and   *)
(* physical presence; whether the caller knows the authValue.              *)
(***************************************************************************)
EXTENDS Integers, Sequences, FiniteSets

CONSTANTS Commands,     \* the commands a session may be used for, see below
          Keys,         \* names of the keys of PolicySigned and PolicyAuthorize
          Secrets,      \* names of the entities of PolicySecret
          PinPass,      \* those of them that are PIN PASS indexes
          Indexes,      \* NV indexes of PolicyNV and PolicyAuthorizeNV
          Approved,     \* the policies that a key has signed or an index holds
          Policies,     \* digests known to callers, from elsewhere
          Hashes,       \* cpHash, nameHash and templateHash values
          CpHashes,     \* those of them that an authorisation may be limited to
          Names,        \* those of them that are hashes of two names
          Codes,        \* codes of implemented commands
          LocalitySets, \* what PolicyLocality may be given
          Expirations,  \* seconds, negative to ask for a ticket
          Comparisons,  \* <<operation, operandB>> of PolicyNV, PolicyCounterTimer
          Operands,     \* what an NV index may hold
          PcrValues,    \* digests of the selected PCR
          Second,       \* units of g_time in a second
          MaxTime, MaxPcrCounter, MaxAssertions, MaxTickets

INT32_MAX == 2147483647

\* INT32_MIN is left out: ComputeAuthTimeout's -expiration overflows on it.
ASSUME PolicyAssumption ==
    /\ Second \in Nat \ {0} /\ MaxTime \in Nat
    /\ Expirations \subseteq -INT32_MAX .. INT32_MAX
    /\ MaxPcrCounter \in Nat /\ MaxAssertions \in Nat /\ MaxTickets \in Nat

VARIABLES live,       \* the session exists
          session,    \* its SESSION structure
          trial,      \* the structure of the trial session
          tickets,    \* tickets that callers were given
          time,       \* g_time
          pcrs,       \* digest of the selected PCR
          pcrCounter, \* gr.pcrCounter
          claims,     \* history: what was asserted since the policy was begun
          reached     \* history: the digests the session has had since then

env == <<time, pcrs, pcrCounter>>
vars == <<live, session, trial, tickets, env, claims, reached>>

-----------------------------------------------------------------------------
(* The session structure.                                                  *)
Restrictions(s, timeout) ==
    [s EXCEPT !.digest = <<>>, !.code = {}, !.locality = {}, !.u1 = {},
              !.isCpHash = FALSE, !.isTemplate = FALSE, !.timeout = timeout,
              !.pcrCounter = 0, !.isPP = FALSE, !.auth = "none", !.nvWritten = {}]

\* Mutant of SessionResetPolicyData: the timeout stays.
SessionResetPolicyDataKeepsTimeout(s) == Restrictions(s, s.timeout)

SessionResetPolicyData(s) == Restrictions(s, 0)

SessionSetStartTime(s) == [s EXCEPT !.start = time, !.timeout = 0]

\* SessionCreate of a policy or trial session.
SessionCreate(isTrial, now) ==
    [trial |-> isTrial, digest |-> <<>>, code |-> {}, locality |-> {},
     u1 |-> {}, isCpHash |-> FALSE, isTemplate |-> FALSE,
     timeout |-> 0, start |-> now, pcrCounter |-> 0,
     isPP |-> FALSE, auth |-> "none", nvWritten |-> {}]

SessionPCRValueIsCurrent(s) == s.pcrCounter \in {0, pcrCounter}

-----------------------------------------------------------------------------
(* Support for policy commands.  A command is a function of the session; a *)
(* command that is refused returns the session it was given.               *)
Extend(s, element) == [s EXCEPT !.digest = Append(@, element)]
PolicyDigestClear(s) == [s EXCEPT !.digest = <<>>]

Abs(n) == IF n < 0 THEN -n ELSE n

\* In seconds from the start of the session if its nonce is given, otherwise in
\* seconds of g_time.  The 64-bit sums do not overflow within 2^63 ms of g_time.
ComputeAuthTimeout(s, expiration, nonce) ==
    IF expiration = 0 THEN 0
    ELSE IF nonce THEN s.start + Abs(expiration) * Second
                  ELSE Abs(expiration) * Second + (time % Second)

PolicyParameterChecks(s, timeout, cp) ==
    /\ timeout # 0 => timeout >= time
    /\ cp # {} /\ s.u1 # {} => cp = s.u1

PolicyContextUpdate(s, element, cp, timeout) ==
    [Extend(s, element) EXCEPT
        !.u1 = IF cp # {} THEN cp ELSE @, !.isCpHash = @ \/ cp # {},
        !.timeout = IF timeout # 0 /\ (@ = 0 \/ @ > timeout) THEN timeout ELSE @]

UnsignedCompareB(a, b) == IF a > b THEN 1 ELSE IF a < b THEN -1 ELSE 0

SignedCompareB(a, b) ==
    LET sign(x) == IF x < 128 THEN 1 ELSE 0
    IN  IF sign(a) # sign(b) THEN sign(a) - sign(b)
        ELSE IF sign(a) = 1 THEN UnsignedCompareB(a, b) ELSE -UnsignedCompareB(a, b)

\* For operands of one byte.
PolicySptCheckCondition(operation, a, b) ==
    LET u == UnsignedCompareB(a, b)
        s == SignedCompareB(a, b)
        bits(x) == {i \in 0..7 : (x \div 2^i) % 2 = 1}
    IN  CASE operation = "EQ"  -> u = 0     [] operation = "NEQ" -> u # 0
          [] operation = "SIGNED_GT" -> s > 0  [] operation = "UNSIGNED_GT" -> u > 0
          [] operation = "SIGNED_LT" -> s < 0  [] operation = "UNSIGNED_LT" -> u < 0
          [] operation = "SIGNED_GE" -> s >= 0 [] operation = "UNSIGNED_GE" -> u >= 0
          [] operation = "SIGNED_LE" -> s <= 0 [] operation = "UNSIGNED_LE" -> u <= 0
          [] operation = "BITSET"   -> bits(b) \subseteq bits(a)
          [] operation = "BITCLEAR" -> bits(b) \cap bits(a) = {}

-----------------------------------------------------------------------------
(* Authorisations by a key, by a secret and by a ticket.                   *)
\* PolicySigned and PolicySecret, up to the output.
WithAuthorization(s, element, expiration, nonce, cp) ==
    LET timeout == IF s.trial THEN 0 ELSE ComputeAuthTimeout(s, expiration, nonce)
    IN  IF s.trial \/ PolicyParameterChecks(s, timeout, cp)
        THEN PolicyContextUpdate(s, element, cp, timeout) ELSE s

\* Mutant of TicketElement: the digest names the command that took the ticket.
TicketElementOwn(t) == <<"Ticket", {t.name}>>

\* A ticket stands for the authorisation it was given for.
TicketElement(t) == <<t.tag, {t.name}>>

WithTicket(s, t) ==
    IF ~s.trial /\ PolicyParameterChecks(s, t.timeout, t.cp)
    THEN PolicyContextUpdate(s, TicketElement(t), t.cp, t.timeout) ELSE s

-----------------------------------------------------------------------------
(* Alternatives and approvals.                                             *)
\* Mutant of WithOR: the current digest need not be in the list.
WithORAny(s, list) == [s EXCEPT !.digest = << <<"OR", list>> >>]

WithOR(s, list) ==
    IF s.trial \/ s.digest \in list
    THEN [s EXCEPT !.digest = << <<"OR", list>> >>] ELSE s

\* PolicyAuthorize, with a ticket for the signature of key; PolicyAuthorizeNV.
WithApproval(s, op, name, policy) ==
    IF s.trial \/ (s.digest = policy /\ policy \in Approved[name])
    THEN PolicyContextUpdate(PolicyDigestClear(s), <<op, {name}>>, {}, 0) ELSE s

-----------------------------------------------------------------------------
(* Restrictions that are checked when the session is used.                 *)
\* Mutant of PcrCheckStands: an earlier check of the PCR may be out of date.
PcrCheckStandsAlways(s) == TRUE

PcrCheckStands(s) == s.pcrCounter # 0 => s.pcrCounter = pcrCounter

\* given is the digest that the caller expects, if there is one.
WithPCR(s, given) ==
    IF s.trial THEN Extend(s, <<"PCR", IF given # {} THEN given ELSE {pcrs}>>)
    ELSE IF PcrCheckStands(s) /\ given \subseteq {pcrs}
         THEN [Extend(s, <<"PCR", {pcrs}>>) EXCEPT !.pcrCounter = pcrCounter] ELSE s

\* A locality above 31 is by itself; normal and extended ones do not mix.
WithLocality(s, l) ==
    LET new == IF s.locality = {} THEN l ELSE s.locality \cap l
    IN  IF new = {} THEN s ELSE [Extend(s, <<"Locality", l>>) EXCEPT !.locality = new]

WithCommandCode(s, code) ==
    IF s.code \subseteq {code}
    THEN [Extend(s, <<"CommandCode", {code}>>) EXCEPT !.code = {code}] ELSE s

WithCpHash(s, h) ==
    IF s.u1 # {} /\ (~s.isCpHash \/ s.u1 # {h}) THEN s
    ELSE [Extend(s, <<"CpHash", {h}>>) EXCEPT !.u1 = {h}, !.isCpHash = TRUE]

WithNameHash(s, h) ==
    IF s.u1 # {} \/ s.isCpHash \/ s.isTemplate THEN s
    ELSE [Extend(s, <<"NameHash", {h}>>) EXCEPT !.u1 = {h}]

WithTemplate(s, h) ==
    IF (IF s.isTemplate THEN s.u1 # {h} ELSE s.u1 # {}) THEN s
    ELSE [Extend(s, <<"Template", {h}>>) EXCEPT !.u1 = {h}, !.isTemplate = TRUE]

\* h is the hash <<"name", object, parent>> of two names; the object's is hashed
\* into the digest if include is set.
DuplicationElement(h, include) ==
    <<"DuplicationSelect", IF include THEN {<<h[2], h[3]>>} ELSE {<<h[3]>>}>>
WithDuplicationSelect(s, h, include) ==
    IF s.u1 # {} \/ s.code # {} THEN s
    ELSE [Extend(s, DuplicationElement(h, include)) EXCEPT !.u1 = {h}, !.code = {"Duplicate"}]

WithNvWritten(s, written) ==
    IF s.nvWritten \subseteq {written}
    THEN [Extend(s, <<"NvWritten", {written}>>) EXCEPT !.nvWritten = {written}] ELSE s

WithPhysicalPresence(s) == [Extend(s, <<"PhysicalPresence", {}>>) EXCEPT !.isPP = TRUE]

\* PolicyAuthValue and PolicyPassword have the same code in the digest.
WithAuthValue(s, auth) == [Extend(s, <<"AuthValue", {}>>) EXCEPT !.auth = auth]

\* PolicyNV and PolicyCounterTimer: a is compared once, now.
WithComparison(s, op, name, comparison, a) ==
    IF s.trial \/ PolicySptCheckCondition(comparison[1], a, comparison[2])
    THEN Extend(s, <<op, {<<name>> \o comparison}>>) ELSE s

-----------------------------------------------------------------------------
(* The commands.                                                           *)
Claim(by) == [by |-> by, cp |-> {}, name |-> {}, until |-> 0]

\* The command succeeds on the session; the caller gives it to the trial session
\* too.
Asserted(claim, s, t) ==
    /\ live /\ Cardinality(reached) <= MaxAssertions
    /\ s.digest # session.digest
    /\ session' = s /\ trial' = t
    /\ claims' = claims \cup {claim} /\ reached' = reached \cup {s.digest}
    /\ UNCHANGED <<live, env>>

Assertion(claim, s, t) == Asserted(claim, s, t) /\ UNCHANGED tickets

\* The last time at which an authorisation for so many seconds is good.
LastMoment(s, expiration, nonce) ==
    CASE expiration = 0 -> 0
      [] expiration # 0 /\ nonce  -> s.start + Abs(expiration) * Second
      [] expiration # 0 /\ ~nonce -> (Abs(expiration) + 1) * Second - 1

\* A ticket is the answer to a negative expiration.
Authorization(op, name, expiration, nonce, cp, mayTicket) ==
    LET element == <<op, {name}>>
        until == LastMoment(session, expiration, nonce)
        gives == expiration < 0 /\ mayTicket
    IN  /\ gives => Cardinality(tickets) < MaxTickets
        /\ Asserted([Claim(element) EXCEPT !.cp = cp, !.until = until],
                    WithAuthorization(session, element, expiration, nonce, cp),
                    WithAuthorization(trial, element, expiration, nonce, cp))
        /\ tickets' = IF ~gives THEN tickets
                      ELSE tickets \cup
                           {[tag |-> op, name |-> name, cp |-> cp, until |-> until,
                             timeout |-> ComputeAuthTimeout(session, expiration, nonce)]}

PolicySigned(key, expiration, nonce, cp) ==
    Authorization("Signed", key, expiration, nonce, cp, TRUE)
PolicySecret(entity, expiration, nonce, cp) ==
    Authorization("Secret", entity, expiration, nonce, cp, entity \notin PinPass)

\* A trial session takes the authorisation that the ticket stands for.
PolicyTicket(t) ==
    Assertion([Claim(TicketElement(t)) EXCEPT !.cp = t.cp, !.until = t.until],
              WithTicket(session, t),
              WithAuthorization(trial, <<t.tag, {t.name}>>, 0, FALSE, t.cp))

PolicyOR(list) ==
    Assertion(Claim(<<"OR", list>>), WithOR(session, list), WithOR(trial, list))
PolicyAuthorize(key, policy) ==
    Assertion(Claim(<<"Authorize", {key}>>), WithApproval(session, "Authorize", key, policy),
              WithApproval(trial, "Authorize", key, policy))
PolicyAuthorizeNV(index, policy) ==
    Assertion(Claim(<<"AuthorizeNV", {index}>>),
              WithApproval(session, "AuthorizeNV", index, policy),
              WithApproval(trial, "AuthorizeNV", index, policy))
PolicyPCR(given) ==
    Assertion(Claim(<<"PCR", {pcrs}>>), WithPCR(session, given), WithPCR(trial, given))
PolicyLocality(l) ==
    Assertion(Claim(<<"Locality", l>>), WithLocality(session, l), WithLocality(trial, l))
PolicyCommandCode(code) ==
    Assertion(Claim(<<"CommandCode", {code}>>), WithCommandCode(session, code),
              WithCommandCode(trial, code))
PolicyCpHash(h) ==
    Assertion([Claim(<<"CpHash", {h}>>) EXCEPT !.cp = {h}],
              WithCpHash(session, h), WithCpHash(trial, h))
PolicyNameHash(h) ==
    Assertion([Claim(<<"NameHash", {h}>>) EXCEPT !.name = {h}],
              WithNameHash(session, h), WithNameHash(trial, h))
PolicyTemplate(h) ==
    Assertion(Claim(<<"Template", {h}>>), WithTemplate(session, h), WithTemplate(trial, h))
PolicyDuplicationSelect(h, include) ==
    Assertion([Claim(DuplicationElement(h, include)) EXCEPT !.name = {h}],
              WithDuplicationSelect(session, h, include),
              WithDuplicationSelect(trial, h, include))
PolicyNvWritten(written) ==
    Assertion(Claim(<<"NvWritten", {written}>>), WithNvWritten(session, written),
              WithNvWritten(trial, written))
PolicyPhysicalPresence ==
    Assertion(Claim(<<"PhysicalPresence", {}>>), WithPhysicalPresence(session),
              WithPhysicalPresence(trial))
PolicyAuthValue ==
    Assertion(Claim(<<"AuthValue", {}>>), WithAuthValue(session, "value"),
              WithAuthValue(trial, "value"))
PolicyPassword ==
    Assertion(Claim(<<"AuthValue", {}>>), WithAuthValue(session, "password"),
              WithAuthValue(trial, "password"))
PolicyNV(index, comparison, a) ==
    Assertion(Claim(<<"NV", {<<index>> \o comparison}>>),
              WithComparison(session, "NV", index, comparison, a),
              WithComparison(trial, "NV", index, comparison, a))
PolicyCounterTimer(comparison) ==
    Assertion(Claim(<<"CounterTimer", {<<"TIME">> \o comparison}>>),
              WithComparison(session, "CounterTimer", "TIME", comparison, time),
              WithComparison(trial, "CounterTimer", "TIME", comparison, time))

-----------------------------------------------------------------------------
(* Using the session.                                                      *)
\* CheckPolicyAuthSession for an entity whose authPolicy is the digest of s, and
\* the check of the password or HMAC that follows in CheckAuthSession.
CheckPolicyAuthSession(s, c) ==
    /\ c.code = "PolicySecret" => s.auth # "none"
    /\ SessionPCRValueIsCurrent(s)
    /\ s.timeout # 0 => s.timeout >= time
    /\ IF s.code # {} THEN c.code \in s.code ELSE c.role = "user"
    /\ s.locality # {} => c.locality \in s.locality
    /\ s.isPP => c.pp
    /\ s.u1 # {} => CASE s.isCpHash -> c.cp \in s.u1
                      [] ~s.isCpHash /\ s.isTemplate -> c.template = s.u1
                      [] OTHER -> c.name \in s.u1
    /\ s.nvWritten # {} => c.index /\ c.written \in s.nvWritten

CheckAuthSession(s, c) == CheckPolicyAuthSession(s, c) /\ (s.auth # "none" => c.knows)

\* What is asserted next belongs to a new policy.
NewPolicy == claims' = {} /\ reached' = {<<>>} /\ UNCHANGED <<tickets, env>>

Gone == SessionCreate(FALSE, 0)

\* UpdateInternalSession; a session that is not continued is flushed.  The caller
\* restarts the trial session.
UpdateInternalSession(continue) ==
    /\ live' = continue
    /\ session' = IF continue THEN SessionSetStartTime(SessionResetPolicyData(session))
                              ELSE Gone
    /\ trial' = SessionResetPolicyData(trial)
    /\ NewPolicy

\* A command is authorised and succeeds.  One that fails leaves the session, as
\* does one that meets the dictionary-attack lockout.
Authorize(continue) ==
    /\ live /\ {c \in Commands : CheckAuthSession(session, c)} # {}
    /\ UpdateInternalSession(continue)

\* The session encrypts the parameters of some command.
Encrypt(continue) == live /\ UpdateInternalSession(continue)

PolicyRestart ==
    /\ live
    /\ session' = SessionResetPolicyData(session)
    /\ trial' = SessionResetPolicyData(trial)
    /\ NewPolicy /\ UNCHANGED live

StartAuthSession ==
    /\ ~live /\ live' = TRUE
    /\ session' = SessionCreate(FALSE, time)
    /\ UNCHANGED <<trial, tickets, env, claims, reached>>

\* Time goes by, and PCR are extended or reset (PCRChanged).
Tick ==
    /\ time < MaxTime /\ time' = time + 1
    /\ UNCHANGED <<live, session, trial, tickets, pcrs, pcrCounter, claims, reached>>
PCRChanged(v) ==
    /\ pcrCounter < MaxPcrCounter /\ pcrCounter' = pcrCounter + 1 /\ pcrs' = v
    /\ UNCHANGED <<live, session, trial, tickets, time, claims, reached>>

-----------------------------------------------------------------------------
Init ==
    /\ live = FALSE /\ session = Gone /\ trial = SessionCreate(TRUE, 0)
    /\ tickets = {} /\ time = 0 /\ pcrs \in PcrValues /\ pcrCounter = 1
    /\ claims = {} /\ reached = {<<>>}

KnownPolicies == Policies \cup {session.digest}

Immediate ==
    \/ \E e \in Expirations, nonce \in BOOLEAN, cp \in {{}} \cup {{h} : h \in CpHashes} :
          \/ \E key \in Keys : PolicySigned(key, e, nonce, cp)
          \/ \E entity \in Secrets : PolicySecret(entity, e, nonce, cp)
    \/ \E t \in tickets : PolicyTicket(t)
    \/ \E index \in Indexes, b \in Comparisons, a \in Operands : PolicyNV(index, b, a)
    \/ \E b \in Comparisons : PolicyCounterTimer(b)
Compound ==
    \/ \E d1, d2 \in KnownPolicies : PolicyOR({d1, d2})
    \/ \E d \in KnownPolicies : \/ \E key \in Keys : PolicyAuthorize(key, d)
                                 \/ \E index \in Indexes : PolicyAuthorizeNV(index, d)
Deferred ==
    \/ \E given \in {{}} \cup {{v} : v \in PcrValues} : PolicyPCR(given)
    \/ \E l \in LocalitySets : PolicyLocality(l)
    \/ \E code \in Codes : PolicyCommandCode(code)
    \/ \E h \in Hashes : PolicyCpHash(h) \/ PolicyNameHash(h) \/ PolicyTemplate(h)
    \/ \E h \in Names, include \in BOOLEAN : PolicyDuplicationSelect(h, include)
    \/ \E written \in BOOLEAN : PolicyNvWritten(written)
    \/ PolicyPhysicalPresence \/ PolicyAuthValue \/ PolicyPassword
Use == \E continue \in BOOLEAN : Encrypt(continue) \/ Authorize(continue)

Next == \/ Immediate \/ Compound \/ Deferred \/ Use
        \/ PolicyRestart \/ StartAuthSession
        \/ Tick \/ \E v \in PcrValues : PCRChanged(v)

Spec == Init /\ [][Next]_vars

-----------------------------------------------------------------------------
(* Properties.                                                             *)
\* The flags and the shared hash u1 of a session agree: it is a cpHash or a
\* template hash only if it is set, and every restriction has one meaning
\* (PolicyContextUpdate, SessionResetPolicyData).
TypeOK ==
    /\ live \in BOOLEAN /\ time \in Nat /\ pcrCounter \in Nat \ {0}
    /\ \A s \in {session, trial} :
          /\ s.isCpHash \/ s.isTemplate => s.u1 # {}
          /\ s.auth \in {"none", "value", "password"}
          /\ s.timeout \in Nat /\ s.start \in Nat /\ s.pcrCounter \in 0..pcrCounter
    /\ ~session.trial /\ trial.trial

\* What an assertion asks of the use of the session, here and now.
Holds(cl, c) ==
    LET op == cl.by[1]
        arg == cl.by[2]
    IN  /\ op = "CommandCode" => c.code \in arg
        /\ op = "DuplicationSelect" => c.code = "Duplicate"
        /\ op = "Locality" => c.locality \in arg
        /\ op = "PCR" => pcrs \in arg
        /\ op = "PhysicalPresence" => c.pp
        /\ op = "Template" => c.template = arg
        /\ op = "NvWritten" => c.index /\ c.written \in arg
        /\ op = "AuthValue" => c.knows
        /\ cl.cp # {} => c.cp \in cl.cp
        /\ cl.name # {} => c.name \in cl.name
        /\ cl.until # 0 => time <= cl.until

\* A nameHash or a templateHash that is the cpHash of a command is a mistake of the
\* caller's: the name or template is then unknown, and PolicyParameterChecks takes
\* an authorisation for that very cpHash.
Meant(cl) ==
    LET hash == cl.name \cup (IF cl.by[1] = "Template" THEN cl.by[2] ELSE {})
    IN  \A c \in Commands : c.cp \notin hash

\* Whenever the session would authorise a command, everything that was asserted
\* since its policy was begun holds there and then: no later assertion relaxes an
\* earlier one, although cpHash, nameHash and template hash share a buffer,
\* although a timeout may be replaced and although the PCR are not read again
\* (CheckPolicyAuthSession against TPM2_Policy...()).
AssertionsEnforced ==
    live => \A cl \in claims : Meant(cl) =>
               \A c \in Commands : CheckAuthSession(session, c) => Holds(cl, c)

\* A session asks for nothing but what was asserted since its policy was begun: if
\* all of it holds, with a second to spare, and no PCR was touched, an ordinary
\* command is authorised (SessionResetPolicyData forgets the last policy).
NothingElseAsked ==
    \A c \in Commands :
       (/\ live /\ SessionPCRValueIsCurrent(session)
        /\ c.role = "user" /\ c.code # "PolicySecret"
        /\ \A cl \in claims : Holds(cl, c) /\ (cl.until # 0 => time + Second <= cl.until))
       => CheckAuthSession(session, c)

\* What a digest names was asserted in this session; for an alternative, one of
\* its branches was reached, and for an approval, a policy that was approved
\* (TPM2_PolicyOR, TPM2_PolicyAuthorize, TPM2_PolicyAuthorizeNV).
Backed(e) ==
    CASE e[1] = "OR" -> e[2] \cap reached # {}
      [] e[1] \in {"Authorize", "AuthorizeNV"} ->
            \E name \in e[2] : Approved[name] \cap reached # {}
      [] OTHER -> \E cl \in claims : cl.by = e

\* Every digest that the session has is backed by what happened in it, so that an
\* authPolicy is met only by a session in which it is true.
DigestBacked ==
    /\ session.digest \in reached
    /\ \A d \in reached : \A i \in DOMAIN d : Backed(d[i])

\* The digest of a trial session that is given the same assertions is the digest of
\* the session: what is computed without checks is what a session will have.
TrialAgrees == live => trial.digest = session.digest
=============================================================================
