----------------------------- MODULE ClientKeys -----------------------------
(***************************************************************************)
(* The client package: keys that are cached in the TPM (NewCachedKey),     *)
(* sealing and unsealing of data, quotes, imported secrets and signing     *)
(* keys, and the sessions these calls authorise their commands with.       *)
(*                                                                         *)
(* A call of the package is a sequence of TPM commands.  Other callers'    *)
(* commands, and extensions and resets of PCRs, may come between any two   *)
(* of them; each command is one step, with the Go code up to the next      *)
(* command.  `defer' is a call's stack of deferred FlushContext and Close  *)
(* calls.  The PCRs are one bank; ReadPCRs reads at most Batch of them     *)
(* with a command.                                                         *)
(*                                                                         *)
(* The TPM has a few slots for transient objects and for sessions (three   *)
(* of each in the simulator).  A policy digest is what was hashed into it: *)
(* the number of PolicySecret commands and the PCR values of each          *)
(* PolicyPCR.                                                              *)
(***************************************************************************)
EXTENDS Integers, FiniteSets, Sequences, SequencesExt, TLC

CONSTANTS
    Callers,      \* who calls the package
    Pcrs,         \* the PCRs of the bank, as their numbers
    Resettable,   \* the PCRs that can be reset (16 and 23)
    Uncounted,    \* the PCRs whose changes do not move the TPM's PCR update counter
    Batch,        \* NumPCRs read by a command: 8
    MaxValue,     \* a bound on how often a PCR is extended since it was reset
    Certified,    \* the options of Unseal: the PCRs to certify, and expected values
    SealTo,       \* the options of Seal: the current PCRs, and the target values
    Quoted,       \* the selections that are quoted
    ImportBlobs,  \* what a server sends: the PCR values it asks for, and whether it is intact
    Roles         \* what each caller calls, the keys there are from before, the TPM's slots,
                  \* and how often PCRs change and data is sealed

VARIABLES
    pcr,          \* the values of the PCRs: the extensions since the reset
    counter,      \* gr.pcrCounter
    changes,      \* how often a PCR was changed: at most role.changes
    objects,      \* transient objects by slot
    sessions,     \* sessions by slot: secrets, PCR checks, and the counter of the checks
    persistent,   \* the template of the key at each template's cached handle
    key,          \* each caller's open Key
    signing,      \* the imported signing Key, which the callers share
    signerMutex,  \* its holder
    blobs,        \* the SealedBytes that Seal returned
    truth,        \* the PCRs when each sealed object was created
    call,         \* each caller's call in progress, or what its last one returned
    role,
    lost          \* history: EK sessions that NewCachedKey left open when it failed

vars == <<pcr, counter, changes, objects, sessions, persistent, key, signing,
          signerMutex, blobs, truth, call, role, lost>>
measured == <<pcr, counter, changes>>
keys == <<key, signing, signerMutex>>
sealed == <<blobs, truth>>

None == "none"
NoKey == [template |-> None]
Vacant == [kind |-> None]
NoPolicy == [secrets |-> 0, pcrs |-> <<>>]
EkPolicy == [secrets |-> 1, pcrs |-> <<>>]

\* PCRSessionAuth: the policy digest for PCRs with these values; without any,
\* the object is used with its empty password.
PCRSessionAuth(values) ==
    IF DOMAIN values = {} THEN NoPolicy ELSE [secrets |-> 0, pcrs |-> <<values>>]

Read(S) == [p \in S |-> pcr[p]]

\* CheckSubset: the values are among those of the other set.
CheckSubset(values, others) ==
    \A p \in DOMAIN values : p \in DOMAIN others /\ values[p] = others[p]

-----------------------------------------------------------------------------
(* The TPM's commands.                                                     *)

Free(slots) == {h \in DOMAIN slots : slots[h] = Vacant}
Slot(slots) == CHOOSE h \in Free(slots) : \A g \in Free(slots) : h <= g
Put(slots, x) == [slots EXCEPT ![Slot(slots)] = x]

NewSession == [kind |-> "session", secrets |-> 0, pcrs |-> <<>>, counter |-> 0]

\* A digest with this many assertions is no object's policy, and remains so.
Enough == 2

\* PolicyPCR is refused once PCRs have changed since the session's last check.
PolicyPCRPasses(s) == sessions[s].counter \in {0, counter}
PolicyPCR(s, sel) ==
    [sessions EXCEPT ![s] =
        [@ EXCEPT !.pcrs = IF Len(@) < Enough THEN Append(@, Read(sel)) ELSE @, !.counter = counter]]

PolicySecret(s) == [sessions EXCEPT ![s].secrets = IF @ < Enough THEN @ + 1 ELSE @]

\* The check of a policy session when it authorises a command.
Satisfies(s, policy) ==
    /\ sessions[s].secrets = policy.secrets
    /\ sessions[s].pcrs = policy.pcrs
    /\ sessions[s].counter \in {0, counter}

\* AttrContinueSession: after a command that succeeded the session is as new.
\* A command that fails leaves it as it was.
Renewed(s) == [sessions EXCEPT ![s] = NewSession]

\* An object that asks for no policy is used with its empty password (session 0).
Authorised(s, policy) == IF s = 0 THEN policy = NoPolicy ELSE Satisfies(s, policy)
AfterUse(s) == IF s = 0 THEN sessions ELSE Renewed(s)

Flushed(what) ==
    /\ objects' = IF what[1] = "object" THEN [objects EXCEPT ![what[2]] = Vacant] ELSE objects
    /\ sessions' = IF what[1] = "session" THEN [sessions EXCEPT ![what[2]] = Vacant] ELSE sessions

-----------------------------------------------------------------------------
(* Calls.                                                                  *)

Idle(c) == call[c].at = "idle"
At(c, op, at) == call[c].op = op /\ call[c].at = at
May(c, op) == Idle(c) /\ op \in role.calls[c]

\* A call begins; `seen' gathers the states the PCRs are in until it returns.
Fresh(op) ==
    [op |-> op, defer |-> <<>>, obj |-> 0, ses |-> 0,
     seen |-> {pcr}, changed |-> FALSE, starved |-> FALSE]
Ended(op, ok, starved) ==
    [op |-> op, at |-> "idle", defer |-> <<>>, ok |-> ok, starved |-> starved]
Begin(c, fields) == call' = [call EXCEPT ![c] = fields]
Go(c, fields) == call' = [call EXCEPT ![c] = fields @@ @]

\* The call returns once its deferred commands are done; what is left of it
\* then is its outcome.
Outcome == {"op", "at", "defer", "ok", "starved"}
Return(c, result, defer) ==
    call' = [call EXCEPT ![c] =
        LET r == result @@ [defer |-> defer] @@ @
        IN  IF defer = <<>> THEN [f \in Outcome |-> IF f = "at" THEN "idle" ELSE r[f]]
            ELSE [r EXCEPT !.at = "unwind"]]

Fail(c, defer) == Return(c, [ok |-> FALSE], defer)
Starve(c, defer) == Return(c, [ok |-> FALSE, starved |-> TRUE], defer)

\* Deferred Close and FlushContext calls, the last one first.
Unwind(c) ==
    /\ call[c].at = "unwind"
    /\ Flushed(Head(call[c].defer))
    /\ Return(c, [ok |-> call[c].ok], Tail(call[c].defer))
    /\ UNCHANGED <<measured, persistent, keys, sealed, role, lost>>

-----------------------------------------------------------------------------
(* NewCachedKey and Close.                                                 *)

\* The key is ready: finish starts an EK's session first.
Opened(c, t, s) == key' = [key EXCEPT ![c] = [template |-> t, ses |-> s]]

NewCachedKey(c) ==
    LET t == role.template[c]
        start == Fresh("NewCachedKey") @@ [template |-> t]
    IN
    /\ May(c, "NewCachedKey") /\ key[c] = NoKey
    /\ \/ /\ persistent[t] = t /\ t # "ek"
          /\ Opened(c, t, 0)
          /\ Begin(c, Ended("NewCachedKey", TRUE, FALSE))
       \/ /\ persistent[t] # t \/ t = "ek"
          /\ Begin(c, start @@ [at |-> CASE persistent[t] = t -> "finish"
                                         [] persistent[t] = None -> "create"
                                         [] OTHER -> "evict"])
          /\ UNCHANGED key
    /\ UNCHANGED <<measured, objects, sessions, persistent, signing, signerMutex, sealed, role, lost>>

\* Kick out the old cached key.  EvictControl fails when somebody else has done so,
\* or for a reason of the TPM's own (the owner's authorization).
EvictOther(c) ==
    LET t == call[c].template IN
    /\ At(c, "NewCachedKey", "evict")
    /\ \/ Fail(c, <<>>) /\ UNCHANGED persistent
       \/ /\ persistent[t] # None
          /\ persistent' = [persistent EXCEPT ![t] = None]
          /\ Go(c, [at |-> "create"])
    /\ UNCHANGED <<measured, objects, sessions, keys, sealed, role, lost>>

\* NewKey's CreatePrimary.
CreatePrimary(c) ==
    LET t == call[c].template IN
    /\ At(c, "NewCachedKey", "create")
    /\ \/ Free(objects) = {} /\ Starve(c, <<>>) /\ UNCHANGED objects
       \/ /\ Free(objects) # {}
          /\ objects' = Put(objects, [kind |-> "primary"])
          /\ Go(c, [obj |-> Slot(objects), at |-> IF t = "ek" THEN "finish" ELSE "persist"])
    /\ UNCHANGED <<measured, sessions, persistent, keys, sealed, role, lost>>

\* Mutant of NewEKSession: NewKey does not flush the object when finish fails.
NewEKSessionOrNothing(c) ==
    LET t == call[c].template
        o == call[c].obj IN
    /\ At(c, "NewCachedKey", "finish")
    /\ \/ /\ Free(sessions) = {}
          /\ Starve(c, <<>>)
          /\ UNCHANGED <<sessions, key>>
       \/ /\ Free(sessions) # {}
          /\ sessions' = Put(sessions, NewSession)
          /\ \/ o = 0 /\ Opened(c, t, Slot(sessions)) /\ Return(c, [ok |-> TRUE], <<>>)
             \/ o # 0 /\ Go(c, [ses |-> Slot(sessions), at |-> "persist"]) /\ UNCHANGED key
    /\ UNCHANGED <<measured, objects, persistent, signing, signerMutex, sealed, role, lost>>

\* finish: NewEKSession.  NewKey flushes its object when that fails.
NewEKSession(c) ==
    LET t == call[c].template
        o == call[c].obj IN
    /\ At(c, "NewCachedKey", "finish")
    /\ \/ /\ Free(sessions) = {}
          /\ Starve(c, IF o = 0 THEN <<>> ELSE << <<"object", o>> >>)
          /\ UNCHANGED <<sessions, key>>
       \/ /\ Free(sessions) # {}
          /\ sessions' = Put(sessions, NewSession)
          /\ \/ o = 0 /\ Opened(c, t, Slot(sessions)) /\ Return(c, [ok |-> TRUE], <<>>)
             \/ o # 0 /\ Go(c, [ses |-> Slot(sessions), at |-> "persist"]) /\ UNCHANGED key
    /\ UNCHANGED <<measured, objects, persistent, signing, signerMutex, sealed, role, lost>>

\* EvictControl to the cached handle, which fails when somebody else's key is there,
\* and also for want of NV space or of the owner's authorization.  The transient object
\* is flushed either way; the session of an EK is not closed when it fails.
Persist(c) ==
    LET t == call[c].template
        s == call[c].ses
        flush == << <<"object", call[c].obj>> >> IN
    /\ At(c, "NewCachedKey", "persist")
    /\ \/ /\ Fail(c, flush)
          /\ lost' = IF s = 0 THEN lost ELSE lost \cup {s}
          /\ UNCHANGED <<persistent, key>>
       \/ /\ persistent[t] = None
          /\ persistent' = [persistent EXCEPT ![t] = t]
          /\ Opened(c, t, s)
          /\ Return(c, [ok |-> TRUE], flush)
          /\ UNCHANGED lost
    /\ UNCHANGED <<measured, objects, sessions, signing, signerMutex, sealed, role>>

\* Close of a cached key: flushing its persistent handle does nothing.
Close(c) ==
    /\ May(c, "Close") /\ key[c] # NoKey
    /\ LET s == key[c].ses
           defer == << <<"session", s>> >>
       IN  Begin(c, IF s = 0 THEN Ended("Close", TRUE, FALSE)
                    ELSE [defer |-> defer] @@ Fresh("Close") @@ [ok |-> TRUE, at |-> "unwind"])
    /\ key' = [key EXCEPT ![c] = NoKey]
    /\ UNCHANGED <<measured, objects, sessions, persistent, signing, signerMutex, sealed, role, lost>>

-----------------------------------------------------------------------------
(* Seal.                                                                   *)

\* The next PCRs that one command reads.
Chunk(todo) ==
    CHOOSE S \in SUBSET todo :
        /\ Cardinality(S) = IF Cardinality(todo) < Batch THEN Cardinality(todo) ELSE Batch
        /\ \A p \in S, q \in todo \ S : p < q

\* ReadPCRs, called by mergePCRSelAndProto ("merge"), sealHelper and Quote ("reread").
ReadPCRs(c) ==
    /\ call[c].at \in {"merge", "reread"} /\ call[c].todo # {}
    /\ LET S == Chunk(call[c].todo)
       IN  Go(c, [todo |-> call[c].todo \ S, vals |-> Read(S) @@ call[c].vals])
    /\ UNCHANGED <<measured, objects, sessions, persistent, keys, sealed, role, lost>>

\* Mutant of Merge: the given values are lost when PCRs are selected too.
MergeLosesValues(sel, expected) ==
    [todo |-> sel, vals |-> IF sel = {} THEN expected ELSE <<>>]

\* mergePCRSelAndProto: the values of `expected', and the current ones of the
\* selected PCRs, unless the two are of different banks or overlap.
Merge(sel, expected) == [todo |-> sel, vals |-> expected]
Unmergeable(o) ==
    /\ o.sel # {} /\ DOMAIN o.target # {}
    /\ o.otherBank \/ o.sel \cap DOMAIN o.target # {}

Sealing == {c \in Callers : call[c].op = "Seal" /\ call[c].at = "merge"}

Seal(c, o) ==
    /\ May(c, "Seal") /\ key[c].template = "srk"
    /\ Len(truth) + Cardinality(Sealing) < role.seals
    /\ LET start == Fresh("Seal") @@ [opts |-> o]
       IN  Begin(c, IF Unmergeable(o)
                    THEN Ended("Seal", FALSE, FALSE)
                    ELSE start @@ Merge(o.sel, o.target) @@ [at |-> "merge"])
    /\ UNCHANGED <<measured, objects, sessions, persistent, keys, sealed, role, lost>>

\* sealHelper's CreateKeyWithSensitive, which needs a slot while it runs.  The
\* TPM signs off the PCRs of this moment as the creation data.
CreateSealed(c) ==
    /\ At(c, "Seal", "merge") /\ call[c].todo = {}
    /\ \/ Free(objects) = {} /\ Starve(c, <<>>) /\ UNCHANGED truth
       \/ /\ Free(objects) # {}
          /\ truth' = Append(truth, [pcrs |-> pcr, opts |-> call[c].opts, seen |-> call[c].seen])
          /\ Go(c, [at |-> "reread", todo |-> Pcrs, vals |-> <<>>, id |-> Len(truth) + 1,
                    snap |-> [creation |-> pcr, sealedTo |-> call[c].vals]])
    /\ UNCHANGED <<measured, objects, sessions, persistent, keys, blobs, role, lost>>

\* The PCRs read after sealing are certified if they are the ones of the
\* creation data.
SealedBytes(c) ==
    [id |-> call[c].id, pcrs |-> DOMAIN call[c].snap.sealedTo,
     policy |-> PCRSessionAuth(call[c].snap.sealedTo), creation |-> call[c].snap.creation,
     ticket |-> <<call[c].id, call[c].snap.creation>>, certified |-> call[c].vals]

SealReturns(c) ==
    /\ At(c, "Seal", "reread") /\ call[c].todo = {}
    /\ \/ call[c].vals # call[c].snap.creation /\ Fail(c, <<>>) /\ UNCHANGED blobs
       \/ /\ call[c].vals = call[c].snap.creation
          /\ blobs' = blobs \cup {SealedBytes(c)}
          /\ Return(c, [ok |-> TRUE], <<>>)
    /\ UNCHANGED <<measured, objects, sessions, persistent, keys, truth, role, lost>>

-----------------------------------------------------------------------------
(* Unseal, and the use of an object under a PCR policy that it shares with *)
(* Import.                                                                 *)

\* What a caller may hand to Unseal: what Seal returned, or damaged in storage:
\* other certified values, or the certification of another blob.
Handed ==
    blobs \cup {[b EXCEPT !.certified = f] : b \in blobs, f \in {a.certified : a \in blobs} \cup {pcr}}
          \cup {[b EXCEPT !.certified = a.certified, !.creation = a.creation, !.ticket = a.ticket] :
                   b \in blobs, a \in blobs}

\* NewPCRSession starts no session for an empty selection.
Then(b) == IF b.pcrs = {} THEN "use" ELSE "session"

\* Load; then the PCRs to certify are gathered.
Unseal(c, b, o) ==
    LET start == Fresh("Unseal") @@ [blob |-> b, opts |-> o, vals |-> <<>>]
        flush == << <<"object", Slot(objects)>> >>
        certify == o.sel # {} \/ DOMAIN o.target # {}
    IN
    /\ May(c, "Unseal") /\ key[c].template = "srk"
    /\ \/ /\ Free(objects) = {}
          /\ Begin(c, Ended("Unseal", FALSE, TRUE))
          /\ UNCHANGED objects
       \/ /\ Free(objects) # {}
          /\ objects' = Put(objects, [kind |-> "sealed", policy |-> b.policy])
          /\ Begin(c, [obj |-> Slot(objects), defer |-> flush] @@
                (IF Unmergeable(o) THEN [at |-> "unwind", ok |-> FALSE]
                 ELSE IF certify THEN Merge(o.sel, o.target) @@ [at |-> "merge"]
                 ELSE [at |-> Then(b)]) @@ start)
    /\ UNCHANGED <<measured, sessions, persistent, keys, sealed, role, lost>>

\* CheckSubset, CertifyCreation, and the certified values against the
\* creation data that the ticket vouches for.
CertifyCreation(c) ==
    LET b == call[c].blob IN
    /\ At(c, "Unseal", "merge") /\ call[c].todo = {}
    /\ IF /\ CheckSubset(call[c].vals, b.certified)
          /\ b.ticket = <<b.id, b.creation>>
          /\ b.certified = b.creation
       THEN Go(c, [at |-> Then(b)])
       ELSE Fail(c, call[c].defer)
    /\ UNCHANGED <<measured, objects, sessions, persistent, keys, sealed, role, lost>>

\* NewPCRSession of Unseal and Import.
NewPCRSession(c) ==
    /\ call[c].op \in {"Unseal", "Import"} /\ call[c].at = "session"
    /\ \/ Free(sessions) = {} /\ Starve(c, call[c].defer) /\ UNCHANGED sessions
       \/ /\ Free(sessions) # {}
          /\ sessions' = Put(sessions, NewSession)
          /\ Go(c, [ses |-> Slot(sessions), at |-> "policy",
                    defer |-> << <<"session", Slot(sessions)>> >> \o call[c].defer])
    /\ UNCHANGED <<measured, objects, persistent, keys, sealed, role, lost>>

\* PCRSession.Auth, before the object is used; the new session has no earlier check.
PCRSessionAuthorises(c) ==
    LET s == call[c].ses IN
    /\ call[c].op \in {"Unseal", "Import"} /\ call[c].at = "policy"
    /\ PolicyPCRPasses(s)
    /\ sessions' = PolicyPCR(s, call[c].blob.pcrs)
    /\ Go(c, [at |-> "use"])
    /\ UNCHANGED <<measured, objects, persistent, keys, sealed, role, lost>>

UnsealWithSession(c) ==
    LET s == call[c].ses IN
    /\ call[c].op \in {"Unseal", "Import"} /\ call[c].at = "use"
    /\ \/ /\ ~Authorised(s, objects[call[c].obj].policy)
          /\ Fail(c, call[c].defer)
          /\ UNCHANGED sessions
       \/ /\ Authorised(s, objects[call[c].obj].policy)
          /\ sessions' = AfterUse(s)
          /\ Return(c, [ok |-> TRUE, when |-> pcr], call[c].defer)
    /\ UNCHANGED <<measured, objects, persistent, keys, sealed, role, lost>>

-----------------------------------------------------------------------------
(* Quote.                                                                  *)

QuoteRaw(c, sel) ==
    /\ May(c, "Quote") /\ key[c].template = "ak"
    /\ Begin(c, Fresh("Quote") @@ [at |-> "reread", todo |-> sel, vals |-> <<>>, snap |-> Read(sel)])
    /\ UNCHANGED <<measured, objects, sessions, persistent, keys, sealed, role, lost>>

\* Mutant of QuoteReturns: the quote is returned without verifying it.
QuoteUnverified(c) ==
    /\ At(c, "Quote", "reread") /\ call[c].todo = {}
    /\ Return(c, [ok |-> TRUE], <<>>)
    /\ UNCHANGED <<measured, objects, sessions, persistent, keys, sealed, role, lost>>

\* VerifyQuote: the PCRs that were read are the ones that were signed.
QuoteReturns(c) ==
    /\ At(c, "Quote", "reread") /\ call[c].todo = {}
    /\ Return(c, [ok |-> call[c].vals = call[c].snap], <<>>)
    /\ UNCHANGED <<measured, objects, sessions, persistent, keys, sealed, role, lost>>

-----------------------------------------------------------------------------
(* Import and ImportSigningKey, under an EK and its session.               *)

Importing == \E c \in Callers : call[c].op = "ImportSigningKey" /\ call[c].at # "idle"

\* loadHandle's first EKSession.Auth.
Import(c, op, b) ==
    LET s == key[c].ses IN
    /\ May(c, op) /\ key[c].template = "ek"
    /\ op = "ImportSigningKey" => signing = NoKey /\ ~Importing
    /\ Begin(c, Fresh(op) @@ [at |-> "import", stale |-> sessions[s] # NewSession,
                              blob |-> [pcrs |-> DOMAIN b.values] @@ b])
    /\ sessions' = PolicySecret(s)
    /\ UNCHANGED <<measured, objects, persistent, keys, sealed, role, lost>>

\* tpm2.Import
ImportDuplicate(c) ==
    LET s == key[c].ses IN
    /\ call[c].at = "import"
    /\ \/ ~(Satisfies(s, EkPolicy) /\ call[c].blob.good) /\ Fail(c, <<>>) /\ UNCHANGED sessions
       \/ /\ Satisfies(s, EkPolicy) /\ call[c].blob.good
          /\ sessions' = Renewed(s)
          /\ Go(c, [at |-> "again"])
    /\ UNCHANGED <<measured, objects, persistent, keys, sealed, role, lost>>

\* loadHandle's second Auth.
EKSessionAuth(c) ==
    /\ call[c].at = "again"
    /\ sessions' = PolicySecret(key[c].ses)
    /\ Go(c, [at |-> "load"])
    /\ UNCHANGED <<measured, objects, persistent, keys, sealed, role, lost>>

\* LoadUsingAuth.  Import defers the flush of the object.  ImportSigningKey
\* without PCRs needs no session for its key.
LoadUsingAuth(c) ==
    LET s == key[c].ses
        b == call[c].blob
        o == Slot(objects)
    IN
    /\ call[c].at = "load"
    /\ \/ /\ ~Satisfies(s, EkPolicy) \/ Free(objects) = {}
          /\ Return(c, [ok |-> FALSE, starved |-> Free(objects) = {}], <<>>)
          /\ UNCHANGED <<objects, sessions, signing>>
       \/ /\ Satisfies(s, EkPolicy) /\ Free(objects) # {}
          /\ sessions' = Renewed(s)
          /\ objects' = Put(objects, [kind |-> "imported", policy |-> PCRSessionAuth(b.values)])
          /\ \/ /\ call[c].op = "Import"
                /\ Go(c, [at |-> Then(b), obj |-> o, defer |-> << <<"object", o>> >>])
                /\ UNCHANGED signing
             \/ /\ call[c].op = "ImportSigningKey" /\ b.pcrs # {}
                /\ Go(c, [at |-> "session", obj |-> o])
                /\ UNCHANGED signing
             \/ /\ call[c].op = "ImportSigningKey" /\ b.pcrs = {}
                /\ signing' = [template |-> "signing", obj |-> o, ses |-> 0, values |-> b.values]
                /\ Return(c, [ok |-> TRUE], <<>>)
    /\ UNCHANGED <<measured, persistent, key, signerMutex, sealed, role, lost>>

\* ImportSigningKey's NewPCRSession; when it fails the key is closed.
NewSigningSession(c) ==
    LET o == call[c].obj IN
    /\ At(c, "ImportSigningKey", "session")
    /\ \/ /\ Free(sessions) = {}
          /\ Starve(c, << <<"object", o>> >>)
          /\ UNCHANGED <<sessions, signing>>
       \/ /\ Free(sessions) # {}
          /\ sessions' = Put(sessions, NewSession)
          /\ signing' = [template |-> "signing", obj |-> o, ses |-> Slot(sessions),
                       values |-> call[c].blob.values]
          /\ Return(c, [ok |-> TRUE], <<>>)
    /\ UNCHANGED <<measured, objects, persistent, key, signerMutex, sealed, role, lost>>

-----------------------------------------------------------------------------
(* Signers of the imported key.                                            *)

Sign(c) ==
    /\ May(c, "Sign") /\ signing # NoKey
    /\ Begin(c, Fresh("Sign") @@ [at |-> "lock"])
    /\ UNCHANGED <<measured, objects, sessions, persistent, keys, sealed, role, lost>>

\* Mutant of Lock: signers do not exclude each other.
LockNothing(c) ==
    LET s == signing.ses IN
    /\ At(c, "Sign", "lock")
    /\ signerMutex' = c
    /\ Go(c, [stale |-> s # 0 /\ sessions[s] # NewSession, values |-> signing.values,
              at |-> IF s = 0 THEN "use" ELSE "policy"])
    /\ UNCHANGED <<measured, objects, sessions, persistent, key, signing, sealed, role, lost>>

Lock(c) ==
    LET s == signing.ses IN
    /\ At(c, "Sign", "lock") /\ signerMutex = None
    /\ signerMutex' = c
    /\ Go(c, [stale |-> s # 0 /\ sessions[s] # NewSession, values |-> signing.values,
              at |-> IF s = 0 THEN "use" ELSE "policy"])
    /\ UNCHANGED <<measured, objects, sessions, persistent, key, signing, sealed, role, lost>>

Unlock == signerMutex' = None

\* Mutant of SignerAuth: the lock is not released when Auth fails.
SignerAuthKeepsLock(c) ==
    LET s == signing.ses IN
    /\ At(c, "Sign", "policy")
    /\ \/ ~PolicyPCRPasses(s) /\ Fail(c, <<>>) /\ UNCHANGED <<sessions, signerMutex>>
       \/ /\ PolicyPCRPasses(s)
          /\ sessions' = PolicyPCR(s, DOMAIN signing.values)
          /\ Go(c, [at |-> "use"])
          /\ UNCHANGED signerMutex
    /\ UNCHANGED <<measured, objects, persistent, key, signing, sealed, role, lost>>

\* Session.Auth of the signing key.
SignerAuth(c) ==
    LET s == signing.ses IN
    /\ At(c, "Sign", "policy")
    /\ \/ ~PolicyPCRPasses(s) /\ Fail(c, <<>>) /\ Unlock /\ UNCHANGED sessions
       \/ /\ PolicyPCRPasses(s)
          /\ sessions' = PolicyPCR(s, DOMAIN signing.values)
          /\ Go(c, [at |-> "use"])
          /\ UNCHANGED signerMutex
    /\ UNCHANGED <<measured, objects, persistent, key, signing, sealed, role, lost>>

SignWithSession(c) ==
    LET s == signing.ses
        good == Authorised(s, objects[signing.obj].policy)
    IN
    /\ At(c, "Sign", "use")
    /\ Return(c, [ok |-> good], <<>>)
    /\ Unlock
    /\ sessions' = IF good THEN AfterUse(s) ELSE sessions
    /\ UNCHANGED <<measured, objects, persistent, key, signing, sealed, role, lost>>

\* Close of the signing key, when nobody is signing with it.
CloseSigning(c) ==
    /\ May(c, "CloseSigning") /\ signing # NoKey
    /\ \A d \in Callers : call[d].op = "Sign" => Idle(d)
    /\ LET s == signing.ses
           session == IF s = 0 THEN <<>> ELSE << <<"session", s>> >>
       IN  Begin(c, [defer |-> session \o << <<"object", signing.obj>> >>] @@ Fresh("Close")
                    @@ [ok |-> TRUE, at |-> "unwind"])
    /\ signing' = NoKey
    /\ UNCHANGED <<measured, objects, sessions, persistent, key, signerMutex, sealed, role, lost>>

-----------------------------------------------------------------------------
(* The PCRs, which other software extends and resets.                      *)

PcrChange(p) ==
    /\ changes < role.changes
    /\ \/ pcr[p] < MaxValue /\ pcr' = [pcr EXCEPT ![p] = @ + 1]
       \/ p \in Resettable /\ pcr[p] # 0 /\ pcr' = [pcr EXCEPT ![p] = 0]
    /\ counter' = IF p \in Uncounted THEN counter ELSE counter + 1
    /\ changes' = changes + 1
    /\ call' = [c \in Callers |->
                   IF Idle(c) THEN call[c]
                   ELSE [call[c] EXCEPT !.seen = @ \cup {pcr'}, !.changed = TRUE]]
    /\ UNCHANGED <<objects, sessions, persistent, keys, sealed, role, lost>>

Init ==
    /\ pcr = [p \in Pcrs |-> 0] /\ counter = 1 /\ changes = 0
    /\ role \in Roles
    /\ objects = [h \in 1..role.objects |-> Vacant]
    /\ sessions = [h \in 1..role.sessions |-> Vacant]
    /\ persistent = role.persistent
    /\ key = role.key /\ signing = NoKey /\ signerMutex = None
    /\ blobs = {} /\ truth = <<>> /\ lost = {}
    /\ call = [c \in Callers |-> Ended(None, TRUE, FALSE)]

Step(c) ==
    \/ Unwind(c)
    \/ EvictOther(c) \/ CreatePrimary(c) \/ NewEKSession(c) \/ Persist(c)
    \/ ReadPCRs(c) \/ CreateSealed(c) \/ SealReturns(c)
    \/ CertifyCreation(c) \/ NewPCRSession(c) \/ PCRSessionAuthorises(c) \/ UnsealWithSession(c)
    \/ QuoteReturns(c)
    \/ ImportDuplicate(c) \/ EKSessionAuth(c) \/ LoadUsingAuth(c) \/ NewSigningSession(c)
    \/ SignerAuth(c) \/ SignWithSession(c)

Request(c) ==
    \/ NewCachedKey(c) \/ Close(c)
    \/ \E o \in SealTo : Seal(c, o)
    \/ \E b \in Handed, o \in Certified : Unseal(c, b, o)
    \/ \E sel \in Quoted : QuoteRaw(c, sel)
    \/ \E b \in ImportBlobs, op \in {"Import", "ImportSigningKey"} : Import(c, op, b)
    \/ Sign(c) \/ CloseSigning(c)

Next ==
    \/ \E c \in Callers : Request(c) \/ Step(c) \/ Lock(c)
    \/ \E p \in Pcrs : PcrChange(p)

\* The TPM answers every command.  sync.Mutex hands a contended lock to the
\* goroutine that has waited for it longest.
Fairness == \A c \in Callers : WF_vars(Step(c)) /\ SF_vars(Lock(c))

Spec == Init /\ [][Next]_vars /\ Fairness

-----------------------------------------------------------------------------
(* Properties.                                                             *)

\* The step with which a call returns.
Returns(c, op, ok) ==
    call[c].op = op /\ ~Idle(c) /\ Idle(c)' /\ call'[c].ok = ok

\* The PCR values that the package vouches for are real.  Those in a quote that is
\* returned were the PCRs' values at one moment of the call, although they were read
\* with several commands.  Unseal with CertifyCurrent or CertifyExpected returns a
\* secret only if the PCRs had the certified values when it was sealed, also when what
\* is stored beside it was mixed up.
VouchedPcrsAreReal ==
    [][\A c \in Callers :
         /\ Returns(c, "Quote", TRUE) =>
                \E s \in call[c].seen : CheckSubset(call[c].vals, s)
         /\ Returns(c, "Unseal", TRUE) =>
                CheckSubset(call[c].vals, truth[call[c].blob.id].pcrs)]_vars

\* Whether PCRs in state s are as the caller of Seal asked: the target values,
\* and values of the current selection read during the call.
AsSealed(t, s) ==
    /\ CheckSubset(t.opts.target, s)
    /\ \A p \in t.opts.sel : \E m \in t.seen : s[p] = m[p]

\* Whether PCRs in state s are as the policy of the object in the call asks.
AsAsked(r, s) ==
    CASE r.op = "Unseal" -> AsSealed(truth[r.blob.id], s)
      [] r.op = "Import" -> CheckSubset(r.blob.values, s)

\* Unseal and Import: a secret is only released when, at one moment of the
\* call, the PCRs were in the state it was sealed to; and those PCRs whose
\* changes the TPM counts still were when it was released.
ReleasedInState ==
    [][\A c \in Callers :
         Returns(c, "Unseal", TRUE) \/ Returns(c, "Import", TRUE) =>
             \E s \in call[c].seen :
                 /\ AsAsked(call[c], s)
                 /\ \A p \in call[c].blob.pcrs \ Uncounted : s[p] = call[c].when[p]]_vars

\* What a key or a call in progress holds in the TPM.
Holds(c, what) ==
    \/ what \in Range(call[c].defer)
    \/ ~Idle(c) /\ call[c].at # "unwind" /\ what \in {<<"object", call[c].obj>>, <<"session", call[c].ses>>}
    \/ key[c] # NoKey /\ what = <<"session", key[c].ses>>
    \/ signing # NoKey /\ what \in {<<"object", signing.obj>>, <<"session", signing.ses>>}

\* CheckedClose's assertion, at every moment: each object and session in the TPM is
\* still held by a call in progress or by an open Key, so that closing the keys leaves
\* none behind.  The one exception is a defect of NewCachedKey: when EvictControl fails
\* for a new EK, the session that finish opened for it is never closed.
NothingLeaked ==
    /\ \A h \in DOMAIN objects \ Free(objects) : \E c \in Callers : Holds(c, <<"object", h>>)
    /\ \A h \in DOMAIN sessions \ Free(sessions) :
          h \in lost \/ \E c \in Callers : Holds(c, <<"session", h>>)

\* A call of Seal, Unseal, Quote, Import or Sign only fails for a cause: the
\* TPM was full, a PCR changed meanwhile, the options cannot be combined, what
\* it was handed is damaged, the PCRs are not in the state that was asked for,
\* or the session was left over from an earlier failure; never because of what
\* the other callers do, whose signatures share the session of one key.
Cause(r) ==
    \/ r.changed
    \/ r.op = "Unseal" /\ Unmergeable(r.opts)
    \/ r.op = "Unseal" /\ DOMAIN r.vals # {} /\ r.blob \notin blobs
    \/ r.op = "Unseal" /\ ~CheckSubset(r.vals, truth[r.blob.id].pcrs)
    \/ r.op = "Unseal" /\ \E s \in r.seen : ~CheckSubset(r.blob.policy.pcrs[1], s)
    \/ r.op = "Import" /\ (~r.blob.good \/ \E s \in r.seen : ~AsAsked(r, s))
    \/ r.op \in {"Sign", "Import"} /\ r.stale
    \/ r.op = "Sign" /\ \E s \in r.seen : ~CheckSubset(r.values, s)
FailsForCause ==
    [][\A c \in Callers, op \in {"Seal", "Unseal", "Quote", "Import", "Sign"} :
         Returns(c, op, FALSE) => call'[c].starved \/ Cause(call[c])]_vars

\* Every call returns: no caller waits forever for the lock of the signers.
CallsReturn == \A c \in Callers : ~Idle(c) ~> Idle(c)

=============================================================================
