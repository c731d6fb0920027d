# A TLA+ verification of go-tpm-tools

This directory holds TLA+ models of the state machines in go-tpm-tools, TLC
configurations that check them on small instances, and TLAPS proofs of the
properties that matter most for every instance. Paths below are relative to
`src/`; `TPM/` stands for `simulator/ms-tpm-20-ref/TPMCmd/tpm/src/`.

## 1. The system

go-tpm-tools is three things in one repository.

* **A TPM.** `simulator/simulator.go` wraps the Microsoft reference TPM
  (`simulator/ms-tpm-20-ref`, C). It executes one command at a time
  (`TPM/main/ExecCommand.c`): parse, authorise, dispatch to one of 119
  handlers under `TPM/command`, build the response, commit NV. Its state is in
  RAM (sessions, objects, PCR, time) and in NV (indexes, persistent objects,
  hierarchy data, dictionary-attack counters), and what survives depends on how
  power was lost: after `TPM2_Shutdown(CLEAR)`, after `TPM2_Shutdown(STATE)`, or
  without any shutdown.
* **Libraries.** `client` (keys, sealing, quotes, attestation) and `server`
  (verification, import, policy) with `internal` and `proto`, `cel` for the
  event log, `verifier` for the clients of attestation services, and `cmd`, the
  `gotpm` tool.
* **Confidential Space.** `launcher` boots a VM into one measured container and
  attests to it; `keymanager` (Rust) holds keys for workloads.

### Inventory

| Part | State | Operations that change it | What makes it hard |
|---|---|---|---|
| Sessions, `TPM/subsystem/Session.c` | context array of narrow entries, slots, counter, oldest entry | create, save, load, flush, Startup | the counter wraps in the array; gap limit; contexts kept over Shutdown(STATE) |
| Time and DA, `Time.c`, `DA.c` | clock, time, epoch, failure counters, timers, NV copies | every command (TimeUpdate), authorisation failures, DA commands, ClockSet, Startup, Shutdown | what NV and RAM know at a power loss; read-and-clear flags; unsigned differences |
| NV, `NvDynamic.c`, `NV_*.c`, `EvictControl.c` | entry list, end marker with the largest deleted count, orderly RAM, its copy in NV, locks, PIN counts | define, delete, write, increment, extend, set bits, lock, persist, Clear, Startup, Shutdown | RAM ahead of NV; two copies of attributes; reservations |
| PCR, `PCR.c`, `TPM/command/PCR`, `TPM/events` | banks, save set, policy and auth values, update counter | extend, event, reset, allocate, H-CRTM/D-RTM events, Startup | locality; Reset, Restart, Resume; no-increment set |
| Objects, `Object.c`, `TPM/command/{Object,Context,Duplication,HashHMAC}` | three slots, sequences, evict copies | load, create, sequences, context save and load, flush, cleanup | slots used for evict objects during a command; stClear and Restart |
| Policy sessions, `TPM/command/EA`, `SessionProcess.c` | policy digest, deferred checks, timeout, start time | 20 policy commands, use in an authorisation | checks made at use against state recorded earlier |
| Command pipeline, `ExecCommand.c`, `SessionProcess.c`, `CommandAudit.c` | nonces, exclusive audit session, audit digest, g_clearOrderly | every command | what a failed command has already changed |
| Hierarchies, `Hierarchy.c`, `TPM/command/Hierarchy` | enables, seeds, proofs, auth values, policies | Clear, ClearControl, ChangePPS/EPS, HierarchyControl, HierarchyChangeAuth, SetPrimaryPolicy | what each invalidates |
| Self test and DRBG, `TPM/crypt` | test vectors to do, DRBG state, commit counter | SelfTest, IncrementalSelfTest, StirRandom, Commit | a commit counter that wraps in a bit array |
| Simulator, `simulator/simulator.go` | process-wide lock, closed flag, response buffer | Get, Read, Write, Reset, Close | several users of one TPM |
| Client, `client/*.go` | open handles and sessions | create, load, seal, unseal, quote, close | leaks on error paths |
| Server, `server/*.go` | none | verification, import, policy | pure functions over structured data |
| Event log of a launch, `cel`, `server/eventlog.go` | log, registers | measuring, replay, parsing | unverified types; order; duplicates |
| Launcher, `launcher/*` | container, task, key, token, server, refresher | boot, measure, attest, serve, refresh, shut down, reboot | goroutines sharing one key; partial failures; exit codes |
| Launch spec and policy, `launcher/spec` | none | parse and check metadata | defaults and overrides |
| Verifier clients, `verifier/*` | none | challenge, verify, with retries | retries of what was done |
| Key manager, `keymanager/*` | key registries | generate and insert keys | two registries that must agree |
| `cmd` | none | flags and files | thin |

## 2. The modules

| Module | Models | Proofs |
|---|---|---|
| `SessionContext` | `Session.c`: the context array, saving, loading, flushing, restarts | `SessionContextProofs` |
| `TpmTime` | `Time.c`, `DA.c`, the accounting of failures in `SessionProcess.c`, DA commands, ClockSet, Clear, Shutdown, Startup | `TpmTimeProofs` |
| `NvStorage` | `NvDynamic.c`, the `TPM2_NV_*` commands, EvictControl, what Clear, ChangePPS/EPS, HierarchyControl, Shutdown and Startup do to NV | `NvStorageProofs` |
| `Pcr` | `PCR.c`, the `TPM2_PCR_*` commands that change PCR, the `_TPM_Hash_*` events, what Clear, Shutdown and Startup do to PCR | `PcrProofs` |
| `PolicySession` | the policy commands in `TPM/command/EA`, `Policy_spt.c`, the policy part of `Session.c` and `SessionProcess.c` | `PolicySessionProofs` |
| `SessionProcess` | `SessionProcess.c` and `CommandAudit.c`: the sessions of a command, authorisation, lockout, nonces, both audits, and the commands that touch them | `SessionCommandProofs`, `SessionProcessProofs` |
| `CommandDispatcher` | `ExecCommand.c` from code to response: `ParseHandleBuffer` and `CommandDispatcher`, driven by tables | |
| `CommandCodeAttributes`, `CommandAttributeData`, `CommandDispatchData`, `CommandPrototypes` | the search for a command code; the attribute tables; the descriptors, types and offsets; the structures of the `*_fp.h` | |
| `CommandSwitch`, `CommandCases` | the abstract specification of `CommandDispatcher`: the switch statements of `CommandDispatcher.h` and `HandleProcess.h` | |
| `Marshalling` | running the functions of `Marshal.c` on values and bytes | |
| `MarshalForms`, `MarshalScalars`, `MarshalFunctions`, `MarshalPrototypes`, `MarshalTables` | the functions of `Marshal.c`, in tables of consecutive functions, and their prototypes | |
| `TpmTypes`, `TypeLayout`, `TpmProfile`, `SequenceFold` | `TpmTypes.h`: declarations, constants, sizes in memory; what the build implements | |
| `ClientKeys` | `client/{keys,session,pcr,import,signer}.go` and the helpers of `internal` they call | |
| `CosState` | pure operators: what `measureCELEvents` measures, how `getVerifiedCosState` reads it | |
| `ContainerRunner` | `launcher/main.go`, `container_runner.go`, `agent.go`, `tee_server.go`, on top of `CosState` | `ContainerRunnerProofs` |

`MC<module>` instantiates a module for TLC.

Every model keeps the control of the code (guards, early returns, error paths,
order) and abstracts the data. Digests, keys and payloads are model values; a
hash chain is the sequence of what went into it. A command is one action where its
steps cannot be told apart from outside, because the TPM executes one at a time and
`NvCommit` is its last step; a power loss can come between any two commands. The
launcher and the client library, whose goroutines and callers interleave, have one
action per step between points where another can be scheduled.

### SessionContext

`contextArray` is `gr.contextArray`: 0 for a free handle, a small number for a
loaded session (slot + 1), otherwise the low bits of the sequence number of the
saved context. `contextCounter`, `oldest`, the slots, and the copy of `gr` that a
Startup would read back (`orderlyGr`) are as in the code; `lastSeq` is history, the
last sequence number handed out for a handle since the last TPM Reset. One action per
operation: `SessionCreate`, `SessionContextSave`, `SessionContextLoad`, `SessionFlush`, `Shutdown`, `Startup`. The caller may
present any context it was ever given, in any order and after any restart.

Run `session_context` has three handles, two slots and entries of six values
(`SLOT_MOD`; 2^8 in this build, where `Global.h` narrows `CONTEXT_SLOT` to a byte
unless `NDEBUG` is defined, otherwise 2^16) with a counter that goes to 15, so that the low bits
wrap twice and old contexts with the same low bits exist. It checks that a context other
than the latest is never accepted (`NoStaleContext`), that the latest always is
(`NeverStranded`), and that the gap can always be closed (`GapCanBeClosed`).

### TpmTime

The TPM's data is one record with the fields of `gp`, `go`, the copy of `go` in NV,
and the timers. `Command` is what every command does first
(`TimeUpdateToCurrent`, `DASelfHeal`). History variables: `debt`, the powered time
until the failures so far may be forgiven, `rest`, the time until lockoutAuth may be
tried again, and `reported`, the largest clock value given out. Bounds: clock, time
and elapsed time are capped at two or three units (`MaxClock`, `MaxTime`, `MaxElapsed`),
a full recovery time and a full clock update interval, so that every timer runs out;
recoveryTime may be zero, one or two units and lockoutRecovery zero or two. The passing run `tpm_time` has
`PowerLossAfterUse = FALSE` and no lockout policy. Under the first assumption the
model covers every power loss the simulator itself performs (`simulator.go` always
shuts the TPM down before it resets it) and every one without a Shutdown; what is
left out is a Shutdown followed by commands and then a power loss (see the
observations in section 4). The second matters because the recovery time of
lockoutAuth can then be changed while a failure is only known in RAM: with
`LockoutPolicy = TRUE` the model has a behaviour in which that failure is forgotten at
the next restart.

### NvStorage

`index` is the list of entries in NV, with the attributes an entry was defined with
and, if it is not orderly, its data; `ram` is `s_indexOrderlyRam`; `image` its copy
in NV; `endMark` the count in the end-of-list marker and `maxCounter` its copy in
RAM. `g_clearOrderly` is folded into the action that sets it, as the cleanup of the
same command acts on it. History: `peak`, the largest value a counter of a handle
has shown, `latest`, what was written, `locked`, the locks that are due to hold, and
`budget`, the tries a PIN was granted less those made. The locks of an orderly index
live in RAM until a Shutdown copies them, so a lost power lifts them in `locked` too.

* `nv_storage`: no counter value is shown twice, whatever is deleted, flushed or
  lost; what can be read is what was written; locks hold; a PIN index gives no more
  tries than it was granted. Orderly counters have one orderly bit here (8 in the
  code), so that a block ends after two increments, and counts go to four (`MaxCount`),
  through two blocks and into the next. Counters interact through the end
  marker, so two of them are explored together; the other kinds of index only
  interact through space, so the constraint `Unmixed` explores one of them at a time.
* `nv_space`: is the space for `MIN_EVICT_OBJECTS` persistent objects kept? Sizes
  are a few units with the proportions of the code. It ends in a violation, see
  section 4.
* `nv_clear` asks what Clear does to counters, and ends in a violation, see section 4.

Persistent objects have handles in the owner's or in the platform's range
(`PlatformObjects`), and EvictControl checks the hierarchy against both.

Left out: unavailable NV (the platform under `Samples/Google` always reports it
as available), authValues, the 64-bit rollover of a counter, `disableClear`.

### Pcr

A PCR is what it was last set to (`from`) and the digests extended into it since
(`log`). `pcrAllocated` is the allocation in RAM and `nvAllocated` the one in NV,
`pcrSave` and `savedCounter` what Shutdown(STATE) wrote, and `orderlyState` carries
the flags of the startup as in the code. `s_initAttributes` is given by
`StateSave`, `ResetLocality` and `ExtendLocality`. History: `atLoss`, what could be
read when the power was last lost, `startup`, and `unsaved`, the PCR that a resume gave a
value never saved for that boot.

The library reads the locality from its platform, and `SetLocality` stands for that
platform. The platform under `Samples/Google` has only locality 0 and raises no
`_TPM_Hash_*` events; the other localities are those of a platform that has them.

Run `pcr` has PCR 0, 17, 18 and 23 in two banks, one of which can be turned off, at
localities 0, 3 and 4, with and without an H-CRTM, over one reboot of each kind. The
constraint `FewMeasured` lets at most two PCR have been extended at a time, which is
what it takes to confuse two of them. PCR 17 starts from zero only with the measurement
of a dynamic root; PCR 0 tells how the TPM started; `pcrCounter`, which policy sessions
rely on, moves with every change of a PCR that can be read, outside the TCB group; and a resume restores what was there at the loss of power.

### PolicySession

`session` is the `SESSION` structure of a policy session and `trial` that of a trial
session to which the caller gives the same assertions. Restrictions are sets of what
they admit, empty for none; cpHash, nameHash and template hash share `u1` as they do in
the code, and callers may confuse their values. The digest is the sequence of what was
hashed into it, in which PolicyOR, PolicyAuthorize and PolicyAuthorizeNV start anew.
Each policy command is a function `With...` of a session, which returns the session it
was given when the command is refused, and an action that applies it to both sessions.
`Authorize` is the use of the session (`CheckAuthSession`, then
`UpdateInternalSession`). The entity that is authorised is one whose authPolicy is the
digest of the session. History: `claims`, what was asserted since the policy was
begun, and `reached`, the digests since then.

Run `policy_session` takes any two assertions, with time, changes of the PCR, tickets
and new policies in between. A second has two units of time. It checks that whenever
the session would authorise a command everything that was asserted holds there and
then (`AssertionsEnforced`), that it asks for nothing else (`NothingElseAsked`), that
a digest is only reached by a session in which it is true (`DigestBacked`), and that
a trial session computes the digest of the session (`TrialAgrees`).

Left out: the epoch (a session does not outlive a restart of the TPM; what the epoch
does is in `TpmTime`), dictionary attack protection (`TpmTime`), nonces that do not
match (refused), PCR that are not counted, DER and signature formats.
`SignedCompareB`, which PolicyNV uses, negates the unsigned order for two negative
operands; it is modelled as it is written, and is not the order of two's complement.
The expiration INT32_MIN is excluded by `PolicyAssumption`: negating it overflows in
`Policy_spt.c`, and what the build makes of it is a time far in the future.

### SessionProcess

The TPM's data is a record `tpm`, and `c` the command in progress, which goes through
the stages of `ExecuteCommand`: the session area is parsed (`ParseSessionBuffer`), each
authorisation is checked, the command is executed, the response's nonces, HMACs and
audit digests are made. An HMAC is represented by what it was computed with: the
authValue in the session key, the authValue of the entity, and the nonce. The
attributes of the commands are a constant, which in the run is what
`CommandCodeAttributes` reads from the tables; entities, authValues and requests are
constants too. `WellFormed` is what unmarshalling has made sure of when a request
gets here. `breaches` is history: the step
in which something goes wrong records it, by comparing the code's decision with the facts (the authValue of the moment, whether the HMAC was
used before, whether a guess was counted).

Run `session_process` has two sessions, six entities and five scenes: an authValue that
changes under bound sessions, guesses, entities that are deleted by the command they
authorise, audit sessions, the command audit. A behaviour stays within one scene, and
within it sends any request of the scene in any order, restarts included. The scenes
share nothing but the sessions, which each of them uses in full; the proofs have no such
division, they hold for any set of requests. `lockout` has no policy here
(`PublicAssumption`); `USE_DA_USED` is NO as in the build, so that every start
without a Shutdown counts as a failure.

Commands may follow a Shutdown, and undo it if they clear the orderly state. What
Shutdown(STATE) wrote, the sessions and the audit digest, is `tpm.saved`; a Resume or a
Restart reads it back, of the sessions only those whose context was saved. History:
`audited` is the number of commands that the command audit digest ought to have, `kept`
its value at the Shutdown(STATE) that stands, and `missed` the sessions whose audit digest
lacks a command.

### CommandDispatcher and CommandSwitch

A request is a number of well-formed items followed by the end or by a bad byte; what
is unmarshalled is represented by its place in the request and the function that was
called. `CommandDispatcher` walks the tables as the code does, one loop iteration a
step. `CommandSwitch` is the other way to build the TPM (without
`TABLE_DRIVEN_DISPATCH`), a case for each command, and serves as the specification:
`ImplementsSwitch` is refinement under a mapping of the walk to the case.

Run `command_dispatch` sends every code from below the first to above the last command,
some with stray bits, and vendor codes, with up to eight items (more than any command
takes). All its properties are about safety.

A command whose self test or random numbers fail puts the TPM into failure mode and goes
on (`LOG_FAILURE` returns): `Call` has that outcome for every command. The response then
has no parameters, which the mapping shows to `CommandSwitch` as a cut (`Cut`); `Reset`
is the only way out. A TPM that was in failure mode before does not get here.

### Marshalling

Each function of `Marshal.c` is a definition in one of the forms of `MarshalForms`
(base type, pass on, one of several values, members with checks, union, array), and
each type of `TpmTypes.h` a declaration. `Marshalling` runs the forms on a value: it is
marshalled, the bytes arrive intact, cut short or with one byte changed, and are
unmarshalled. The two sides are compared with the declaration and with each other.

Run `marshal` takes every type a command or a response can hold with forty values of
each, more than any selector has values, and damages up to 24 runs of a message.

### ClientKeys

A call of the package is a sequence of TPM commands, one step each with the Go code up
to the next; commands of other callers, extends and resets come between. `defer` is the
stack of deferred closes. The TPM under it has few slots, so that every command that
needs one fails in some behaviour, and EvictControl can also fail for a reason of the
TPM's own. One caller has one role in a behaviour; the roles in
`MCClientKeys` are those in which the callers can meet: two that cache the same SRK, the
same EK or different keys, one that seals while the other opens an EK, a quote while PCR change,
imports, a signing key shared by both. Options may name PCR of two banks, which cannot
be merged. `lost` is history: the sessions of an EK that `NewCachedKey` left open because
EvictControl failed, the one exception that `NothingLeaked` makes. `Batch = 1` (8 in the code) makes a read of two
PCR take two commands. Which PCR a TPM counts is its platform's choice; the library
cannot rely on it, and the run has one that is counted and one that is not (the
properties also hold if both are). `ReleasedInState` promises less of the latter.

Fairness: every command is answered (`WF` of each caller's steps), and the mutex of a
signer is handed to the waiter that has waited longest (`SF` of `Lock`). `CallsReturn`
needs both. Callers need not call.

Left out: attestation and certificates, `SignData` (one command, without the mutex), the
fallback of Unseal for old TPMs, and the check of the type of an existing SRK.

### CosState and ContainerRunner

`CosState` has no state: `MeasuredEvents` and `GetVerifiedCosState` are functions of
a launch. `ContainerRunner` runs `main` from boot to exit and over reboots, with the
token refresher and the TEE server's handlers as processes of their own. Every call
that can fail fails in some behaviour. An extend can fail after some banks were
extended. `MaxBoots` bounds the reboots; one handler suffices because handlers
interact only through the mutex, and the refresher is the second party.

A deletion of the task or of the container can fail, and is not tried again. When
`task.Wait` fails that is only logged, and main then receives from a channel that was
never made (`waitForever`).

Fairness: main's steps and those steps of an attester that need nobody else are weakly
fair (goroutines are scheduled, containerd answers), `LockRoot` strongly (Go's mutex
hands over to a waiter that starves), handlers respond. The workload itself, new requests
and whatever waits for another machine (`Remote`) are not fair: the verifier's client has
no timeout and ignores the context, and a quote with the TPM may fetch certificates while
it holds the mutex. `WorkloadEndLeadsToExit` says that when the workload has ended the
process exits unless one of three waits never ends: that of a request, which Shutdown
waits for; that of the refresher in a TPM quote, with the mutex; and main's own after a
failed `task.Wait`. The refresher may otherwise retry for ever without delaying it.

## 3. What the runs show

Each property of each passing run has a mutant of the modelled code (an operator next
to the original) that breaks it.

| Run | Distinct states | Properties |
|---|---|---|
| `session_context` | 61,878 | `NoStaleContext`, `NeverStranded`, `GapCanBeClosed` |
| `tpm_time` | 143,421 | `HealNotTooFast`, `LockoutRecoveryServed`, `ClockSafe` |
| `container_runner` | 68,916 | `EvidenceComplete`, `VerifierLearnsLaunch`, `HeldThenReleased`, `WorkloadEndLeadsToExit` |
| `nv_storage` | 170,152 | `CounterNeverRollsBack`, `ContentsAsWritten`, `LocksHold`, `PinWithinBudget` |
| `nv_space` | violation | `EvictSpaceKept` |
| `nv_clear` | violation | `CounterNeverRollsBack` |
| `pcr` | 463,248 | `DynamicRootIsMeasured`, `Pcr0TellsTheStart`, `EveryChangeIsCounted`, `ResumeRestores` |
| `policy_session` | 266,056 | `AssertionsEnforced`, `NothingElseAsked`, `DigestBacked`, `TrialAgrees` |
| `command_dispatch` | 15,109 | `TablesAgree`, `ParametersComplete`, `ImplementsSwitch` |
| `marshal` | 171,283 | `RoundTrip`, `NoOverrun`, `Canonical` |
| `session_process` | 10,298 | `AuthorisationShown`, `NoReplay`, `GuessesLimited`, `AuditsComplete`, `AssertionsHold` |
| `client_keys` | 152,133 | `NothingLeaked`, `VouchedPcrsAreReal`, `ReleasedInState`, `FailsForCause`, `CallsReturn` |

A property is stated above its definition, with the code it is about. The bounds are
the constants in the `.cfg` files; the reasons are in section 2.

## 4. Where the code differs from what is said of it

`nv_clear` ends in a violation: `NvDynamic.c` says of the count kept in the end marker
that "it is not possible to roll back an index", but TPM2_Clear drops the owner's orderly
counters without their RAM value reaching the marker, and a new counter of the same
handle starts below what the old one has shown. `nv_storage` and the theorem therefore
take orderly counters to be the platform's.

`nv_space` ends in a violation: `NvTestSpace` wants "to make sure that we do not allocate
an Index if this would mean that the TPM cannot allocate the minimum number of evict
objects", but the reserve for counters shrinks with every counter, orderly ones included,
whose entries hold no data in NV. Indexes may then fill what an orderly counter seemed to
need, and when it is deleted the reserve for a full counter comes back larger than the
space its entry frees.

Observations made with these models, which no run is spent on:

* `DAStartup` consumes the flag that `TimeStartup` would read, so the epoch does not
  change when the timer restarts (`Global.h`: "The clock epoch changes when there is a
  discontinuity").
* `DA.c:79` has lockoutAuth disabled until the TPM "has been continuously powered for the
  lockoutRecovery time"; with `ACCUMULATE_SELF_HEAL_TIMER` the time adds up over orderly
  restarts. `LockoutRecoveryServed` is about the sum.
* Failures after a Shutdown are forgiven with time from before them, if power is lost
  before the next Shutdown (`PowerLossAfterUse = TRUE`).
* PCR_Allocate after Shutdown(STATE) leaves the saved state valid, and the TPM resumes
  with other banks; `Shutdown.c` says that "If PCR bank has been reconfigured, a CLEAR
  state save is required". `Pcr0TellsTheStart` excepts the PCR that were not saved
  (`unsaved`). Clear also writes the old allocation over the one that PCR_Allocate stored.
* PCR 20 to 22 (the TCB group) are not counted by `pcrCounter`, so a policy session does
  not notice that they change; `EveryChangeIsCounted` excepts them.
* A partial first write to a PIN index keeps old bytes, although `NvDynamic.c` says that
  types other than ordinary are "always written in total"; see `PinsWrittenWhole` below.
* The locks of an orderly index are in RAM until a Shutdown copies them, so one taken
  after Shutdown(STATE) is gone after a resume; `NvDynamic.c` has locks cleared by Reset
  or Restart.
* No audited command clears the orderly state as such, so what the command audit digest
  took in after Shutdown(STATE) is gone after a Resume or a Restart, and a saved session
  that was flushed in between is back. `AuditsComplete` says which commands are to be in
  the digest then.
* `g_exclusiveAuditSession` is not reset at startup, and may name a session that has come
  to use the handle (`Global.h`: "If there is no exclusive audit session, the location is
  set to TPM_RH_UNASSIGNED."); `AuditsComplete` makes no claim about a session that
  came back different from what it was. `ParseSessionBuffer` says that a policy session is
  never bound, and `SessionCreate` binds one.
* `PolicySigned.c` lists TPM_RC_EXPIRED for an "'expiration' [that] is non-zero but no
  nonceTPM is present" (46-47) and says that `PolicyParameterChecks()` makes sure of it
  (141-142). It does not: without a nonce the expiration is an absolute time of the TPM
  (`ComputeAuthTimeout`), and so it is in the model.
* In failure mode a command can end with TPM_RC_SUCCESS and only its handle in the
  response, when the failure was logged while it ran.
* `AttestationEvidence` of an agent with a TPM returns an empty event log
  (`agent.go:318-322`); the model has it as the code does.
* A request of the workload whose answer never comes, a quote that waits for certificates
  with the mutex held, or an error of `task.Wait` keeps the launcher from ever exiting.
* `SignedCompareB`, which PolicyNV uses, negates the unsigned order for two negative
  operands, and is modelled as written.
* Monitoring mode All is measured as memory monitoring off (`attest.proto`: "Whether
  memory monitoring is enabled."); `Agrees` does not compare it.
* A `Sign` attempted before the PCR have the value the key asks for fails and leaves the
  policy session extended, so that later calls fail too; `GetSigner` says that "The
  returned Signer lasts the lifetime of the Key". A failed `Import` does the same to the
  session of its EK.
* When EvictControl fails for a new EK, because another caller was faster or for a reason
  of the TPM's own, `NewCachedKey` never closes the session it opened for the EK (`lost`).
  Of two callers the one can evict the key that the other has just stored. The PCR values
  in a sealed blob
  (`SealOpts.Current`) may be read while they change.

## 5. What is proved

TLAPS proves the following for all constants that satisfy the named assumptions, with
any number of handles, banks, commands or launches. Each theorem rests on one inductive
invariant, which TLC has also checked on the instance of the corresponding run.

**`SessionContextProofs`** (`SessionInvariant`). `SessionInv` ties each array entry to
the sequence number of the latest context of its session, bounds the distance of all of
them to the counter by the width of an entry, and says that the oldest entry is the
oldest. Without the distance the low bits would not identify a context, so
`NoStaleContext` is not inductive by itself. Results: `StaleContextsRejected`,
`SavedSessionsLoadable`, `GapAlwaysClosable`, `SlotAccounting`. Assumption: an entry has
more values than there are slots.

**`TpmTimeProofs`** (`TimeInvariant`). `TimeInv` relates timers, counters, NV copies and
the history of what failures have cost. Assumptions: no power loss between a command
after Shutdown and the next Shutdown, no policy for lockoutAuth. Results:
`HealingIsPaidFor`, `LockoutRests`, `ClockIsSafe`. The proofs use arithmetic lemmas on
division, as failures are forgiven in units of recoveryTime.

**`NvStorageProofs`** (`IndexInvariant`). An index may be read from its list entry, from
the orderly RAM, or from the copy that the next startup brings back. `IndexInv` says
that the three describe the same indexes (`Shape`) and which of them is up to date when:
the entry of an index that is not orderly always, the RAM while the TPM runs, the copy
as long as the orderly state is STATE. For that place it relates data to `latest`, locks
to `locked`, PIN counts to `budget`. Lemmas say what a step may do to an index it is not
about (`SameEntryKeeps`) and what each command does to the one it is about. Results:
`LocksAreKept`, `PinUsesAreBounded`, and `ContentsAreKept`, which assumes that PIN
indexes are written whole (`PinsWrittenWhole`). For the other two no template is
excluded.

In the same module (`CountersInvariant`), on top of `Shape`: a counter can be in four
places: absent, in a list entry, in the copy of the orderly RAM, and in that RAM.
`CounterInv` bounds the peak of the handle in each: by the end marker, by the entry, by
what startup will make of the copy (`Recovered`), and by the RAM, which stays within the
block of values that ends at `OrMask` of the copy. Assumption: `OrderlyIsPlatform`
(otherwise `nv_clear`). Result: `NoCounterRollsBack`.

**`PcrProofs`** (`PcrInvariant`). `PcrInv` says what the saved state is worth: while the
TPM runs and a Shutdown(STATE) stands, the saved static PCR are the current ones and the
orderly state has the flags of this boot (`SavedIsCurrent`); once the power is lost they
are those that were lost (`SavedIsLost`). With it a resume and PCR 0 are inductive.
Results: `DynamicRootMeasured`, `StartIsTold`, and the action properties `ResumeIsExact`
and `ChangesAreCounted`. Assumption: the set of PCR has the two roots, as
`PCR_Allocate` demands of every bank layout it accepts (`KeepsRoots`).

**`PolicySessionProofs`**. A policy command only tightens the restrictions a session
remembers (`Tightens`) and leaves those of its own assertion in it (`Kept`); what is kept
stays kept. Conversely it adds no restriction but its own (`Adds`), so that every
restriction was asked for (`Asked`). `PolicyInv` is the conjunction, with the same for
tickets. Results: `PolicyEnforced`, `NothingElseIsAsked`.

In the same module, `DigestInv` adds that every digest the session has had is
backed by its claims, and that the trial session agrees with it in all that later
commands depend on. Results: `DigestsAreBacked`, `TrialsAgree`. Assumption
(`PolicyAssumption`): among what the types say, no expiration is INT32_MIN.

**`ContainerRunnerProofs`** (`RunnerInvariant`). `MeasureInv`: while the launch is
measured, each register and log that will be quoted, followed by what is still to do, is
the launch, and nobody attests before all of it is in. `EvidenceInv`: what was quoted is
the launch. `HeldInv`: which resources are held at each point of `Run` and its deferred
calls, and which were left because their deletion failed. Results: `EvidenceIsComplete` and
`RequestsAreServed`, for any launches, handlers, banks and number of boots. Assumption (`RunnerAssumption`): names of goroutines and
registers are distinct and the lists of a launch are sequences.

**`SessionProcessProofs`** (`Invariance`), on `SessionCommandProofs`. A command goes
through stages that each change a part of the record `c`, so the proofs follow the
stages. `SessionCommandProofs` has a lemma for each command and for each stage of the
response: what it leaves of the sessions, of the authValues and of the digests.
`SessionProcessProofs` takes the session area from `Retrieved` to the last of
`CheckSession`: a session that passes is `Evident`, that is, its caller has shown what
the entity asks for and its nonce is new, and one that does not was counted, unless
nothing protected was compared. The three sessions are taken one after the other;
nothing depends on what the earlier ones did but the hashes they computed.

`IInv` has what the properties need of earlier commands. A session knows the authValue
that its entity had when it was started, and its flags for dictionary attacks are those
of that entity (`BindingInv`): without it a wrong authValue in a session key could be
tried uncounted. Whatever the digest of a policy session says, of its command code or of
the need for an authValue, the session still asks for (`PolicyInv`): this makes the digest
that `CheckPolicyAuthSession` compares a statement about the command. Every nonce is new
between commands (`Fresh`). The digest of the exclusive audit session and the command
audit are complete. All of this also holds of what Shutdown(STATE) has saved (`SavedInv`),
since a later start goes back to it whatever was executed in between. Results:
`AlwaysAuthorisationShown`, `AlwaysNoReplay`, `AlwaysGuessesLimited`,
`AlwaysAuditsComplete`, `AlwaysAssertionsHold`: all that run `session_process` checks,
for any entities, attributes of commands, authValues, sets of requests and number of
sessions.

Assumptions: entities and their authValues are as their types say and lockoutAuth has no
policy (`PublicAssumption`); session slots are ordered (`BoundsAssumption`); FlushContext
takes no sessions, as its attributes say (`CommandAssumption`); requests are as
unmarshalling leaves them (`RequestAssumption`). The one about lockoutAuth is needed for
`AssertionsHold` only: `IncrementLockout` asserts that lockoutAuth is enabled when a
failure is counted against it (`SessionProcess.c:142`), and `CheckAuthSession` checks that
it is only if the authValue is used. A policy session that does not use it, and whose
failure is counted because of the entity it is bound to, authorises lockoutAuth only if
lockoutAuth has a policy.

Only model-checked:

* liveness (`WorkloadEndLeadsToExit`, `CallsReturn`), as TLAPS does not
  reason about fairness;
* `VerifierLearnsLaunch` and the three properties of `Marshalling`, which are about what
  recursive definitions compute and need induction over data;
* `TablesAgree`, `ParametersComplete` and `ImplementsSwitch`, where TLC's check is
  exhaustive: the tables are constants, and the search for a code is recursive;
* `ClientKeys`, whose properties relate sequences of reads to moments of a call.

## 6. Not modelled

* `TPM/crypt` and `internal` cryptography: computes on data that the models abstract
  from. Self test, random numbers and ECC commit belong to it.
* `proto/*.pb.go`: generated, without state.
* Attestation commands and capabilities: read and sign or report state.
* `server`, `verifier`, `cmd`: functions over structured data, requests to a service, and
  argument handling. What the launcher makes of a service's answers is in
  `ContainerRunner`; the reading of a launch's log is in `CosState`.
* `simulator.go`: a lock around the process-wide TPM; the models take one command at a
  time for that reason.
* `keymanager`: so far it generates keys and inserts them into a registry.

`PROJECT.json` lists every part with its status, the hazards with the properties that
cover them, and the source lines of each definition.
