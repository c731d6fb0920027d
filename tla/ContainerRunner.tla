-------------------------- MODULE ContainerRunner --------------------------
(***************************************************************************)
(* The Confidential Space launcher: the main goroutine of                  *)
(* launcher/launcher/main.go (startLauncher, NewRunner, Run and the        *)
(* deferred calls that undo it), the goroutine that refreshes the default  *)
(* token, the handlers of the TEE server, and what happens to the VM when  *)
(* the process exits.                                                      *)
(*                                                                         *)
(* The measured roots are the vTPM (several PCR banks) and, on TDX, the    *)
(* RTMR; the last one is the root the agent attests with.  A register is   *)
(* the sequence of events extended into it.                                *)
(***************************************************************************)
EXTENDS CosState, FiniteSets

CONSTANTS Launches,      \* the launches to consider
          Handlers,      \* concurrent requests the TEE server works on
          Banks,         \* sequence of the TPM's PCR banks
          MaxBoots       \* bound on the boots of the VM

ASSUME RunnerAssumption ==
    /\ Handlers \cap {"main", "refresher", "nobody"} = {} /\ MaxBoots \in Nat \ {0}
    /\ Banks \in Seq(Range(Banks)) /\ "RTMR" \notin Range(Banks)
    /\ \A l \in Launches : \A f \in {"args", "env", "overEnv", "overArgs"} :
          l[f] \in Seq(Range(l[f]))

VARIABLES
    launch, tdx,         \* what is launched, and whether the VM has TDX
    pc,                  \* where the main goroutine is
    todo,                \* events main has still to measure
    cel, reg,            \* per root: the event log; per bank or RTMR: the register
    tpmOpen, ak,         \* the TPM device; the agent's attestation key
    monitoring,          \* what the node problem detector runs
    container, task,     \* the containerd objects
    server, ctxDone,     \* the TEE server; whether Run's context is cancelled
    retErr, exitCode,    \* what startLauncher returns; the exit code
    refresher,           \* the refresher goroutine
    att,                 \* per attester: how far AttestWithClient has got
    ev,                  \* per attester: the evidence it has collected
    mu,                  \* who holds the mutex of the attestation root
    boots,               \* history: boots of the VM
    refused              \* history: what containerd failed to delete

vars == <<launch, tdx, pc, todo, cel, reg, tpmOpen, ak, monitoring, container, task,
          server, ctxDone, retErr, exitCode, refresher, att, ev, mu, boots, refused>>

Attesters == Handlers \cup {"main", "refresher"}
Roots == IF tdx THEN {"TPM", "TDX"} ELSE {"TPM"}
AvRot == IF tdx THEN "TDX" ELSE "TPM"
\* The registers MeasureEvent extends, in its order.
Registers == Banks \o (IF tdx THEN <<"RTMR">> ELSE <<>>)
RootOf(r) == IF r = "RTMR" THEN "TDX" ELSE "TPM"
NoEvidence == [for |-> "verifier", cel |-> <<>>, reg |-> <<>>]
Nobody == "nobody"

\* The state a boot starts in.
Booted ==
    /\ pc' = "verifyFs" /\ todo' = <<>>
    /\ cel' = [r \in {"TPM", "TDX"} |-> <<>>]
    /\ reg' = [r \in Range(Banks) \cup {"RTMR"} |-> <<>>]
    /\ tpmOpen' = FALSE /\ ak' = "none" /\ monitoring' = "None"
    /\ container' = FALSE /\ task' = "none" /\ server' = "none" /\ ctxDone' = FALSE
    /\ retErr' = "nil" /\ exitCode' = -1 /\ refresher' = "none"
    /\ att' = [a \in Attesters |-> "idle"]
    /\ ev' = [a \in Attesters |-> NoEvidence]
    /\ mu' = Nobody /\ refused' = {}

Init ==
    /\ launch \in Launches /\ tdx \in BOOLEAN
    /\ pc = "verifyFs" /\ todo = <<>>
    /\ cel = [r \in {"TPM", "TDX"} |-> <<>>]
    /\ reg = [r \in Range(Banks) \cup {"RTMR"} |-> <<>>]
    /\ tpmOpen = FALSE /\ ak = "none" /\ monitoring = "None"
    /\ container = FALSE /\ task = "none" /\ server = "none" /\ ctxDone = FALSE
    /\ retErr = "nil" /\ exitCode = -1 /\ refresher = "none"
    /\ att = [a \in Attesters |-> "idle"]
    /\ ev = [a \in Attesters |-> NoEvidence]
    /\ mu = Nobody /\ boots = 1 /\ refused = {}

-----------------------------------------------------------------------------
(* main, startLauncher and NewRunner: sequential, nothing else runs yet.   *)

measured == <<todo, cel, reg>>
attesting == <<refresher, att, ev, mu>>
held == <<tpmOpen, ak, monitoring, container, task, server, ctxDone>>
fixed == <<launch, tdx, boots, refused>>

Exit(code) == pc' = "exited" /\ exitCode' = code

\* main: verifyFsAndMount failing means a reboot, GetLaunchSpec failing a stop.
VerifyFsAndMount ==
    /\ pc = "verifyFs"
    /\ \/ pc' = "open" /\ UNCHANGED exitCode
       \/ Exit(3)
       \/ Exit(1)
    /\ UNCHANGED <<retErr, measured, attesting, held, fixed>>

\* startLauncher returns err: the deferred calls still to run start at step.
Return(err, step) == retErr' = err /\ pc' = step

\* startLauncher up to NewRunner: containerd, the TPM, the check of the AK
\* certificate.  The key opened for the check is closed only on success, but
\* goes with the device.
OpenDevices ==
    /\ pc = "open"
    /\ \/ pc' = "newRunner" /\ tpmOpen' = TRUE /\ UNCHANGED retErr
       \/ Return("retryable", "closeTpm") /\ UNCHANGED tpmOpen
       \/ Return("plain", "closeTpm") /\ tpmOpen' = TRUE
    /\ UNCHANGED <<exitCode, measured, attesting, ak, monitoring, container, task, server,
                   ctxDone, fixed>>

\* enableMonitoring, with the fall back from All to MemoryOnly.
MonitoringStarted(l) ==
    IF l.monitoring = "All" /\ ~l.healthExperiment THEN "MemoryOnly" ELSE l.monitoring

\* NewRunner fails before the container exists (pulling the image, the launch
\* policy, the ports, monitoring), while creating it, or after (its spec, the
\* REST client, the agent); then nothing deletes the container, and the agent's
\* key stays open when only the rest of CreateAttestationAgent failed.
NewRunner ==
    /\ pc = "newRunner"
    /\ \/ /\ pc' = "measure" /\ ak' = "open" /\ container' = TRUE
          /\ monitoring' = MonitoringStarted(launch)
          /\ todo' = MeasuredEvents(launch)
          /\ UNCHANGED retErr
       \/ /\ Return("plain", "closeTpm")
          /\ monitoring' \in {"None", MonitoringStarted(launch)}
          /\ UNCHANGED <<ak, container, todo>>
       \/ /\ Return("retryable", "closeTpm")
          /\ monitoring' = MonitoringStarted(launch)
          /\ container' \in BOOLEAN
          /\ UNCHANGED <<ak, todo>>
       \/ /\ Return("plain", "closeTpm")
          /\ monitoring' = MonitoringStarted(launch) /\ container' = TRUE
          /\ ak' \in {"none", "open"}
          /\ UNCHANGED todo
    /\ UNCHANGED <<exitCode, cel, reg, attesting, tpmOpen, task, server, ctxDone, fixed>>

\* Mutant of MeasureEvent: a failing extend is not reported.
MeasureEventIgnoresErrors ==
    /\ pc = "measure" /\ todo # <<>>
    /\ \E n \in 0 .. Len(Registers) :
         /\ reg' = [r \in DOMAIN reg |->
                      IF \E i \in 1 .. n : Registers[i] = r THEN Append(reg[r], Head(todo))
                                                            ELSE reg[r]]
         /\ cel' = [r \in DOMAIN cel |->
                      IF r \in Roots /\ \A i \in DOMAIN Registers : RootOf(Registers[i]) = r => i <= n
                      THEN Append(cel[r], Head(todo)) ELSE cel[r]]
    /\ todo' = Tail(todo)
    /\ UNCHANGED <<pc, retErr, exitCode, attesting, held, fixed>>

\* agent.MeasureEvent: extend every bank of every root; a root's event log gets
\* the record after all its banks.  The first n extends succeed and, unless all
\* do, the next fails and measureCELEvents returns the error.
MeasureEvent ==
    /\ pc = "measure" /\ todo # <<>>
    /\ \E n \in 0 .. Len(Registers) :
         /\ reg' = [r \in DOMAIN reg |->
                      IF \E i \in 1 .. n : Registers[i] = r THEN Append(reg[r], Head(todo))
                                                            ELSE reg[r]]
         /\ cel' = [r \in DOMAIN cel |->
                      IF r \in Roots /\ \A i \in DOMAIN Registers : RootOf(Registers[i]) = r => i <= n
                      THEN Append(cel[r], Head(todo)) ELSE cel[r]]
         /\ IF n = Len(Registers) THEN todo' = Tail(todo) /\ UNCHANGED <<pc, retErr>>
                                  ELSE Return("plain", "cancel") /\ UNCHANGED todo
    /\ UNCHANGED <<exitCode, attesting, held, fixed>>

-----------------------------------------------------------------------------
(* Run: the first token, the TEE server, the workload.                     *)

\* Without ITA the default token is fetched first, by main itself.
FetchToken ==
    /\ pc = "measure" /\ todo = <<>>
    /\ IF launch.ita THEN pc' = "server" /\ UNCHANGED att
                     ELSE pc' = "fetchToken" /\ att' = [att EXCEPT !["main"] = "challenge"]
    /\ UNCHANGED <<retErr, exitCode, measured, refresher, ev, mu, held, fixed>>

\* fetchAndWriteToken: the refresher starts after the first token was written.
TokenFetched ==
    /\ pc = "fetchToken" /\ att["main"] \in {"ok", "failed"}
    /\ IF att["main"] = "ok"
       THEN pc' = "server" /\ refresher' = "waiting" /\ UNCHANGED retErr
       ELSE Return("plain", "cancel") /\ UNCHANGED refresher
    /\ att' = [att EXCEPT !["main"] = "idle"]
    /\ UNCHANGED <<exitCode, measured, ev, mu, held, fixed>>

\* The verifier clients, the TEE server's socket and its goroutine.
StartTeeServer ==
    /\ pc = "server"
    /\ \/ pc' = "newTask" /\ server' = "serving" /\ UNCHANGED retErr
       \/ Return("plain", "cancel") /\ UNCHANGED server
    /\ UNCHANGED <<exitCode, measured, attesting, tpmOpen, ak, monitoring, container, task,
                   ctxDone, fixed>>

\* An unknown log redirection ends Run; otherwise NewTask, Wait and Start of the
\* container's task.  An error of Wait is only logged: main then receives from a
\* channel that was never made.
StartTask ==
    /\ \/ /\ pc = "newTask"
          /\ \/ pc' = "startTask" /\ task' = "created" /\ UNCHANGED retErr
             \/ \E err \in {"plain", "retryable"} : Return(err, "shutdown") /\ UNCHANGED task
       \/ /\ pc = "startTask"
          /\ \/ pc' \in {"wait", "waitForever"} /\ task' = "running" /\ UNCHANGED retErr
             \/ Return("retryable", "deleteTask") /\ UNCHANGED task
    /\ UNCHANGED <<exitCode, measured, attesting, tpmOpen, ak, monitoring, container, server,
                   ctxDone, fixed>>

\* The workload ends: with 0, with another code, or without a known result; main
\* hears of it if it has the channel.
WorkloadEnds ==
    /\ task = "running" /\ task' = "exited"
    /\ \/ pc = "wait" /\ \E err \in {"nil", "workload", "plain"} : Return(err, "deleteTask")
       \/ pc = "waitForever" /\ UNCHANGED <<pc, retErr>>
    /\ UNCHANGED <<exitCode, measured, attesting, tpmOpen, ak, monitoring, container, server,
                   ctxDone, fixed>>

-----------------------------------------------------------------------------
(* The deferred calls of Run and startLauncher, last one first.            *)

\* Whether task.Delete succeeds is not looked at.
DeleteTask ==
    /\ pc = "deleteTask" /\ pc' = "shutdown"
    /\ \/ task' = "none" /\ UNCHANGED refused
       \/ refused' = refused \cup {"task"} /\ UNCHANGED task
    /\ UNCHANGED <<retErr, exitCode, measured, attesting, tpmOpen, ak, monitoring, container,
                   server, ctxDone, launch, tdx, boots>>

\* Mutant of ShutdownTeeServer: requests in progress are not waited for.
ShutdownWithoutDraining ==
    /\ pc = "shutdown"
    /\ pc' = "cancel" /\ server' = "down"
    /\ UNCHANGED <<retErr, exitCode, measured, attesting, tpmOpen, ak, monitoring, container,
                   task, ctxDone, fixed>>

\* Mutant of ShutdownTeeServer: it also waits for the refresher to stop.
ShutdownAwaitsRefresher ==
    /\ pc = "shutdown"
    /\ \/ server = "serving" /\ server' = "draining" /\ UNCHANGED pc
       \/ /\ server = "draining" /\ \A h \in Handlers : att[h] = "idle"
          /\ refresher \in {"none", "stopped"}
          /\ server' = "down" /\ pc' = "cancel"
    /\ UNCHANGED <<retErr, exitCode, measured, attesting, tpmOpen, ak, monitoring, container,
                   task, ctxDone, fixed>>

\* TeeServer.Shutdown: no new requests, then wait until every handler is done.
\* The context it is given is cancelled only afterwards.
ShutdownTeeServer ==
    /\ pc = "shutdown"
    /\ \/ server = "serving" /\ server' = "draining" /\ UNCHANGED pc
       \/ /\ server = "draining" /\ \A h \in Handlers : att[h] = "idle"
          /\ server' = "down" /\ pc' = "cancel"
    /\ UNCHANGED <<retErr, exitCode, measured, attesting, tpmOpen, ak, monitoring, container,
                   task, ctxDone, fixed>>

CancelContext ==
    /\ pc = "cancel"
    /\ pc' = "closeRunner" /\ ctxDone' = TRUE
    /\ UNCHANGED <<retErr, exitCode, measured, attesting, tpmOpen, ak, monitoring, container,
                   task, server, fixed>>

\* ContainerRunner.Close: the agent's key, then the container, whether or not
\* containerd can delete it; the refresher is not waited for.
CloseRunner ==
    /\ pc = "closeRunner" /\ pc' = "closeTpm"
    /\ ak' = "closed"
    /\ \/ container' = FALSE /\ UNCHANGED refused
       \/ refused' = refused \cup {"container"} /\ UNCHANGED container
    /\ UNCHANGED <<retErr, exitCode, measured, attesting, tpmOpen, monitoring, task, server,
                   ctxDone, launch, tdx, boots>>

getExitCode(hardened, restartPolicy, err) ==
    CASE ~hardened                               -> 4
      [] hardened /\ err = "plain"               -> 1
      [] hardened /\ err \in {"retryable", "workload"} ->
            IF restartPolicy \in {"Always", "OnFailure"} THEN 3 ELSE 1
      [] OTHER -> IF restartPolicy = "Always" THEN 3 ELSE 0

\* startLauncher returns, main exits, and with it every other goroutine.
MainExits ==
    /\ pc = "closeTpm"
    /\ Exit(getExitCode(launch.hardened, launch.restartPolicy, retErr))
    /\ tpmOpen' = FALSE
    /\ refresher' = "none" /\ att' = [a \in Attesters |-> "idle"]
    /\ ev' = [a \in Attesters |-> NoEvidence] /\ mu' = Nobody
    /\ UNCHANGED <<retErr, measured, ak, monitoring, container, task, server, ctxDone, fixed>>

\* exit_script.sh: exit code 3 reboots the VM, 0 to 2 power it off, 4 keeps it.
Reboot ==
    /\ pc = "exited" /\ exitCode = 3 /\ boots < MaxBoots
    /\ Booted
    /\ boots' = boots + 1
    /\ UNCHANGED <<launch, tdx>>

-----------------------------------------------------------------------------
(* agent.AttestWithClient, for main, the refresher and the TEE handlers,   *)
(* and agent.AttestationEvidence, for the handlers only.                   *)

main == <<launch, tdx, pc, measured, held, retErr, exitCode, boots, refused>>

\* CreateChallenge and the principal tokens; both use Run's context.
CreateChallenge(a) ==
    /\ att[a] = "challenge"
    /\ \/ ~ctxDone /\ att' = [att EXCEPT ![a] = "lock"]
       \/ att' = [att EXCEPT ![a] = "failed"]
    /\ UNCHANGED <<main, refresher, ev, mu>>

LockRoot(a) ==
    /\ att[a] = "lock" /\ mu = Nobody
    /\ mu' = a /\ att' = [att EXCEPT ![a] = "quote"]
    /\ UNCHANGED <<main, refresher, ev>>

\* The quote over the attestation root's registers; the TPM's needs the key.
Quote(a) ==
    /\ att[a] = "quote"
    /\ \/ /\ tdx \/ ak = "open"
          /\ ev' = [ev EXCEPT ![a].reg =
                      [r \in {q \in Range(Registers) : RootOf(q) = AvRot} |-> reg[r]]]
          /\ att' = [att EXCEPT ![a] = "encode"]
       \/ att' = [att EXCEPT ![a] = "failed"] /\ UNCHANGED ev
    /\ mu' = Nobody
    /\ UNCHANGED <<main, refresher>>

\* EncodeCEL.  AttestationEvidence is done with it; for a TPM it answers with the
\* canonical event log of the attestation client.Attest made, which has none.
EncodeCEL(a) ==
    /\ att[a] = "encode"
    /\ IF ev[a].for = "verifier"
       THEN /\ ev' = [ev EXCEPT ![a].cel = cel[AvRot]]
            /\ att' = [att EXCEPT ![a] = "verify"]
       ELSE /\ ev' = [ev EXCEPT ![a].cel = IF tdx THEN cel["TDX"] ELSE <<>>]
            /\ att' = [att EXCEPT ![a] = "ok"]
    /\ UNCHANGED <<main, refresher, mu>>

\* The verifier answers, with a token or an error; it is called with Run's context.
Verify(a) ==
    /\ att[a] = "verify"
    /\ \/ ~ctxDone /\ att' = [att EXCEPT ![a] = "ok"]
       \/ att' = [att EXCEPT ![a] = "failed"]
    /\ UNCHANGED <<main, refresher, ev, mu>>

\* A request on the TEE server's socket: for a token, or for the evidence itself.
HandleRequest(h) ==
    /\ att[h] = "idle" /\ server = "serving"
    /\ \/ att' = [att EXCEPT ![h] = "challenge"] /\ UNCHANGED ev
       \/ att' = [att EXCEPT ![h] = "lock"] /\ ev' = [ev EXCEPT ![h].for = "workload"]
    /\ UNCHANGED <<main, refresher, mu>>

Respond(h) ==
    /\ att[h] \in {"ok", "failed"}
    /\ att' = [att EXCEPT ![h] = "idle"] /\ ev' = [ev EXCEPT ![h] = NoEvidence]
    /\ UNCHANGED <<main, refresher, mu>>

\* The refresher: the timer fires, or the context is done; when both are ready
\* either may be taken.  A failed refresh is retried for ever, also after the
\* context was cancelled.
RefreshToken ==
    /\ \/ /\ refresher = "waiting" /\ refresher' = "refreshing"
          /\ att' = [att EXCEPT !["refresher"] = "challenge"]
          /\ UNCHANGED ev
       \/ /\ refresher = "refreshing" /\ att["refresher"] \in {"ok", "failed"}
          /\ IF att["refresher"] = "ok"
             THEN refresher' = "waiting" /\ att' = [att EXCEPT !["refresher"] = "idle"]
             ELSE att' = [att EXCEPT !["refresher"] = "challenge"] /\ UNCHANGED refresher
          /\ ev' = [ev EXCEPT !["refresher"] = NoEvidence]
    /\ UNCHANGED <<main, mu>>

StopRefresher ==
    /\ refresher = "waiting" /\ ctxDone
    /\ refresher' = "stopped"
    /\ UNCHANGED <<main, att, ev, mu>>

-----------------------------------------------------------------------------
MainStep ==
    \/ VerifyFsAndMount \/ OpenDevices \/ NewRunner \/ MeasureEvent
    \/ FetchToken \/ TokenFetched \/ StartTeeServer \/ StartTask
    \/ DeleteTask \/ ShutdownTeeServer \/ CancelContext \/ CloseRunner \/ MainExits

AttestStep(a) ==
    \/ CreateChallenge(a) \/ LockRoot(a) \/ Quote(a) \/ EncodeCEL(a) \/ Verify(a)

\* The process has exited and the VM is off, on hold, or at the bound on boots.
Stopped == pc = "exited" /\ (exitCode # 3 \/ boots = MaxBoots) /\ UNCHANGED vars

Next ==
    \/ MainStep
    \/ WorkloadEnds
    \/ Reboot
    \/ \E a \in Attesters : AttestStep(a)
    \/ \E h \in Handlers : HandleRequest(h) \/ Respond(h)
    \/ RefreshToken
    \/ StopRefresher
    \/ Stopped

\* a waits for another machine without a time limit: the verifier (the ITA client has
\* no timeout and ignores the context), the metadata server, or the certificates that
\* http.DefaultClient fetches, for the TPM's quote with the root's mutex held.
Remote(a) == att[a] \in {"challenge", "verify"} \/ (att[a] = "quote" /\ ~tdx)

\* Goroutines keep running, containerd answers and a mutex is granted to each waiter
\* in the end; what waits for another machine may wait for ever.
Spec ==
    /\ Init /\ [][Next]_vars
    /\ WF_vars(MainStep)
    /\ \A a \in Attesters : WF_vars(~Remote(a) /\ AttestStep(a)) /\ SF_vars(LockRoot(a))
    /\ \A h \in Handlers : WF_vars(Respond(h))

-----------------------------------------------------------------------------
\* Types of the launcher's state.
TypeOK ==
    /\ launch \in Launches /\ tdx \in BOOLEAN /\ ctxDone \in BOOLEAN
    /\ pc \in {"verifyFs", "open", "newRunner", "measure", "fetchToken", "server", "newTask",
               "startTask", "wait", "waitForever", "deleteTask", "shutdown", "cancel", "closeRunner",
               "closeTpm", "exited"}
    /\ ak \in {"none", "open", "closed"} /\ tpmOpen \in BOOLEAN /\ container \in BOOLEAN
    /\ task \in {"none", "created", "running", "exited"}
    /\ server \in {"none", "serving", "draining", "down"}
    /\ retErr \in {"nil", "plain", "retryable", "workload"}
    /\ exitCode \in {-1, 0, 1, 3, 4} /\ (exitCode # -1 <=> pc = "exited")
    /\ refresher \in {"none", "waiting", "refreshing", "stopped"}
    /\ att \in [Attesters -> {"idle", "challenge", "lock", "quote", "encode", "verify",
                              "ok", "failed"}]
    /\ mu \in Attesters \cup {Nobody} /\ boots \in 1 .. MaxBoots
    /\ refused \subseteq {"task", "container"}

\* Evidence that leaves for a verifier (AttestWithClient) carries the complete log
\* of the launch, up to the separator, and every quoted register replays it: a
\* launch whose measuring failed half way, in some bank or root, never attests.
EvidenceComplete ==
    \A a \in Attesters : att[a] = "verify" =>
        /\ ev[a].cel = MeasuredEvents(launch)
        /\ \A r \in DOMAIN ev[a].reg : ev[a].reg[r] = ev[a].cel

\* What getVerifiedCosState makes of the evidence is the launch, for every launch
\* whose image gives its environment variables well-formed names; for any other
\* the verifier rejects the log, although the launcher has measured and runs it.
VerifierLearnsLaunch ==
    \A a \in Attesters : att[a] = "verify" => \A r \in DOMAIN ev[a].reg :
        LET st == GetVerifiedCosState(ev[a].cel, ev[a].reg[r])
        IN  /\ st.ok <=> WellFormedEnv(launch)
            /\ st.ok => Agrees(st, launch)

\* A request of the workload never finds the key closed, the device closed or the
\* context cancelled: Run's deferred Shutdown drains the server before cancel and
\* before ContainerRunner.Close.  And once the TEE server was started, whichever way
\* Run ends, the process exits with the server down, the key closed, and no task or
\* container but one that containerd failed to delete when asked: no error path skips
\* a release, and a release that fails keeps none of the later ones from being tried.
HeldThenReleased ==
    /\ \A h \in Handlers : att[h] # "idle" => ak = "open" /\ tpmOpen /\ ~ctxDone
    /\ pc = "exited" /\ server # "none" =>
           /\ server = "down" /\ ak = "closed"
           /\ task # "none" => "task" \in refused
           /\ container => "container" \in refused

\* When the workload ends the process exits, unless one of three waits never ends: a
\* request of the workload that waits for another machine, which the deferred Shutdown
\* waits for; the refresher's TPM quote, which holds the mutex such a request needs; and
\* main's own, when task.Wait failed.  Nothing else of the refresher, which retries for
\* ever, can delay the exit.
WorkloadEndLeadsToExit ==
    \/ task = "exited" ~> pc = "exited"
    \/ \E h \in Handlers : <>[]Remote(h)
    \/ <>[](att["refresher"] = "quote" /\ ~tdx)
    \/ <>[](pc = "waitForever")

=============================================================================
