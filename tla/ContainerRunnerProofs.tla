----------------------- MODULE ContainerRunnerProofs -----------------------
(***************************************************************************)
(* What leaves the launcher as evidence is the whole launch, and what the  *)
(* requests of the workload use is there as long as they run, for every    *)
(* set of launches, handlers and PCR banks.                                *)
(***************************************************************************)
EXTENDS ContainerRunner, SequenceTheorems, TLAPS

\* The events of the launch.
Measured == MeasuredEvents(launch)

\* Every register and the log of the attestation root hold the whole launch.
Complete == cel[AvRot] = Measured /\ \A r \in Range(Registers) : reg[r] = Measured

\* Nobody attests, and nobody is about to.
Quiet == refresher = "none" /\ \A a \in Attesters : att[a] = "idle"

Early == {"verifyFs", "open", "newRunner"}
Serving == {"newTask", "startTask", "wait", "waitForever", "deleteTask", "shutdown"}

\* What was measured and what is left to measure make up the launch.
Remaining(s) == s \in Seq(Range(Measured)) /\ s \o todo = Measured

MeasureInv ==
    /\ DOMAIN reg = Range(Banks) \cup {"RTMR"} /\ DOMAIN cel = {"TPM", "TDX"}
    /\ pc \in Early => /\ \A r \in DOMAIN reg : reg[r] = <<>>
                       /\ \A r \in DOMAIN cel : cel[r] = <<>>
    /\ pc = "measure" => /\ todo \in Seq(Range(Measured))
                         /\ \A r \in Range(Registers) : Remaining(reg[r])
                         /\ \A r \in Roots : Remaining(cel[r])
    /\ pc \in Early \cup {"measure"} => Quiet
    /\ ~Quiet \/ server # "none" \/ pc \in {"fetchToken", "server"} => Complete

EvidenceInv ==
    /\ DOMAIN ev = Attesters
    /\ \A a \in Attesters :
          /\ DOMAIN ev[a] = {"for", "cel", "reg"}
          /\ \A r \in DOMAIN ev[a].reg : ev[a].reg[r] = Measured
          /\ att[a] = "verify" => ev[a].cel = Measured

HeldInv ==
    /\ pc \in Early \cup {"measure", "fetchToken", "server"} => server = "none" /\ task = "none"
    /\ pc \in Early => ~ctxDone
    /\ pc = "newRunner" => tpmOpen
    /\ pc \in {"measure", "fetchToken", "server", "cancel"} \cup Serving =>
          ak = "open" /\ tpmOpen /\ ~ctxDone
    /\ pc \in Serving <=> server \in {"serving", "draining"}
    /\ pc = "newTask" => task = "none"
    /\ pc = "shutdown" \/ server = "down" => (task # "none" => "task" \in refused)
    /\ server = "down" => pc \in {"cancel", "closeRunner", "closeTpm", "exited"}
    /\ server = "down" /\ pc \in {"closeTpm", "exited"} =>
          ak = "closed" /\ (container => "container" \in refused)
    /\ \A h \in Handlers : att[h] # "idle" => server \in {"serving", "draining"}

RunnerInv == TypeOK /\ MeasureInv /\ EvidenceInv /\ HeldInv

-----------------------------------------------------------------------------
\* Moving the head of a sequence to the end of another leaves their
\* concatenation the same.
LEMMA MoveHead ==
    ASSUME NEW S, NEW s \in Seq(S), NEW t \in Seq(S), t # <<>>
    PROVE  Append(s, Head(t)) \in Seq(S) /\ Tail(t) \in Seq(S) /\ Append(s, Head(t)) \o Tail(t) = s \o t
<1>1. Head(t) \in S /\ Tail(t) \in Seq(S) /\ Len(Tail(t)) = Len(t) - 1
      /\ \A i \in 1 .. Len(Tail(t)) : Tail(t)[i] = t[i + 1]
  BY HeadTailProperties
<1>2. Append(s, Head(t)) \in Seq(S) /\ Len(Append(s, Head(t))) = Len(s) + 1
      /\ (\A i \in 1 .. Len(s) : Append(s, Head(t))[i] = s[i]) /\ Append(s, Head(t))[Len(s) + 1] = Head(t)
  BY <1>1, AppendProperties
<1>3. Len(s) \in Nat /\ Len(t) \in Nat /\ Len(t) > 0 /\ Head(t) = t[1]
  BY EmptySeq, LenProperties
<1> DEFINE x == Append(s, Head(t)) \o Tail(t)
           y == s \o t
<1>4. x \in Seq(S) /\ Len(x) = Len(s) + 1 + (Len(t) - 1)
      /\ \A i \in 1 .. Len(s) + 1 + (Len(t) - 1) :
            x[i] = IF i <= Len(s) + 1 THEN Append(s, Head(t))[i] ELSE Tail(t)[i - (Len(s) + 1)]
  BY <1>1, <1>2, ConcatProperties
<1>5. y \in Seq(S) /\ Len(y) = Len(s) + Len(t)
      /\ \A i \in 1 .. Len(s) + Len(t) : y[i] = IF i <= Len(s) THEN s[i] ELSE t[i - Len(s)]
  BY ConcatProperties
<1> HIDE DEF x, y
<1>6. Len(x) = Len(y)
  BY <1>3, <1>4, <1>5
<1>7. ASSUME NEW i \in 1 .. Len(x) PROVE x[i] = y[i]
  <2>1. CASE i <= Len(s)
    BY <2>1, <1>2, <1>3, <1>4, <1>5
  <2>2. CASE i = Len(s) + 1
    BY <2>2, <1>2, <1>3, <1>4, <1>5
  <2>3. CASE i > Len(s) + 1
    <3>1. i - (Len(s) + 1) \in 1 .. Len(Tail(t)) /\ i - (Len(s) + 1) + 1 = i - Len(s)
      BY <2>3, <1>1, <1>3, <1>4
    <3> QED  BY <3>1, <2>3, <1>1, <1>3, <1>4, <1>5
  <2> QED  BY <2>1, <2>2, <2>3, <1>3, <1>4
<1>8. x = y
  BY <1>4, <1>5, <1>6, <1>7, SeqEqual
<1> QED  BY <1>1, <1>2, <1>8 DEF x, y

LEMMA EventsIsSeq ==
    ASSUME NEW type, NEW vals, vals \in Seq(Range(vals))
    PROVE  Events(type, vals) \in Seq(Range(Events(type, vals)))
<1>1. Len(vals) \in Nat /\ DOMAIN vals = 1 .. Len(vals)
  BY LenProperties
<1>2. Events(type, vals) \in [1 .. Len(vals) -> Range(Events(type, vals))]
  BY <1>1 DEF Events, Range
<1> HIDE DEF Events
<1> QED  BY <1>1, <1>2, SeqDef

\* The events of a launch are a sequence.
LEMMA MeasuredIsSeq ==
    ASSUME launch \in Launches
    PROVE  Measured \in Seq(Range(Measured))
<1> DEFINE p1 == <<Event("ImageRef", launch.imageRef), Event("ImageDigest", launch.digest),
                   Event("RestartPolicy", launch.restartPolicy)>>
           p2 == IF launch.imageId = Unset THEN <<>> ELSE <<Event("ImageID", launch.imageId)>>
           p3 == Events("Arg", launch.args)
           p4 == Events("EnvVar", launch.env)
           p5 == Events("OverrideEnv", launch.overEnv)
           p6 == Events("OverrideArg", launch.overArgs)
           p7 == <<MemoryMonitorEvent(launch), Event("LaunchSeparator", 0)>>
           S == Range(p1) \cup Range(p2) \cup Range(p3) \cup Range(p4) \cup Range(p5) \cup Range(p6) \cup Range(p7)
<1>1. Measured = p1 \o p2 \o p3 \o p4 \o p5 \o p6 \o p7
  BY DEF Measured, MeasuredEvents
<1>2. p3 \in Seq(Range(p3)) /\ p4 \in Seq(Range(p4)) /\ p5 \in Seq(Range(p5)) /\ p6 \in Seq(Range(p6))
  BY RunnerAssumption, EventsIsSeq
<1>3. p1 \in Seq(Range(p1)) /\ p2 \in Seq(Range(p2)) /\ p7 \in Seq(Range(p7))
  <2>1. ASSUME NEW a, NEW b, NEW c PROVE <<a, b, c>> \in Seq({a, b, c}) /\ <<a, b>> \in Seq({a, b})
                                         /\ <<a>> \in Seq({a}) /\ <<>> \in Seq({a})
    OBVIOUS
  <2>2. p1 \in Seq(Range(p1))
    BY Zenon, <2>1, SeqOfRange
  <2>3. p7 \in Seq(Range(p7))
    BY Zenon, <2>1, SeqOfRange
  <2>4. p2 \in Seq(Range(p2))
    BY Zenon, <2>1, SeqOfRange
  <2> QED  BY <2>2, <2>3, <2>4
<1> HIDE DEF p1, p2, p3, p4, p5, p6, p7
<1>4. p1 \in Seq(S) /\ p2 \in Seq(S) /\ p3 \in Seq(S) /\ p4 \in Seq(S) /\ p5 \in Seq(S) /\ p6 \in Seq(S) /\ p7 \in Seq(S)
  BY <1>2, <1>3, SeqMonotonic
<1> HIDE DEF S
<1>5. p1 \o p2 \o p3 \o p4 \o p5 \o p6 \o p7 \in Seq(S)
  BY <1>4, ConcatProperties
<1> QED  BY Zenon, <1>1, <1>5, SeqOfRange

-----------------------------------------------------------------------------
LEMMA AttestersFacts ==
    /\ {"main", "refresher"} \subseteq Attesters /\ Handlers \subseteq Attesters
    /\ Handlers \cap {"main", "refresher", "nobody"} = {} /\ MaxBoots \in Nat \ {0}
  BY RunnerAssumption DEF Attesters

LEMMA TypeStep ==
    ASSUME TypeOK, [Next]_vars
    PROVE  TypeOK'
<1> DEFINE Flags == {tdx, ctxDone, tpmOpen, container} \subseteq BOOLEAN
<1>0. (refused \subseteq {"task", "container"})'
  <2>1. refused' \in {{}, refused, refused \cup {"task"}, refused \cup {"container"}}
    BY Zenon DEF Next, MainStep, AttestStep, vars, measured, attesting, held, fixed, main,
                 VerifyFsAndMount, OpenDevices, NewRunner, MeasureEvent, FetchToken, TokenFetched,
                 StartTeeServer, StartTask, WorkloadEnds, DeleteTask, ShutdownTeeServer, CancelContext,
                 CloseRunner, MainExits, Reboot, Booted, CreateChallenge, LockRoot, Quote, EncodeCEL,
                 Verify, HandleRequest, Respond, RefreshToken, StopRefresher, Stopped
  <2> QED  BY Zenon, <2>1 DEF TypeOK
<1> USE <1>0, AttestersFacts DEF TypeOK, measured, attesting, held, fixed, main
<1>1. CASE UNCHANGED vars
  BY <1>1 DEF vars
<1>2. CASE VerifyFsAndMount \/ OpenDevices \/ NewRunner \/ MeasureEvent
  <2>1. CASE VerifyFsAndMount
    BY <2>1 DEF VerifyFsAndMount, Exit
  <2>2. CASE OpenDevices
    <3>1. Flags'
      BY Zenon, <2>2 DEF OpenDevices
    <3> QED  BY <3>1, <2>2 DEF OpenDevices, Return
  <2>3. CASE NewRunner
    <3>1. Flags'
      BY Zenon, <2>3 DEF NewRunner
    <3>2. /\ pc' \in {"measure", "closeTpm"} /\ pc = "newRunner" /\ ak' \in {"open", ak, "none"}
          /\ retErr' \in {retErr, "plain", "retryable"}
          /\ UNCHANGED <<launch, exitCode, task, server, refresher, att, mu, boots>>
      BY Zenon, <2>3 DEF NewRunner, Return
    <3> QED  BY <3>1, <3>2
  <2>4. CASE MeasureEvent
    BY <2>4 DEF MeasureEvent, Return
  <2> QED  BY <1>2, <2>1, <2>2, <2>3, <2>4
<1>3. CASE FetchToken \/ TokenFetched \/ StartTeeServer \/ StartTask \/ WorkloadEnds
  BY <1>3 DEF FetchToken, TokenFetched, StartTeeServer, StartTask, WorkloadEnds, Return
<1>4. CASE DeleteTask \/ ShutdownTeeServer \/ CancelContext \/ CloseRunner
  <2>1. CASE DeleteTask
    BY <2>1 DEF DeleteTask
  <2>2. CASE ShutdownTeeServer
    BY <2>2 DEF ShutdownTeeServer
  <2>3. CASE CancelContext
    BY <2>3 DEF CancelContext
  <2>4. CASE CloseRunner
    <3>1. Flags'
      BY Zenon, <2>4 DEF CloseRunner
    <3> QED  BY <3>1, <2>4 DEF CloseRunner
  <2> QED  BY <1>4, <2>1, <2>2, <2>3, <2>4
<1>5. CASE MainExits
  <2>1. getExitCode(launch.hardened, launch.restartPolicy, retErr) \in {0, 1, 3, 4}
    BY DEF getExitCode
  <2>2. exitCode' \in {0, 1, 3, 4} /\ pc' = "exited"
    BY <1>5, <2>1 DEF MainExits, Exit
  <2>3. /\ UNCHANGED <<launch, ak, task, server, retErr, boots>>
        /\ refresher' = "none" /\ att' = [a \in Attesters |-> "idle"] /\ mu' = "nobody"
    BY <1>5 DEF MainExits, Nobody
  <2>4. Flags'
    BY Zenon, <1>5 DEF MainExits
  <2> QED  BY <2>2, <2>3, <2>4 DEF Nobody
<1>6. CASE Reboot
  <2>1. /\ pc' = "verifyFs" /\ exitCode' = -1 /\ UNCHANGED <<launch, tdx>>
        /\ ak' = "none" /\ task' = "none" /\ server' = "none" /\ retErr' = "nil" /\ refresher' = "none"
        /\ att' = [a \in Attesters |-> "idle"] /\ mu' = "nobody" /\ boots' = boots + 1 /\ boots < MaxBoots
    BY <1>6 DEF Reboot, Booted, Nobody
  <2>2. boots' \in 1 .. MaxBoots
    BY <2>1
  <2>3. Flags'
    BY Zenon, <1>6 DEF Reboot, Booted
  <2> QED  BY <2>1, <2>2, <2>3 DEF Nobody
<1>7. ASSUME NEW a \in Attesters, AttestStep(a) PROVE TypeOK'
  BY <1>7 DEF AttestStep, CreateChallenge, LockRoot, Quote, EncodeCEL, Verify, Nobody
<1>8. ASSUME NEW h \in Handlers, HandleRequest(h) \/ Respond(h) PROVE TypeOK'
  BY <1>8 DEF HandleRequest, Respond
<1>9. CASE RefreshToken \/ StopRefresher
  BY <1>9 DEF RefreshToken, StopRefresher
<1>10. CASE Stopped
  BY <1>1, <1>10 DEF Stopped
<1> QED  BY Zenon, <1>1, <1>2, <1>3, <1>4, <1>5, <1>6, <1>7, <1>8, <1>9, <1>10 DEF Next, MainStep

\* The deferred calls undo in reverse order what Run set up.
LEMMA HeldStep ==
    ASSUME TypeOK, HeldInv, [Next]_vars
    PROVE  HeldInv'
<1> USE AttestersFacts DEF HeldInv, TypeOK, Early, Serving, measured, attesting, held, fixed, main
<1>1. CASE UNCHANGED vars
  BY Zenon, <1>1 DEF vars
<1>2. CASE VerifyFsAndMount \/ OpenDevices \/ NewRunner \/ MeasureEvent
  <2>1. CASE VerifyFsAndMount
    BY <2>1 DEF VerifyFsAndMount, Exit
  <2>2. CASE OpenDevices
    BY Zenon, <2>2 DEF OpenDevices, Return
  <2>3. CASE NewRunner
    BY Zenon, <2>3 DEF NewRunner, Return
  <2>4. CASE MeasureEvent
    BY Zenon, <2>4 DEF MeasureEvent, Return
  <2> QED  BY <1>2, <2>1, <2>2, <2>3, <2>4
<1>3. CASE FetchToken \/ TokenFetched \/ StartTeeServer \/ StartTask \/ WorkloadEnds
  BY <1>3 DEF FetchToken, TokenFetched, StartTeeServer, StartTask, WorkloadEnds, Return
<1>4. CASE DeleteTask \/ ShutdownTeeServer \/ CancelContext \/ CloseRunner
  BY <1>4 DEF DeleteTask, ShutdownTeeServer, CancelContext, CloseRunner
<1>5. CASE MainExits
  BY <1>5 DEF MainExits, Exit, Nobody
<1>6. CASE Reboot
  BY Zenon, <1>6 DEF Reboot, Booted, Nobody
<1>7. ASSUME NEW a \in Attesters, AttestStep(a) PROVE HeldInv'
  BY <1>7 DEF AttestStep, CreateChallenge, LockRoot, Quote, EncodeCEL, Verify, Nobody
<1>8. ASSUME NEW h \in Handlers, HandleRequest(h) \/ Respond(h) PROVE HeldInv'
  BY <1>8 DEF HandleRequest, Respond
<1>9. CASE RefreshToken \/ StopRefresher
  BY <1>9 DEF RefreshToken, StopRefresher
<1>10. CASE Stopped
  BY <1>1, <1>10 DEF Stopped
<1> QED  BY Zenon, <1>1, <1>2, <1>3, <1>4, <1>5, <1>6, <1>7, <1>8, <1>9, <1>10 DEF Next, MainStep

-----------------------------------------------------------------------------
\* Somebody attests or may soon.
Active == ~Quiet \/ server # "none" \/ pc \in {"fetchToken", "server"}

LEMMA LaunchKept ==
    ASSUME [Next]_vars
    PROVE  /\ UNCHANGED <<launch, tdx, Measured, Registers, AvRot, Roots>>
           /\ MeasureEvent \/ NewRunner \/ Reboot \/ UNCHANGED <<todo, cel, reg>>
<1>1. /\ UNCHANGED <<launch, tdx>>
      /\ MeasureEvent \/ NewRunner \/ Reboot \/ UNCHANGED <<todo, cel, reg>>
  <2> USE DEF measured, fixed, main
  <2>1. CASE MainStep
    BY ZenonT(40), <2>1 DEF MainStep, VerifyFsAndMount, OpenDevices, NewRunner, MeasureEvent, FetchToken,
       TokenFetched, StartTeeServer, StartTask, DeleteTask, ShutdownTeeServer, CancelContext,
       CloseRunner, MainExits
  <2>2. CASE WorkloadEnds \/ Reboot \/ RefreshToken \/ StopRefresher
    BY ZenonT(40), <2>2 DEF WorkloadEnds, Reboot, RefreshToken, StopRefresher
  <2>3. ASSUME NEW a \in Attesters, AttestStep(a) PROVE UNCHANGED <<launch, tdx, todo, cel, reg>>
    BY ZenonT(40), <2>3 DEF AttestStep, CreateChallenge, LockRoot, Quote, EncodeCEL, Verify
  <2>4. ASSUME NEW h \in Handlers, HandleRequest(h) \/ Respond(h) PROVE UNCHANGED <<launch, tdx, todo, cel, reg>>
    BY ZenonT(40), <2>4 DEF HandleRequest, Respond
  <2>5. CASE Stopped \/ UNCHANGED vars
    BY <2>5 DEF Stopped, vars
  <2> QED  BY <2>1, <2>2, <2>3, <2>4, <2>5 DEF Next
<1>2. UNCHANGED <<Measured, Registers, AvRot, Roots>>
  BY Zenon, <1>1 DEF Measured, Registers, AvRot, Roots
<1> QED  BY <1>1, <1>2

\* The steps that measure nothing: attesting starts only where it may.
LEMMA NothingMeasured ==
    ASSUME TypeOK, HeldInv, MeasureInv, [Next]_vars, UNCHANGED <<todo, cel, reg>>,
           ~NewRunner, ~Reboot, ~FetchToken
    PROVE  MeasureInv'
<1>0. UNCHANGED <<launch, tdx, Measured, Registers, AvRot, Roots>>
  BY Zenon, LaunchKept
<1> SUFFICES /\ pc' \in Early => pc \in Early
             /\ pc' = "measure" => pc = "measure"
             /\ pc' \in Early \cup {"measure"} => Quiet'
             /\ Active' => Active
  <2>1. ASSUME NEW s PROVE Remaining(s)' <=> Remaining(s)
    BY <1>0 DEF Remaining
  <2>2. Complete' <=> Complete
    BY <1>0 DEF Complete
  <2>3. Active => Complete
    BY DEF Active, MeasureInv
  <2> SUFFICES ASSUME /\ pc' \in Early => pc \in Early
                      /\ pc' = "measure" => pc = "measure"
                      /\ pc' \in Early \cup {"measure"} => Quiet'
                      /\ Active' => Active
               PROVE  MeasureInv'
    BY Zenon
  <2>4. pc' = "measure" => /\ todo' \in Seq(Range(Measured'))
                           /\ \A r \in Range(Registers)' : Remaining(reg[r])'
                           /\ \A r \in Roots' : Remaining(cel[r])'
    BY Zenon, <1>0, <2>1 DEF MeasureInv, Remaining
  <2>5. Active' => Complete'
    BY Zenon, <2>2, <2>3
  <2> QED  BY <1>0, <2>4, <2>5 DEF MeasureInv, Active
<1> USE AttestersFacts DEF TypeOK, Early, Serving, Quiet, Active, measured, attesting, held, fixed, main
<1>1. pc \in Early \cup {"measure"} => Quiet /\ server = "none"
  BY Zenon DEF MeasureInv, HeldInv
<1>2. CASE UNCHANGED vars
  BY Zenon, <1>1, <1>2 DEF vars
<1>3. CASE VerifyFsAndMount \/ OpenDevices \/ MeasureEvent
  BY Zenon, <1>1, <1>3 DEF VerifyFsAndMount, OpenDevices, MeasureEvent, Exit, Return
<1>4. CASE TokenFetched \/ StartTeeServer \/ StartTask \/ WorkloadEnds
  BY Zenon, <1>1, <1>4 DEF TokenFetched, StartTeeServer, StartTask, WorkloadEnds, Return
<1>5. CASE DeleteTask \/ ShutdownTeeServer \/ CancelContext \/ CloseRunner
  BY <1>1, <1>5 DEF DeleteTask, ShutdownTeeServer, CancelContext, CloseRunner, HeldInv
<1>6. CASE MainExits
  BY Zenon, <1>1, <1>6 DEF MainExits, Exit
<1>7. ASSUME NEW a \in Attesters, AttestStep(a)
      PROVE  ~Quiet /\ UNCHANGED <<pc, server>>
  BY <1>7 DEF AttestStep, CreateChallenge, LockRoot, Quote, EncodeCEL, Verify
<1>8. ASSUME NEW h \in Handlers, HandleRequest(h) \/ Respond(h)
      PROVE  Active /\ pc \notin Early \cup {"measure"} /\ UNCHANGED <<pc, server>>
  BY Zenon, <1>1, <1>8 DEF HandleRequest, Respond, HeldInv
<1>9. CASE RefreshToken \/ StopRefresher
  BY <1>1, <1>9 DEF RefreshToken, StopRefresher
<1>10. CASE Stopped
  BY <1>2, <1>10 DEF Stopped
<1> QED  BY <1>1, <1>2, <1>3, <1>4, <1>5, <1>6, <1>7, <1>8, <1>9, <1>10 DEF Next, MainStep

LEMMA MeasureStep ==
    ASSUME TypeOK, HeldInv, MeasureInv, [Next]_vars
    PROVE  MeasureInv'
<1>0. UNCHANGED <<launch, tdx, Measured, Registers, AvRot, Roots>>
  BY LaunchKept
<1>1. Measured \in Seq(Range(Measured))
  BY Zenon, MeasuredIsSeq DEF TypeOK
<1>2. pc \in Early \cup {"measure"} => Quiet /\ server = "none"
  BY DEF MeasureInv, HeldInv
<1>3. AvRot \in Roots /\ Roots \subseteq {"TPM", "TDX"} /\ Range(Registers) \subseteq Range(Banks) \cup {"RTMR"}
  <2>1. AvRot \in Roots /\ Roots \subseteq {"TPM", "TDX"}
    BY DEF AvRot, Roots
  <2>2. Range(Registers) \subseteq Range(Banks) \cup {"RTMR"}
    <3>1. CASE tdx
      <4>1. Banks \in Seq(Range(Banks) \cup {"RTMR"}) /\ <<"RTMR">> \in Seq(Range(Banks) \cup {"RTMR"})
        BY RunnerAssumption, SeqMonotonic
      <4>2. Registers \in Seq(Range(Banks) \cup {"RTMR"})
        BY <3>1, <4>1, ConcatProperties DEF Registers
      <4> QED  BY <4>2, RangeOfSeq
    <3>2. CASE ~tdx
      <4>1. Registers = Banks
        BY <3>2, RunnerAssumption, ConcatEmptySeq DEF Registers
      <4> QED  BY <4>1
    <3> QED  BY <3>1, <3>2
  <2> QED  BY <2>1, <2>2
<1>4. CASE FetchToken
  <2>1. pc = "measure" /\ todo = <<>> /\ UNCHANGED <<todo, cel, reg>> /\ pc' \in {"server", "fetchToken"}
    BY <1>4 DEF FetchToken, measured
  <2>2. ASSUME NEW s, Remaining(s) PROVE s = Measured
    BY Zenon, <2>1, <2>2, ConcatEmptySeq DEF Remaining
  <2>3. Complete
    BY <2>1, <2>2, <1>3 DEF MeasureInv, Complete
  <2>4. Complete'
    BY Zenon, <2>1, <2>3, <1>0 DEF Complete
  <2> QED  BY <2>1, <2>4 DEF MeasureInv, Early
<1>5. CASE NewRunner
  <2>1. /\ pc = "newRunner" /\ UNCHANGED <<cel, reg, refresher, att, server>>
        /\ \/ pc' = "measure" /\ todo' = Measured
           \/ pc' = "closeTpm"
    BY ZenonT(40), <1>5 DEF NewRunner, Return, attesting, Measured
  <2>2. Quiet /\ Quiet' /\ server' = "none"
    BY <2>1, <1>2 DEF Early, Quiet
  <2>3. \A r \in DOMAIN reg : reg[r] = <<>>
    BY <2>1 DEF MeasureInv, Early
  <2>4. \A r \in DOMAIN cel : cel[r] = <<>>
    BY <2>1 DEF MeasureInv, Early
  <2>5. pc' = "measure" => Remaining(<<>>)'
    BY <2>1, <1>0, <1>1, ConcatEmptySeq, EmptySeq DEF Remaining
  <2>6. pc' = "measure" => /\ todo' \in Seq(Range(Measured'))
                           /\ \A r \in Range(Registers)' : Remaining(reg[r])'
                           /\ \A r \in Roots' : Remaining(cel[r])'
    <3>1. \A r \in Range(Registers) : reg'[r] = <<>>
      BY <2>1, <2>3, <1>3 DEF MeasureInv
    <3>2. \A r \in Roots : cel'[r] = <<>>
      BY Zenon, <2>1, <2>4, <1>3 DEF MeasureInv
    <3> QED  BY Zenon, <3>1, <3>2, <2>1, <2>5, <1>0, <1>1 DEF Remaining
  <2> QED  BY <2>1, <2>2, <2>6 DEF MeasureInv, Early
<1>6. CASE Reboot
  <2>1. /\ pc' = "verifyFs" /\ server' = "none" /\ refresher' = "none" /\ att' = [a \in Attesters |-> "idle"]
        /\ cel' = [r \in {"TPM", "TDX"} |-> <<>>] /\ reg' = [r \in Range(Banks) \cup {"RTMR"} |-> <<>>]
    BY <1>6 DEF Reboot, Booted
  <2>2. Quiet'
    BY Zenon, <2>1 DEF Quiet
  <2> QED  BY <2>1, <2>2 DEF MeasureInv, Early
<1>7. CASE MeasureEvent
  <2>1. /\ pc = "measure" /\ todo # <<>> /\ UNCHANGED <<refresher, att, server>>
        /\ pc' \in {"measure", "cancel"}
        /\ DOMAIN reg' = DOMAIN reg /\ DOMAIN cel' = DOMAIN cel
    BY <1>7 DEF MeasureEvent, Return, attesting, held
  <2>2. Quiet' /\ server' = "none"
    BY <2>1, <1>2 DEF Quiet
  <2>3. ASSUME pc' = "measure"
        PROVE  /\ todo' = Tail(todo)
               /\ \A r \in Range(Registers) : reg'[r] = Append(reg[r], Head(todo))
               /\ \A r \in Roots : cel'[r] = Append(cel[r], Head(todo))
    <3>1. PICK n \in 0 .. Len(Registers) :
            /\ reg' = [r \in DOMAIN reg |->
                         IF \E i \in 1 .. n : Registers[i] = r THEN Append(reg[r], Head(todo)) ELSE reg[r]]
            /\ cel' = [r \in DOMAIN cel |->
                         IF r \in Roots /\ \A i \in DOMAIN Registers : RootOf(Registers[i]) = r => i <= n
                         THEN Append(cel[r], Head(todo)) ELSE cel[r]]
            /\ IF n = Len(Registers) THEN todo' = Tail(todo) /\ UNCHANGED <<pc, retErr>>
                                     ELSE Return("plain", "cancel") /\ UNCHANGED todo
      BY Zenon, <1>7 DEF MeasureEvent
    <3>2. n = Len(Registers) /\ todo' = Tail(todo)
      BY <3>1, <2>3 DEF Return
    <3>3. DOMAIN Registers = 1 .. Len(Registers) /\ Len(Registers) \in Nat
      <4>1. Registers \in Seq(Range(Banks) \cup {"RTMR"})
        <5>1. Banks \in Seq(Range(Banks) \cup {"RTMR"}) /\ <<"RTMR">> \in Seq(Range(Banks) \cup {"RTMR"})
              /\ <<>> \in Seq(Range(Banks) \cup {"RTMR"})
          BY RunnerAssumption, SeqMonotonic, EmptySeq
        <5> QED  BY Zenon, <5>1, ConcatProperties DEF Registers
      <4> QED  BY <4>1, LenProperties
    <3>4. \A r \in Range(Registers) : \E i \in 1 .. n : Registers[i] = r
      BY <3>2, <3>3 DEF Range
    <3>5. \A i \in DOMAIN Registers : i <= n
      BY <3>2, <3>3
    <3>6. DOMAIN reg = Range(Banks) \cup {"RTMR"} /\ DOMAIN cel = {"TPM", "TDX"}
      BY Zenon DEF MeasureInv
    <3>7. \A r \in Range(Registers) : reg'[r] = Append(reg[r], Head(todo))
      BY <3>1, <3>4, <3>6, <1>3
    <3>8. \A r \in Roots : cel'[r] = Append(cel[r], Head(todo))
      BY <3>1, <3>5, <3>6, <1>3
    <3> QED  BY Zenon, <3>2, <3>7, <3>8
  <2>4. ASSUME NEW s, Remaining(s)
        PROVE  Append(s, Head(todo)) \in Seq(Range(Measured)) /\ Append(s, Head(todo)) \o Tail(todo) = Measured
    <3>1. /\ todo \in Seq(Range(Measured)) /\ todo # <<>>
          /\ s \in Seq(Range(Measured)) /\ s \o todo = Measured
      BY Zenon, <2>1, <2>4 DEF Remaining, MeasureInv
    <3> QED  BY ZenonT(40), <3>1, MoveHead
  <2>5. pc' = "measure" => /\ todo' \in Seq(Range(Measured'))
                           /\ \A r \in Range(Registers)' : Remaining(reg[r])'
                           /\ \A r \in Roots' : Remaining(cel[r])'
    <3> SUFFICES ASSUME pc' = "measure"
                 PROVE  /\ todo' \in Seq(Range(Measured'))
                        /\ \A r \in Range(Registers)' : Remaining(reg[r])'
                        /\ \A r \in Roots' : Remaining(cel[r])'
      BY Zenon
    <3>1. todo \in Seq(Range(Measured)) /\ (\A r \in Range(Registers) : Remaining(reg[r]))
          /\ \A r \in Roots : Remaining(cel[r])
      BY Zenon, <2>1 DEF MeasureInv
    <3>2. todo' \in Seq(Range(Measured))
      BY Zenon, <3>1, <2>1, <2>3, HeadTailProperties
    <3> QED  BY Zenon, <3>1, <3>2, <2>3, <2>4, <1>0 DEF Remaining
  <2> QED  BY Zenon, <2>1, <2>2, <2>5 DEF MeasureInv, Early
<1> QED  BY <1>4, <1>5, <1>6, <1>7, NothingMeasured, LaunchKept

\* One attester's evidence, when the launch is what it was.
EvidenceOf(a) ==
    /\ DOMAIN ev[a] = {"for", "cel", "reg"}
    /\ \A r \in DOMAIN ev[a].reg : ev[a].reg[r] = Measured
    /\ att[a] = "verify" => ev[a].cel = Measured

LEMMA EvidenceStep ==
    ASSUME TypeOK, MeasureInv, EvidenceInv, [Next]_vars
    PROVE  EvidenceInv'
<1>0. UNCHANGED <<Measured, Registers, AvRot>> /\ Attesters' = Attesters
  BY Zenon, LaunchKept DEF Attesters
<1> USE AttestersFacts
<1>1. DOMAIN ev = Attesters /\ DOMAIN att = Attesters /\ \A a \in Attesters : EvidenceOf(a)
  BY Zenon DEF EvidenceInv, EvidenceOf, TypeOK
<1> SUFFICES DOMAIN ev' = Attesters /\ \A a \in Attesters : EvidenceOf(a)'
  BY Zenon, <1>0 DEF EvidenceInv, EvidenceOf
<1>2. ASSUME UNCHANGED ev, \A a \in Attesters : att'[a] = "verify" => att[a] = "verify"
      PROVE  DOMAIN ev' = Attesters /\ \A a \in Attesters : EvidenceOf(a)'
  BY <1>0, <1>1, <1>2 DEF EvidenceOf
<1>3. ASSUME ev' = [a \in Attesters |-> NoEvidence], att' = [a \in Attesters |-> "idle"]
      PROVE  DOMAIN ev' = Attesters /\ \A a \in Attesters : EvidenceOf(a)'
  BY <1>3 DEF EvidenceOf, NoEvidence
<1>4. ASSUME NEW a \in Attesters, \A b \in Attesters \ {a} : ev'[b] = ev[b] /\ att'[b] = att[b],
             DOMAIN ev' = Attesters, EvidenceOf(a)'
      PROVE  DOMAIN ev' = Attesters /\ \A b \in Attesters : EvidenceOf(b)'
  BY <1>0, <1>1, <1>4 DEF EvidenceOf
<1>5. CASE UNCHANGED vars \/ Stopped
  BY <1>2, <1>5 DEF vars, Stopped
<1>6. CASE MainStep /\ ~MainExits
  <2>1. UNCHANGED ev /\ \A a \in Attesters : att'[a] = "verify" => att[a] = "verify"
    <3>1. CASE FetchToken \/ TokenFetched
      BY <3>1, <1>1 DEF FetchToken, TokenFetched
    <3>2. CASE ~(FetchToken \/ TokenFetched)
      BY Zenon, <3>2, <1>6 DEF MainStep, VerifyFsAndMount, OpenDevices, NewRunner, MeasureEvent, StartTeeServer,
         StartTask, DeleteTask, ShutdownTeeServer, CancelContext, CloseRunner, attesting
    <3> QED  BY <3>1, <3>2
  <2> QED  BY <1>2, <2>1
<1>7. CASE MainExits \/ Reboot
  BY <1>3, <1>7 DEF MainExits, Reboot, Booted
<1>8. CASE WorkloadEnds \/ StopRefresher
  BY <1>2, <1>8 DEF WorkloadEnds, StopRefresher, attesting
<1>9. ASSUME NEW a \in Attesters, AttestStep(a)
      PROVE  DOMAIN ev' = Attesters /\ \A b \in Attesters : EvidenceOf(b)'
  <2>1. Complete /\ EvidenceOf(a)
    BY Zenon, <1>1, <1>9 DEF AttestStep, CreateChallenge, LockRoot, Quote, EncodeCEL, Verify, Quiet, MeasureInv
  <2>2. CASE CreateChallenge(a) \/ LockRoot(a) \/ Verify(a)
    BY <1>1, <1>2, <2>2 DEF CreateChallenge, LockRoot, Verify
  <2>3. CASE Quote(a)
    <3> DEFINE q == [r \in {x \in Range(Registers) : RootOf(x) = AvRot} |-> reg[r]]
    <3>1. \A r \in DOMAIN q : q[r] = Measured
      BY <2>1 DEF Complete
    <3>2. \/ ev' = [ev EXCEPT ![a].reg = q] /\ att' = [att EXCEPT ![a] = "encode"]
          \/ UNCHANGED ev /\ att' = [att EXCEPT ![a] = "failed"]
      BY <2>3 DEF Quote
    <3> HIDE DEF q
    <3>3. EvidenceOf(a)'
      BY <3>1, <3>2, <2>1, <1>0, <1>1 DEF EvidenceOf
    <3> QED  BY <3>2, <3>3, <1>1, <1>4
  <2>4. CASE EncodeCEL(a)
    <3>1. PICK c : /\ ev' = [ev EXCEPT ![a].cel = c]
                   /\ \/ c = cel[AvRot] /\ att' = [att EXCEPT ![a] = "verify"]
                      \/ att' = [att EXCEPT ![a] = "ok"]
      BY Zenon, <2>4 DEF EncodeCEL
    <3>2. EvidenceOf(a)'
      BY <3>1, <2>1, <1>0, <1>1 DEF EvidenceOf, Complete
    <3> QED  BY <3>1, <3>2, <1>1, <1>4
  <2> QED  BY <1>9, <2>2, <2>3, <2>4 DEF AttestStep
<1>10. ASSUME NEW h \in Handlers, HandleRequest(h) \/ Respond(h)
       PROVE  DOMAIN ev' = Attesters /\ \A b \in Attesters : EvidenceOf(b)'
  <2>1. h \in Attesters /\ EvidenceOf(h)
    BY <1>1 DEF Attesters
  <2>2. EvidenceOf(h)'
    BY <1>0, <1>1, <1>10, <2>1 DEF HandleRequest, Respond, EvidenceOf, NoEvidence
  <2>3. DOMAIN ev' = Attesters /\ \A b \in Attesters \ {h} : ev'[b] = ev[b] /\ att'[b] = att[b]
    BY <1>1, <1>10, <2>1 DEF HandleRequest, Respond
  <2> QED  BY <1>4, <2>1, <2>2, <2>3
<1>11. CASE RefreshToken
  <2>1. "refresher" \in Attesters /\ EvidenceOf("refresher")
    BY Zenon, <1>1 DEF Attesters
  <2>2. EvidenceOf("refresher")'
    BY <1>0, <1>1, <1>11, <2>1 DEF RefreshToken, EvidenceOf, NoEvidence
  <2>3. DOMAIN ev' = Attesters /\ \A b \in Attesters \ {"refresher"} : ev'[b] = ev[b] /\ att'[b] = att[b]
    BY <1>1, <1>11, <2>1 DEF RefreshToken
  <2> QED  BY <1>4, <2>1, <2>2, <2>3
<1> QED  BY <1>5, <1>6, <1>7, <1>8, <1>9, <1>10, <1>11 DEF Next

LEMMA RunnerInit == Init => RunnerInv
<1> SUFFICES ASSUME Init PROVE RunnerInv
  OBVIOUS
<1> USE DEF Init
<1>1. TypeOK
  <2>1. {tdx, ctxDone, tpmOpen, container} \subseteq BOOLEAN
    BY Zenon
  <2>2. /\ exitCode = -1 /\ pc = "verifyFs" /\ boots \in 1 .. MaxBoots
        /\ att \in [Attesters -> {"idle", "challenge", "lock", "quote", "encode", "verify", "ok", "failed"}]
    BY RunnerAssumption
  <2>3. (exitCode # -1 <=> pc = "exited") /\ exitCode \in {-1, 0, 1, 3, 4} /\ mu \in Attesters \cup {Nobody}
    BY <2>2
  <2> QED  BY Zenon, <2>1, <2>2, <2>3 DEF TypeOK
<1>2. Quiet
  BY DEF Quiet
<1>3. MeasureInv
  BY Zenon, <1>2 DEF MeasureInv, Early
<1>4. EvidenceInv
  BY DEF EvidenceInv, NoEvidence
<1>5. HeldInv
  BY RunnerAssumption, AttestersFacts DEF HeldInv, Early, Serving, Attesters
<1> QED  BY <1>1, <1>3, <1>4, <1>5 DEF RunnerInv

-----------------------------------------------------------------------------
\* What the launcher keeps, for any launches, banks, requests and boots: up to the
\* separator every register and log that is to be extended has the same prefix of the
\* events, nobody attests before they are all in, and what was quoted is all of them.
THEOREM RunnerInvariant == Spec => []RunnerInv
<1>1. RunnerInv /\ [Next]_vars => RunnerInv'
  BY TypeStep, HeldStep, MeasureStep, EvidenceStep DEF RunnerInv
<1> QED  BY RunnerInit, <1>1, PTL DEF Spec

\* Evidence that leaves for a verifier (AttestWithClient) is the complete log, and every
\* quoted register replays it: a MeasureEvent that failed in some bank never attests.
THEOREM EvidenceIsComplete == Spec => []EvidenceComplete
<1>1. RunnerInv => EvidenceComplete
  BY DEF RunnerInv, EvidenceInv, EvidenceComplete, Measured
<1> QED  BY RunnerInvariant, <1>1, PTL

\* A request of the workload finds the key, the device and the context as Run made them,
\* and an exit after the TEE server was started leaves nothing but a task or a container
\* that containerd failed to delete when Run's deferred calls asked for it.
THEOREM RequestsAreServed == Spec => []HeldThenReleased
<1>1. RunnerInv => HeldThenReleased
  BY AttestersFacts DEF RunnerInv, HeldInv, HeldThenReleased, TypeOK, Serving, Attesters
<1> QED  BY RunnerInvariant, <1>1, PTL
============================================================================
