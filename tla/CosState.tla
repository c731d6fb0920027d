------------------------------ MODULE CosState ------------------------------
(***************************************************************************)
(* The COS events of a launch.  The launcher measures them in a fixed      *)
(* order (launcher/container_runner.go, measureCELEvents) and a verifier   *)
(* reads them back (server/eventlog.go, getVerifiedCosState).  Names,      *)
(* digests and arguments are abstract values; an environment variable is a *)
(* pair of a name and a value, so that cel.FormatEnvVar and                *)
(* cel.ParseEnvVar come down to the check of the name.                     *)
(***************************************************************************)
EXTENDS Integers, Sequences, SequencesExt, TLC

CONSTANTS ValidNames,    \* names that match envVarNameRegexp
          Unset          \* the empty string of an unset proto field

\* The part of a launch that is measured.
\*   args, env          process args and environment of the container's OCI spec
\*   overEnv, overArgs  the operator's overrides (launchSpec.Envs, launchSpec.Cmd)
\*   imageId            Unset when image.Config fails at the time of measuring
Event(type, val) == [type |-> type, val |-> val]

Events(type, vals) == [i \in DOMAIN vals |-> Event(type, vals[i])]

\* measureMemoryMonitor records 1 for MemoryOnly and 0 for None and All.
MemoryMonitorEvent(launch) ==
    Event("MemoryMonitor", IF launch.monitoring = "MemoryOnly" THEN 1 ELSE 0)

\* measureCELEvents: the container claims, the memory monitor, the separator.
MeasuredEvents(launch) ==
    <<Event("ImageRef", launch.imageRef), Event("ImageDigest", launch.digest),
      Event("RestartPolicy", launch.restartPolicy)>>
    \o (IF launch.imageId = Unset THEN <<>> ELSE <<Event("ImageID", launch.imageId)>>)
    \o Events("Arg", launch.args) \o Events("EnvVar", launch.env)
    \o Events("OverrideEnv", launch.overEnv) \o Events("OverrideArg", launch.overArgs)
    \o <<MemoryMonitorEvent(launch), Event("LaunchSeparator", 0)>>

-----------------------------------------------------------------------------
EmptyCosState ==
    [ok |-> TRUE, seenSeparator |-> FALSE, imageRef |-> Unset, digest |-> Unset,
     imageId |-> Unset, restartPolicy |-> "Always", args |-> <<>>, env |-> <<>>,
     overArgs |-> <<>>, overEnv |-> <<>>, memory |-> Unset, gpu |-> "UNSET"]

RestartPolicies == {"Always", "OnFailure", "Never"}
GpuModes == {"UNSET", "ON", "OFF", "DEVTOOLS"}
Rejected(st) == [st EXCEPT !.ok = FALSE]

\* Mutant of WithEnvVar: the first value of a name is kept.
WithEnvVarFirstWins(st, field, var) ==
    IF var[1] \in ValidNames THEN [st EXCEPT ![field] = @ @@ (var[1] :> var[2])]
                             ELSE Rejected(st)

\* ParseEnvVar and the assignment to a map: the last value of a name wins.
WithEnvVar(st, field, var) ==
    IF var[1] \in ValidNames THEN [st EXCEPT ![field] = (var[1] :> var[2]) @@ @]
                             ELSE Rejected(st)

\* A field that may be set once.
SetOnce(st, field, val) ==
    IF st[field] # Unset THEN Rejected(st) ELSE [st EXCEPT ![field] = val]

\* One turn of the loop of getVerifiedCosState.
CosStep(st, ev) ==
    CASE ~st.ok                      -> st
      [] st.ok /\ st.seenSeparator   -> Rejected(st)
      [] OTHER ->
         CASE ev.type = "ImageRef"        -> SetOnce(st, "imageRef", ev.val)
           [] ev.type = "ImageDigest"     -> SetOnce(st, "digest", ev.val)
           [] ev.type = "ImageID"         -> SetOnce(st, "imageId", ev.val)
           [] ev.type = "RestartPolicy"   ->
                IF ev.val \in RestartPolicies THEN [st EXCEPT !.restartPolicy = ev.val]
                                              ELSE Rejected(st)
           [] ev.type = "Arg"             -> [st EXCEPT !.args = Append(@, ev.val)]
           [] ev.type = "EnvVar"          -> WithEnvVar(st, "env", ev.val)
           [] ev.type = "OverrideArg"     -> [st EXCEPT !.overArgs = Append(@, ev.val)]
           [] ev.type = "OverrideEnv"     -> WithEnvVar(st, "overEnv", ev.val)
           [] ev.type = "MemoryMonitor"   -> [st EXCEPT !.memory = (ev.val = 1)]
           [] ev.type = "GpuCCMode"       ->
                IF ev.val \in GpuModes THEN [st EXCEPT !.gpu = ev.val] ELSE Rejected(st)
           [] ev.type = "LaunchSeparator" -> [st EXCEPT !.seenSeparator = TRUE]
           [] OTHER                       -> Rejected(st)

\* getCosStateFromCEL: replay the log against the register, then read it.
GetVerifiedCosState(log, register) ==
    IF log # register THEN Rejected(EmptyCosState)
                      ELSE FoldLeft(CosStep, EmptyCosState, log)

-----------------------------------------------------------------------------
\* What a map built from a list of variables holds: the last value of a name.
LastValues(vars) ==
    LET names == {vars[i][1] : i \in DOMAIN vars}
        last(n) == CHOOSE i \in DOMAIN vars :
                      vars[i][1] = n /\ \A j \in DOMAIN vars : vars[j][1] = n => j <= i
    IN  [n \in names |-> vars[last(n)][2]]

\* The names the image gives its variables are all ones ParseEnvVar accepts.
WellFormedEnv(launch) == \A i \in DOMAIN launch.env : launch.env[i][1] \in ValidNames

\* What a verifier should learn of a launch.  The monitoring is left out: mode All is
\* measured as memory monitoring off.
Agrees(st, launch) ==
    /\ st.imageRef = launch.imageRef /\ st.digest = launch.digest
    /\ st.imageId = launch.imageId /\ st.restartPolicy = launch.restartPolicy
    /\ st.args = launch.args /\ st.env = LastValues(launch.env)
    /\ st.overArgs = launch.overArgs /\ st.overEnv = LastValues(launch.overEnv)
    /\ st.seenSeparator
=============================================================================
