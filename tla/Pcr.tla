-------------------------------- MODULE Pcr --------------------------------
(***************************************************************************)
(* The platform configuration registers of the TPM: PCR.c, the commands    *)
(* of command/PCR, the _TPM_Hash_* events of a dynamic or a hardware root  *)
(* of trust, and what Startup.c and Shutdown.c do with PCR.                *)
(*                                                                         *)
(* A PCR value is the value it was last set to and the digests extended    *)
(* into it since: hashes do not collide.  A digest is the sequence of data *)
(* it was computed over.  The memory of a PCR keeps its contents while the *)
(* power is off; Startup overwrites every allocated PCR before it is read. *)
(* NV is always available and never fails to recover the saved state.      *)
(***************************************************************************)
EXTENDS Integers, Sequences, FiniteSets

CONSTANTS
    Banks,          \* the hash algorithms
    PcrSet,         \* the implemented PCR, some of 0 .. 23
    Data,           \* what is measured
    Allocations,    \* the requests of PCR_Allocate: banks to the PCR selected
    Localities,     \* the localities commands come from
    MaxLog,         \* bound: digests extended into a PCR
    MaxCounter,     \* bound: pcrCounter when a command changes a PCR
    MaxBoots        \* bound: losses of power

HCRTM_PCR == 0
DRTM_PCR == 17

ASSUME PcrAssumption ==
    /\ PcrSet \subseteq 0..23 /\ {HCRTM_PCR, DRTM_PCR} \subseteq PcrSet
    /\ IsFiniteSet(Banks) /\ Banks # {}
    /\ Localities \subseteq 0..4
    /\ \A a \in Allocations : DOMAIN a \subseteq Banks /\ \A b \in DOMAIN a : a[b] \subseteq PcrSet
    /\ {MaxLog, MaxCounter, MaxBoots} \subseteq Nat

\* The columns of s_initAttributes.
StateSave(p) == p <= 15

ResetLocality(p) ==
    CASE p <= 15        -> {}
      [] p \in {16, 23} -> 0..3
      [] p \in 17..19   -> {4}
      [] p \in 20..22   -> {2, 4}

ExtendLocality(p) ==
    CASE p <= 16 \/ p = 23 -> 0..4
      [] p \in 17..18      -> 2..4
      [] p = 19            -> 2..3
      [] p = 20            -> 1..3
      [] p \in 21..22      -> {2}

PCRBelongsTCBGroup(p) == p \in 20..22

VARIABLES
    pcrs,               \* s_pcrs
    pcrAllocated,       \* gp.pcrAllocated
    nvAllocated,        \* its copy in NV, of the next boot
    pcrReConfig,        \* g_pcrReConfig
    pcrCounter,         \* gr.pcrCounter
    savedCounter,       \* its copy in NV
    pcrSave,            \* gc.pcrSave
    orderlyState,       \* gp.orderlyState, with the flags of the startup
    started,            \* s_initialized
    drtm,               \* the data hashed since _TPM_Hash_Start, or Closed
    drtmPreStartup,     \* g_DrtmPreStartup
    startupLocality3,   \* g_StartupLocality3
    locality,           \* of the platform
    boots,              \* losses of power so far
    atLoss,             \* history: what could be read when the power was last lost,
                        \* until the next Startup
    startup,            \* history: the kind of the last Startup
    unsaved             \* history: the PCR that a resume gave a value that was never
                        \* saved for this boot, as they were allocated after Shutdown(STATE)

pcrVars == <<pcrs, pcrAllocated, nvAllocated, pcrReConfig, pcrCounter, savedCounter, pcrSave,
             orderlyState, started, drtm, drtmPreStartup, startupLocality3, locality, boots, atLoss,
             startup, unsaved>>

Closed == <<"closed">>
Digests == Seq(Data)
Starts == {"zeros", "ones", "hcrtm", "locality3"}
Values == [from : Starts, log : Seq(Digests)]
StateSaved == {"STATE", "STATE_HCRTM", "STATE_L3"}
StaticPcrs == {p \in PcrSet : StateSave(p)}

Set(from) == [from |-> from, log |-> <<>>]

PCRExtended(v, digest) == [v EXCEPT !.log = Append(@, digest)]

\* PCRChanged(), called n times
Bumped(p, n) == IF PCRBelongsTCBGroup(p) THEN pcrCounter ELSE pcrCounter + n

\* The static PCR as they can be read now
Readable == [allocated |-> pcrAllocated, pcrs |-> [b \in Banks |-> [p \in StaticPcrs |-> pcrs[b][p]]]]

NothingLost == [allocated |-> [b \in Banks |-> {}], pcrs |-> [b \in Banks |-> [p \in StaticPcrs |-> Set("zeros")]]]

BanksWith(p) == {b \in Banks : p \in pcrAllocated[b]}

TypeOK ==
    /\ pcrs \in [Banks -> [PcrSet -> Values]]
    /\ pcrAllocated \in [Banks -> SUBSET PcrSet] /\ nvAllocated \in [Banks -> SUBSET PcrSet]
    /\ {pcrCounter, savedCounter, boots} \subseteq Nat
    /\ pcrSave \in [Banks -> [StaticPcrs -> Values]]
    /\ orderlyState \in {"NONE", "CLEAR"} \cup StateSaved
    /\ {started, pcrReConfig, drtmPreStartup, startupLocality3} \subseteq BOOLEAN
    /\ drtm = Closed \/ drtm \in Digests
    /\ locality \in 0..4
    /\ startup \in {"NONE", "RESET", "RESTART", "RESUME"}
    /\ unsaved \in [Banks -> SUBSET PcrSet]
    /\ atLoss.allocated \in [Banks -> SUBSET PcrSet] /\ atLoss.pcrs \in [Banks -> [StaticPcrs -> Values]]

----------------------------------------------------------------------------
(* Commands.  Whatever its outcome, a command ends the hash sequence of a  *)
(* dynamic root of trust.                                                  *)

Command == started /\ drtm' = Closed

Refused ==
    UNCHANGED <<pcrs, pcrAllocated, nvAllocated, pcrReConfig, pcrCounter, savedCounter, pcrSave,
                orderlyState, started, drtmPreStartup, startupLocality3, locality, boots, atLoss,
                startup, unsaved>>

\* The check of the orderly state forgotten
OrderlyAfterForgotten(p) == orderlyState

\* RETURN_IF_ORDERLY for a PCR whose value a Shutdown(STATE) saves
OrderlyAfter(p) == IF StateSave(p) THEN "NONE" ELSE orderlyState

PCRIsExtendAllowed(p) == locality \in ExtendLocality(p)

\* Without the test of locality 4
PCRIsResetAllowedAt4(p) == locality \in ResetLocality(p)

\* For a TPM that does DRTM, a reset is not allowed at locality 4.
PCRIsResetAllowed(p) == locality # 4 /\ locality \in ResetLocality(p)

ExtendBanks(p, banks, digest) ==
    LET hit == banks \cap BanksWith(p)
    IN  /\ pcrs' = [b \in Banks |-> IF b \in hit THEN [pcrs[b] EXCEPT ![p] = PCRExtended(@, digest)]
                                                 ELSE pcrs[b]]
        /\ pcrCounter' = Bumped(p, Cardinality(hit))

HasRoom(p) == pcrCounter < MaxCounter /\ \A b \in Banks : Len(pcrs[b][p].log) < MaxLog

\* TPM2_PCR_Extend with a digest for each of some banks
PCR_Extend(p, banks, digest) ==
    /\ Command
    /\ HasRoom(p)
    /\ \/ /\ PCRIsExtendAllowed(p)
          /\ ExtendBanks(p, banks, digest)
          /\ orderlyState' = OrderlyAfter(p)
          /\ UNCHANGED <<pcrAllocated, nvAllocated, pcrReConfig, savedCounter, pcrSave, started,
                         drtmPreStartup, startupLocality3, locality, boots, atLoss, startup, unsaved>>
       \/ ~PCRIsExtendAllowed(p) /\ Refused

\* TPM2_PCR_Event: the TPM computes the digest for every bank.
PCR_Event(p, data) == PCR_Extend(p, Banks, <<data>>)

ResetPcr(p) == [b \in Banks |-> IF b \in BanksWith(p) THEN [pcrs[b] EXCEPT ![p] = Set("zeros")] ELSE pcrs[b]]

PCR_Reset(p) ==
    /\ Command
    /\ pcrCounter < MaxCounter
    /\ \/ /\ PCRIsResetAllowed(p)
          /\ pcrs' = ResetPcr(p)
          /\ pcrCounter' = Bumped(p, 1)
          /\ orderlyState' = OrderlyAfter(p)
          /\ UNCHANGED <<pcrAllocated, nvAllocated, pcrReConfig, savedCounter, pcrSave, started,
                         drtmPreStartup, startupLocality3, locality, boots, atLoss, startup, unsaved>>
       \/ ~PCRIsResetAllowed(p) /\ Refused

\* PCRAllocate(): the banks that are not in the request stay as they are.
NewAllocation(request) ==
    [b \in Banks |-> IF b \in DOMAIN request THEN request[b] ELSE pcrAllocated[b]]

\* Only the H-CRTM's PCR asked for
KeepsRootsHcrtm(allocation) == \E b \in Banks : HCRTM_PCR \in allocation[b]

KeepsRoots(allocation) ==
    \A p \in {HCRTM_PCR, DRTM_PCR} : \E b \in Banks : p \in allocation[b]

PCR_Allocate(request) ==
    /\ Command
    /\ \/ /\ KeepsRoots(NewAllocation(request))
          /\ nvAllocated' = NewAllocation(request)
          /\ pcrReConfig' = TRUE
          /\ UNCHANGED <<pcrs, pcrAllocated, pcrCounter, savedCounter, pcrSave, orderlyState, started,
                         drtmPreStartup, startupLocality3, locality, boots, atLoss, startup, unsaved>>
       \/ ~KeepsRoots(NewAllocation(request)) /\ Refused

\* What TPM2_Clear does to PCR: it writes all of gp to NV and bumps the counter.
Clear ==
    /\ Command
    /\ pcrCounter < MaxCounter
    /\ nvAllocated' = pcrAllocated
    /\ pcrCounter' = Bumped(HCRTM_PCR, 1)
    /\ orderlyState' = "NONE"
    /\ UNCHANGED <<pcrs, pcrAllocated, pcrReConfig, savedCounter, pcrSave, started, drtmPreStartup,
                   startupLocality3, locality, boots, atLoss, startup, unsaved>>

----------------------------------------------------------------------------
(* The events of a root of trust.  Before Startup they measure the         *)
(* hardware root (H-CRTM) into PCR 0, after it the dynamic root (DRTM)     *)
(* into PCR 17.                                                            *)

EventVars == <<pcrAllocated, nvAllocated, pcrReConfig, savedCounter, pcrSave, orderlyState, started,
               startupLocality3, locality, boots, atLoss, startup, unsaved>>

TPM_Hash_Start ==
    /\ drtm' = <<>>
    /\ UNCHANGED <<EventVars, pcrs, pcrCounter, drtmPreStartup>>

TPM_Hash_Data(data) ==
    /\ drtm # Closed /\ Len(drtm) < MaxLog
    /\ drtm' = Append(drtm, data)
    /\ UNCHANGED <<EventVars, pcrs, pcrCounter, drtmPreStartup>>

\* PCRResetDynamics(): what locality 4 may reset goes to zero, with no PCRChanged().
PCRResetDynamics ==
    [b \in Banks |-> [p \in PcrSet |-> IF p \in pcrAllocated[b] /\ 4 \in ResetLocality(p)
                                       THEN Set("zeros") ELSE pcrs[b][p]]]

\* PcrDrtm() for every bank that has the PCR
PcrDrtm(p, values, from) ==
    /\ pcrs' = [b \in Banks |-> IF b \in BanksWith(p)
                                THEN [values[b] EXCEPT ![p] = PCRExtended(Set(from), drtm)]
                                ELSE values[b]]
    /\ pcrCounter' = Bumped(p, Cardinality(BanksWith(p)))

TPM_Hash_End ==
    /\ drtm # Closed
    /\ pcrCounter < MaxCounter
    /\ drtm' = Closed
    /\ \/ /\ started
          /\ PcrDrtm(DRTM_PCR, PCRResetDynamics, "zeros")
          /\ UNCHANGED drtmPreStartup
       \/ /\ ~started
          /\ PcrDrtm(HCRTM_PCR, pcrs, "hcrtm")
          /\ drtmPreStartup' = TRUE
    /\ UNCHANGED EventVars

----------------------------------------------------------------------------
(* Shutdown, loss of power and Startup                                     *)

\* A Shutdown(STATE) is refused once banks have been reconfigured.
ShutdownAllowed(type) == ~(pcrReConfig /\ type = "STATE")

Shutdown(type) ==
    /\ Command
    /\ \/ /\ ShutdownAllowed(type) /\ type = "STATE"
          /\ pcrSave' = [b \in Banks |-> [p \in StaticPcrs |->
                            IF p \in pcrAllocated[b] THEN pcrs[b][p] ELSE pcrSave[b][p]]]
          /\ savedCounter' = pcrCounter
          /\ orderlyState' = IF drtmPreStartup THEN "STATE_HCRTM"
                             ELSE IF startupLocality3 THEN "STATE_L3" ELSE "STATE"
          /\ UNCHANGED <<pcrs, pcrAllocated, nvAllocated, pcrReConfig, pcrCounter, started,
                         drtmPreStartup, startupLocality3, locality, boots, atLoss, startup, unsaved>>
       \/ /\ ShutdownAllowed(type) /\ type = "CLEAR"
          /\ orderlyState' = "CLEAR"
          /\ UNCHANGED <<pcrs, pcrAllocated, nvAllocated, pcrReConfig, pcrCounter, savedCounter, pcrSave,
                         started, drtmPreStartup, startupLocality3, locality, boots, atLoss, startup, unsaved>>
       \/ ~ShutdownAllowed(type) /\ Refused

\* The power is lost, and _TPM_Init reads the persistent data again.
PowerLoss ==
    /\ boots < MaxBoots
    /\ boots' = boots + 1
    /\ started' = FALSE
    /\ drtm' = Closed
    /\ drtmPreStartup' = FALSE
    /\ pcrAllocated' = nvAllocated
    /\ atLoss' = IF started THEN Readable ELSE atLoss
    /\ UNCHANGED <<pcrs, nvAllocated, pcrReConfig, pcrCounter, savedCounter, pcrSave, orderlyState,
                   startupLocality3, locality, startup, unsaved>>

SetLocality(l) ==
    /\ locality' = l
    /\ UNCHANGED <<pcrs, pcrAllocated, nvAllocated, pcrReConfig, pcrCounter, savedCounter, pcrSave,
                   orderlyState, started, drtm, drtmPreStartup, startupLocality3, boots, atLoss, startup, unsaved>>

\* With an H-CRTM measurement the locality of Startup does not count.
StartupAtLocality3 == locality = 3 /\ ~drtmPreStartup

\* The startup flags of the saved state not compared
StartupAllowedAnyFlags(type) ==
    /\ locality \in {0, 3}
    /\ type = "STATE" => orderlyState \in StateSaved

StartupAllowed(type) ==
    /\ locality \in {0, 3}
    /\ type = "STATE" =>
          /\ orderlyState \in StateSaved
          /\ drtmPreStartup = (orderlyState = "STATE_HCRTM")
          /\ StartupAtLocality3 = (orderlyState = "STATE_L3")

StartupKind(type) ==
    IF orderlyState \notin StateSaved THEN "RESET" ELSE IF type = "STATE" THEN "RESUME" ELSE "RESTART"

\* The value PCRStartup() gives a PCR that is not restored
StartValue(p) ==
    IF 4 \in ResetLocality(p) THEN Set("ones")
    ELSE IF p = HCRTM_PCR /\ StartupAtLocality3 THEN Set("locality3") ELSE Set("zeros")

Restored(p, kind) == kind = "RESUME" /\ StateSave(p)

PCRStartup(kind) ==
    /\ pcrs' = [b \in Banks |-> [p \in PcrSet |->
                  IF p \notin pcrAllocated[b] THEN pcrs[b][p]
                  ELSE IF p = HCRTM_PCR /\ kind # "RESUME" /\ drtmPreStartup THEN pcrs[b][p]
                  ELSE IF Restored(p, kind) THEN pcrSave[b][p] ELSE StartValue(p)]]
    /\ pcrCounter' = (IF kind = "RESET" THEN 0 ELSE savedCounter)
                       + Cardinality({p \in PcrSet : ~Restored(p, kind) /\ ~PCRBelongsTCBGroup(p)})
    /\ pcrReConfig' = FALSE

\* History: what a resume restores to a PCR that was not saved
Unsaved(kind) ==
    [b \in Banks |->
        {p \in pcrAllocated[b] : kind = "RESUME" /\ (p \in unsaved[b] \/ p \notin atLoss.allocated[b])}]

Startup(type) ==
    /\ ~started
    /\ drtm' = Closed
    /\ startupLocality3' = IF locality \in {0, 3} THEN StartupAtLocality3 ELSE startupLocality3
    /\ \/ /\ StartupAllowed(type)
          /\ PCRStartup(StartupKind(type))
          /\ orderlyState' = "NONE"
          /\ started' = TRUE
          /\ startup' = StartupKind(type)
          /\ atLoss' = NothingLost
          /\ unsaved' = Unsaved(StartupKind(type))
          /\ UNCHANGED <<pcrAllocated, nvAllocated, savedCounter, pcrSave, drtmPreStartup, locality, boots>>
       \/ /\ ~StartupAllowed(type)
          /\ UNCHANGED <<pcrs, pcrAllocated, nvAllocated, pcrReConfig, pcrCounter, savedCounter, pcrSave,
                         orderlyState, started, drtmPreStartup, locality, boots, atLoss, startup, unsaved>>

----------------------------------------------------------------------------
\* A manufactured TPM before its first Startup: PCRSimStart() allocates every PCR.
Init ==
    /\ pcrs = [b \in Banks |-> [p \in PcrSet |-> Set("zeros")]]
    /\ pcrAllocated = [b \in Banks |-> PcrSet] /\ nvAllocated = pcrAllocated
    /\ pcrCounter = 0 /\ savedCounter = 0 /\ boots = 0
    /\ pcrSave = [b \in Banks |-> [p \in StaticPcrs |-> Set("zeros")]]
    /\ orderlyState = "NONE"
    /\ started = FALSE /\ pcrReConfig = FALSE /\ drtmPreStartup = FALSE /\ startupLocality3 = FALSE
    /\ drtm = Closed /\ locality = 0
    /\ atLoss = NothingLost
    /\ startup = "NONE" /\ unsaved = [b \in Banks |-> {}]

PcrNext ==
    \/ \E p \in PcrSet, d \in Data : PCR_Event(p, d) \/ \E banks \in SUBSET Banks : PCR_Extend(p, banks, <<d>>)
    \/ \E p \in PcrSet : PCR_Reset(p)
    \/ \E a \in Allocations : PCR_Allocate(a)
    \/ Clear
    \/ TPM_Hash_Start
    \/ \E d \in Data : TPM_Hash_Data(d)
    \/ TPM_Hash_End
    \/ \E type \in {"CLEAR", "STATE"} : Shutdown(type) \/ Startup(type)
    \/ PowerLoss
    \/ \E l \in Localities : SetLocality(l)

Spec == Init /\ [][PcrNext]_pcrVars

----------------------------------------------------------------------------
(* PCRExtend(), PCR_Reset and the end of a DRTM sequence: while the TPM    *)
(* runs, no PCR that can be read changes without a change of pcrCounter,   *)
(* but for the PCR of the TCB group.  PCRResetDynamics() does not count    *)
(* itself: it relies on PCR_Allocate keeping PCR 17 in some bank.          *)
EveryChangeIsCounted ==
    [][started /\ started' =>
         \A b \in Banks : \A p \in pcrAllocated[b] :
            pcrs'[b][p] # pcrs[b][p] /\ ~PCRBelongsTCBGroup(p) => pcrCounter' > pcrCounter]_pcrVars

(* PCRIsResetAllowed(): while the TPM runs, PCR 17 starts from zero only   *)
(* with the measurement of a dynamic root of trust in it.                  *)
DynamicRootIsMeasured ==
    started => \A b \in BanksWith(DRTM_PCR) :
                  pcrs[b][DRTM_PCR].from = "zeros" => pcrs[b][DRTM_PCR].log # <<>>

(* PCRStateSave() and PCRStartup(): a resume gives every static PCR that   *)
(* was allocated before the value it had when the power was lost, although *)
(* commands may have extended it after Shutdown(STATE).                    *)
ResumeRestores ==
    [][~started /\ started' /\ startup' = "RESUME" =>
         \A b \in Banks : \A p \in pcrAllocated[b] \cap atLoss.allocated[b] \cap StaticPcrs :
            pcrs'[b][p] = atLoss.pcrs[b][p]]_pcrVars

\* How PCR 0 tells the start of a boot
StartMark(hcrtm, locality3) == IF hcrtm THEN "hcrtm" ELSE IF locality3 THEN "locality3" ELSE "zeros"

(* The startup flags in orderlyState: PCR 0 says how this boot started,    *)
(* with an H-CRTM measurement, at locality 3 or neither, also after a      *)
(* resume; but not in a bank that PCR_Allocate added after Shutdown(STATE).*)
Pcr0TellsTheStart ==
    started => \A b \in BanksWith(HCRTM_PCR) :
                  HCRTM_PCR \in unsaved[b] \/ pcrs[b][HCRTM_PCR].from = StartMark(drtmPreStartup, startupLocality3)

=============================================================================
