----------------------------- MODULE PcrProofs -----------------------------
(***************************************************************************)
(* Proofs about Pcr for any banks, PCR, measurements, allocations and      *)
(* localities.  PcrInv says what the saved state is worth: while the TPM   *)
(* runs and a Shutdown(STATE) stands, the saved static PCR are the current *)
(* ones and the orderly state has the flags of this boot; once the power   *)
(* is lost they are the ones that were lost.                               *)
(***************************************************************************)
EXTENDS Pcr, FiniteSetTheorems, TLAPS

\* What PCR 0 tells of the boot that a Shutdown(STATE) belongs to
SavedMark == StartMark(orderlyState = "STATE_HCRTM", orderlyState = "STATE_L3")

\* The flags of the boot, as Shutdown(STATE) writes them
SavedFlags == IF drtmPreStartup THEN "STATE_HCRTM" ELSE IF startupLocality3 THEN "STATE_L3" ELSE "STATE"

SavedIsCurrent ==
    started /\ orderlyState \in StateSaved =>
        /\ orderlyState = SavedFlags
        /\ \A b \in Banks : \A p \in pcrAllocated[b] : StateSave(p) => pcrSave[b][p] = pcrs[b][p]

SavedIsLost ==
    ~started /\ orderlyState \in StateSaved =>
        \A b \in Banks : \A p \in atLoss.allocated[b] :
            StateSave(p) =>
                /\ pcrSave[b][p] = atLoss.pcrs[b][p]
                /\ p = HCRTM_PCR /\ p \notin unsaved[b] => pcrSave[b][p].from = SavedMark

HcrtmIsMeasured ==
    ~started /\ drtmPreStartup => \A b \in BanksWith(HCRTM_PCR) : pcrs[b][HCRTM_PCR].from = "hcrtm"

PcrInv ==
    /\ TypeOK
    /\ KeepsRoots(pcrAllocated) /\ KeepsRoots(nvAllocated)
    /\ DynamicRootIsMeasured
    /\ HcrtmIsMeasured
    /\ Pcr0TellsTheStart
    /\ SavedIsCurrent
    /\ SavedIsLost

----------------------------------------------------------------------------
(* The attributes of PCR, and values.                                      *)

(* s_initAttributes: what is saved by Shutdown(STATE) cannot be reset, and *)
(* only the PCR of a dynamic root can be reset at locality 4.              *)
LEMMA Attributes ==
    ASSUME NEW p \in PcrSet
    PROVE  /\ p \in 0..23
           /\ StateSave(p) => ResetLocality(p) = {}
           /\ StateSave(p) <=> p \in 0..15
           /\ p = DRTM_PCR => ResetLocality(p) = {4}
           /\ 4 \in ResetLocality(p) <=> p \in 17..22
  <1>1. p \in 0..23
    BY Zenon, PcrAssumption
  <1>2. CASE p \in 0..15
    BY <1>1, <1>2 DEF StateSave, ResetLocality, DRTM_PCR
  <1>3. CASE p \in {16, 23}
    BY <1>1, <1>3 DEF StateSave, ResetLocality, DRTM_PCR
  <1>4. CASE p \in 17..19
    BY <1>1, <1>4 DEF StateSave, ResetLocality, DRTM_PCR
  <1>5. CASE p \in 20..22
    BY <1>1, <1>5 DEF StateSave, ResetLocality, DRTM_PCR
  <1> QED BY <1>1, <1>2, <1>3, <1>4, <1>5

(* The roots of trust have their PCR.                                      *)
LEMMA Roots ==
    /\ HCRTM_PCR \in PcrSet /\ DRTM_PCR \in PcrSet
    /\ StateSave(HCRTM_PCR) /\ ~StateSave(DRTM_PCR)
    /\ ~PCRBelongsTCBGroup(HCRTM_PCR) /\ ~PCRBelongsTCBGroup(DRTM_PCR)
  BY PcrAssumption DEF HCRTM_PCR, DRTM_PCR, StateSave, PCRBelongsTCBGroup

(* Set() makes a value.                                                    *)
LEMMA SetValue ==
    ASSUME NEW from \in Starts
    PROVE  Set(from) \in Values /\ Set(from).from = from /\ Set(from).log = <<>>
  BY DEF Set, Values

(* PCRExtend() keeps what the PCR started from, and leaves a log.          *)
LEMMA ExtendedValue ==
    ASSUME NEW v \in Values, NEW digest \in Digests
    PROVE  /\ PCRExtended(v, digest) \in Values
           /\ PCRExtended(v, digest).from = v.from
           /\ PCRExtended(v, digest).log # <<>>
  BY SMTT(30) DEF PCRExtended, Values

(* Bumped(): the update counter stays a natural number.                    *)
LEMMA BumpedType ==
    ASSUME TypeOK, NEW p, NEW n \in Nat
    PROVE  Bumped(p, n) \in Nat
  BY DEF TypeOK, Bumped

(* The number of banks that have a PCR is positive if there is one.        *)
LEMMA HitCount ==
    ASSUME NEW hit \in SUBSET Banks
    PROVE  Cardinality(hit) \in Nat /\ (hit # {} => Cardinality(hit) > 0)
  <1>1. IsFiniteSet(hit)
    BY PcrAssumption, FS_Subset
  <1> QED BY <1>1, FS_CardinalityType, FS_EmptySet

----------------------------------------------------------------------------
(* The steps.                                                              *)

(* What is refused, and what only hashes data, leaves the invariant alone. *)
LEMMA FrameStep ==
    ASSUME PcrInv, Refused, drtm' = Closed \/ drtm' \in Digests
    PROVE  PcrInv'
  <1>1. TypeOK'
    BY DEF PcrInv, TypeOK, Refused
  <1>2. KeepsRoots(pcrAllocated)' /\ KeepsRoots(nvAllocated)' /\ DynamicRootIsMeasured'
    BY DEF PcrInv, Refused, KeepsRoots, DynamicRootIsMeasured, BanksWith
  <1>3. HcrtmIsMeasured' /\ Pcr0TellsTheStart'
    BY DEF PcrInv, Refused, HcrtmIsMeasured, Pcr0TellsTheStart, BanksWith, StartMark
  <1>4. SavedIsCurrent' /\ SavedIsLost'
    BY DEF PcrInv, Refused, SavedIsCurrent, SavedFlags, SavedIsLost, SavedMark, StartMark
  <1> QED BY <1>1, <1>2, <1>3, <1>4 DEF PcrInv

(* A command that gives new values to PCR p in some banks: the values have *)
(* the start they had, or p is not one of the roots' PCR, and the saved    *)
(* state no longer stands if p is part of it.                              *)
LEMMA ChangeStep ==
    ASSUME PcrInv, started, NEW p \in PcrSet, NEW values \in [Banks -> Values],
           pcrs' = [b \in Banks |-> [pcrs[b] EXCEPT ![p] = values[b]]],
           pcrCounter' \in Nat, drtm' = Closed,
           \A b \in Banks : \/ values[b] = pcrs[b][p]
                            \/ values[b].from = pcrs[b][p].from /\ values[b].log # <<>>
                            \/ p \notin {HCRTM_PCR, DRTM_PCR},
           orderlyState' = OrderlyAfter(p),
           UNCHANGED <<pcrAllocated, nvAllocated, pcrReConfig, savedCounter, pcrSave, started,
                       drtmPreStartup, startupLocality3, locality, boots, atLoss, startup, unsaved>>
    PROVE  PcrInv'
  <1>0. TypeOK /\ started'
    BY DEF PcrInv
  <1>1. \A b \in Banks, q \in PcrSet :
            pcrs'[b][q] = IF q = p THEN values[b] ELSE pcrs[b][q]
    BY <1>0 DEF TypeOK
  <1>2. TypeOK'
    <2>1. pcrs' \in [Banks -> [PcrSet -> Values]]
      BY <1>0 DEF TypeOK
    <2>2. orderlyState' \in {"NONE", "CLEAR"} \cup StateSaved
      BY <1>0 DEF TypeOK, OrderlyAfter
    <2> QED BY <1>0, <2>1, <2>2 DEF TypeOK
  <1>3. KeepsRoots(pcrAllocated)' /\ KeepsRoots(nvAllocated)'
    BY DEF PcrInv, KeepsRoots
  <1>4. DynamicRootIsMeasured'
    BY <1>0, <1>1, Roots DEF PcrInv, DynamicRootIsMeasured, BanksWith
  <1>5. HcrtmIsMeasured' /\ SavedIsLost'
    BY <1>0 DEF HcrtmIsMeasured, SavedIsLost
  <1>6. Pcr0TellsTheStart'
    BY <1>0, <1>1, Roots DEF PcrInv, Pcr0TellsTheStart, BanksWith, StartMark
  <1>7. SavedIsCurrent'
    <2> SUFFICES ASSUME orderlyState' \in StateSaved
                 PROVE  /\ orderlyState' = SavedFlags'
                        /\ \A b \in Banks : \A q \in pcrAllocated[b] :
                               StateSave(q) => pcrSave[b][q] = pcrs'[b][q]
      BY DEF SavedIsCurrent
    <2>1. ~StateSave(p) /\ orderlyState' = orderlyState
      BY DEF OrderlyAfter, StateSaved
    <2> QED BY <1>0, <1>1, <2>1 DEF PcrInv, TypeOK, SavedIsCurrent, SavedFlags
  <1> QED BY <1>2, <1>3, <1>4, <1>5, <1>6, <1>7 DEF PcrInv

(* PCRExtend() of some banks.                                              *)
LEMMA ExtendStep ==
    ASSUME PcrInv, NEW p \in PcrSet, NEW banks \in SUBSET Banks, NEW digest \in Digests,
           PCR_Extend(p, banks, digest)
    PROVE  PcrInv'
  <1>0. TypeOK
    BY DEF PcrInv
  <1>1. CASE ~PCRIsExtendAllowed(p)
    BY Zenon, <1>1, FrameStep DEF PCR_Extend, Command
  <1>2. CASE PCRIsExtendAllowed(p)
    <2> DEFINE hit == banks \cap BanksWith(p)
               values == [b \in Banks |-> IF b \in hit THEN PCRExtended(pcrs[b][p], digest) ELSE pcrs[b][p]]
    <2>1. \A b \in Banks : pcrs[b][p] \in Values
      BY <1>0 DEF TypeOK
    <2>2. values \in [Banks -> Values]
      BY <2>1, ExtendedValue
    <2>3. \A b \in Banks : \/ values[b] = pcrs[b][p]
                           \/ values[b].from = pcrs[b][p].from /\ values[b].log # <<>>
      BY <2>1, ExtendedValue
    <2>4. pcrs' = [b \in Banks |-> [pcrs[b] EXCEPT ![p] = values[b]]]
      <3>1. pcrs' = [b \in Banks |-> IF b \in hit THEN [pcrs[b] EXCEPT ![p] = PCRExtended(@, digest)]
                                                  ELSE pcrs[b]]
        BY <1>2 DEF PCR_Extend, ExtendBanks, Refused
      <3>2. \A b \in Banks : pcrs[b] = [pcrs[b] EXCEPT ![p] = pcrs[b][p]]
        BY <1>0 DEF TypeOK
      <3> QED BY <3>1, <3>2
    <2>5. pcrCounter' \in Nat
      <3>1. pcrCounter' = Bumped(p, Cardinality(hit))
        BY <1>2 DEF PCR_Extend, ExtendBanks, Refused
      <3>2. hit \in SUBSET Banks
        OBVIOUS
      <3> HIDE DEF hit
      <3> QED BY <1>0, <3>1, <3>2, HitCount, BumpedType
    <2>6. /\ started /\ drtm' = Closed /\ orderlyState' = OrderlyAfter(p)
          /\ UNCHANGED <<pcrAllocated, nvAllocated, pcrReConfig, savedCounter, pcrSave, started,
                         drtmPreStartup, startupLocality3, locality, boots, atLoss, startup, unsaved>>
      BY <1>2 DEF PCR_Extend, Command
    <2> HIDE DEF values
    <2> QED BY Zenon, <2>2, <2>3, <2>4, <2>5, <2>6, ChangeStep
  <1> QED BY <1>1, <1>2

(* PCR_Reset: neither of the roots' PCR can be reset.                      *)
LEMMA ResetStep ==
    ASSUME PcrInv, NEW p \in PcrSet, PCR_Reset(p)
    PROVE  PcrInv'
  <1>0. TypeOK
    BY DEF PcrInv
  <1>1. CASE ~PCRIsResetAllowed(p)
    BY Zenon, <1>1, FrameStep DEF PCR_Reset, Command
  <1>2. CASE PCRIsResetAllowed(p)
    <2> DEFINE values == [b \in Banks |-> IF b \in BanksWith(p) THEN Set("zeros") ELSE pcrs[b][p]]
    <2>1. p \notin {HCRTM_PCR, DRTM_PCR}
      BY <1>2, Attributes, Roots DEF PCRIsResetAllowed
    <2>2. values \in [Banks -> Values]
      BY <1>0, SetValue DEF TypeOK, Starts
    <2>3. pcrs' = [b \in Banks |-> [pcrs[b] EXCEPT ![p] = values[b]]]
      <3>1. pcrs' = ResetPcr(p)
        BY <1>2 DEF PCR_Reset
      <3>2. \A b \in Banks : pcrs[b] = [pcrs[b] EXCEPT ![p] = pcrs[b][p]]
        BY <1>0 DEF TypeOK
      <3> QED BY <3>1, <3>2 DEF ResetPcr
    <2>4. pcrCounter' \in Nat
      BY <1>0, <1>2, BumpedType DEF PCR_Reset
    <2>5. /\ started /\ drtm' = Closed /\ orderlyState' = OrderlyAfter(p)
          /\ UNCHANGED <<pcrAllocated, nvAllocated, pcrReConfig, savedCounter, pcrSave, started,
                         drtmPreStartup, startupLocality3, locality, boots, atLoss, startup, unsaved>>
      BY <1>2 DEF PCR_Reset, Command
    <2> HIDE DEF values
    <2> QED BY Zenon, <2>1, <2>2, <2>3, <2>4, <2>5, ChangeStep
  <1> QED BY <1>1, <1>2

(* PCR_Allocate: the allocation in NV keeps the roots' PCR.                *)
LEMMA AllocateStep ==
    ASSUME PcrInv, NEW request \in Allocations, PCR_Allocate(request)
    PROVE  PcrInv'
  <1>0. TypeOK
    BY DEF PcrInv
  <1>1. CASE ~KeepsRoots(NewAllocation(request))
    BY Zenon, <1>1, FrameStep DEF PCR_Allocate, Command
  <1>2. CASE KeepsRoots(NewAllocation(request))
    <2>0. /\ nvAllocated' = NewAllocation(request) /\ pcrReConfig' = TRUE /\ drtm' = Closed
          /\ UNCHANGED <<pcrs, pcrAllocated, pcrCounter, savedCounter, pcrSave, orderlyState, started,
                         drtmPreStartup, startupLocality3, locality, boots, atLoss, startup, unsaved>>
      BY <1>2 DEF PCR_Allocate, Command
    <2>1. NewAllocation(request) \in [Banks -> SUBSET PcrSet]
      BY <1>0, PcrAssumption DEF TypeOK, NewAllocation
    <2>2. TypeOK'
      BY <1>0, <2>0, <2>1 DEF TypeOK
    <2>3. KeepsRoots(pcrAllocated)' /\ KeepsRoots(nvAllocated)' /\ DynamicRootIsMeasured'
      BY <1>2, <2>0 DEF PcrInv, KeepsRoots, DynamicRootIsMeasured, BanksWith
    <2>4. HcrtmIsMeasured' /\ Pcr0TellsTheStart'
      BY <2>0 DEF PcrInv, HcrtmIsMeasured, Pcr0TellsTheStart, BanksWith, StartMark
    <2>5. SavedIsCurrent' /\ SavedIsLost'
      BY <2>0 DEF PcrInv, SavedIsCurrent, SavedFlags, SavedIsLost, SavedMark, StartMark
    <2> QED BY <2>2, <2>3, <2>4, <2>5 DEF PcrInv
  <1> QED BY <1>1, <1>2

(* TPM2_Clear: the allocation of this boot is also that of the next.       *)
LEMMA ClearStep ==
    ASSUME PcrInv, Clear
    PROVE  PcrInv'
  <1>0. TypeOK /\ started
    BY DEF PcrInv, Clear, Command
  <1>1. pcrCounter' \in Nat
    BY <1>0, BumpedType DEF Clear
  <1>2. TypeOK'
    BY Zenon, <1>0, <1>1 DEF TypeOK, Clear, Command
  <1>3. KeepsRoots(pcrAllocated)' /\ KeepsRoots(nvAllocated)' /\ DynamicRootIsMeasured'
    BY Zenon DEF PcrInv, Clear, KeepsRoots, DynamicRootIsMeasured, BanksWith
  <1>4. HcrtmIsMeasured' /\ Pcr0TellsTheStart'
    BY DEF PcrInv, Clear, HcrtmIsMeasured, Pcr0TellsTheStart, BanksWith, StartMark
  <1>5. SavedIsCurrent' /\ SavedIsLost'
    BY DEF PcrInv, Clear, SavedIsCurrent, SavedIsLost, StateSaved
  <1> QED BY <1>2, <1>3, <1>4, <1>5 DEF PcrInv

(* The end of a hash sequence.  Before Startup it measures the H-CRTM into *)
(* PCR 0; afterwards it sets the dynamic PCR and measures into PCR 17.     *)
LEMMA HashEndStep ==
    ASSUME PcrInv, TPM_Hash_End
    PROVE  PcrInv'
  <1>0. TypeOK /\ drtm \in Digests /\ drtm' = Closed
    BY DEF PcrInv, TypeOK, TPM_Hash_End
  <1>1. \A from \in Starts : /\ PCRExtended(Set(from), drtm) \in Values
                            /\ PCRExtended(Set(from), drtm).from = from
                            /\ PCRExtended(Set(from), drtm).log # <<>>
    BY <1>0, SetValue, ExtendedValue
  <1>2. \A p \in PcrSet : Cardinality(BanksWith(p)) \in Nat
    BY HitCount DEF BanksWith
  <1>3. UNCHANGED EventVars
    BY DEF TPM_Hash_End
  <1>4. KeepsRoots(pcrAllocated)' /\ KeepsRoots(nvAllocated)'
    BY <1>3 DEF PcrInv, KeepsRoots, EventVars
  <1>5. CASE started
    <2> DEFINE zero == PCRExtended(Set("zeros"), drtm)
    <2>0. PcrDrtm(DRTM_PCR, PCRResetDynamics, "zeros") /\ UNCHANGED drtmPreStartup
      BY <1>5 DEF TPM_Hash_End
    <2>1. \A b \in Banks, p \in PcrSet :
              pcrs'[b][p] = IF p = DRTM_PCR /\ b \in BanksWith(p) THEN zero ELSE PCRResetDynamics[b][p]
      BY <2>0, Roots DEF PcrDrtm, PCRResetDynamics
    <2>2. \A b \in Banks, p \in PcrSet : PCRResetDynamics[b][p] \in Values
      BY <1>0, SetValue DEF PCRResetDynamics, TypeOK, Starts
    <2>3. \A b \in Banks, p \in PcrSet : StateSave(p) => pcrs'[b][p] = pcrs[b][p]
      BY <2>1, Attributes, Roots DEF PCRResetDynamics
    <2>4. TypeOK'
      <3>1. pcrs' \in [Banks -> [PcrSet -> Values]]
        <4>1. pcrs' = [b \in Banks |-> [p \in PcrSet |-> pcrs'[b][p]]]
          BY <2>0, Roots DEF PcrDrtm, PCRResetDynamics
        <4>2. \A b \in Banks, p \in PcrSet : pcrs'[b][p] \in Values
          BY <1>1, <2>1, <2>2 DEF Starts
        <4> QED BY Zenon, <4>1, <4>2
      <3>2. pcrCounter' \in Nat
        BY <1>0, <1>2, <2>0, Roots, BumpedType DEF PcrDrtm
      <3> QED BY <1>0, <1>3, <2>0, <3>1, <3>2 DEF TypeOK, EventVars
    <2>5. DynamicRootIsMeasured'
      BY <1>1, <1>3, <2>1, Roots DEF DynamicRootIsMeasured, BanksWith, EventVars, Starts
    <2>6. HcrtmIsMeasured' /\ SavedIsLost'
      BY <1>3, <1>5 DEF HcrtmIsMeasured, SavedIsLost, EventVars
    <2>7. Pcr0TellsTheStart'
      BY Zenon, <1>3, <1>5, <2>0, <2>3, Roots DEF PcrInv, Pcr0TellsTheStart, BanksWith, EventVars, StartMark
    <2>8. SavedIsCurrent'
      BY <1>0, <1>3, <1>5, <2>0, <2>3 DEF PcrInv, TypeOK, SavedIsCurrent, SavedFlags, EventVars
    <2> QED BY <1>4, <2>4, <2>5, <2>6, <2>7, <2>8 DEF PcrInv
  <1>6. CASE ~started
    <2> DEFINE hcrtm == PCRExtended(Set("hcrtm"), drtm)
    <2>0. PcrDrtm(HCRTM_PCR, pcrs, "hcrtm") /\ drtmPreStartup' = TRUE
      BY Zenon, <1>6 DEF TPM_Hash_End
    <2>1. \A b \in Banks, p \in PcrSet :
              pcrs'[b][p] = IF p = HCRTM_PCR /\ b \in BanksWith(p) THEN hcrtm ELSE pcrs[b][p]
      BY <1>0, <2>0, Roots DEF PcrDrtm, TypeOK
    <2>2. TypeOK'
      <3>1. pcrs' \in [Banks -> [PcrSet -> Values]]
        <4>1. pcrs' = [b \in Banks |-> [p \in PcrSet |-> pcrs'[b][p]]]
          BY Zenon, <1>0, <2>0, Roots DEF PcrDrtm, TypeOK
        <4>2. \A b \in Banks, p \in PcrSet : pcrs'[b][p] \in Values
          BY <1>0, <1>1, <2>1 DEF Starts, TypeOK
        <4> QED BY <4>1, <4>2
      <3>2. pcrCounter' \in Nat
        BY <1>0, <1>2, <2>0, Roots, BumpedType DEF PcrDrtm
      <3> QED BY Zenon, <1>0, <1>3, <2>0, <3>1, <3>2 DEF TypeOK, EventVars
    <2>3. HcrtmIsMeasured'
      BY <1>1, <1>3, <2>1, Roots DEF HcrtmIsMeasured, BanksWith, EventVars, Starts
    <2>4. DynamicRootIsMeasured' /\ Pcr0TellsTheStart' /\ SavedIsCurrent'
      BY Zenon, <1>3, <1>6 DEF DynamicRootIsMeasured, Pcr0TellsTheStart, SavedIsCurrent, EventVars
    <2>5. SavedIsLost'
      BY <1>3, <1>6 DEF PcrInv, SavedIsLost, SavedMark, StartMark, EventVars
    <2> QED BY <1>4, <2>2, <2>3, <2>4, <2>5 DEF PcrInv
  <1> QED BY <1>5, <1>6

(* TPM2_Shutdown: Shutdown(STATE) saves the static PCR and the flags.      *)
LEMMA ShutdownStep ==
    ASSUME PcrInv, NEW type \in {"CLEAR", "STATE"}, Shutdown(type)
    PROVE  PcrInv'
  <1>0. TypeOK /\ started /\ drtm' = Closed
    BY DEF PcrInv, Shutdown, Command
  <1>1. CASE ~ShutdownAllowed(type)
    BY Zenon, <1>0, <1>1, FrameStep DEF Shutdown
  <1>2. CASE ShutdownAllowed(type) /\ type = "CLEAR"
    <2>0. /\ orderlyState' = "CLEAR"
          /\ UNCHANGED <<pcrs, pcrAllocated, nvAllocated, pcrReConfig, pcrCounter, savedCounter, pcrSave,
                         started, drtmPreStartup, startupLocality3, locality, boots, atLoss, startup, unsaved>>
      BY <1>2 DEF Shutdown
    <2>1. TypeOK'
      BY <1>0, <2>0 DEF TypeOK
    <2>2. KeepsRoots(pcrAllocated)' /\ KeepsRoots(nvAllocated)' /\ DynamicRootIsMeasured'
      BY Zenon, <2>0 DEF PcrInv, KeepsRoots, DynamicRootIsMeasured, BanksWith
    <2>3. HcrtmIsMeasured' /\ Pcr0TellsTheStart'
      BY <2>0 DEF PcrInv, HcrtmIsMeasured, Pcr0TellsTheStart, BanksWith, StartMark
    <2>4. SavedIsCurrent' /\ SavedIsLost'
      BY <2>0 DEF SavedIsCurrent, SavedIsLost, StateSaved
    <2> QED BY <2>1, <2>2, <2>3, <2>4 DEF PcrInv
  <1>3. CASE ShutdownAllowed(type) /\ type = "STATE"
    <2>0. /\ pcrSave' = [b \in Banks |-> [p \in StaticPcrs |->
                            IF p \in pcrAllocated[b] THEN pcrs[b][p] ELSE pcrSave[b][p]]]
          /\ savedCounter' = pcrCounter
          /\ orderlyState' = SavedFlags
          /\ UNCHANGED <<pcrs, pcrAllocated, nvAllocated, pcrReConfig, pcrCounter, started,
                         drtmPreStartup, startupLocality3, locality, boots, atLoss, startup, unsaved>>
      BY Zenon, <1>3 DEF Shutdown, SavedFlags
    <2>1. TypeOK'
      <3>1. pcrSave' \in [Banks -> [StaticPcrs -> Values]]
        BY Zenon, <1>0, <2>0 DEF TypeOK, StaticPcrs
      <3>2. orderlyState' \in StateSaved
        BY <2>0 DEF SavedFlags, StateSaved
      <3> QED BY Zenon, <1>0, <2>0, <3>1, <3>2 DEF TypeOK
    <2>2. KeepsRoots(pcrAllocated)' /\ KeepsRoots(nvAllocated)' /\ DynamicRootIsMeasured'
      BY <2>0 DEF PcrInv, KeepsRoots, DynamicRootIsMeasured, BanksWith
    <2>3. HcrtmIsMeasured' /\ Pcr0TellsTheStart'
      BY <2>0 DEF PcrInv, HcrtmIsMeasured, Pcr0TellsTheStart, BanksWith, StartMark
    <2>4. SavedIsCurrent'
      BY <1>0, <2>0 DEF TypeOK, SavedIsCurrent, SavedFlags, StaticPcrs
    <2>5. SavedIsLost'
      BY Zenon, <1>0, <2>0 DEF SavedIsLost
    <2> QED BY <2>1, <2>2, <2>3, <2>4, <2>5 DEF PcrInv
  <1> QED BY <1>1, <1>2, <1>3

(* The power is lost: what could be read becomes what was lost.            *)
LEMMA PowerLossStep ==
    ASSUME PcrInv, PowerLoss
    PROVE  PcrInv'
  <1>0. /\ TypeOK /\ started' = FALSE /\ drtmPreStartup' = FALSE /\ pcrAllocated' = nvAllocated
        /\ atLoss' = IF started THEN Readable ELSE atLoss
        /\ UNCHANGED <<pcrs, nvAllocated, pcrReConfig, pcrCounter, savedCounter, pcrSave, orderlyState,
                       startupLocality3, locality, startup, unsaved>>
    BY Zenon DEF PcrInv, PowerLoss
  <1>1. TypeOK'
    <2>1. Readable.allocated \in [Banks -> SUBSET PcrSet] /\ Readable.pcrs \in [Banks -> [StaticPcrs -> Values]]
      BY <1>0 DEF TypeOK, Readable, StaticPcrs
    <2>2. atLoss'.allocated \in [Banks -> SUBSET PcrSet] /\ atLoss'.pcrs \in [Banks -> [StaticPcrs -> Values]]
      BY <1>0, <2>1 DEF TypeOK
    <2>3. boots' \in Nat /\ drtm' = Closed
      BY <1>0 DEF TypeOK, PowerLoss
    <2> QED BY Zenon, <1>0, <2>2, <2>3 DEF TypeOK
  <1>2. KeepsRoots(pcrAllocated)' /\ KeepsRoots(nvAllocated)'
    BY Zenon, <1>0 DEF PcrInv, KeepsRoots
  <1>3. DynamicRootIsMeasured' /\ HcrtmIsMeasured' /\ Pcr0TellsTheStart' /\ SavedIsCurrent'
    BY <1>0 DEF DynamicRootIsMeasured, HcrtmIsMeasured, Pcr0TellsTheStart, SavedIsCurrent
  <1>4. SavedIsLost'
    <2>1. CASE ~started
      BY <1>0, <2>1 DEF PcrInv, SavedIsLost, SavedMark, StartMark
    <2>2. CASE started
      <3> SUFFICES ASSUME orderlyState \in StateSaved,
                          NEW b \in Banks, NEW p \in pcrAllocated[b], StateSave(p)
                   PROVE  /\ pcrSave[b][p] = Readable.pcrs[b][p]
                          /\ p = HCRTM_PCR /\ p \notin unsaved[b] => pcrSave[b][p].from = SavedMark
        BY Zenon, <1>0, <2>2 DEF SavedIsLost, SavedMark, StartMark, Readable
      <3>1. p \in StaticPcrs
        BY Zenon, <1>0 DEF TypeOK, StaticPcrs
      <3>2. pcrSave[b][p] = pcrs[b][p] /\ orderlyState = SavedFlags
        BY <2>2 DEF PcrInv, SavedIsCurrent
      <3>3. SavedMark = StartMark(drtmPreStartup, startupLocality3)
        BY <3>2 DEF SavedMark, SavedFlags, StartMark
      <3>4. p = HCRTM_PCR /\ p \notin unsaved[b] => pcrs[b][p].from = SavedMark
        BY <2>2, <3>3 DEF PcrInv, Pcr0TellsTheStart, BanksWith
      <3> QED BY <3>1, <3>2, <3>4 DEF Readable
    <2> QED BY Zenon, <2>1, <2>2
  <1> QED BY <1>1, <1>2, <1>3, <1>4 DEF PcrInv

(* The platform's locality is no part of the invariant.                    *)
LEMMA LocalityStep ==
    ASSUME PcrInv, NEW l \in Localities, SetLocality(l)
    PROVE  PcrInv'
  <1>1. TypeOK'
    BY Zenon, PcrAssumption DEF PcrInv, TypeOK, SetLocality
  <1>2. KeepsRoots(pcrAllocated)' /\ KeepsRoots(nvAllocated)' /\ DynamicRootIsMeasured'
    BY Zenon DEF PcrInv, SetLocality, KeepsRoots, DynamicRootIsMeasured, BanksWith
  <1>3. HcrtmIsMeasured' /\ Pcr0TellsTheStart'
    BY Zenon DEF PcrInv, SetLocality, HcrtmIsMeasured, Pcr0TellsTheStart, BanksWith, StartMark
  <1>4. SavedIsCurrent' /\ SavedIsLost'
    BY DEF PcrInv, SetLocality, SavedIsCurrent, SavedFlags, SavedIsLost, SavedMark, StartMark
  <1> QED BY <1>1, <1>2, <1>3, <1>4 DEF PcrInv

(* TPM2_Startup gives every allocated PCR its value of this boot.          *)
LEMMA StartupStep ==
    ASSUME PcrInv, NEW type \in {"CLEAR", "STATE"}, Startup(type)
    PROVE  PcrInv'
  <1>0. TypeOK /\ ~started /\ drtm' = Closed /\ startupLocality3' \in BOOLEAN
    BY Zenon DEF PcrInv, TypeOK, Startup, StartupAtLocality3
  <1>1. CASE ~StartupAllowed(type)
    <2>0. UNCHANGED <<pcrs, pcrAllocated, nvAllocated, pcrReConfig, pcrCounter, savedCounter, pcrSave,
                      orderlyState, started, drtmPreStartup, locality, boots, atLoss, startup, unsaved>>
      BY <1>1 DEF Startup
    <2>1. TypeOK'
      BY <1>0, <2>0 DEF TypeOK
    <2>2. KeepsRoots(pcrAllocated)' /\ KeepsRoots(nvAllocated)'
      BY <2>0 DEF PcrInv, KeepsRoots
    <2>3. DynamicRootIsMeasured' /\ Pcr0TellsTheStart' /\ SavedIsCurrent'
      BY <1>0, <2>0 DEF DynamicRootIsMeasured, Pcr0TellsTheStart, SavedIsCurrent
    <2>4. HcrtmIsMeasured' /\ SavedIsLost'
      BY <2>0 DEF PcrInv, HcrtmIsMeasured, BanksWith, SavedIsLost, SavedMark, StartMark
    <2> QED BY <2>1, <2>2, <2>3, <2>4 DEF PcrInv
  <1>2. CASE StartupAllowed(type)
    <2> DEFINE kind == StartupKind(type)
    <2>0. /\ PCRStartup(kind) /\ orderlyState' = "NONE" /\ started' = TRUE /\ startup' = kind
          /\ atLoss' = NothingLost /\ unsaved' = Unsaved(kind)
          /\ startupLocality3' = StartupAtLocality3
          /\ UNCHANGED <<pcrAllocated, nvAllocated, savedCounter, pcrSave, drtmPreStartup, locality, boots>>
      BY <1>2 DEF Startup, StartupAllowed
    <2>1. kind \in {"RESET", "RESTART", "RESUME"}
      BY DEF StartupKind
    <2>2. \A b \in Banks, p \in PcrSet :
              pcrs'[b][p] = IF p \notin pcrAllocated[b] THEN pcrs[b][p]
                            ELSE IF p = HCRTM_PCR /\ kind # "RESUME" /\ drtmPreStartup THEN pcrs[b][p]
                            ELSE IF Restored(p, kind) THEN pcrSave[b][p] ELSE StartValue(p)
      BY Zenon, <2>0 DEF PCRStartup
    <2> HIDE DEF kind
    <2>3. TypeOK'
      <3>1. \A b \in Banks, p \in PcrSet : pcrs'[b][p] \in Values
        <4>1. \A p \in PcrSet : StartValue(p) \in Values
          BY Zenon, SetValue DEF StartValue, Starts
        <4>2. \A b \in Banks, p \in PcrSet : Restored(p, kind) => pcrSave[b][p] \in Values
          BY Zenon, <1>0 DEF TypeOK, Restored, StaticPcrs
        <4>3. \A b \in Banks, p \in PcrSet : pcrs[b][p] \in Values
          BY Zenon, <1>0 DEF TypeOK
        <4> QED BY <2>2, <4>1, <4>2, <4>3
      <3>2. pcrs' \in [Banks -> [PcrSet -> Values]]
        <4> DEFINE v(b, p) == IF p \notin pcrAllocated[b] THEN pcrs[b][p]
                              ELSE IF p = HCRTM_PCR /\ kind # "RESUME" /\ drtmPreStartup THEN pcrs[b][p]
                              ELSE IF Restored(p, kind) THEN pcrSave[b][p] ELSE StartValue(p)
        <4>0. pcrs' = [b \in Banks |-> [p \in PcrSet |-> v(b, p)]]
          BY Zenon, <2>0 DEF PCRStartup
        <4> HIDE DEF v
        <4>1. pcrs' = [b \in Banks |-> [p \in PcrSet |-> pcrs'[b][p]]]
          BY <4>0
        <4> QED BY <3>1, <4>1
      <3>3. pcrCounter' \in Nat
        <4> DEFINE counted == {p \in PcrSet : ~Restored(p, kind) /\ ~PCRBelongsTCBGroup(p)}
        <4>1. IsFiniteSet(counted)
          <5>0. 0 \in Int /\ 23 \in Int
            OBVIOUS
          <5>1. IsFiniteSet(0..23)
            BY <5>0, FS_Interval, Zenon
          <5> QED BY Zenon, <5>1, PcrAssumption, FS_Subset
        <4>2. Cardinality(counted) \in Nat
          BY <4>1, FS_CardinalityType
        <4> QED BY <1>0, <2>0, <4>2 DEF PCRStartup, TypeOK
      <3>4. pcrReConfig' \in BOOLEAN
        BY Zenon, <2>0 DEF PCRStartup
      <3>5. NothingLost.allocated \in [Banks -> SUBSET PcrSet] /\ NothingLost.pcrs \in [Banks -> [StaticPcrs -> Values]]
        BY Zenon, SetValue DEF NothingLost, Starts
      <3>6. unsaved' \in [Banks -> SUBSET PcrSet]
        BY <1>0, <2>0 DEF TypeOK, Unsaved
      <3> QED BY <1>0, <2>0, <2>1, <3>2, <3>3, <3>4, <3>5, <3>6 DEF TypeOK
    <2>4. KeepsRoots(pcrAllocated)' /\ KeepsRoots(nvAllocated)'
      BY <2>0 DEF PcrInv, KeepsRoots
    <2>5. DynamicRootIsMeasured'
      <3>1. StartValue(DRTM_PCR).from = "ones"
        BY Attributes, Roots, SetValue DEF StartValue, Starts
      <3>2. \A b \in Banks : DRTM_PCR \in pcrAllocated[b] => pcrs'[b][DRTM_PCR] = StartValue(DRTM_PCR)
        BY <2>2, Roots DEF Restored
      <3> QED BY <2>0, <3>1, <3>2 DEF DynamicRootIsMeasured, BanksWith
    <2>6. HcrtmIsMeasured' /\ SavedIsCurrent' /\ SavedIsLost'
      BY Zenon, <2>0 DEF HcrtmIsMeasured, SavedIsCurrent, SavedIsLost, StateSaved
    <2>7. Pcr0TellsTheStart'
      <3> SUFFICES ASSUME NEW b \in Banks, HCRTM_PCR \in pcrAllocated[b], HCRTM_PCR \notin Unsaved(kind)[b]
                   PROVE  pcrs'[b][HCRTM_PCR].from = StartMark(drtmPreStartup, StartupAtLocality3)
        BY <2>0 DEF Pcr0TellsTheStart, BanksWith, StartMark
      <3>1. CASE kind = "RESUME"
        <4>1. HCRTM_PCR \in atLoss.allocated[b] /\ HCRTM_PCR \notin unsaved[b]
          BY <3>1 DEF Unsaved
        <4>2. type = "STATE" /\ orderlyState \in StateSaved
          BY Zenon, <3>1 DEF kind, StartupKind
        <4>3. pcrs'[b][HCRTM_PCR] = pcrSave[b][HCRTM_PCR]
          BY Zenon, <2>2, <3>1, Roots DEF Restored
        <4>4. pcrSave[b][HCRTM_PCR].from = SavedMark
          BY <1>0, <4>1, <4>2, Roots DEF PcrInv, SavedIsLost
        <4>5. SavedMark = StartMark(drtmPreStartup, StartupAtLocality3)
          BY Zenon, <1>2, <4>2 DEF StartupAllowed, SavedMark, StartMark
        <4> QED BY <4>3, <4>4, <4>5
      <3>2. CASE kind # "RESUME" /\ drtmPreStartup
        <4>1. pcrs'[b][HCRTM_PCR] = pcrs[b][HCRTM_PCR]
          BY <2>2, <3>2, Roots
        <4> QED BY Zenon, <1>0, <3>2, <4>1 DEF PcrInv, HcrtmIsMeasured, BanksWith, StartMark
      <3>3. CASE kind # "RESUME" /\ ~drtmPreStartup
        <4>1. pcrs'[b][HCRTM_PCR] = StartValue(HCRTM_PCR)
          BY <2>2, <3>3, Roots DEF Restored
        <4>2. 4 \notin ResetLocality(HCRTM_PCR)
          BY Attributes, Roots
        <4>3. StartValue(HCRTM_PCR).from = IF StartupAtLocality3 THEN "locality3" ELSE "zeros"
          BY <4>2, SetValue DEF StartValue, Starts
        <4> QED BY Zenon, <3>3, <4>1, <4>3 DEF StartMark
      <3> QED BY Zenon, <3>1, <3>2, <3>3
    <2> QED BY <2>3, <2>4, <2>5, <2>6, <2>7 DEF PcrInv
  <1> QED BY Zenon, <1>1, <1>2

----------------------------------------------------------------------------
(* The theorems.                                                           *)

(* A manufactured TPM satisfies the invariant.                             *)
LEMMA InitiallyPcrInv == Init => PcrInv
  <1> SUFFICES ASSUME Init PROVE PcrInv
    OBVIOUS
  <1>0. Set("zeros") \in Values
    BY Zenon, SetValue DEF Starts
  <1>1. TypeOK
    <2>1. atLoss.allocated \in [Banks -> SUBSET PcrSet] /\ atLoss.pcrs \in [Banks -> [StaticPcrs -> Values]]
      BY <1>0 DEF Init, NothingLost
    <2>2. /\ pcrs \in [Banks -> [PcrSet -> Values]] /\ pcrSave \in [Banks -> [StaticPcrs -> Values]]
          /\ pcrAllocated \in [Banks -> SUBSET PcrSet] /\ nvAllocated \in [Banks -> SUBSET PcrSet]
          /\ unsaved \in [Banks -> SUBSET PcrSet]
      BY <1>0 DEF Init
    <2>3. {pcrCounter, savedCounter, boots} \subseteq Nat /\ locality \in 0..4
      BY DEF Init
    <2>4. {started, pcrReConfig, drtmPreStartup, startupLocality3} \subseteq BOOLEAN
      BY Zenon DEF Init
    <2> QED BY <2>1, <2>2, <2>3, <2>4 DEF Init, TypeOK
  <1>2. KeepsRoots(pcrAllocated) /\ KeepsRoots(nvAllocated)
    BY Zenon, PcrAssumption, Roots DEF Init, KeepsRoots
  <1>3. DynamicRootIsMeasured /\ HcrtmIsMeasured /\ Pcr0TellsTheStart
    BY DEF Init, DynamicRootIsMeasured, HcrtmIsMeasured, Pcr0TellsTheStart
  <1>4. SavedIsCurrent /\ SavedIsLost
    BY DEF Init, SavedIsCurrent, SavedIsLost, StateSaved
  <1> QED BY <1>1, <1>2, <1>3, <1>4 DEF PcrInv

(* Every step keeps the invariant.                                         *)
LEMMA StepPcrInv == PcrInv /\ [PcrNext]_pcrVars => PcrInv'
  <1> SUFFICES ASSUME PcrInv, [PcrNext]_pcrVars PROVE PcrInv'
    OBVIOUS
  <1>0. \A d \in Data : <<d>> \in Digests
    BY DEF Digests
  <1>1. ASSUME NEW p \in PcrSet, NEW d \in Data, PCR_Event(p, d)
        PROVE  PcrInv'
    BY <1>0, <1>1, ExtendStep DEF PCR_Event
  <1>2. ASSUME NEW p \in PcrSet, NEW d \in Data, NEW banks \in SUBSET Banks, PCR_Extend(p, banks, <<d>>)
        PROVE  PcrInv'
    BY <1>0, <1>2, ExtendStep
  <1>3. ASSUME NEW p \in PcrSet, PCR_Reset(p)
        PROVE  PcrInv'
    BY <1>3, ResetStep
  <1>4. ASSUME NEW a \in Allocations, PCR_Allocate(a)
        PROVE  PcrInv'
    BY <1>4, AllocateStep
  <1>5. CASE Clear
    BY <1>5, ClearStep
  <1>6. CASE TPM_Hash_Start
    <2>1. Refused /\ drtm' \in Digests
      BY <1>6 DEF TPM_Hash_Start, EventVars, Refused, Digests
    <2> QED BY <2>1, FrameStep
  <1>7. ASSUME NEW d \in Data, TPM_Hash_Data(d)
        PROVE  PcrInv'
    <2>1. Refused /\ drtm' \in Digests
      BY <1>7 DEF TPM_Hash_Data, EventVars, Refused, Digests, PcrInv, TypeOK
    <2> QED BY Zenon, <2>1, FrameStep
  <1>8. CASE TPM_Hash_End
    BY <1>8, HashEndStep
  <1>9. ASSUME NEW type \in {"CLEAR", "STATE"}, Shutdown(type) \/ Startup(type)
        PROVE  PcrInv'
    BY <1>9, ShutdownStep, StartupStep
  <1>10. CASE PowerLoss
    BY <1>10, PowerLossStep
  <1>11. ASSUME NEW l \in Localities, SetLocality(l)
         PROVE  PcrInv'
    BY <1>11, LocalityStep
  <1>12. CASE UNCHANGED pcrVars
    <2>1. Refused /\ (drtm' = Closed \/ drtm' \in Digests)
      BY <1>12 DEF pcrVars, Refused, PcrInv, TypeOK
    <2> QED BY Zenon, <2>1, FrameStep
  <1> QED BY Zenon, <1>1, <1>2, <1>3, <1>4, <1>5, <1>6, <1>7, <1>8, <1>9, <1>10, <1>11, <1>12 DEF PcrNext

(* The inductive invariant holds: what Shutdown(STATE) saved is what a     *)
(* Startup would restore, with the flags of the boot it belongs to.        *)
THEOREM PcrInvariant == Spec => []PcrInv
  <1> QED BY InitiallyPcrInv, StepPcrInv, PTL DEF Spec

(* PCR 17 starts from zero only with a measurement in it, since no command *)
(* can reset it (PCRIsResetAllowed) and _TPM_Hash_End extends what it set. *)
THEOREM DynamicRootMeasured == Spec => []DynamicRootIsMeasured
  <1>1. PcrInv => DynamicRootIsMeasured
    BY DEF PcrInv
  <1> QED BY <1>1, PcrInvariant, PTL

(* PCR 0 tells how the boot started, over any number of shutdowns, losses  *)
(* of power and resumes, by the flags that Shutdown puts in orderlyState.  *)
THEOREM StartIsTold == Spec => []Pcr0TellsTheStart
  <1>1. PcrInv => Pcr0TellsTheStart
    BY DEF PcrInv
  <1> QED BY <1>1, PcrInvariant, PTL

(* A resume restores what was there when the power was lost: a command     *)
(* that changes a saved PCR takes the orderly state away (PCRIsStateSaved).*)
THEOREM ResumeIsExact == Spec => ResumeRestores
  <1> DEFINE Restores ==
        ~started /\ started' /\ startup' = "RESUME" =>
            \A b \in Banks : \A p \in pcrAllocated[b] \cap atLoss.allocated[b] \cap StaticPcrs :
                pcrs'[b][p] = atLoss.pcrs[b][p]
  <1>1. PcrInv /\ [PcrNext]_pcrVars => [Restores]_pcrVars
    <2> SUFFICES ASSUME PcrInv, PcrNext, ~started, started', startup' = "RESUME",
                        NEW b \in Banks, NEW p \in pcrAllocated[b] \cap atLoss.allocated[b] \cap StaticPcrs
                 PROVE  pcrs'[b][p] = atLoss.pcrs[b][p]
      OBVIOUS
    <2>1. PICK type \in {"CLEAR", "STATE"} : Startup(type)
      BY Zenon DEF PcrNext, PCR_Event, PCR_Extend, PCR_Reset, PCR_Allocate, Clear, Command, TPM_Hash_Start, TPM_Hash_Data,
             TPM_Hash_End, EventVars, Shutdown, PowerLoss, SetLocality
    <2>2. PCRStartup("RESUME") /\ orderlyState \in StateSaved
      BY Zenon, <2>1 DEF Startup, StartupKind
    <2>3. p \in PcrSet /\ StateSave(p)
      BY DEF StaticPcrs
    <2>4. pcrs'[b][p] = pcrSave[b][p]
      BY Zenon, <2>2, <2>3 DEF PCRStartup, Restored
    <2> QED BY Zenon, <2>2, <2>3, <2>4 DEF PcrInv, SavedIsLost
  <1>2. ResumeRestores <=> [][Restores]_pcrVars
    BY DEF ResumeRestores
  <1> QED BY <1>1, <1>2, PcrInvariant, PTL DEF Spec

(* pcrCounter, which policy sessions compare, moves with every change of a *)
(* PCR that can be read, outside the TCB group.  The end of a hash         *)
(* sequence counts only because some bank has PCR 17.                      *)
THEOREM ChangesAreCounted == Spec => EveryChangeIsCounted
  <1> DEFINE Counted ==
        started /\ started' =>
            \A b \in Banks : \A p \in pcrAllocated[b] :
                pcrs'[b][p] # pcrs[b][p] /\ ~PCRBelongsTCBGroup(p) => pcrCounter' > pcrCounter
  <1>1. PcrInv /\ [PcrNext]_pcrVars => [Counted]_pcrVars
    <2> SUFFICES ASSUME PcrInv, PcrNext, started, started', NEW b \in Banks, NEW p \in pcrAllocated[b],
                        pcrs'[b][p] # pcrs[b][p], ~PCRBelongsTCBGroup(p)
                 PROVE  pcrCounter' > pcrCounter
      BY Zenon
    <2>0. TypeOK /\ p \in PcrSet /\ pcrCounter \in Nat
      BY DEF PcrInv, TypeOK
    <2>1. ASSUME NEW q \in PcrSet, NEW banks \in SUBSET Banks, NEW digest, PCR_Extend(q, banks, digest)
          PROVE  pcrCounter' > pcrCounter
      <3> DEFINE hit == banks \cap BanksWith(q)
      <3>1. /\ pcrs' = [c \in Banks |-> IF c \in hit THEN [pcrs[c] EXCEPT ![q] = PCRExtended(@, digest)]
                                                       ELSE pcrs[c]]
            /\ pcrCounter' = Bumped(q, Cardinality(hit))
        BY <2>1 DEF PCR_Extend, ExtendBanks, Refused
      <3>2. p = q /\ b \in hit
        BY Zenon, <2>0, <3>1 DEF TypeOK
      <3>3. hit \in SUBSET Banks /\ hit # {}
        BY <3>2
      <3> HIDE DEF hit
      <3>4. Cardinality(hit) \in Nat /\ Cardinality(hit) > 0
        BY <3>3, HitCount
      <3> QED BY <2>0, <3>1, <3>2, <3>4 DEF Bumped
    <2>2. ASSUME NEW q \in PcrSet, PCR_Reset(q)
          PROVE  pcrCounter' > pcrCounter
      <3>1. pcrs' = ResetPcr(q) /\ pcrCounter' = Bumped(q, 1)
        BY Zenon, <2>2 DEF PCR_Reset, Refused
      <3>2. p = q
        BY Zenon, <2>0, <3>1 DEF ResetPcr, TypeOK
      <3> QED BY <2>0, <3>1, <3>2 DEF Bumped
    <2>3. CASE TPM_Hash_End
      <3>1. pcrCounter' = pcrCounter + Cardinality(BanksWith(DRTM_PCR))
        BY Zenon, <2>3, Roots DEF TPM_Hash_End, PcrDrtm, Bumped
      <3>2. BanksWith(DRTM_PCR) \in SUBSET Banks /\ BanksWith(DRTM_PCR) # {}
        BY Zenon DEF PcrInv, KeepsRoots, BanksWith
      <3>3. Cardinality(BanksWith(DRTM_PCR)) \in Nat /\ Cardinality(BanksWith(DRTM_PCR)) > 0
        BY Zenon, <3>2, HitCount
      <3> QED BY <2>0, <3>1, <3>3
    <2>4. \/ \E q \in PcrSet, banks \in SUBSET Banks : \E d \in Data : PCR_Extend(q, banks, <<d>>)
          \/ \E q \in PcrSet : PCR_Reset(q)
          \/ TPM_Hash_End
      <3>1. pcrs' # pcrs
        OBVIOUS
      <3>2. \A q \in PcrSet, d \in Data : PCR_Event(q, d) => PCR_Extend(q, Banks, <<d>>)
        BY DEF PCR_Event
      <3>3. \A type : ~Startup(type)
        BY DEF Startup
      <3>4. ~PowerLoss
        BY Zenon DEF PowerLoss
      <3>5. \A a \in Allocations : ~PCR_Allocate(a)
        BY Zenon, <3>1 DEF PCR_Allocate, Refused
      <3>6. \A type \in {"CLEAR", "STATE"} : ~Shutdown(type)
        BY <3>1 DEF Shutdown, Refused
      <3>7. ~Clear /\ ~TPM_Hash_Start /\ (\A d \in Data : ~TPM_Hash_Data(d)) /\ (\A l \in Localities : ~SetLocality(l))
        BY Zenon, <3>1 DEF Clear, TPM_Hash_Start, TPM_Hash_Data, SetLocality
      <3> QED BY Zenon, <3>2, <3>3, <3>4, <3>5, <3>6, <3>7 DEF PcrNext
    <2> QED BY Zenon, <2>1, <2>2, <2>3, <2>4
  <1>2. EveryChangeIsCounted <=> [][Counted]_pcrVars
    BY DEF EveryChangeIsCounted
  <1> QED BY <1>1, <1>2, PcrInvariant, PTL DEF Spec

=============================================================================
