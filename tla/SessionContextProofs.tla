------------------------ MODULE SessionContextProofs ------------------------
(***************************************************************************)
(* Proofs about SessionContext, for every number of sessions and slots and *)
(* every width of CONTEXT_SLOT.                                            *)
(***************************************************************************)
EXTENDS SessionContext, FiniteSetTheorems, TLAPS

-----------------------------------------------------------------------------
(* Numbers with the same low bits. *)

\* Quotient and remainder of an integer.
LEMMA DivMod ==
    ASSUME NEW a \in Int, NEW M \in Nat, M > 0
    PROVE  /\ a % M \in 0 .. M - 1
           /\ a \div M \in Int
           /\ a = (M * (a \div M)) + (a % M)
OBVIOUS

\* The remainder is unique.
LEMMA ModUnique ==
    ASSUME NEW M \in Nat, M > 0, NEW q \in Int, NEW r \in 0 .. M - 1
    PROVE  ((M * q) + r) % M = r
OBVIOUS

\* Different numbers with the same low bits are at least M apart.
LEMMA SameLowBits ==
    ASSUME NEW M \in Nat, M > 0, NEW s \in Nat, NEW t \in Nat,
           s < t, s % M = t % M
    PROVE  t - s >= M
<1> DEFINE p == s \div M
           q == t \div M
<1>1. /\ p \in Int /\ q \in Int /\ s % M \in Int
      /\ s = (M * p) + (s % M)
      /\ t = (M * q) + (t % M)
  BY DivMod
<1>2. t - s = M * (q - p)
  BY <1>1
<1>3. q - p >= 1
  <2>1. SUFFICES ASSUME q - p <= 0 PROVE FALSE
    BY <1>1
  <2>2. M * (q - p) <= 0
    BY <2>1, <1>1
  <2> QED
    BY <2>2, <1>2
<1> QED
  BY <1>1, <1>2, <1>3

\* A number exactly M behind has the same low bits.
LEMMA FullGapSameLowBits ==
    ASSUME NEW M \in Nat, M > 0, NEW s \in Nat
    PROVE  (s + M) % M = s % M
<1> DEFINE p == s \div M
           r == s % M
<1>1. p \in Int /\ r \in 0 .. M - 1 /\ s = (M * p) + r
  BY DivMod
<1>2. s + M = (M * (p + 1)) + r /\ p + 1 \in Int
  BY <1>1
<1> HIDE DEF p, r
<1>3. ((M * (p + 1)) + r) % M = r
  BY <1>1, <1>2, ModUnique
<1> QED
  BY <1>2, <1>3 DEF r

\* The age that ContextIdSetOldest computes from the low bits alone is the
\* distance to the widest possible gap.
LEMMA AgeIsGap ==
    ASSUME NEW M \in Nat, M > 0, NEW s \in Nat, NEW c \in Nat,
           s < c, c - s <= M
    PROVE  ((s % M) - c) % M = M - (c - s)
<1> DEFINE p == s \div M
           r == s % M
<1>1. p \in Int /\ r \in 0 .. M - 1 /\ s = (M * p) + r
  BY DivMod
<1>2. r - c = (M * (-p - 1)) + (M - (c - s))
  BY <1>1
<1>3. -p - 1 \in Int /\ M - (c - s) \in 0 .. M - 1
  BY <1>1
<1> HIDE DEF p, r
<1>4. ((M * (-p - 1)) + (M - (c - s))) % M = M - (c - s)
  BY ZenonT(40), <1>3, ModUnique
<1> QED
  BY <1>2, <1>4 DEF r

-----------------------------------------------------------------------------
(* Smallest and largest elements. *)

\* A nonempty set of naturals has a smallest element.
LEMMA NatSetHasMin ==
    ASSUME NEW S \in SUBSET Nat, S # {}
    PROVE  \E x \in S : \A y \in S : x <= y
<1>1. PICK x \in S : \A y \in S : ~ (<<y, x>> \in OpToRel(<, Nat))
  BY ZenonT(40), NatLessThanWellFounded, WFMin
<1>2. ASSUME NEW y \in S PROVE x <= y
  <2>1. ~(y < x)
    BY ZenonT(40), <1>1 DEF OpToRel
  <2> QED
    BY <2>1
<1> QED
  BY <1>2

\* A nonempty set of naturals with a bound has a largest element.
LEMMA BoundedNatSetHasMax ==
    ASSUME NEW n \in Nat, NEW S \in SUBSET (0 .. n), S # {}
    PROVE  \E x \in S : \A y \in S : x >= y
<1> DEFINE T == {n - x : x \in S}
<1>1. T \in SUBSET Nat /\ T # {}
  <2>1. PICK x \in S : TRUE
    BY Zenon
  <2>2. n - x \in T
    BY <2>1
  <2>3. \A y \in S : n - y \in Nat
    OBVIOUS
  <2> QED
    BY <2>2, <2>3
<1>2. PICK t \in T : \A u \in T : t <= u
  <2> HIDE DEF T
  <2> QED BY <1>1, NatSetHasMin
<1>3. PICK x \in S : t = n - x
  BY <1>2
<1>4. ASSUME NEW y \in S PROVE x >= y
  <2>1. n - x <= n - y
    BY <1>2, <1>3
  <2> QED
    BY <2>1
<1> QED
  BY <1>4

-----------------------------------------------------------------------------
(* ContextIdSetOldest. *)

\* o is the saved session with the smallest number, or none is saved.
IsOldest(o, arr, seq) ==
    /\ o \in Active \cup {NoOldest}
    /\ o = NoOldest <=> Saved(arr) = {}
    /\ o \in Active => /\ o \in Saved(arr)
                       /\ \A h \in Saved(arr) : seq[o] <= seq[h]

\* The search over the truncated numbers finds the session whose full number is
\* the smallest (ContextIdSetOldest).
LEMMA SetOldestFindsOldest ==
    ASSUME NEW arr \in [Active -> Nat], NEW ctr \in Nat,
           NEW seq \in [Active -> Nat], TrackedBy(arr, ctr, seq)
    PROVE  IsOldest(ContextIdSetOldest(arr, ctr), arr, seq)
<1> USE ConstantsAssumption
<1> DEFINE S == Saved(arr)
           ages == {Age(arr, ctr, h) : h \in S}
           smallest == {h \in S : \A g \in S : Age(arr, ctr, h) <= Age(arr, ctr, g)}
<1>1. \A h \in S : Age(arr, ctr, h) = SLOT_MOD - (ctr - seq[h])
  <2> SUFFICES ASSUME NEW h \in S
               PROVE  Age(arr, ctr, h) = SLOT_MOD - (ctr - seq[h])
    OBVIOUS
  <2>1. /\ h \in Active /\ seq[h] \in Nat
        /\ arr[h] = seq[h] % SLOT_MOD /\ seq[h] < ctr /\ ctr - seq[h] <= SLOT_MOD
    BY DEF Saved, SessionIsSaved, TrackedBy
  <2>2. SLOT_MOD \in Nat /\ SLOT_MOD > 0
    OBVIOUS
  <2>3. ((seq[h] % SLOT_MOD) - ctr) % SLOT_MOD = SLOT_MOD - (ctr - seq[h])
    <3> HIDE ConstantsAssumption
    <3> QED BY ZenonT(40), <2>1, <2>2, AgeIsGap
  <2> QED
    BY <2>1, <2>3 DEF Age
<1>2. \A h \in S : h \in Active /\ seq[h] \in Nat /\ seq[h] < ctr
                   /\ ctr - seq[h] <= SLOT_MOD
  BY DEF Saved, SessionIsSaved, TrackedBy
<1>3. CASE S = {}
  BY <1>3 DEF ContextIdSetOldest, IsOldest, NoOldest, Active
<1>4. CASE S # {}
  <2>1. ages \in SUBSET Nat /\ ages # {}
    BY <1>1, <1>2, <1>4
  <2>2. PICK a \in ages : \A b \in ages : a <= b
    <3> HIDE DEF ages
    <3> QED BY <2>1, NatSetHasMin
  <2>3. PICK h0 \in S : a = Age(arr, ctr, h0)
    BY <2>2
  <2>4. h0 \in smallest
    BY <2>2, <2>3
  <2>5. smallest \in SUBSET (0 .. MAX_ACTIVE_SESSIONS) /\ smallest # {}
    <3>1. Active \subseteq 0 .. MAX_ACTIVE_SESSIONS
      BY DEF Active
    <3>2. smallest \subseteq S /\ S \subseteq Active
      BY DEF Saved
    <3> HIDE DEF S, smallest
    <3> QED
      BY <3>1, <3>2, <2>4
  <2>6. \E x \in smallest : \A y \in smallest : x >= y
    <3> HIDE DEF smallest
    <3> QED BY ZenonT(40), <2>5, BoundedNatSetHasMax
  <2>7. Max(smallest) \in smallest
    BY <2>6 DEF Max
  <2>8. ContextIdSetOldest(arr, ctr) = Max(smallest)
    BY <1>4 DEF ContextIdSetOldest
  <2> DEFINE o == Max(smallest)
  <2>9. o \in S /\ \A g \in S : Age(arr, ctr, o) <= Age(arr, ctr, g)
    BY <2>7
  <2>10. \A g \in S : seq[o] <= seq[g]
    <3> HIDE DEF o, S
    <3> QED BY <2>9, <1>1, <1>2
  <2>11. o \in Active /\ o # NoOldest
    <3> HIDE DEF o, S
    <3> QED BY <2>9, <1>2 DEF NoOldest, Active
  <2>12. IsOldest(o, arr, seq)
    <3> HIDE DEF o
    <3> QED BY <2>9, <2>10, <2>11, <1>4 DEF IsOldest
  <2> QED
    BY <2>8, <2>12
<1> QED
  BY <1>3, <1>4

-----------------------------------------------------------------------------
(* The invariant. *)

\* A free slot is found when s_freeSessionSlots says that there is one
\* (SessionCreate and SessionContextLoad search for it and treat a failed
\* search as an internal error).
LEMMA FreeSlotExists ==
    ASSUME TypeOK, SlotsAccounted, freeSlots # 0
    PROVE  Min(Slots \ occupied) \in Slots \ occupied
<1> USE ConstantsAssumption
<1>1. IsFiniteSet(Slots) /\ Cardinality(Slots) = MAX_LOADED_SESSIONS
  BY FS_Interval DEF Slots
<1>2. occupied \in SUBSET Slots
  BY DEF TypeOK
<1>3. Cardinality(occupied) # MAX_LOADED_SESSIONS
  BY DEF SlotsAccounted
<1>4. Slots \ occupied # {}
  BY ZenonT(40), <1>1, <1>2, <1>3
<1>5. Slots \ occupied \in SUBSET Nat
  BY DEF Slots
<1>6. \E x \in Slots \ occupied : \A y \in Slots \ occupied : x <= y
  BY ZenonT(40), <1>4, <1>5, NatSetHasMin
<1> QED
  BY <1>6 DEF Min

\* The gap is at its maximum exactly when the oldest number is a full range of a
\* CONTEXT_SLOT behind the counter.
LEMMA GapIsFullRange ==
    ASSUME TypeOK, TrackedBy(contextArray, contextCounter, lastSeq), OldestIsOldest,
           oldest \in Active
    PROVE  GapAtMaximum <=> contextCounter - lastSeq[oldest] = SLOT_MOD
<1> USE ConstantsAssumption
<1> DEFINE M == SLOT_MOD
           c == contextCounter
           s == lastSeq[oldest]
<1>1. M \in Nat /\ M > 0 /\ c \in Nat /\ s \in Nat
  BY DEF TypeOK
<1>2. s < c /\ c - s <= M /\ contextArray[oldest] = s % M
  BY DEF OldestIsOldest, Saved, SessionIsSaved, TrackedBy
<1>3. oldest < MAX_ACTIVE_SESSIONS
  BY DEF Active
<1>4. ASSUME s % M = c % M PROVE c - s = M
  <2> HIDE DEF M, c, s
  <2>1. c - s >= M
    BY ZenonT(40), <1>1, <1>2, <1>4, SameLowBits
  <2> QED
    BY <2>1, <1>1, <1>2
<1>5. ASSUME c - s = M PROVE s % M = c % M
  <2> HIDE DEF M, c, s
  <2>1. c = s + M
    BY <1>1, <1>5
  <2>2. (s + M) % M = s % M
    BY ZenonT(40), <1>1, FullGapSameLowBits
  <2> QED
    BY <2>1, <2>2
<1> QED
  BY <1>2, <1>3, <1>4, <1>5 DEF GapAtMaximum

\* Skipping the L values that mean "unused" or "loaded" when the low bits wrap
\* does not take the counter past a number that is at least L above a multiple.
LEMMA WrapKeepsGap ==
    ASSUME NEW M \in Nat, M > 0, NEW c \in Nat, NEW s \in Nat, NEW L \in Nat,
           s <= c, c + 1 - s <= M, (c + 1) % M = 0, s % M >= L
    PROVE  c + 1 + L - s <= M
<1> DEFINE p == s \div M
           k == (c + 1) \div M
           r == s % M
<1>1. p \in Int /\ r \in 0 .. M - 1 /\ s = (M * p) + r
  BY DivMod
<1>2. k \in Int /\ c + 1 = M * k
  <2>1. c + 1 \in Int /\ c + 1 = (M * k) + ((c + 1) % M) /\ k \in Int
    BY DivMod
  <2> HIDE DEF k
  <2> QED BY <2>1
<1>3. r >= L
  OBVIOUS
<1> HIDE DEF p, k, r
<1> DEFINE d == M * (k - p)
<1>4. d \in Int /\ c + 1 - s = d - r
  BY <1>1, <1>2
<1>5. d <= M
  <2>1. ASSUME k - p >= 2 PROVE FALSE
    <3>1. d >= M * 2
      BY <2>1, <1>1, <1>2
    <3> HIDE DEF d
    <3> QED BY <3>1, <1>1, <1>4
  <2> QED
    BY <2>1, <1>1, <1>2
<1> HIDE DEF d
<1> QED
  BY <1>1, <1>3, <1>4, <1>5

\* The low bits of the counter after a save never mean "unused" or "loaded".
LEMMA NextCounterLowBits ==
    ASSUME NEW c \in Nat, c % SLOT_MOD > MAX_LOADED_SESSIONS
    PROVE  /\ NextCounter(c) \in Nat
           /\ NextCounter(c) > c
           /\ NextCounter(c) - c <= SLOT_MOD
           /\ NextCounter(c) % SLOT_MOD > MAX_LOADED_SESSIONS
<1> USE ConstantsAssumption
<1> DEFINE M == SLOT_MOD
           L == MAX_LOADED_SESSIONS + 1
<1>1. M \in Nat /\ M > 0 /\ L \in 0 .. M - 1
  OBVIOUS
<1>2. CASE (c + 1) % M = 0
  <2>1. NextCounter(c) = c + 1 + L
    BY <1>2 DEF NextCounter
  <2> DEFINE k == (c + 1) \div M
  <2>2. k \in Int /\ c + 1 = M * k
    <3>1. c + 1 \in Int /\ c + 1 = (M * k) + ((c + 1) % M) /\ k \in Int
      BY <1>1, DivMod
    <3> HIDE DEF k, M
    <3> QED BY <3>1, <1>1, <1>2
  <2>3. ((M * k) + L) % M = L
    <3> HIDE DEF k, M, L
    <3> QED BY ZenonT(40), <1>1, <2>2, ModUnique
  <2>4. (c + 1 + L) % M = L
    BY <2>2, <2>3
  <2> QED
    BY <1>1, <2>1, <2>4
<1>3. CASE (c + 1) % M # 0
  <2>1. NextCounter(c) = c + 1
    BY <1>3 DEF NextCounter
  <2> DEFINE p == c \div M
             r == c % M
  <2>2. p \in Int /\ r \in 0 .. M - 1 /\ c = (M * p) + r
    BY <1>1, DivMod
  <2>3. r + 1 \in 0 .. M - 1
    <3>1. SUFFICES ASSUME r + 1 = M PROVE FALSE
      BY <2>2
    <3>2. c + 1 = (M * (p + 1)) + 0 /\ p + 1 \in Int /\ 0 \in 0 .. M - 1
      BY <2>2, <3>1, <1>1
    <3>3. ((M * (p + 1)) + 0) % M = 0
      <4> HIDE DEF p, M
      <4> QED BY ZenonT(40), <3>2, <1>1, ModUnique
    <3> QED
      BY <1>3, <3>2, <3>3
  <2>4. ((M * p) + (r + 1)) % M = r + 1
    <3> HIDE DEF p, r, M
    <3> QED BY <1>1, <2>2, <2>3, ModUnique
  <2>5. (c + 1) % M = r + 1
    <3> HIDE DEF r, p
    <3>1. c + 1 = (M * p) + (r + 1)
      BY <2>2
    <3> QED BY <3>1, <2>4
  <2> QED
    BY <1>1, <2>1, <2>5, <2>2
<1> QED
  BY <1>2, <1>3

\* OldestIsOldest in terms of IsOldest.
LEMMA OldestEquiv ==
    ASSUME TypeOK
    PROVE  OldestIsOldest <=> IsOldest(oldest, contextArray, lastSeq)
BY DEF TypeOK, OldestIsOldest, IsOldest

\* The invariant holds after the first startup.
LEMMA InitSessionInv == ASSUME Init PROVE SessionInv
<1> USE ConstantsAssumption
<1> USE DEF Init
<1>1. TypeOK
  BY DEF TypeOK, Slots, NotOrderly
<1>2. SlotsAccounted
  <2>1. Cardinality({}) = 0
    BY FS_EmptySet
  <2> QED
    BY <2>1 DEF SlotsAccounted, Slots, SessionIsLoaded
<1>3. contextCounter % SLOT_MOD > MAX_LOADED_SESSIONS
  OBVIOUS
<1>4. TrackedBy(contextArray, contextCounter, lastSeq)
  BY DEF TrackedBy
<1>5. Saved(contextArray) = {}
  BY DEF Saved, SessionIsSaved
<1>6. OldestIsOldest
  BY <1>5 DEF OldestIsOldest, NoOldest, Active
<1>7. GapCanBeClosed
  BY DEF GapCanBeClosed
<1> QED
  BY <1>1, <1>2, <1>3, <1>4, <1>6, <1>7 DEF SessionInv

\* Taking a slot for an entry that was not loaded (SessionCreate and
\* SessionContextLoad) keeps the accounting of slots.
LEMMA TakeSlot ==
    ASSUME TypeOK, SlotsAccounted, NEW h \in Active, NEW slot \in Slots \ occupied,
           ~SessionIsLoaded(contextArray, h),
           contextArray' = [contextArray EXCEPT ![h] = slot + 1],
           occupied' = occupied \cup {slot},
           freeSlots' = freeSlots - 1
    PROVE  /\ SlotsAccounted'
           /\ freeSlots' \in 0 .. MAX_LOADED_SESSIONS
           /\ contextArray' \in [Active -> 0 .. SLOT_MOD - 1]
           /\ occupied' \subseteq Slots
<1> USE ConstantsAssumption
<1>1. contextArray' \in [Active -> 0 .. SLOT_MOD - 1] /\ occupied' \subseteq Slots
  BY DEF TypeOK, Slots
<1>2. IsFiniteSet(Slots) /\ Cardinality(Slots) = MAX_LOADED_SESSIONS
  BY FS_Interval DEF Slots
<1>3. /\ IsFiniteSet(occupied) /\ IsFiniteSet(occupied')
      /\ Cardinality(occupied') \in Nat /\ Cardinality(occupied') <= MAX_LOADED_SESSIONS
      /\ Cardinality(occupied) \in Nat
  BY SMTT(60), <1>1, <1>2, FS_Subset, FS_CardinalityType DEF TypeOK
<1>4. Cardinality(occupied') = Cardinality(occupied) + 1
  BY <1>3, FS_AddElement
<1>5. freeSlots' = MAX_LOADED_SESSIONS - Cardinality(occupied')
  BY <1>3, <1>4 DEF SlotsAccounted, TypeOK
<1>6. freeSlots' \in 0 .. MAX_LOADED_SESSIONS
  BY <1>3, <1>5
<1>7. contextArray'[h] = slot + 1 /\ \A g \in Active \ {h} : contextArray'[g] = contextArray[g]
  BY DEF TypeOK
<1>8. \A g \in Active : contextArray[g] # slot + 1
  BY DEF SlotsAccounted
<1>9. \A i \in Slots : contextArray[h] # i + 1
  BY DEF SessionIsLoaded, Slots, TypeOK
<1>10. ASSUME NEW i \in Slots
       PROVE  i \in occupied' <=> \E g \in Active : contextArray'[g] = i + 1
  <2>1. CASE i = slot
    BY <2>1, <1>7
  <2>2. CASE i # slot
    <3>1. i \in occupied' <=> i \in occupied
      BY <2>2
    <3>2. i \in occupied <=> \E g \in Active : contextArray[g] = i + 1
      BY DEF SlotsAccounted
    <3>3. slot + 1 # i + 1
      BY <2>2 DEF Slots
    <3> QED
      BY <3>1, <3>2, <3>3, <1>7, <1>9
  <2> QED
    BY <2>1, <2>2
<1>11. ASSUME NEW f \in Active, NEW g \in Active,
              SessionIsLoaded(contextArray', f), contextArray'[f] = contextArray'[g]
       PROVE  f = g
  BY <1>7, <1>8, <1>11 DEF SlotsAccounted, SessionIsLoaded
<1> QED
  BY ZenonT(40), <1>1, <1>5, <1>6, <1>10, <1>11 DEF SlotsAccounted

\* Giving back the slot of a loaded session (SessionContextSave and
\* SessionFlush) keeps the accounting of slots.
LEMMA GiveSlotBack ==
    ASSUME TypeOK, SlotsAccounted, NEW h \in Active,
           SessionIsLoaded(contextArray, h),
           NEW e \in 0 .. SLOT_MOD - 1, e = 0 \/ e > MAX_LOADED_SESSIONS,
           contextArray' = [contextArray EXCEPT ![h] = e],
           occupied' = occupied \ {contextArray[h] - 1},
           freeSlots' = freeSlots + 1
    PROVE  /\ SlotsAccounted'
           /\ freeSlots' \in 1 .. MAX_LOADED_SESSIONS
           /\ contextArray' \in [Active -> 0 .. SLOT_MOD - 1]
           /\ occupied' \subseteq Slots
<1> USE ConstantsAssumption
<1> DEFINE slot == contextArray[h] - 1
<1>1. contextArray' \in [Active -> 0 .. SLOT_MOD - 1] /\ occupied' \subseteq Slots
  BY DEF TypeOK
<1>2. contextArray[h] \in Nat /\ slot \in Slots /\ contextArray[h] = slot + 1
  BY DEF TypeOK, SessionIsLoaded, Slots
<1>3. slot \in occupied
  BY <1>2 DEF SlotsAccounted
<1>4. IsFiniteSet(Slots) /\ Cardinality(Slots) = MAX_LOADED_SESSIONS
  BY FS_Interval DEF Slots
<1>5. /\ IsFiniteSet(occupied) /\ IsFiniteSet(occupied')
      /\ Cardinality(occupied') \in Nat
      /\ Cardinality(occupied) \in Nat /\ Cardinality(occupied) <= MAX_LOADED_SESSIONS
  BY SMTT(60), <1>1, <1>4, FS_Subset, FS_CardinalityType DEF TypeOK
<1>6. Cardinality(occupied') = Cardinality(occupied) - 1
  BY <1>3, <1>5, FS_RemoveElement
<1>7. /\ freeSlots' = MAX_LOADED_SESSIONS - Cardinality(occupied')
      /\ freeSlots' \in 1 .. MAX_LOADED_SESSIONS
  BY <1>5, <1>6 DEF SlotsAccounted, TypeOK
<1>8. contextArray'[h] = e /\ \A g \in Active \ {h} : contextArray'[g] = contextArray[g]
  BY DEF TypeOK
<1>9. \A i \in Slots : e # i + 1
  BY DEF Slots
<1>10. \A g \in Active \ {h} : contextArray[g] # contextArray[h]
  BY DEF SlotsAccounted
<1> HIDE DEF slot
<1>11. ASSUME NEW i \in Slots
       PROVE  i \in occupied' <=> \E g \in Active : contextArray'[g] = i + 1
  <2>1. i \in occupied <=> \E g \in Active : contextArray[g] = i + 1
    BY DEF SlotsAccounted
  <2>2. CASE i = slot
    <3>1. i \notin occupied'
      BY <2>2 DEF slot
    <3>2. \A g \in Active : contextArray'[g] # i + 1
      BY <2>2, <1>2, <1>8, <1>9, <1>10
    <3> QED BY <3>1, <3>2
  <2>3. CASE i # slot
    <3>1. i \in occupied' <=> i \in occupied
      BY <2>3 DEF slot
    <3>2. contextArray[h] # i + 1
      BY <2>3, <1>2 DEF Slots
    <3>3. (\E g \in Active : contextArray'[g] = i + 1)
             <=> (\E g \in Active : contextArray[g] = i + 1)
      BY <3>2, <1>8, <1>9
    <3> QED BY <3>1, <3>3, <2>1
  <2> QED
    BY <2>2, <2>3
<1>12. ASSUME NEW f \in Active, NEW g \in Active,
              SessionIsLoaded(contextArray', f), contextArray'[f] = contextArray'[g]
       PROVE  f = g
  <2>1. ~SessionIsLoaded(contextArray', h)
    BY <1>8 DEF SessionIsLoaded
  <2>2. f # h
    BY <2>1, <1>12
  <2>3. g # h
    BY <2>1, <1>12 DEF SessionIsLoaded
  <2> QED
    BY <2>2, <2>3, <1>8, <1>12 DEF SlotsAccounted, SessionIsLoaded
<1> QED
  BY ZenonT(40), <1>1, <1>7, <1>11, <1>12 DEF SlotsAccounted

\* TPM2_StartAuthSession keeps the invariant.
LEMMA CreateKeepsInv == ASSUME SessionInv, SessionCreate PROVE SessionInv'
<1> USE ConstantsAssumption
<1>0. /\ TypeOK /\ SlotsAccounted /\ OldestIsOldest /\ GapCanBeClosed
      /\ TrackedBy(contextArray, contextCounter, lastSeq)
  BY DEF SessionInv
<1> DEFINE slot == Min(Slots \ occupied)
<1>1. PICK h \in Active :
        /\ contextArray[h] = 0
        /\ contextArray' = [contextArray EXCEPT ![h] = slot + 1]
        /\ occupied' = occupied \cup {slot}
  BY ZenonT(40) DEF SessionCreate
<1>2. /\ freeSlots # 0 /\ ~(freeSlots = 1 /\ GapAtMaximum) /\ freeSlots' = freeSlots - 1
      /\ UNCHANGED <<contextCounter, oldest, orderlyGr, lastSeq>>
  BY DEF SessionCreate
<1>3. slot \in Slots \ occupied
  BY <1>0, <1>2, FreeSlotExists
<1> HIDE DEF slot
<1>4. ~SessionIsLoaded(contextArray, h)
  BY <1>1 DEF SessionIsLoaded
<1>5. /\ SlotsAccounted' /\ freeSlots' \in 0 .. MAX_LOADED_SESSIONS
      /\ contextArray' \in [Active -> 0 .. SLOT_MOD - 1] /\ occupied' \subseteq Slots
  BY ZenonT(40), <1>0, <1>1, <1>2, <1>3, <1>4, TakeSlot
<1>6. TypeOK'
  BY <1>0, <1>2, <1>5 DEF TypeOK
<1>7. \A g \in Active : IF g = h THEN /\ contextArray[g] <= MAX_LOADED_SESSIONS
                                     /\ contextArray'[g] <= MAX_LOADED_SESSIONS
                                ELSE contextArray'[g] = contextArray[g]
  BY <1>0, <1>1, <1>3 DEF TypeOK, Slots
<1>8. TrackedBy(contextArray', contextCounter', lastSeq')
  BY <1>0, <1>2, <1>6, <1>7 DEF TrackedBy, TypeOK
<1>9. Saved(contextArray') = Saved(contextArray)
  BY <1>0, <1>5, <1>7 DEF Saved, SessionIsSaved, TypeOK
<1>10. OldestIsOldest'
  BY <1>0, <1>2, <1>9 DEF OldestIsOldest
<1>11. GapCanBeClosed'
  <2> SUFFICES ASSUME GapAtMaximum' PROVE freeSlots' >= 1
    BY DEF GapCanBeClosed
  <2>1. oldest \in Saved(contextArray)
    BY <1>0, <1>2 DEF GapAtMaximum, OldestIsOldest, TypeOK, NoOldest, Active
  <2>2. contextArray'[oldest] = contextArray[oldest]
    BY <2>1, <1>1, <1>7 DEF Saved, SessionIsSaved
  <2>3. GapAtMaximum
    BY <2>2, <1>2 DEF GapAtMaximum
  <2> QED
    BY <2>3, <1>0, <1>2 DEF TypeOK
<1> QED
  BY <1>2, <1>5, <1>6, <1>8, <1>10, <1>11 DEF SessionInv

\* TPM2_ContextSave keeps the invariant: because the gap was not at its maximum,
\* no tracked number falls out of range when the counter advances, even when it
\* jumps over the values that mean "loaded".
LEMMA SaveKeepsInv ==
    ASSUME SessionInv, NEW h \in Active, SessionContextSave(h) PROVE SessionInv'
<1> USE ConstantsAssumption
<1>0. /\ TypeOK /\ SlotsAccounted /\ OldestIsOldest
      /\ TrackedBy(contextArray, contextCounter, lastSeq)
      /\ contextCounter % SLOT_MOD > MAX_LOADED_SESSIONS
  BY DEF SessionInv
<1> DEFINE c == contextCounter
           e == contextCounter % SLOT_MOD
<1>1. /\ SessionIsLoaded(contextArray, h)
      /\ ~GapAtMaximum
      /\ NextCounter(c) <= MaxCounter
      /\ contextArray' = [contextArray EXCEPT ![h] = e]
      /\ contextCounter' = NextCounter(c)
      /\ oldest' = IF oldest >= MAX_ACTIVE_SESSIONS THEN h ELSE oldest
      /\ occupied' = occupied \ {contextArray[h] - 1}
      /\ freeSlots' = freeSlots + 1
      /\ lastSeq' = [lastSeq EXCEPT ![h] = c]
      /\ orderlyGr' = NotOrderly
  BY DEF SessionContextSave
<1>2. c \in Nat /\ c >= 1 /\ c <= MaxCounter /\ e \in 0 .. SLOT_MOD - 1 /\ e > MAX_LOADED_SESSIONS
  BY <1>0 DEF TypeOK
<1>3. /\ NextCounter(c) \in Nat
      /\ NextCounter(c) > c
      /\ NextCounter(c) - c <= SLOT_MOD
      /\ NextCounter(c) % SLOT_MOD > MAX_LOADED_SESSIONS
  BY <1>0, <1>2, NextCounterLowBits
<1> HIDE DEF e
<1>4. /\ SlotsAccounted' /\ freeSlots' \in 1 .. MAX_LOADED_SESSIONS
      /\ contextArray' \in [Active -> 0 .. SLOT_MOD - 1] /\ occupied' \subseteq Slots
  BY ZenonT(40), <1>0, <1>1, <1>2, GiveSlotBack
<1>5. TypeOK'
  <2>1. NotOrderly \in [contextArray : [Active -> 0 .. SLOT_MOD - 1],
                        contextCounter : 0 .. MaxCounter]
    BY DEF NotOrderly
  <2> HIDE DEF c
  <2> QED
    BY <2>1, <1>0, <1>1, <1>2, <1>3, <1>4 DEF TypeOK
<1>6. /\ contextArray'[h] = e /\ lastSeq'[h] = c
      /\ \A g \in Active \ {h} : contextArray'[g] = contextArray[g] /\ lastSeq'[g] = lastSeq[g]
  BY <1>0, <1>1 DEF TypeOK
<1>7. ASSUME NEW g \in Saved(contextArray)
      PROVE  g # h /\ lastSeq[g] \in Nat /\ lastSeq[g] < c /\ c - lastSeq[g] < SLOT_MOD
  <2>1. g # h /\ g \in Active
    BY <1>1 DEF Saved, SessionIsSaved, SessionIsLoaded, TypeOK, SessionInv
  <2>2. oldest \in Active /\ lastSeq[oldest] <= lastSeq[g] /\ oldest \in Saved(contextArray)
    BY <1>0 DEF OldestIsOldest, TypeOK
  <2>3. c - lastSeq[oldest] # SLOT_MOD
    BY <2>2, <1>0, <1>1, GapIsFullRange
  <2>4. c - lastSeq[oldest] <= SLOT_MOD /\ lastSeq[g] < c
    BY <2>1, <2>2, <1>0 DEF TrackedBy, Saved, SessionIsSaved
  <2>5. lastSeq[oldest] \in Nat /\ lastSeq[g] \in Nat
    BY <2>1, <2>2, <1>0 DEF TypeOK
  <2> HIDE DEF c
  <2> QED
    BY SMTT(60), <2>1, <2>2, <2>3, <2>4, <2>5, <1>2
<1>8. ASSUME NEW g \in Saved(contextArray)
      PROVE  NextCounter(c) - lastSeq[g] <= SLOT_MOD
  <2>1. lastSeq[g] \in Nat /\ lastSeq[g] < c /\ c - lastSeq[g] < SLOT_MOD
    BY <1>7
  <2>2. contextArray[g] = lastSeq[g] % SLOT_MOD /\ contextArray[g] > MAX_LOADED_SESSIONS
    BY <1>0 DEF TrackedBy, Saved, SessionIsSaved
  <2>3. lastSeq[g] % SLOT_MOD >= MAX_LOADED_SESSIONS + 1
    BY <2>2, <1>0 DEF TypeOK, Saved
  <2> HIDE DEF c
  <2>4. c + 1 - lastSeq[g] <= SLOT_MOD
    BY <2>1, <1>2
  <2>5. CASE (c + 1) % SLOT_MOD = 0
    <3> DEFINE L == MAX_LOADED_SESSIONS + 1
               s == lastSeq[g]
               M == SLOT_MOD
               n == NextCounter(c)
    <3>1. /\ M \in Nat /\ M > 0 /\ s \in Nat /\ c \in Nat /\ L \in Nat
          /\ s <= c /\ c + 1 - s <= M /\ (c + 1) % M = 0 /\ s % M >= L
      BY <2>1, <2>3, <2>4, <2>5, <1>2
    <3>2. n = c + 1 + L
      BY <2>5, <1>2 DEF NextCounter
    <3> HIDE DEF L, s, M, n
    <3>3. c + 1 + L - s <= M
      BY ZenonT(40), <3>1, WrapKeepsGap
    <3>4. n - s <= M
      BY <3>1, <3>2, <3>3
    <3> QED
      BY <3>4 DEF s, M, n
  <2>6. CASE (c + 1) % SLOT_MOD # 0
    <3>1. NextCounter(c) = c + 1
      BY <2>6 DEF NextCounter
    <3> DEFINE n == NextCounter(c)
               d == lastSeq[g]
    <3>2. n = c + 1 /\ c + 1 - d <= SLOT_MOD /\ c \in Nat /\ d \in Nat
      BY <3>1, <2>1, <2>4, <1>2
    <3> HIDE DEF n, d
    <3>3. n - d <= SLOT_MOD
      BY <3>2
    <3> QED
      BY <3>3 DEF n, d
  <2> QED
    BY <2>5, <2>6
<1>9. TrackedBy(contextArray', contextCounter', lastSeq')
  <2>1. \A g \in Active \ {h} : contextArray'[g] > MAX_LOADED_SESSIONS => g \in Saved(contextArray)
    BY <1>6 DEF Saved, SessionIsSaved
  <2> HIDE DEF c
  <2>2. ASSUME NEW g \in Active, contextArray'[g] > MAX_LOADED_SESSIONS
        PROVE  /\ contextArray'[g] = lastSeq'[g] % SLOT_MOD
               /\ 0 < lastSeq'[g] /\ lastSeq'[g] < contextCounter'
               /\ contextCounter' - lastSeq'[g] <= SLOT_MOD
    <3>1. CASE g = h
      BY SMTT(60), <3>1, <1>1, <1>2, <1>3, <1>6 DEF e, c
    <3>2. CASE g # h
      <4>1. g \in Saved(contextArray)
        BY <2>1, <2>2, <3>2
      <4>2. contextArray[g] = lastSeq[g] % SLOT_MOD /\ 0 < lastSeq[g]
        BY <4>1, <1>0 DEF TrackedBy, Saved, SessionIsSaved
      <4> QED
        BY SMTT(60), <4>1, <4>2, <3>2, <1>1, <1>2, <1>3, <1>6, <1>7, <1>8
    <3> QED BY <3>1, <3>2
  <2>3. ASSUME NEW f \in Active, NEW g \in Active,
               contextArray'[f] > MAX_LOADED_SESSIONS, contextArray'[g] > MAX_LOADED_SESSIONS,
               lastSeq'[f] = lastSeq'[g]
        PROVE  f = g
    <3>1. \A k \in Active \ {h} : contextArray'[k] > MAX_LOADED_SESSIONS => lastSeq'[k] < c
      BY <2>1, <1>6, <1>7
    <3>2. lastSeq'[h] = c /\ ~(c < c)
      BY <1>6, <1>2
    <3>3. CASE f # h /\ g # h
      BY <3>3, <2>3, <1>0, <1>6 DEF TrackedBy
    <3> QED
      BY <3>1, <3>2, <3>3, <2>3
  <2> QED
    BY <2>2, <2>3 DEF TrackedBy
<1>10. Saved(contextArray') = Saved(contextArray) \cup {h}
  BY <1>2, <1>6 DEF Saved, SessionIsSaved
<1>11. OldestIsOldest'
  <2> HIDE DEF c
  <2>1. CASE oldest = NoOldest
    <3>1. Saved(contextArray') = {h}
      BY <2>1, <1>0, <1>10 DEF OldestIsOldest
    <3>2. NoOldest >= MAX_ACTIVE_SESSIONS /\ h # NoOldest
      BY DEF NoOldest, Active
    <3>3. oldest' = h
      BY <2>1, <3>2, <1>1
    <3> QED
      BY <3>1, <3>2, <3>3, <1>2, <1>6 DEF OldestIsOldest
  <2>2. CASE oldest \in Active
    <3>1. oldest' = oldest /\ oldest \in Saved(contextArray) /\ oldest' # NoOldest
      BY SMTT(60), <2>2, <1>0, <1>1 DEF OldestIsOldest, Active, NoOldest
    <3>2. \A g \in Saved(contextArray) : lastSeq'[g] = lastSeq[g] /\ lastSeq[oldest] <= lastSeq[g]
      BY <2>2, <1>0, <1>6, <1>7 DEF OldestIsOldest, Saved
    <3>3. lastSeq[oldest] <= lastSeq'[h] /\ lastSeq'[oldest] = lastSeq[oldest]
      BY <3>1, <3>2, <1>2, <1>6, <1>7
    <3> QED
      BY <3>1, <3>2, <3>3, <1>10 DEF OldestIsOldest
  <2> QED
    BY <2>1, <2>2, <1>0 DEF TypeOK
<1>12. GapCanBeClosed'
  BY <1>4 DEF GapCanBeClosed
<1> QED
  BY <1>1, <1>3, <1>4, <1>5, <1>9, <1>11, <1>12 DEF SessionInv

\* What Load and Flush of a saved session have in common: entry h stops being a
\* saved one, no number is handed out, and the oldest session is looked up again
\* when it was h.
LEMMA UnsaveKeepsTracking ==
    ASSUME SessionInv, TypeOK', NEW h \in Active, h \in Saved(contextArray),
           NEW e \in 0 .. MAX_LOADED_SESSIONS,
           contextArray' = [contextArray EXCEPT ![h] = e],
           UNCHANGED <<contextCounter, lastSeq>>,
           oldest' = IF h = oldest THEN ContextIdSetOldest(contextArray', contextCounter)
                                   ELSE oldest
    PROVE  /\ TrackedBy(contextArray', contextCounter', lastSeq')
           /\ OldestIsOldest'
           /\ GapAtMaximum' => GapAtMaximum /\ h # oldest
<1> USE ConstantsAssumption
<1>0. /\ TypeOK /\ OldestIsOldest
      /\ TrackedBy(contextArray, contextCounter, lastSeq)
  BY DEF SessionInv
<1>1. /\ contextArray'[h] <= MAX_LOADED_SESSIONS
      /\ \A g \in Active \ {h} : contextArray'[g] = contextArray[g]
  BY <1>0 DEF TypeOK
<1>2. TrackedBy(contextArray', contextCounter', lastSeq')
  <2>1. \A g \in Active : contextArray'[g] > MAX_LOADED_SESSIONS =>
           contextArray'[g] = contextArray[g]
    BY <1>1 DEF TypeOK
  <2> QED
    BY <2>1, <1>0 DEF TrackedBy
<1>3. Saved(contextArray') = Saved(contextArray) \ {h}
  BY <1>1 DEF Saved, SessionIsSaved, TypeOK
<1>4. CASE h = oldest
  <2>1. IsOldest(oldest', contextArray', lastSeq')
    <3>1. contextArray' \in [Active -> Nat] /\ contextCounter' \in Nat /\ lastSeq' \in [Active -> Nat]
      BY DEF TypeOK
    <3>2. oldest' = ContextIdSetOldest(contextArray', contextCounter')
      BY <1>4
    <3> QED
      BY ZenonT(40), <3>1, <3>2, <1>2, SetOldestFindsOldest
  <2>2. OldestIsOldest'
    BY ZenonT(40), <2>1 DEF OldestIsOldest, IsOldest, TypeOK
  <2>3. ~GapAtMaximum'
    <3> SUFFICES ASSUME GapAtMaximum' PROVE FALSE
      OBVIOUS
    <3>1. oldest' \in Active
      BY DEF GapAtMaximum, TypeOK, NoOldest
    <3>2. oldest' \in Saved(contextArray) /\ oldest' # h
      BY ZenonT(40), <3>1, <2>2, <1>3 DEF OldestIsOldest
    <3>3. contextCounter - lastSeq[oldest'] >= SLOT_MOD
      <4> DEFINE s == lastSeq[oldest']
      <4>1. s % SLOT_MOD = contextCounter % SLOT_MOD
        BY SMTT(60), <3>1, <3>2, <1>0, <1>1 DEF GapAtMaximum, TrackedBy, Saved, SessionIsSaved
      <4>2. s < contextCounter
        BY <3>1, <3>2, <1>0 DEF TrackedBy, Saved, SessionIsSaved
      <4>3. s \in Nat /\ contextCounter \in Nat /\ SLOT_MOD \in Nat /\ SLOT_MOD > 0
        BY <3>1, <1>0 DEF TypeOK
      <4> HIDE DEF s
      <4>4. contextCounter - s >= SLOT_MOD
        BY SMTT(60), <4>1, <4>2, <4>3, SameLowBits
      <4> QED
        BY <4>4 DEF s
    <3>4. lastSeq[h] <= lastSeq[oldest'] /\ lastSeq[h] # lastSeq[oldest']
      BY SMTT(60), <3>1, <3>2, <1>0, <1>4 DEF OldestIsOldest, TrackedBy, Saved, SessionIsSaved
    <3>5. contextCounter - lastSeq[h] <= SLOT_MOD
      BY <1>0 DEF TrackedBy, Saved, SessionIsSaved
    <3> QED
      BY <3>1, <3>3, <3>4, <3>5, <1>0 DEF TypeOK
  <2> QED
    BY <2>2, <2>3, <1>2
<1>5. CASE h # oldest
  <2>1. oldest' = oldest /\ oldest \in Saved(contextArray) /\ oldest \in Active
    BY <1>0, <1>5 DEF OldestIsOldest, TypeOK
  <2>2. OldestIsOldest'
    BY ZenonT(40), <2>1, <1>0, <1>3, <1>5 DEF OldestIsOldest
  <2>3. GapAtMaximum' => GapAtMaximum
    BY <2>1, <1>1, <1>5 DEF GapAtMaximum
  <2> QED
    BY SMTT(60), <2>2, <2>3, <1>2, <1>5
<1> QED
  BY SMTT(60), <1>4, <1>5

\* The record that stands for "no orderly shutdown" has the type of a copy of gr.
LEMMA NotOrderlyType ==
    NotOrderly \in [contextArray : [Active -> 0 .. SLOT_MOD - 1],
                    contextCounter : 0 .. MaxCounter]
BY SMTT(60), ConstantsAssumption DEF NotOrderly

\* TPM2_ContextLoad keeps the invariant: at the maximum gap the last slot goes to
\* the oldest session, and loading that one closes the gap.
LEMMA LoadKeepsInv ==
    ASSUME SessionInv, NEW h \in Active, NEW s \in Nat, SessionContextLoad(h, s)
    PROVE  SessionInv'
<1> USE ConstantsAssumption
<1>0. /\ TypeOK /\ SlotsAccounted /\ OldestIsOldest
      /\ contextCounter % SLOT_MOD > MAX_LOADED_SESSIONS
  BY DEF SessionInv
<1> DEFINE slot == Min(Slots \ occupied)
<1>1. /\ contextArray[h] > MAX_LOADED_SESSIONS
      /\ freeSlots # 0
      /\ ~(freeSlots = 1 /\ GapAtMaximum /\ h # oldest)
      /\ contextArray' = [contextArray EXCEPT ![h] = slot + 1]
      /\ occupied' = occupied \cup {slot}
      /\ oldest' = IF h = oldest THEN ContextIdSetOldest(contextArray', contextCounter)
                                 ELSE oldest
      /\ freeSlots' = freeSlots - 1
      /\ orderlyGr' = NotOrderly
      /\ UNCHANGED <<contextCounter, lastSeq>>
  BY DEF SessionContextLoad, SequenceNumberForSavedContextIsValid
<1>2. slot \in Slots \ occupied
  BY <1>0, <1>1, FreeSlotExists
<1> HIDE DEF slot
<1>3. ~SessionIsLoaded(contextArray, h) /\ h \in Saved(contextArray)
  BY <1>0, <1>1 DEF SessionIsLoaded, Saved, SessionIsSaved, TypeOK
<1>4. /\ SlotsAccounted' /\ freeSlots' \in 0 .. MAX_LOADED_SESSIONS
      /\ contextArray' \in [Active -> 0 .. SLOT_MOD - 1] /\ occupied' \subseteq Slots
  BY ZenonT(40), <1>0, <1>1, <1>2, <1>3, TakeSlot
<1>5. oldest' \in Active \cup {NoOldest}
  <2>1. CASE h # oldest
    BY <2>1, <1>0, <1>1 DEF TypeOK
  <2>2. CASE h = oldest
    <3>1. TrackedBy(contextArray', contextCounter, lastSeq)
      <4>1. \A g \in Active : contextArray'[g] > MAX_LOADED_SESSIONS =>
               contextArray'[g] = contextArray[g]
        BY <1>0, <1>1, <1>2 DEF TypeOK, Slots
      <4> QED
        BY <4>1 DEF SessionInv, TrackedBy
    <3>2. contextArray' \in [Active -> Nat] /\ contextCounter \in Nat /\ lastSeq \in [Active -> Nat]
      BY <1>0, <1>4 DEF TypeOK
    <3>3. IsOldest(oldest', contextArray', lastSeq)
      BY ZenonT(40), <2>2, <3>1, <3>2, <1>1, SetOldestFindsOldest
    <3> QED
      BY SMTT(60), <3>3 DEF IsOldest, Saved
  <2> QED
    BY <2>1, <2>2
<1>6. TypeOK'
  BY <1>0, <1>1, <1>4, <1>5, NotOrderlyType DEF TypeOK
<1>7. slot + 1 \in 0 .. MAX_LOADED_SESSIONS
  BY <1>2 DEF Slots
<1>8. /\ TrackedBy(contextArray', contextCounter', lastSeq')
      /\ OldestIsOldest'
      /\ GapAtMaximum' => GapAtMaximum /\ h # oldest
  BY ZenonT(40), <1>1, <1>3, <1>6, <1>7, UnsaveKeepsTracking
<1>9. GapCanBeClosed'
  BY <1>0, <1>1, <1>8 DEF GapCanBeClosed, TypeOK
<1> QED
  BY SMTT(60), <1>0, <1>1, <1>4, <1>6, <1>8, <1>9 DEF SessionInv

\* TPM2_FlushContext keeps the invariant.
LEMMA FlushKeepsInv ==
    ASSUME SessionInv, NEW h \in Active, SessionFlush(h) PROVE SessionInv'
<1> USE ConstantsAssumption
<1>0. /\ TypeOK /\ SlotsAccounted /\ OldestIsOldest /\ GapCanBeClosed
      /\ contextCounter % SLOT_MOD > MAX_LOADED_SESSIONS
      /\ TrackedBy(contextArray, contextCounter, lastSeq)
  BY DEF SessionInv
<1>1. /\ contextArray[h] # 0
      /\ contextArray' = [contextArray EXCEPT ![h] = 0]
      /\ UNCHANGED <<contextCounter, orderlyGr, lastSeq>>
  BY DEF SessionFlush
<1>2. 0 \in 0 .. SLOT_MOD - 1 /\ 0 \in 0 .. MAX_LOADED_SESSIONS
  OBVIOUS
<1>3. contextArray' \in [Active -> 0 .. SLOT_MOD - 1]
  BY <1>0, <1>1, <1>2 DEF TypeOK
<1>4. /\ contextArray'[h] = 0
      /\ \A g \in Active \ {h} : contextArray'[g] = contextArray[g]
  BY SMTT(60), <1>0, <1>1 DEF TypeOK
<1>5. CASE SessionIsSaved(contextArray, h)
  <2>1. /\ oldest' = IF h = oldest
                     THEN ContextIdSetOldest(contextArray', contextCounter) ELSE oldest
        /\ UNCHANGED <<occupied, freeSlots>>
    BY <1>5 DEF SessionFlush
  <2>2. h \in Saved(contextArray)
    BY <1>5 DEF Saved
  <2>3. oldest' \in Active \cup {NoOldest}
    <3>1. CASE h # oldest
      BY <3>1, <2>1, <1>0 DEF TypeOK
    <3>2. CASE h = oldest
      <4>1. TrackedBy(contextArray', contextCounter, lastSeq)
        <5>1. \A g \in Active : contextArray'[g] > MAX_LOADED_SESSIONS =>
                 contextArray'[g] = contextArray[g]
          BY <1>4
        <5> QED
          BY <5>1, <1>0 DEF TrackedBy
      <4>2. contextArray' \in [Active -> Nat] /\ contextCounter \in Nat /\ lastSeq \in [Active -> Nat]
        BY <1>0, <1>3 DEF TypeOK
      <4>3. IsOldest(oldest', contextArray', lastSeq)
        BY <3>2, <4>1, <4>2, <2>1, SetOldestFindsOldest
      <4> QED
        BY <4>3 DEF IsOldest, Saved
    <3> QED
      BY <3>1, <3>2
  <2>4. TypeOK'
    BY <2>1, <2>3, <1>0, <1>1, <1>3 DEF TypeOK
  <2>5. /\ TrackedBy(contextArray', contextCounter', lastSeq')
        /\ OldestIsOldest'
        /\ GapAtMaximum' => GapAtMaximum /\ h # oldest
    BY ZenonT(40), <2>1, <2>2, <2>4, <1>1, <1>2, UnsaveKeepsTracking
  <2>6. SlotsAccounted'
    <3>1. \A i \in Slots : contextArray[h] # i + 1 /\ i + 1 # 0
      BY <1>0, <1>5 DEF SessionIsSaved, Slots, TypeOK
    <3>2. \A i \in Slots : i \in occupied' <=> \E g \in Active : contextArray'[g] = i + 1
      BY SMTT(60), <3>1, <2>1, <1>0, <1>4 DEF SlotsAccounted
    <3>3. \A f, g \in Active :
             SessionIsLoaded(contextArray', f) /\ contextArray'[f] = contextArray'[g] => f = g
      BY <1>0, <1>4 DEF SlotsAccounted, SessionIsLoaded
    <3> QED
      BY <3>2, <3>3, <2>1, <1>0 DEF SlotsAccounted
  <2>7. GapCanBeClosed'
    BY SMTT(60), <2>1, <2>5, <1>0 DEF GapCanBeClosed
  <2> QED
    BY <2>4, <2>5, <2>6, <2>7, <1>0, <1>1 DEF SessionInv
<1>6. CASE ~SessionIsSaved(contextArray, h)
  <2>1. /\ occupied' = occupied \ {contextArray[h] - 1}
        /\ freeSlots' = freeSlots + 1
        /\ oldest' = oldest
    BY <1>6 DEF SessionFlush
  <2>2. SessionIsLoaded(contextArray, h)
    BY <1>0, <1>1, <1>6 DEF SessionIsLoaded, SessionIsSaved, TypeOK
  <2>3. /\ SlotsAccounted' /\ freeSlots' \in 1 .. MAX_LOADED_SESSIONS
        /\ occupied' \subseteq Slots
    BY ZenonT(40), <2>1, <2>2, <1>0, <1>1, <1>2, GiveSlotBack
  <2>4. TypeOK'
    BY <2>1, <2>3, <1>0, <1>1, <1>3 DEF TypeOK
  <2>5. Saved(contextArray') = Saved(contextArray)
    BY <1>4, <1>6 DEF Saved, SessionIsSaved
  <2>6. TrackedBy(contextArray', contextCounter', lastSeq')
    <3>1. \A g \in Active : contextArray'[g] > MAX_LOADED_SESSIONS =>
             contextArray'[g] = contextArray[g]
      BY <1>4
    <3> QED
      BY <3>1, <1>0, <1>1 DEF TrackedBy
  <2>7. OldestIsOldest'
    BY <2>1, <2>5, <1>0, <1>1 DEF OldestIsOldest
  <2>8. GapCanBeClosed'
    BY <2>3 DEF GapCanBeClosed
  <2> QED
    BY SMTT(60), <2>3, <2>4, <2>6, <2>7, <2>8, <1>0, <1>1 DEF SessionInv
<1> QED
  BY <1>5, <1>6

\* TPM2_Shutdown keeps the invariant: the copy it writes is the current table.
LEMMA ShutdownKeepsInv ==
    ASSUME SessionInv, NEW type, Shutdown(type) PROVE SessionInv'
<1> USE ConstantsAssumption
<1> DEFINE copy == [contextArray |-> contextArray, contextCounter |-> contextCounter]
<1>1. /\ UNCHANGED <<contextArray, contextCounter, occupied, freeSlots, oldest, lastSeq>>
      /\ orderlyGr' = copy \/ orderlyGr' = NotOrderly
  BY DEF Shutdown
<1>2. copy \in [contextArray : [Active -> 0 .. SLOT_MOD - 1], contextCounter : 0 .. MaxCounter]
  BY DEF SessionInv, TypeOK
<1>3. copy.contextArray = contextArray /\ copy.contextCounter = contextCounter
  OBVIOUS
<1> HIDE DEF copy
<1>4. TypeOK'
  BY SMTT(60), <1>1, <1>2, NotOrderlyType DEF SessionInv, TypeOK
<1>5. SlotsAccounted' /\ OldestIsOldest' /\ GapCanBeClosed'
  BY <1>1 DEF SessionInv, SlotsAccounted, OldestIsOldest, GapCanBeClosed, GapAtMaximum
<1>6. orderlyGr' # NotOrderly =>
        /\ orderlyGr'.contextCounter = contextCounter'
        /\ TrackedBy(orderlyGr'.contextArray, contextCounter', lastSeq')
  BY <1>1, <1>3 DEF SessionInv
<1> QED
  BY <1>1, <1>4, <1>5, <1>6 DEF SessionInv

\* Power loss and TPM2_Startup keep the invariant, on the paths that read gr back
\* and on a Reset.
LEMMA StartupKeepsInv == ASSUME SessionInv, Startup PROVE SessionInv'
<1> USE ConstantsAssumption
<1>0. TypeOK
  BY DEF SessionInv
<1>1. occupied' = {} /\ freeSlots' = MAX_LOADED_SESSIONS /\ orderlyGr' = NotOrderly
  BY DEF Startup
<1>2. Cardinality(occupied') = 0
  BY <1>1, FS_EmptySet
<1>3. GapCanBeClosed'
  BY <1>1 DEF GapCanBeClosed
<1>4. CASE orderlyGr # NotOrderly
  <2> DEFINE saved == orderlyGr.contextArray
             kept == [h \in Active |-> IF saved[h] <= MAX_LOADED_SESSIONS THEN 0 ELSE saved[h]]
  <2>1. /\ contextArray' = kept /\ contextCounter' = orderlyGr.contextCounter
        /\ oldest' = ContextIdSetOldest(kept, orderlyGr.contextCounter)
        /\ lastSeq' = lastSeq
    BY SMTT(60), <1>4 DEF Startup, ResumeSessions
  <2>2. contextCounter' = contextCounter /\ TrackedBy(saved, contextCounter, lastSeq)
    BY <2>1, <1>4 DEF SessionInv
  <2>3. saved \in [Active -> 0 .. SLOT_MOD - 1]
    BY <1>0 DEF TypeOK
  <2>4. \A h \in Active : /\ kept[h] \in 0 .. SLOT_MOD - 1
                          /\ kept[h] = 0 \/ (kept[h] > MAX_LOADED_SESSIONS /\ kept[h] = saved[h])
    BY <2>3
  <2>5. kept \in [Active -> 0 .. SLOT_MOD - 1]
    BY <2>4
  <2> HIDE DEF saved, kept
  <2>6. TrackedBy(kept, contextCounter, lastSeq)
    <3>1. \A h \in Active : kept[h] > MAX_LOADED_SESSIONS => kept[h] = saved[h]
      BY <2>4
    <3> QED
      BY <3>1, <2>2 DEF TrackedBy
  <2>7. kept \in [Active -> Nat] /\ contextCounter \in Nat /\ lastSeq \in [Active -> Nat]
    BY <2>5, <1>0 DEF TypeOK
  <2>8. oldest' = ContextIdSetOldest(kept, contextCounter)
    BY <2>1, <2>2
  <2>9. IsOldest(oldest', kept, lastSeq)
    BY SMTT(60), <2>6, <2>7, <2>8, SetOldestFindsOldest
  <2>10. TypeOK'
    BY SMTT(60), <2>1, <2>2, <2>5, <2>9, <1>0, <1>1, NotOrderlyType DEF TypeOK, IsOldest, Saved
  <2>11. OldestIsOldest'
    BY <2>1, <2>9, <2>10 DEF OldestIsOldest, IsOldest, TypeOK
  <2>12. SlotsAccounted'
    <3>1. \A h \in Active, i \in Slots : kept[h] # i + 1
      BY <2>4 DEF Slots
    <3>2. \A h \in Active : ~SessionIsLoaded(kept, h)
      BY <2>4, <2>5 DEF SessionIsLoaded
    <3> QED
      BY <3>1, <3>2, <2>1, <1>1, <1>2 DEF SlotsAccounted
  <2> QED
    BY SMTT(60), <2>1, <2>2, <2>6, <2>10, <2>11, <2>12, <1>1, <1>3 DEF SessionInv
<1>5. CASE orderlyGr = NotOrderly
  <2>1. /\ contextArray' = [h \in Active |-> 0] /\ contextCounter' = MAX_LOADED_SESSIONS + 1
        /\ oldest' = NoOldest /\ lastSeq' = [h \in Active |-> 0]
    BY <1>5 DEF Startup, ResetSessions
  <2>2. TypeOK'
    BY <2>1, <1>1, NotOrderlyType DEF TypeOK
  <2>3. SlotsAccounted'
    BY <2>1, <1>1, <1>2 DEF SlotsAccounted, Slots, SessionIsLoaded
  <2>4. TrackedBy(contextArray', contextCounter', lastSeq')
    BY <2>1 DEF TrackedBy
  <2>5. Saved(contextArray') = {}
    BY <2>1 DEF Saved, SessionIsSaved
  <2>6. OldestIsOldest'
    BY <2>1, <2>5 DEF OldestIsOldest, NoOldest, Active
  <2>7. contextCounter' % SLOT_MOD > MAX_LOADED_SESSIONS
    BY <2>1
  <2> QED
    BY SMTT(60), <2>2, <2>3, <2>4, <2>6, <2>7, <1>1, <1>3 DEF SessionInv
<1> QED
  BY <1>4, <1>5

-----------------------------------------------------------------------------
\* The session table of Session.c stays consistent through every sequence of
\* commands, power losses and startups, for every number of sessions, slots and
\* width of CONTEXT_SLOT.
THEOREM SessionInvariant == Spec => []SessionInv
<1>1. Init => SessionInv
  BY InitSessionInv
<1>2. SessionInv /\ [Next]_vars => SessionInv'
  <2> SUFFICES ASSUME SessionInv, [Next]_vars PROVE SessionInv'
    OBVIOUS
  <2>1. CASE SessionCreate
    BY <2>1, CreateKeepsInv
  <2>2. CASE \E h \in Active : SessionContextSave(h)
    BY <2>2, SaveKeepsInv
  <2>3. CASE \E h \in Active, s \in 1 .. contextCounter - 1 : SessionContextLoad(h, s)
    <3>1. PICK h \in Active, s \in 1 .. contextCounter - 1 : SessionContextLoad(h, s)
      BY <2>3
    <3>2. s \in Nat
      BY <3>1 DEF SessionInv, TypeOK
    <3> QED
      BY <3>1, <3>2, LoadKeepsInv
  <2>4. CASE \E h \in Active : SessionFlush(h)
    BY <2>4, FlushKeepsInv
  <2>5. CASE \E type \in {"STATE", "CLEAR"} : Shutdown(type)
    BY SMTT(60), <2>5, ShutdownKeepsInv
  <2>6. CASE Startup
    BY <2>6, StartupKeepsInv
  <2>7. CASE UNCHANGED vars
    BY <2>7 DEF vars, SessionInv, TypeOK, SlotsAccounted, OldestIsOldest, GapCanBeClosed,
                GapAtMaximum
  <2> QED
    BY <2>1, <2>2, <2>3, <2>4, <2>5, <2>6, <2>7 DEF Next
<1> QED
  BY <1>1, <1>2, PTL DEF Spec

\* SequenceNumberForSavedContextIsValid never accepts a context of a session that
\* a later TPM2_ContextSave has superseded.
THEOREM StaleContextsRejected == Spec => []NoStaleContext
<1>1. SessionInv => NoStaleContext
  <2> USE ConstantsAssumption
  <2> SUFFICES ASSUME SessionInv, NEW h \in Active, NEW s \in 1 .. contextCounter - 1,
                      SequenceNumberForSavedContextIsValid(h, s)
               PROVE  s = lastSeq[h]
    BY DEF NoStaleContext
  <2> DEFINE c == contextCounter
             t == lastSeq[h]
             M == SLOT_MOD
  <2>1. c \in Nat /\ t \in Nat /\ s \in Nat /\ M \in Nat /\ M > 0
    BY SMTT(60) DEF SessionInv, TypeOK
  <2>2. s % M = t % M /\ s < c /\ c - s <= M /\ t < c /\ c - t <= M
    BY DEF SessionInv, TypeOK, TrackedBy, SequenceNumberForSavedContextIsValid
  <2> HIDE DEF c, t, M
  <2>3. ASSUME s < t PROVE FALSE
    <3>1. t - s >= M
      BY ZenonT(40), <2>1, <2>2, <2>3, SameLowBits
    <3> QED BY <3>1, <2>1, <2>2
  <2>4. ASSUME t < s PROVE FALSE
    <3>1. s - t >= M
      BY ZenonT(40), <2>1, <2>2, <2>4, SameLowBits
    <3> QED BY <3>1, <2>1, <2>2
  <2>5. s = t
    BY SMTT(60), <2>1, <2>3, <2>4
  <2> QED
    BY <2>5 DEF t
<1> QED
  BY <1>1, SessionInvariant, PTL

\* The most recent context of every session the TPM still tracks as saved passes
\* the check of TPM2_ContextLoad.
THEOREM SavedSessionsLoadable == Spec => []NeverStranded
<1>1. SessionInv => NeverStranded
  <2> USE ConstantsAssumption
  <2> SUFFICES ASSUME SessionInv, NEW h \in Saved(contextArray)
               PROVE  SequenceNumberForSavedContextIsValid(h, lastSeq[h])
    BY DEF NeverStranded
  <2>1. h \in Active /\ contextArray[h] > MAX_LOADED_SESSIONS
    BY DEF Saved, SessionIsSaved
  <2>2. /\ contextArray[h] = lastSeq[h] % SLOT_MOD
        /\ lastSeq[h] < contextCounter /\ contextCounter - lastSeq[h] <= SLOT_MOD
    BY <2>1 DEF SessionInv, TrackedBy
  <2>3. lastSeq[h] \in Nat /\ contextCounter \in Nat /\ h < MAX_ACTIVE_SESSIONS
    BY <2>1 DEF SessionInv, TypeOK, Active
  <2> QED
    BY <2>1, <2>2, <2>3 DEF SequenceNumberForSavedContextIsValid
<1> QED
  BY <1>1, SessionInvariant, PTL

\* Whenever the sequence numbers have run out, a slot is left to load the oldest
\* saved session into.
THEOREM GapAlwaysClosable == Spec => []GapCanBeClosed
<1>1. SessionInv => GapCanBeClosed
  BY DEF SessionInv
<1> QED
  BY <1>1, SessionInvariant, PTL

\* The free-slot counter, the slots and the entries of loaded sessions agree.
THEOREM SlotAccounting == Spec => []SlotsAccounted
<1>1. SessionInv => SlotsAccounted
  BY DEF SessionInv
<1> QED
  BY <1>1, SessionInvariant, PTL
=============================================================================
