-------------------------- MODULE NvStorageProofs --------------------------
(***************************************************************************)
(* What an NV index holds survives every command, lost power and every     *)
(* kind of startup, for every set of handles and templates and every       *)
(* number of orderly bits: its locks, its contents and the uses left to    *)
(* its PIN; and no counter is ever rolled back, provided that the orderly  *)
(* counters are the platform's (TPM2_Clear forgets the owner's).           *)
(*                                                                         *)
(* There are three places an index may be read from: its list entry, the   *)
(* orderly RAM, and the copy of that RAM that the next startup may bring   *)
(* back.  The invariants say which of them is up to date, and when, and    *)
(* how far a counter may have moved since the copy was made.               *)
(*                                                                         *)
(* In turn: one entry and what keeps it; the counters, from the block of   *)
(* values an orderly counter moves in to the steps that leave the counters *)
(* alone; the contents, command by command; the theorems.                  *)
(***************************************************************************)
EXTENDS NvStorage, TLAPS

\* A write to a PIN index replaces both its count and its limit.
PinsWrittenWhole == \A t \in Templates : t.type \in Pins => "WRITEALL" \in t.attrs

\* What a copy e of index h keeps of the template of h.
Fits(h, e) ==
    /\ IsOrderly(h) => "ORDERLY" \in e.attrs
    /\ "GLOBALLOCK" \in index[h].attrs => "GLOBALLOCK" \in e.attrs
    /\ index[h].type \in Pins => /\ e.data \in [1..2 -> Nat]
                                 /\ PinsWrittenWhole => "WRITEALL" \in e.attrs

\* The copy e of index h is up to date, if it counts as written.
Current(h, e) ==
    "WRITTEN" \in e.attrs =>
       /\ PinsWrittenWhole /\ ~IsCounter(h) => e.data = latest[h]
       /\ index[h].type \in Pins => Left(e.data) <= budget[h]

EntryInv(h) ==
    IF IsOrderly(h)
    THEN /\ Fits(h, image[h])
         /\ orderlyState = "STATE" => Current(h, image[h])
         /\ running => Fits(h, ram[h]) /\ Current(h, ram[h]) /\ locked[h] \subseteq ram[h].attrs
    ELSE Fits(h, index[h]) /\ Current(h, index[h]) /\ locked[h] \subseteq index[h].attrs

\* The list, the RAM and its copy describe the same indexes.
Shape ==
    /\ DOMAIN index \subseteq Indexes /\ DOMAIN latest = DOMAIN index
    /\ DOMAIN image = {h \in DOMAIN index : IsOrderly(h)}
    /\ running => DOMAIN ram = DOMAIN image
    /\ locked \in [Indexes -> SUBSET {"WRITELOCKED", "READLOCKED"}]
    /\ budget \in [Indexes -> Int]
    /\ \A h \in Indexes \ DOMAIN index : locked[h] = {}
    /\ \A h \in DOMAIN index : /\ DOMAIN index[h] = {"type", "attrs", "size", "data"}
                               /\ index[h].type \in {"ordinary", "counter", "bits", "extend"} \cup Pins
                               /\ index[h].type \in Pins => index[h].size = 2
    /\ \A h \in DOMAIN image : DOMAIN image[h] = {"attrs", "data"}
    /\ running => \A h \in DOMAIN ram : DOMAIN ram[h] = {"attrs", "data"}

IndexInv == Shape /\ \A h \in DOMAIN index : EntryInv(h)

-----------------------------------------------------------------------------
\* A step that leaves index h alone, but for a copy of the RAM or lost power.
SameEntry(h) ==
    /\ index'[h] = index[h] /\ (PinsWrittenWhole => latest'[h] = latest[h])
    /\ locked'[h] = locked[h] /\ budget'[h] = budget[h]
    /\ running' => running
    /\ IsOrderly(h) =>
          /\ running' => ram'[h] = ram[h]
          /\ \/ image'[h] = image[h] /\ (orderlyState' = "STATE" => orderlyState = "STATE")
             \/ image'[h] = ram[h] /\ running

LEMMA SameEntryKeeps ==
    ASSUME NEW h, EntryInv(h), SameEntry(h)
    PROVE  EntryInv(h)'
<1> USE DEF IsOrderly, IsCounter
<1>1. ASSUME NEW e PROVE (Fits(h, e) => Fits(h, e)') /\ (Current(h, e) => Current(h, e)')
  BY DEF SameEntry, Fits, Current
<1>2. index'[h] = index[h] /\ locked'[h] = locked[h]
  BY DEF SameEntry
<1>3. CASE ~IsOrderly(h)
  <2>1. Fits(h, index[h])' /\ Current(h, index[h])'
    BY <1>2, <1>3 DEF EntryInv, SameEntry, Fits, Current
  <2> QED  BY <1>2, <1>3, <2>1 DEF EntryInv
<1>4. CASE IsOrderly(h)
  <2>1. Fits(h, image[h])' /\ (orderlyState' = "STATE" => Current(h, image[h])')
    BY SMTT(60), <1>4 DEF EntryInv, SameEntry, Fits, Current
  <2>2. running' => Fits(h, ram[h])' /\ Current(h, ram[h])' /\ locked'[h] \subseteq ram'[h].attrs
    BY SMTT(60), <1>4 DEF EntryInv, SameEntry, Fits, Current
  <2> QED  BY <1>2, <1>4, <2>1, <2>2 DEF EntryInv
<1> QED  BY <1>3, <1>4

\* What the invariant says of an index that a command looks at.
LEMMA ReadFacts ==
    ASSUME IndexInv, running, NEW g \in DOMAIN index
    PROVE  /\ g \in Indexes /\ locked[g] \subseteq Attrs(g)
           /\ Written(g) /\ PinsWrittenWhole /\ ~IsCounter(g) => Data(g) = latest[g]
           /\ index[g].type \in Pins =>
                 /\ index[g].size = 2 /\ Data(g) \in [1..2 -> Nat]
                 /\ PinsWrittenWhole => "WRITEALL" \in Attrs(g)
                 /\ Written(g) => Left(Data(g)) <= budget[g]
<1>1. EntryInv(g) /\ g \in Indexes /\ (index[g].type \in Pins => index[g].size = 2)
  BY DEF IndexInv, Shape
<1>2. CASE IsOrderly(g)
  BY <1>1, <1>2 DEF EntryInv, Fits, Current, Attrs, Data, Written
<1>3. CASE ~IsOrderly(g)
  BY <1>1, <1>3 DEF EntryInv, Fits, Current, Attrs, Data, Written
<1> QED  BY <1>2, <1>3

\* An index whose attributes gain the locks X.
LEMMA LockedEntryKeeps ==
    ASSUME NEW h, EntryInv(h), running, NEW X \in SUBSET {"WRITELOCKED", "READLOCKED"},
           UNCHANGED <<image, orderlyState, latest, budget, running>>,
           locked'[h] \subseteq locked[h] \cup X,
           IsOrderly(h) => /\ index'[h] = index[h]
                           /\ ram'[h].attrs = ram[h].attrs \cup X /\ ram'[h].data = ram[h].data,
           ~IsOrderly(h) => /\ index'[h].type = index[h].type /\ index'[h].data = index[h].data
                            /\ index'[h].attrs = index[h].attrs \cup X
    PROVE  EntryInv(h)'
<1> USE DEF IsOrderly, IsCounter
<1>1. CASE IsOrderly(h)
  <2>1. Fits(h, image[h])' /\ (orderlyState' = "STATE" => Current(h, image[h])')
    BY Zenon, <1>1 DEF EntryInv, Fits, Current
  <2>2. Fits(h, ram[h])' /\ Current(h, ram[h])' /\ locked'[h] \subseteq ram'[h].attrs
    BY SMTT(60), <1>1 DEF EntryInv, Fits, Current
  <2> QED  BY Zenon, <1>1, <2>1, <2>2 DEF EntryInv
<1>2. CASE ~IsOrderly(h)
  <2>1. Fits(h, index[h])' /\ Current(h, index[h])' /\ locked'[h] \subseteq index'[h].attrs /\ ~IsOrderly(h)'
    BY SMTT(60), <1>2 DEF EntryInv, Fits, Current
  <2> QED  BY ZenonT(40), <2>1 DEF EntryInv
<1> QED  BY Zenon, <1>1, <1>2

\* No index comes or goes.
LEMMA ShapeKeeps ==
    ASSUME Shape, UNCHANGED <<image, latest, budget>>, running,
           DOMAIN index' = DOMAIN index, DOMAIN ram' = DOMAIN ram,
           locked' \in [Indexes -> SUBSET {"WRITELOCKED", "READLOCKED"}],
           \A h \in Indexes \ DOMAIN index : locked'[h] = {},
           \A h \in DOMAIN index :
              /\ DOMAIN index'[h] = DOMAIN index[h]
              /\ index'[h].type = index[h].type /\ index'[h].size = index[h].size
              /\ ("ORDERLY" \in index'[h].attrs) <=> ("ORDERLY" \in index[h].attrs),
           \A h \in DOMAIN ram : DOMAIN ram'[h] = DOMAIN ram[h]
    PROVE  Shape'
<1> USE DEF IsOrderly
<1>1. /\ DOMAIN image = {h \in DOMAIN index : "ORDERLY" \in index[h].attrs} /\ DOMAIN ram = DOMAIN image
      /\ \A h \in DOMAIN ram : DOMAIN ram[h] = {"attrs", "data"}
  BY Zenon DEF Shape
<1>2. DOMAIN image' = {h \in DOMAIN index' : "ORDERLY" \in index'[h].attrs}
  BY Zenon, <1>1
<1>3. \A h \in DOMAIN index' : /\ DOMAIN index'[h] = {"type", "attrs", "size", "data"}
                               /\ index'[h].type \in {"ordinary", "counter", "bits", "extend"} \cup Pins
                               /\ index'[h].type \in Pins => index'[h].size = 2
  BY DEF Shape
<1>4. \A h \in DOMAIN ram' : DOMAIN ram'[h] = {"attrs", "data"}
  BY <1>1
<1>5. /\ DOMAIN index' \subseteq Indexes /\ DOMAIN latest' = DOMAIN index' /\ DOMAIN ram' = DOMAIN image'
      /\ budget' \in [Indexes -> Int]
      /\ \A h \in DOMAIN image' : DOMAIN image'[h] = {"attrs", "data"}
  BY ZenonT(40), <1>1 DEF Shape
<1> QED  BY ZenonT(40), <1>2, <1>3, <1>4, <1>5 DEF Shape

\* NvSetStartupAttributes lifts locks and unwrites; it grants nothing.
LEMMA StartupAttrs ==
    ASSUME NEW type, NEW attrs, NEW kind
    PROVE  LET new == NvSetStartupAttributes(type, attrs, kind)
           IN  /\ new \subseteq attrs
               /\ attrs \ {"WRITTEN", "WRITELOCKED", "READLOCKED"} \subseteq new
               /\ type # "counter" /\ "ORDERLY" \in attrs /\ kind = "RESET" => "WRITTEN" \notin new
               /\ {"WRITTEN", "WRITEDEFINE"} \subseteq new /\ "WRITELOCKED" \in attrs => "WRITELOCKED" \in new
  BY Zenon DEF NvSetStartupAttributes

-----------------------------------------------------------------------------
\* The block of values that an orderly counter moves in: where it ends, and
\* that a counter leaves it only by a value that is saved.
LEMMA OrMaskFacts ==
    ASSUME NEW c \in Nat
    PROVE  /\ OrMask(c) \in Nat /\ c <= OrMask(c) /\ OrMask(OrMask(c)) = OrMask(c)
           /\ \A d \in Nat : d <= OrMask(c) /\ ~RolledOver(d + 1) => d + 1 <= OrMask(c)
<1> DEFINE R == MAX_ORDERLY
           q == c \div R
<1>1. R \in Nat /\ R > 0
  BY NvAssumption
<1>2. q \in Nat /\ c = (R * q) + (c % R) /\ (c % R) \in 0..(R - 1)
  BY <1>1
<1>3. R * q \in Nat /\ q * R = R * q
  BY <1>1, <1>2
<1>4. OrMask(c) = R * q + (R - 1)
  BY <1>3 DEF OrMask
<1>5. OrMask(c) \in Nat /\ c <= OrMask(c)
  <2> HIDE DEF R, q
  <2> QED  BY <1>1, <1>2, <1>3, <1>4
<1>6. (R * q + (R - 1)) \div R = q
  <2> HIDE DEF R, q
  <2> QED  BY <1>1, <1>2, <1>3, Z3
<1>7. OrMask(OrMask(c)) = OrMask(c)
  BY <1>6, <1>4, <1>3 DEF OrMask
<1>8. ASSUME NEW d \in Nat, d <= OrMask(c), ~RolledOver(d + 1)
      PROVE  d + 1 <= OrMask(c)
  <2>1. (R * (q + 1)) % R = 0
    <3> HIDE DEF R, q
    <3> QED  BY <1>1, <1>2, Z3
  <2>2. R * (q + 1) = R * q + R
    <3> HIDE DEF R, q
    <3> QED  BY <1>1, <1>2
  <2>3. d # OrMask(c)
    <3>1. SUFFICES ASSUME d = OrMask(c) PROVE FALSE
      OBVIOUS
    <3>2. d + 1 = R * (q + 1)
      <4> HIDE DEF R, q
      <4> QED  BY <3>1, <1>1, <1>2, <1>3, <1>4, <2>2
    <3> QED  BY <3>2, <2>1, <1>8 DEF RolledOver
  <2> QED  BY <2>3, <1>8, <1>5
<1> QED  BY <1>5, <1>7, <1>8

-----------------------------------------------------------------------------
\* What the theorem assumes of the templates.
OrderlyIsPlatform ==
    \A t \in Templates :
       t.type = "counter" /\ "ORDERLY" \in t.attrs => "PLATFORMCREATE" \in t.attrs

\* A value whose block ends within the bound on counters.
CountValue(c) == c \in Nat /\ OrMask(c) <= MaxCount

\* What startup makes of a saved count.
Recovered(c) == IF orderlyState = "NONE" THEN OrMask(c) ELSE c

IsCount(h) == h \in DOMAIN index /\ IsCounter(h)

\* No value that the counter of h showed is lost: with a counter in NV, with the
\* copy that startup will find, with the RAM in use, and when h has no counter.
NvOK(h) ==
    /\ CountValue(index[h].data)
    /\ peak[h] <= IF "WRITTEN" \in index[h].attrs THEN index[h].data ELSE endMark

ImageOK(h) ==
    /\ CountValue(image[h].data)
    /\ peak[h] <= IF "WRITTEN" \in image[h].attrs THEN Recovered(image[h].data) ELSE endMark

RamOK(h) ==
    /\ CountValue(ram[h].data)
    /\ ("WRITTEN" \in ram[h].attrs) <=> ("WRITTEN" \in image[h].attrs)
    /\ "WRITTEN" \in ram[h].attrs => /\ peak[h] <= ram[h].data
                                     /\ ram[h].data <= OrMask(image[h].data)

CounterOK(h) ==
    IF IsCount(h)
    THEN IF IsOrderly(h)
         THEN "PLATFORMCREATE" \in index[h].attrs /\ ImageOK(h) /\ (running => RamOK(h))
         ELSE NvOK(h)
    ELSE peak[h] <= endMark

\* The count in the end marker and s_maxCounter.
MarksOK == CountValue(endMark) /\ maxCounter \in Nat /\ (running => maxCounter = endMark)

CounterInv == MarksOK /\ peak \in [Indexes -> Nat] /\ \A h \in Indexes : CounterOK(h)

LEMMA CountFacts ==
    ASSUME NEW c, CountValue(c)
    PROVE  c \in Nat /\ OrMask(c) \in Nat /\ c <= OrMask(c) /\ c <= MaxCount
<1>1. c \in Nat /\ OrMask(c) <= MaxCount
  BY DEF CountValue
<1>2. OrMask(c) \in Nat /\ c <= OrMask(c)
  BY <1>1, OrMaskFacts
<1> QED  BY <1>1, <1>2, NvAssumption

\* A counter that does not leave its block stays below the end of it.
LEMMA NextCount ==
    ASSUME NEW saved, CountValue(saved), NEW old \in Nat, old <= OrMask(saved), ~RolledOver(old + 1)
    PROVE  old + 1 <= OrMask(saved)
  BY OrMaskFacts DEF CountValue

LEMMA ZeroCount == CountValue(0)
<1>1. MAX_ORDERLY \in Nat /\ MAX_ORDERLY > 0 /\ MAX_ORDERLY <= MaxCount + 1 /\ MaxCount \in Nat
  BY NvAssumption
<1>2. 0 \div MAX_ORDERLY = 0
  BY <1>1
<1> QED  BY <1>1, <1>2 DEF CountValue, OrMask

LEMMA CounterInit == Init => CounterInv
<1> SUFFICES ASSUME Init PROVE CounterInv
  OBVIOUS
<1>1. DOMAIN index = {} /\ endMark = 0 /\ maxCounter = 0 /\ peak = [h \in Indexes |-> 0]
  BY DEF Init
<1> QED  BY <1>1, ZeroCount DEF CounterInv, MarksOK, CounterOK, IsCount

-----------------------------------------------------------------------------
\* The part of TypeOK that counters do not depend on.
RestOK ==
    /\ DOMAIN objects \subseteq Objects
    /\ orderlyState \in {"NONE", "CLEAR", "STATE"}
    /\ savedGc \subseteq Gc /\ enabled \subseteq Gc \cup {"ph"}
    /\ \A o \in DOMAIN objects : (o \in PlatformObjects) <=> (objects[o] = "platform")

LEMMA RestStep ==
    ASSUME RestOK, [Next]_vars
    PROVE  RestOK'
<1> USE DEF Gc
<1>1. CASE UNCHANGED vars
  BY SMTT(60), <1>1 DEF vars, nvState, ramState, RestOK
<1>2. CASE Define
  BY ZenonT(40), <1>2 DEF Define, NV_DefineSpace, RestOK
<1>3. CASE Undefine
  BY ZenonT(40), <1>3 DEF Undefine, NV_UndefineSpace, NV_UndefineSpaceSpecial, RestOK
<1>4. CASE Persist
  <2>1. ASSUME NEW o \in Objects, NEW auth \in Auths, NEW hier \in {"owner", "endorsement", "platform"},
               MakePersistent(o, hier, auth)
        PROVE  RestOK'
    <3>1. (o \in PlatformObjects) <=> (hier = "platform")
      BY SMTT(60), <2>1 DEF MakePersistent, Auths
    <3>2. /\ objects' = [x \in DOMAIN objects \cup {o} |-> IF x = o THEN hier ELSE objects[x]]
          /\ UNCHANGED <<orderlyState, savedGc, enabled>>
      BY SMTT(60), <2>1 DEF MakePersistent, ramState
    <3> QED  BY SMTT(60), <3>1, <3>2 DEF RestOK
  <2>2. ASSUME NEW o \in Objects, NEW auth \in Auths, EvictPersistent(o, auth)
        PROVE  RestOK'
    BY SMTT(60), <2>2 DEF EvictPersistent, RestOK, ramState, Restrict
  <2> QED  BY SMTT(60), <1>4, <2>1, <2>2 DEF Persist
<1>5. CASE Flush
  BY ZenonT(40), <1>5 DEF Flush, Clear, ChangePPS, ChangeEPS, NvFlushHierarchy, RestOK, Restrict
<1>6. CASE Update
  <2> DEFINE Kept == orderlyState' \in {orderlyState, "NONE"} /\ UNCHANGED unchangedByWrite
  <2>1. ASSUME NEW h, NEW d, NEW save, NvWriteIndexData(h, d, save)
        PROVE  orderlyState' \in {orderlyState, "NONE"}
    BY SMTT(60), <2>1 DEF NvWriteIndexData
  <2>2. ASSUME NEW h, NEW first, NEW last, NEW v, NV_Write(h, first, last, v) PROVE Kept
    BY ZenonT(40), <2>1, <2>2 DEF NV_Write
  <2>3. ASSUME NEW h, NEW v, NV_Increment(h) \/ NV_Extend(h, v) \/ NV_SetBits(h, v) PROVE Kept
    BY ZenonT(40), <2>1, <2>3 DEF NV_Increment, NV_Extend, NV_SetBits
  <2>4. ASSUME NEW h, NEW success, UsePin(h, success) PROVE Kept
    BY ZenonT(40), <2>1, <2>4 DEF UsePin
  <2> HIDE DEF Kept
  <2>5. Kept
    BY ZenonT(40), <1>6, <2>2, <2>3, <2>4 DEF Update
  <2> QED  BY SMTT(60), <2>5 DEF Kept, RestOK, unchangedByWrite
<1>7. CASE Lock
  BY ZenonT(40), <1>7 DEF Lock, NV_WriteLock, NV_ReadLock, NV_GlobalWriteLock, RestOK, unchangedByLock
<1>8. CASE Control
  BY SMTT(60), <1>8, NvAssumption DEF Control, HierarchyControl, RestOK
<1>9. CASE Power
  BY ZenonT(40), <1>9 DEF Power, PowerLoss, Shutdown, Startup, nvState, ramState, RestOK
<1> QED  BY ZenonT(40), <1>1, <1>2, <1>3, <1>4, <1>5, <1>6, <1>7, <1>8, <1>9 DEF Next

-----------------------------------------------------------------------------
\* Two entries with the same count.
Alike(e, f) == e.data = f.data /\ (("WRITTEN" \in e.attrs) <=> ("WRITTEN" \in f.attrs))

\* A step that leaves the counter of h alone, but for a copy of the RAM or lost power.
SameCounter(h) ==
    /\ IsCount(h)' <=> IsCount(h)
    /\ peak'[h] = peak[h]
    /\ IsCount(h) =>
          /\ IsOrderly(h)' <=> IsOrderly(h)
          /\ ~IsOrderly(h) => Alike(index'[h], index[h])
          /\ IsOrderly(h) =>
                /\ index'[h] = index[h]
                /\ running' => running /\ Alike(ram'[h], ram[h])
                /\ \/ Alike(image'[h], image[h]) /\ orderlyState' \in {orderlyState, "NONE"}
                   \/ Alike(image'[h], ram[h]) /\ running

LEMMA SameCounterKeeps ==
    ASSUME NEW h \in Indexes, CounterInv, SameCounter(h), endMark' \in Nat, endMark <= endMark'
    PROVE  CounterOK(h)'
<1>0. CounterOK(h) /\ peak[h] \in Nat /\ endMark \in Nat /\ peak'[h] = peak[h]
  BY DEF CounterInv, MarksOK, CountValue, SameCounter
<1>1. CASE ~IsCount(h)
  BY <1>0, <1>1 DEF CounterOK, SameCounter
<1>2. CASE IsCount(h) /\ ~IsOrderly(h)
  <2>1. NvOK(h) /\ Alike(index'[h], index[h]) /\ IsCount(h)' /\ ~IsOrderly(h)'
    BY <1>0, <1>2 DEF CounterOK, SameCounter
  <2>2. NvOK(h)'
    BY <1>0, <2>1 DEF NvOK, Alike, CountValue
  <2> QED  BY <2>1, <2>2 DEF CounterOK
<1>3. CASE IsCount(h) /\ IsOrderly(h)
  <2>1. /\ "PLATFORMCREATE" \in index'[h].attrs /\ IsCount(h)' /\ IsOrderly(h)'
        /\ ImageOK(h) /\ (running => RamOK(h))
        /\ running' => running /\ Alike(ram'[h], ram[h])
    BY <1>0, <1>3 DEF CounterOK, SameCounter
  <2>2. CountValue(image[h].data) /\ image[h].data \in Nat /\ OrMask(image[h].data) \in Nat
        /\ image[h].data <= OrMask(image[h].data)
    BY <2>1, CountFacts DEF ImageOK
  <2>3. CASE Alike(image'[h], image[h]) /\ orderlyState' \in {orderlyState, "NONE"}
    <3>1. ImageOK(h)'
      BY <1>0, <2>1, <2>2, <2>3 DEF ImageOK, Alike, CountValue, Recovered
    <3>2. running' => RamOK(h)'
      BY <1>0, <2>1, <2>2, <2>3 DEF RamOK, Alike, CountValue
    <3> QED  BY Zenon, <2>1, <3>1, <3>2 DEF CounterOK
  <2>4. CASE Alike(image'[h], ram[h]) /\ running
    <3>1. RamOK(h) /\ CountValue(ram[h].data)
      BY <2>1, <2>4 DEF RamOK
    <3>2. ram[h].data \in Nat /\ OrMask(ram[h].data) \in Nat /\ ram[h].data <= OrMask(ram[h].data)
      BY <3>1, CountFacts
    <3>3. "WRITTEN" \in ram[h].attrs => peak[h] <= ram[h].data
      BY <3>1 DEF RamOK
    <3>4. "WRITTEN" \notin ram[h].attrs => peak[h] <= endMark
      BY <3>1, <2>1 DEF RamOK, ImageOK
    <3>5. ImageOK(h)'
      BY <1>0, <2>4, <3>1, <3>2, <3>3, <3>4 DEF ImageOK, Alike, CountValue, Recovered
    <3>6. running' => RamOK(h)'
      BY <1>0, <2>1, <2>4, <3>1, <3>2, <3>3 DEF RamOK, Alike, CountValue
    <3> QED  BY <2>1, <3>5, <3>6 DEF CounterOK
  <2> QED  BY <1>3, <2>3, <2>4 DEF SameCounter
<1> QED  BY <1>1, <1>2, <1>3

\* What startup does to the counter of h: an orderly one starts from what the
\* copy says.
Restarted(h) ==
    /\ image' = image /\ endMark' = endMark /\ orderlyState' = "NONE"
    /\ IsCount(h)' <=> IsCount(h)
    /\ ~IsCount(h) => peak'[h] = peak[h]
    /\ IsCount(h) => (IsOrderly(h)' <=> IsOrderly(h))
    /\ IsCount(h) /\ ~IsOrderly(h) => peak'[h] = peak[h] /\ Alike(index'[h], index[h])
    /\ IsCount(h) /\ IsOrderly(h) =>
          /\ index'[h] = index[h]
          /\ ram'[h].data = Recovered(image[h].data)
          /\ ("WRITTEN" \in ram'[h].attrs) <=> ("WRITTEN" \in image[h].attrs)
          /\ peak'[h] = IF "WRITTEN" \in image[h].attrs
                        THEN Larger(peak[h], Recovered(image[h].data)) ELSE peak[h]

LEMMA RestartedKeeps ==
    ASSUME NEW h \in Indexes, CounterInv, Restarted(h)
    PROVE  peak'[h] \in Nat /\ CounterOK(h)'
<1>0. CounterOK(h) /\ peak[h] \in Nat /\ endMark \in Nat
      /\ image' = image /\ endMark' = endMark /\ orderlyState' = "NONE"
  BY Zenon DEF CounterInv, MarksOK, CountValue, Restarted
<1>1. CASE ~IsCount(h)
  BY <1>0, <1>1 DEF CounterOK, Restarted
<1>2. CASE IsCount(h) /\ ~IsOrderly(h)
  <2>1. NvOK(h) /\ peak'[h] = peak[h] /\ Alike(index'[h], index[h]) /\ IsCount(h)' /\ ~IsOrderly(h)'
    BY <1>0, <1>2 DEF CounterOK, Restarted
  <2>2. NvOK(h)'
    BY <1>0, <2>1 DEF NvOK, Alike, CountValue
  <2> QED  BY Zenon, <1>0, <2>1, <2>2 DEF CounterOK
<1>3. CASE IsCount(h) /\ IsOrderly(h)
  <2> DEFINE c == image[h].data
             written == "WRITTEN" \in image[h].attrs
  <2>1. /\ "PLATFORMCREATE" \in index'[h].attrs /\ IsCount(h)' /\ IsOrderly(h)' /\ CountValue(c)
        /\ peak[h] <= IF written THEN Recovered(c) ELSE endMark
        /\ ram'[h].data = Recovered(c) /\ (("WRITTEN" \in ram'[h].attrs) <=> written)
        /\ peak'[h] = IF written THEN Larger(peak[h], Recovered(c)) ELSE peak[h]
    BY Zenon, <1>0, <1>3 DEF CounterOK, ImageOK, Restarted
  <2> HIDE DEF c
  <2>2. c \in Nat /\ OrMask(c) \in Nat /\ c <= OrMask(c) /\ OrMask(OrMask(c)) = OrMask(c)
    BY <2>1, CountFacts, OrMaskFacts
  <2>3. CountValue(Recovered(c)) /\ Recovered(c) \in Nat /\ Recovered(c) <= OrMask(c)
    BY <2>1, <2>2 DEF Recovered, CountValue
  <2>4. peak'[h] = IF written THEN Recovered(c) ELSE peak[h]
    BY <1>0, <2>1, <2>3 DEF Larger
  <2>5. ImageOK(h)'
    BY <1>0, <2>1, <2>2, <2>3, <2>4 DEF ImageOK, CountValue, Recovered, c
  <2>6. RamOK(h)'
    BY <1>0, <2>1, <2>2, <2>3, <2>4 DEF RamOK, CountValue, c
  <2> QED  BY Zenon, <1>0, <2>1, <2>3, <2>4, <2>5, <2>6 DEF CounterOK
<1> QED  BY <1>1, <1>2, <1>3

\* A handle that had no counter gets an index, which is not written.
Fresh(h) ==
    /\ ~IsCount(h) /\ endMark' = endMark /\ peak'[h] = peak[h]
    /\ IsCount(h)' /\ ~IsOrderly(h)' => index'[h].data = 0 /\ "WRITTEN" \notin index'[h].attrs
    /\ IsCount(h)' /\ IsOrderly(h)' =>
          /\ "PLATFORMCREATE" \in index'[h].attrs
          /\ image'[h] = ram'[h] /\ ram'[h].data = 0 /\ "WRITTEN" \notin ram'[h].attrs

LEMMA FreshKeeps ==
    ASSUME NEW h \in Indexes, CounterInv, Fresh(h)
    PROVE  CounterOK(h)'
<1>1. peak'[h] <= endMark'
  BY DEF CounterInv, CounterOK, Fresh
<1>2. IsCount(h)' /\ ~IsOrderly(h)' => NvOK(h)'
  BY <1>1, ZeroCount DEF Fresh, NvOK, CountValue
<1>3. IsCount(h)' /\ IsOrderly(h)' => ImageOK(h)' /\ RamOK(h)' /\ "PLATFORMCREATE" \in index'[h].attrs
  BY <1>1, ZeroCount DEF Fresh, ImageOK, RamOK, CountValue
<1> QED  BY Zenon, <1>1, <1>2, <1>3 DEF CounterOK

\* Enough to look at the counters that change, when the end marker does not go back.
LEMMA TheOthersKeep ==
    ASSUME CounterInv, MarksOK', endMark <= endMark', peak' \in [Indexes -> Nat],
           \A h \in Indexes : SameCounter(h) \/ CounterOK(h)'
    PROVE  CounterInv'
<1>1. endMark' \in Nat
  BY DEF MarksOK, CountValue
<1>2. \A h \in Indexes : CounterOK(h)'
  BY <1>1, SameCounterKeeps
<1> QED  BY <1>2 DEF CounterInv

LEMMA SameMarks ==
    ASSUME CounterInv, UNCHANGED <<endMark, maxCounter, running>>
    PROVE  MarksOK' /\ endMark <= endMark'
<1>1. CountValue(endMark)' /\ endMark <= endMark' /\ maxCounter' \in Nat
  BY DEF CounterInv, MarksOK, CountValue
<1> QED  BY Zenon, <1>1 DEF CounterInv, MarksOK

-----------------------------------------------------------------------------
LEMMA StartupAttributes ==
    ASSUME NEW attrs, NEW kind
    PROVE  /\ \A type : (("ORDERLY" \in NvSetStartupAttributes(type, attrs, kind)) <=> ("ORDERLY" \in attrs))
           /\ \A a \in {"WRITTEN", "PLATFORMCREATE"} :
                 (a \in NvSetStartupAttributes("counter", attrs, kind)) <=> (a \in attrs)
  BY SMTT(60) DEF NvSetStartupAttributes

\* Startup takes the copy for what is saved, or for the start of its block.
LEMMA StartupCounters ==
    ASSUME Shape, CounterInv, NEW type \in {"CLEAR", "STATE"}, Startup(type)
    PROVE  CounterInv'
<1> USE DEF IsCounter, IsOrderly
<1> DEFINE kind == StartupKind(type)
<1>1. /\ running' /\ ram' = OrderlyAtStartup(kind) /\ index' = OthersAtStartup(kind)
      /\ maxCounter' = endMark /\ orderlyState' = "NONE"
      /\ UNCHANGED <<image, endMark>>
      /\ peak' = [h \in Indexes |->
                    IF h \in DOMAIN image /\ IsCounter(h) /\ "WRITTEN" \in image[h].attrs
                    THEN Larger(peak[h], ram'[h].data) ELSE peak[h]]
      /\ kind = "RESUME" => orderlyState = "STATE"
  BY SMTT(60) DEF Startup, StartupKind
<1> HIDE DEF kind
<1>2. DOMAIN index' = DOMAIN index
  BY SMTT(60), <1>1 DEF OthersAtStartup
<1>3. ASSUME NEW h \in DOMAIN index
      PROVE  /\ index'[h].type = index[h].type /\ index'[h].data = index[h].data
             /\ ("ORDERLY" \in index'[h].attrs) <=> ("ORDERLY" \in index[h].attrs)
             /\ IsCounter(h) => \A a \in {"WRITTEN", "PLATFORMCREATE"} :
                                   (a \in index'[h].attrs) <=> (a \in index[h].attrs)
  <2>1. CASE kind = "RESUME" \/ IsOrderly(h)
    <3>1. index'[h] = index[h]
      BY SMTT(60), <2>1, <1>1 DEF OthersAtStartup
    <3> QED  BY SMTT(60), <3>1
  <2>2. CASE ~(kind = "RESUME" \/ IsOrderly(h))
    <3>1. index'[h] = [index[h] EXCEPT !.attrs = NvSetStartupAttributes(index[h].type, @, kind)]
      BY SMTT(60), <2>2, <1>1 DEF OthersAtStartup
    <3>2. /\ index'[h].attrs = NvSetStartupAttributes(index[h].type, index[h].attrs, kind)
          /\ index'[h].type = index[h].type /\ index'[h].data = index[h].data
      BY SMTT(60), <3>1 DEF Shape
    <3>3. ("ORDERLY" \in index'[h].attrs) <=> ("ORDERLY" \in index[h].attrs)
      BY ZenonT(40), <3>2, StartupAttributes
    <3>4. IsCounter(h) => \A a \in {"WRITTEN", "PLATFORMCREATE"} :
                             (a \in index'[h].attrs) <=> (a \in index[h].attrs)
      BY SMTT(60), <3>2, StartupAttributes
    <3> QED  BY SMTT(60), <3>2, <3>3, <3>4
  <2> QED  BY SMTT(60), <2>1, <2>2
<1>4. ASSUME NEW h \in DOMAIN image, IsCounter(h)
      PROVE  /\ ram'[h].data = Recovered(image[h].data)
             /\ ("WRITTEN" \in ram'[h].attrs) <=> ("WRITTEN" \in image[h].attrs)
  <2>1. CASE kind = "RESUME"
    BY SMTT(60), <2>1, <1>1 DEF OrderlyAtStartup, Recovered
  <2>2. CASE kind # "RESUME"
    <3>1. /\ ram'[h].attrs = NvSetStartupAttributes("counter", image[h].attrs, kind)
          /\ ram'[h].data = Recovered(image[h].data)
      BY SMTT(60), <2>2, <1>1, <1>4 DEF OrderlyAtStartup, Recovered
    <3> QED  BY ZenonT(40), <3>1, StartupAttributes
  <2> QED  BY SMTT(60), <2>1, <2>2
<1>5. ASSUME NEW h \in Indexes PROVE Restarted(h)
  <2>1. h \in DOMAIN image <=> h \in DOMAIN index /\ IsOrderly(h)
    BY DEF Shape
  <2>2. /\ IsCount(h)' <=> IsCount(h)
        /\ IsCount(h) => (IsOrderly(h)' <=> IsOrderly(h)) /\ Alike(index'[h], index[h])
    BY SMTT(60), <1>2, <1>3 DEF IsCount, Alike
  <2>3. ~(IsCount(h) /\ IsOrderly(h)) => peak'[h] = peak[h]
    BY SMTT(60), <1>1, <2>1 DEF IsCount
  <2>4. ASSUME IsCount(h), IsOrderly(h)
        PROVE  /\ index'[h] = index[h] /\ ram'[h].data = Recovered(image[h].data)
               /\ ("WRITTEN" \in ram'[h].attrs) <=> ("WRITTEN" \in image[h].attrs)
               /\ peak'[h] = IF "WRITTEN" \in image[h].attrs
                             THEN Larger(peak[h], Recovered(image[h].data)) ELSE peak[h]
    BY SMTT(60), <1>1, <1>4, <2>1, <2>4 DEF IsCount, OthersAtStartup
  <2> QED  BY ZenonT(40), <1>1, <2>2, <2>3, <2>4 DEF Restarted
<1>6. \A h \in Indexes : peak'[h] \in Nat /\ CounterOK(h)'
  BY ZenonT(40), <1>5, RestartedKeeps
<1>7. MarksOK' /\ peak' \in [Indexes -> Nat]
  BY SMTT(60), <1>1, <1>6 DEF CounterInv, MarksOK, CountValue
<1> QED  BY ZenonT(40), <1>6, <1>7 DEF CounterInv

-----------------------------------------------------------------------------
\* A write to one index leaves the counters of the others alone.
LEMMA WriteLeavesOthers ==
    ASSUME Shape, running, running' = running, NEW g \in DOMAIN index, NEW d, NEW save,
           NvWriteIndexData(g, d, save), NEW h \in Indexes \ {g}, peak'[h] = peak[h]
    PROVE  SameCounter(h)
<1> USE DEF IsCounter, IsOrderly
<1>1. DOMAIN index' = DOMAIN index /\ (h \in DOMAIN index => index'[h] = index[h])
      /\ orderlyState' \in {orderlyState, "NONE"}
  BY DEF NvWriteIndexData
<1>2. h \in DOMAIN index /\ IsOrderly(h) => ram'[h] = ram[h] /\ image'[h] \in {image[h], ram[h]}
  BY DEF NvWriteIndexData, Shape
<1> QED  BY ZenonT(40), <1>1, <1>2 DEF SameCounter, IsCount, Alike

\* What a counter in use holds.
LEMMA InUse ==
    ASSUME Shape, CounterInv, running, NEW h \in DOMAIN index, IsCounter(h)
    PROVE  /\ CountValue(Data(h)) /\ peak[h] \in Nat /\ endMark \in Nat
           /\ peak[h] <= IF Written(h) THEN Data(h) ELSE endMark
<1>1. h \in Indexes /\ IsCount(h) /\ CounterOK(h) /\ peak[h] \in Nat /\ endMark \in Nat
  BY Zenon DEF Shape, CounterInv, IsCount, MarksOK, CountValue
<1>2. CASE IsOrderly(h)
  BY <1>1, <1>2 DEF CounterOK, ImageOK, RamOK, Data, Written, Attrs
<1>3. CASE ~IsOrderly(h)
  BY <1>1, <1>3 DEF CounterOK, NvOK, Data, Written, Attrs
<1> QED  BY <1>1, <1>2, <1>3

\* What a counter shows next exceeds what it has shown.
LEMMA CountersShown ==
    ASSUME Shape, CounterInv
    PROVE  CounterNeverRollsBack
<1> SUFFICES ASSUME running, NEW h \in Indexes
             PROVE  peak[h] <= IF h \in DOMAIN index /\ IsCounter(h) /\ Written(h)
                               THEN Data(h) ELSE maxCounter
  BY DEF CounterNeverRollsBack
<1>1. CounterOK(h) /\ maxCounter = endMark
  BY DEF CounterInv, MarksOK
<1> QED  BY SMTT(60), <1>1, InUse DEF CounterOK, IsCount

\* A counter goes up; one that is orderly is saved when it leaves its block.
LEMMA IncrementCounters ==
    ASSUME Shape, CounterInv, NEW g \in Indexes, NV_Increment(g)
    PROVE  CounterInv'
<1> USE DEF IsCounter, IsOrderly
<1> DEFINE old == IF Written(g) THEN Data(g) ELSE maxCounter
           count == old + 1
<1>1. /\ running /\ g \in DOMAIN index /\ IsCounter(g) /\ OrMask(count) <= MaxCount
      /\ NvWriteIndexData(g, count, RolledOver(count))
      /\ peak' = [peak EXCEPT ![g] = Larger(@, count)]
      /\ UNCHANGED <<endMark, maxCounter, running>>
  BY ZenonT(40) DEF NV_Increment, WriteAllowed, Accessible, unchangedByWrite
<1>2. maxCounter = endMark /\ CountValue(endMark) /\ peak \in [Indexes -> Nat] /\ CounterOK(g)
      /\ DOMAIN index[g] = {"type", "attrs", "size", "data"} /\ DOMAIN ram = DOMAIN image
  <2> HIDE DEF old, count
  <2> QED  BY ZenonT(40), <1>1 DEF CounterInv, MarksOK, Shape
<1>3. old \in Nat /\ peak[g] \in Nat /\ peak[g] <= old
  BY SMTT(60), <1>1, <1>2, InUse DEF CountValue
<1>4. Written(g) => old = Data(g)
  OBVIOUS
<1> HIDE DEF old
<1>5. count \in Nat /\ CountValue(count) /\ count <= OrMask(count) /\ Larger(peak[g], count) = count
  <2>1. count \in Nat
    BY SMTT(60), <1>3
  <2> QED  BY SMTT(60), <2>1, <1>1, <1>3, OrMaskFacts DEF CountValue, Larger
<1>6. count = old + 1
  OBVIOUS
<1> HIDE DEF count
<1>7. /\ peak' \in [Indexes -> Nat] /\ peak'[g] = count
      /\ \A h \in Indexes \ {g} : peak'[h] = peak[h]
  BY SMTT(60), <1>1, <1>2, <1>5
<1>8. MarksOK' /\ endMark <= endMark'
  BY ZenonT(40), <1>1, SameMarks
<1>9. ASSUME NEW h \in Indexes \ {g} PROVE SameCounter(h)
  BY ZenonT(40), <1>1, <1>7, <1>9, WriteLeavesOthers
<1>10. CASE IsOrderly(g)
  <2>1. /\ ram' = [ram EXCEPT ![g] = [attrs |-> Attrs(g) \cup {"WRITTEN"}, data |-> count]]
        /\ image' = IF RolledOver(count) \/ ~Written(g) THEN ram' ELSE image
        /\ orderlyState' = "NONE" /\ index' = index /\ g \in DOMAIN ram
    BY SMTT(60), <1>10, <1>1, <1>2 DEF NvWriteIndexData, Shape
  <2>2. ram'[g].data = count /\ "WRITTEN" \in ram'[g].attrs
    BY SMTT(60), <2>1
  <2>3. /\ count <= OrMask(image'[g].data) /\ CountValue(image'[g].data)
        /\ "WRITTEN" \in image'[g].attrs
    <3>1. CASE RolledOver(count) \/ ~Written(g)
      BY SMTT(60), <3>1, <2>1, <2>2, <1>5
    <3>2. CASE ~(RolledOver(count) \/ ~Written(g))
      <4>1. image' = image /\ old = ram[g].data /\ "WRITTEN" \in ram[g].attrs
        BY Zenon, <3>2, <2>1, <1>4, <1>10 DEF Written, Data, Attrs
      <4>2. CountValue(image[g].data) /\ old <= OrMask(image[g].data) /\ "WRITTEN" \in image[g].attrs
        BY Zenon, <4>1, <1>1, <1>2, <1>10 DEF CounterOK, IsCount, ImageOK, RamOK
      <4> QED  BY ZenonT(40), <4>1, <4>2, <3>2, <1>3, <1>6, NextCount
    <3> QED  BY SMTT(60), <3>1, <3>2
  <2>4. ImageOK(g)' /\ RamOK(g)' /\ "PLATFORMCREATE" \in index'[g].attrs
    BY SMTT(60), <2>1, <2>2, <2>3, <1>1, <1>2, <1>5, <1>7, <1>10
    DEF CounterOK, IsCount, ImageOK, RamOK, Recovered, CountValue
  <2>5. CounterOK(g)'
    BY ZenonT(40), <2>1, <2>4, <1>1, <1>10 DEF CounterOK, IsCount
  <2> QED  BY ZenonT(40), <1>7, <1>8, <1>9, <2>5, TheOthersKeep
<1>11. CASE ~IsOrderly(g)
  <2>1. index' = [index EXCEPT ![g].attrs = index[g].attrs \cup {"WRITTEN"}, ![g].data = count]
    BY SMTT(60), <1>11, <1>1 DEF NvWriteIndexData, Attrs
  <2>2. /\ DOMAIN index' = DOMAIN index /\ index'[g].type = index[g].type
        /\ index'[g].attrs = index[g].attrs \cup {"WRITTEN"} /\ index'[g].data = count
    BY ZenonT(40), <2>1, <1>1, <1>2
  <2>3. CounterOK(g)'
    <3>1. NvOK(g)'
      BY SMTT(60), <2>2, <1>5, <1>7 DEF NvOK, CountValue
    <3>2. IsCount(g)' /\ ~IsOrderly(g)'
      BY SMTT(60), <2>2, <1>1, <1>11 DEF IsCount
    <3> QED  BY ZenonT(40), <3>1, <3>2 DEF CounterOK
  <2> QED  BY ZenonT(40), <1>7, <1>8, <1>9, <2>3, TheOthersKeep
<1> QED  BY SMTT(60), <1>10, <1>11

-----------------------------------------------------------------------------
\* The counters that are deleted leave the largest of their values behind.
LEMMA DeletedMaxFacts ==
    ASSUME Shape, CounterInv, running, NEW doomed \in SUBSET DOMAIN index, NEW at,
           NEW top \in DeletedMax(doomed, at)
    PROVE  /\ CountValue(top) /\ endMark <= top
           /\ doomed = {} => top = endMark
           /\ \A h \in doomed : IsCounter(h) /\ "WRITTEN" \in at[h] => Data(h) <= top
<1> DEFINE dead == {x \in doomed : IsCounter(x) /\ "WRITTEN" \in at[x]}
           S == {maxCounter} \cup {Data(h) : h \in dead}
<1>1. maxCounter = endMark /\ CountValue(endMark)
  BY DEF CounterInv, MarksOK
<1>2. \A s \in S : CountValue(s)
  BY <1>1, InUse
<1>3. top \in S /\ \A s \in S : s <= top
  BY DEF DeletedMax
<1>4. doomed = {} => S = {maxCounter}
  OBVIOUS
<1>5. \A h \in doomed : IsCounter(h) /\ "WRITTEN" \in at[h] => Data(h) \in S
  OBVIOUS
<1>6. maxCounter \in S
  OBVIOUS
<1> HIDE DEF S
<1> QED  BY <1>1, <1>2, <1>3, <1>4, <1>5, <1>6

\* Deleting indexes, one or many, loses no count.
LEMMA DeleteCounters ==
    ASSUME Shape, CounterInv, running, NEW doomed \in SUBSET DOMAIN index, NEW at,
           NvDeleteIndexes(doomed, at), UNCHANGED <<running, peak>>,
           orderlyState' \in {orderlyState, "NONE"},
           \A h \in doomed : IsCounter(h) /\ Written(h) => "WRITTEN" \in at[h]
    PROVE  CounterInv'
<1> USE DEF IsCounter, IsOrderly
<1>0. PICK top \in DeletedMax(doomed, at) : maxCounter' = top
  BY DEF NvDeleteIndexes
<1>1. /\ CountValue(top) /\ endMark <= top /\ (doomed = {} => top = endMark)
      /\ \A h \in doomed : IsCounter(h) /\ "WRITTEN" \in at[h] => Data(h) <= top
  BY ZenonT(40), DeletedMaxFacts
<1>2. /\ maxCounter' = top /\ endMark' = IF doomed = {} THEN endMark ELSE maxCounter'
      /\ index' = [x \in DOMAIN index \ doomed |-> index[x]]
      /\ ram' = [x \in DOMAIN ram \ doomed |-> ram[x]]
      /\ image' = IF doomed \cap DOMAIN ram = {} THEN image ELSE ram'
  BY SMTT(60), <1>0 DEF NvDeleteIndexes, Restrict
<1>3. endMark' = top /\ top \in Nat
  BY SMTT(60), <1>1, <1>2 DEF CountValue
<1>4. MarksOK' /\ endMark <= endMark' /\ peak' \in [Indexes -> Nat]
  BY SMTT(60), <1>1, <1>2, <1>3 DEF CounterInv, MarksOK, CountValue
<1>5. ASSUME NEW h \in Indexes \ doomed PROVE SameCounter(h)
  <2>1. /\ h \in DOMAIN index' <=> h \in DOMAIN index
        /\ h \in DOMAIN index => index'[h] = index[h]
        /\ h \in DOMAIN index /\ IsOrderly(h) => ram'[h] = ram[h] /\ image'[h] \in {image[h], ram[h]}
    BY SMTT(60), <1>2 DEF Shape
  <2> QED  BY ZenonT(40), <2>1 DEF SameCounter, IsCount, Alike
<1>6. ASSUME NEW h \in doomed PROVE CounterOK(h)'
  <2>1. h \in Indexes /\ h \in DOMAIN index /\ h \notin DOMAIN index' /\ endMark \in Nat /\ peak[h] \in Nat
    BY Zenon, <1>2 DEF Shape, CounterInv, MarksOK, CountValue
  <2>2. CASE IsCounter(h)
    <3>1. /\ CountValue(Data(h)) /\ peak[h] <= IF Written(h) THEN Data(h) ELSE endMark
      BY Zenon, <2>1, <2>2, InUse
    <3> QED  BY SMTT(60), <1>1, <1>3, <2>1, <2>2, <3>1 DEF CounterOK, IsCount, CountValue
  <2>3. CASE ~IsCounter(h)
    BY SMTT(60), <1>1, <1>3, <2>1, <2>3 DEF CounterInv, CounterOK, IsCount
  <2> QED  BY Zenon, <2>2, <2>3
<1> QED  BY ZenonT(40), <1>4, <1>5, <1>6, TheOthersKeep

\* NV_UndefineSpace looks at the attributes in use, a flush at those of the list
\* entry; they agree on whether a counter was written if it is not orderly.
LEMMA DeletingCounters ==
    ASSUME Shape, CounterInv, Undefine \/ Flush
    PROVE  CounterInv'
<1>1. ASSUME NEW h \in Indexes, NEW auth, NV_UndefineSpace(h, auth) \/ NV_UndefineSpaceSpecial(h)
      PROVE  CounterInv'
  <2>1. /\ running /\ h \in DOMAIN index /\ NvDeleteIndexes({h}, [x \in {h} |-> Attrs(x)])
        /\ UNCHANGED <<running, peak, orderlyState>>
    BY SMTT(60), <1>1 DEF NV_UndefineSpace, NV_UndefineSpaceSpecial, Accessible
  <2> QED  BY SMTT(60), <2>1, DeleteCounters DEF Written
<1>2. ASSUME NEW hs, NvFlushHierarchy(hs), running, UNCHANGED <<running, peak>>, orderlyState' = "NONE"
      PROVE  CounterInv'
  <2> DEFINE doomed == {h \in DOMAIN index : "owner" \in hs /\ "PLATFORMCREATE" \notin index[h].attrs}
             at == [h \in DOMAIN index |-> index[h].attrs]
  <2>1. NvDeleteIndexes(doomed, at)
    BY SMTT(60), <1>2 DEF NvFlushHierarchy
  <2>2. \A h \in doomed : IsCounter(h) /\ Written(h) => "WRITTEN" \in at[h]
    BY SMTT(60) DEF Shape, CounterInv, CounterOK, IsCount, Written, Attrs
  <2>3. doomed \in SUBSET DOMAIN index
    OBVIOUS
  <2> HIDE DEF at, doomed
  <2> QED  BY ZenonT(40), <1>2, <2>1, <2>2, <2>3, DeleteCounters
<1> QED  BY ZenonT(40), <1>1, <1>2 DEF Undefine, Flush, Clear, ChangePPS, ChangeEPS

-----------------------------------------------------------------------------
\* A new index was never written, and starts from a count of zero.
LEMMA DefineCounters ==
    ASSUME Shape, CounterInv, OrderlyIsPlatform, Define
    PROVE  CounterInv'
<1> USE DEF IsCounter, IsOrderly
<1>1. PICK g \in Indexes, t \in Templates, auth \in {"OWNER", "PLATFORM"} : NV_DefineSpace(g, t, auth)
  BY ZenonT(40) DEF Define
<1>2. /\ running /\ g \notin DOMAIN index /\ NvDefineIndex(g, t) /\ "WRITTEN" \notin t.attrs
      /\ UNCHANGED <<orderlyState, maxCounter, running, peak>>
  BY <1>1 DEF NV_DefineSpace, ConsistentTemplate
<1>3. maxCounter = endMark /\ endMark' = endMark /\ endMark \in Nat
  BY <1>2 DEF CounterInv, MarksOK, CountValue, NvDefineIndex
<1>4. MarksOK' /\ endMark <= endMark' /\ peak' \in [Indexes -> Nat]
  BY ZenonT(40), <1>2, <1>3, SameMarks DEF CounterInv
<1> DEFINE data == Blank(t.type, t.size)
           entry == [type |-> t.type, attrs |-> t.attrs, size |-> t.size, data |-> data]
<1>5. /\ DOMAIN index' = DOMAIN index \cup {g} /\ index'[g] = entry
      /\ \A x \in DOMAIN index : index'[x] = index[x]
      /\ \A x \in DOMAIN image : ram'[x] = ram[x] /\ image'[x] \in {image[x], ram[x]}
  BY <1>2 DEF NvDefineIndex, Shape
<1>6. "ORDERLY" \in t.attrs =>
         image'[g] = ram'[g] /\ ram'[g].data = data /\ ram'[g].attrs = t.attrs
  <2>1. "ORDERLY" \in t.attrs =>
           image'[g] = ram'[g] /\ ram'[g] = [attrs |-> t.attrs, data |-> data]
    BY SMTT(60), <1>2 DEF NvDefineIndex
  <2> HIDE DEF data
  <2> QED  BY SMTT(60), <2>1
<1> HIDE DEF data
<1>7. ASSUME NEW h \in Indexes, h # g PROVE SameCounter(h)
  <2>1. /\ h \in DOMAIN index' <=> h \in DOMAIN index
        /\ h \in DOMAIN index => index'[h] = index[h]
        /\ h \in DOMAIN index /\ IsOrderly(h) => ram'[h] = ram[h] /\ image'[h] \in {image[h], ram[h]}
    BY Zenon, <1>5, <1>7 DEF Shape
  <2> QED  BY ZenonT(40), <1>2, <2>1 DEF SameCounter, IsCount, Alike
<1>8. Fresh(g)
  <2>1. entry.type = t.type /\ entry.attrs = t.attrs /\ entry.data = data
    BY SMTT(60)
  <2> HIDE DEF entry
  <2>2. ~IsCount(g) /\ (IsCount(g)' <=> t.type = "counter") /\ peak'[g] = peak[g]
    BY ZenonT(40), <1>2, <1>5, <2>1 DEF IsCount
  <2>3. t.type = "counter" => data = 0 /\ ("ORDERLY" \in t.attrs => "PLATFORMCREATE" \in t.attrs)
    BY SMTT(60) DEF data, Blank, OrderlyIsPlatform
  <2> QED  BY ZenonT(40), <1>2, <1>3, <1>5, <1>6, <2>1, <2>2, <2>3 DEF Fresh
<1>9. CounterOK(g)'
  BY ZenonT(40), <1>8, FreshKeeps
<1> QED  BY ZenonT(40), <1>4, <1>7, <1>9, TheOthersKeep

\* Steps that change no index: persistent objects, the enables of the
\* hierarchies, shutdown and lost power.
LEMMA QuietCounters ==
    ASSUME CounterInv,
           Persist \/ Control \/ PowerLoss \/ UNCHANGED vars
           \/ \E type \in {"CLEAR", "STATE"} : Shutdown(type)
    PROVE  CounterInv'
<1>1. /\ UNCHANGED <<index, peak>> /\ endMark' \in {endMark, maxCounter}
      /\ endMark' # endMark => running
      /\ running' => running /\ ram' = ram
      /\ maxCounter' = maxCounter \/ (~running' /\ maxCounter' = 0)
      /\ \/ image' = image /\ orderlyState' \in {orderlyState, "NONE"}
         \/ image' = ram /\ running
  <2>1. CASE Persist
    BY ZenonT(40), <2>1 DEF Persist, MakePersistent, EvictPersistent, ramState, history
  <2>2. CASE Control
    BY ZenonT(40), <2>2 DEF Control, HierarchyControl, history
  <2>3. CASE PowerLoss
    BY ZenonT(40), <2>3 DEF PowerLoss, nvState, history
  <2>4. CASE UNCHANGED vars
    BY ZenonT(40), <2>4 DEF vars, nvState, ramState, history
  <2>5. ASSUME NEW type, Shutdown(type)
        PROVE  UNCHANGED <<index, peak, endMark, maxCounter, ram, running>> /\ running /\ image' = ram
    BY ZenonT(40), <2>5 DEF Shutdown, ramState, history
  <2> QED  BY ZenonT(40), <2>1, <2>2, <2>3, <2>4, <2>5
<1>2. endMark' = endMark /\ (running' => maxCounter' = endMark')
  BY Zenon, <1>1 DEF CounterInv, MarksOK
<1>3. CountValue(endMark)' /\ endMark <= endMark' /\ maxCounter' \in Nat
  BY <1>1, <1>2 DEF CounterInv, MarksOK, CountValue
<1>4. MarksOK' /\ peak' \in [Indexes -> Nat]
  BY Zenon, <1>1, <1>2, <1>3 DEF CounterInv, MarksOK
<1>5. ASSUME NEW h \in Indexes PROVE SameCounter(h)
  BY ZenonT(40), <1>1 DEF SameCounter, IsCount, IsCounter, IsOrderly, Alike
<1> QED  BY ZenonT(40), <1>3, <1>4, <1>5, TheOthersKeep

LEMMA OtherUpdates ==
    ASSUME Shape, CounterInv, Update, \A g \in Indexes : ~NV_Increment(g)
    PROVE  CounterInv'
<1> USE DEF IsCounter, IsOrderly
<1> DEFINE Other(g) == /\ running /\ g \in DOMAIN index /\ ~IsCounter(g)
                       /\ \/ \E d : NvWriteIndexData(g, d, FALSE)
                          \/ UNCHANGED <<index, ram, image, orderlyState>>
                       /\ UNCHANGED <<endMark, maxCounter, running, peak>>
<1>1. PICK g \in Indexes : Other(g)
  <2> USE DEF WriteAllowed, Accessible, unchangedByWrite
  <2>1. ASSUME NEW g \in Indexes, NEW first, NEW last, NEW v, NV_Write(g, first, last, v) PROVE Other(g)
    BY ZenonT(40), <2>1 DEF NV_Write
  <2>2. ASSUME NEW g \in Indexes, NEW v, NV_Extend(g, v) \/ NV_SetBits(g, v) PROVE Other(g)
    BY ZenonT(40), <2>2 DEF NV_Extend, NV_SetBits
  <2>3. ASSUME NEW g \in Indexes, NEW success, UsePin(g, success) PROVE Other(g)
    BY ZenonT(40), <2>3 DEF UsePin, Pins
  <2> HIDE DEF Other
  <2> QED  BY ZenonT(40), <2>1, <2>2, <2>3 DEF Update
<1>2. MarksOK' /\ endMark <= endMark' /\ peak' \in [Indexes -> Nat] /\ \A h \in Indexes : peak'[h] = peak[h]
  BY ZenonT(40), <1>1, SameMarks DEF CounterInv
<1>3. CASE UNCHANGED <<index, ram, image, orderlyState>>
  <2>1. ASSUME NEW h \in Indexes PROVE SameCounter(h)
    BY ZenonT(40), <1>1, <1>3 DEF SameCounter, IsCount, Alike
  <2> QED  BY ZenonT(40), <1>2, <2>1, TheOthersKeep
<1>4. ASSUME NEW d, NvWriteIndexData(g, d, FALSE) PROVE CounterInv'
  <2>1. ASSUME NEW h \in Indexes \ {g} PROVE SameCounter(h)
    BY ZenonT(40), <1>1, <1>2, <1>4, WriteLeavesOthers
  <2>2. index'[g].type = index[g].type /\ DOMAIN index' = DOMAIN index
    <3>1. DOMAIN index[g] = {"type", "attrs", "size", "data"}
      BY <1>1 DEF Shape
    <3>2. \/ index' = index
          \/ index' = [index EXCEPT ![g].attrs = Attrs(g) \cup {"WRITTEN"}, ![g].data = d]
      BY ZenonT(40), <1>4 DEF NvWriteIndexData
    <3>3. CASE index' # index
      <4>1. index'[g] = [index[g] EXCEPT !.attrs = Attrs(g) \cup {"WRITTEN"}, !.data = d]
        BY SMTT(60), <1>1, <3>2, <3>3
      <4> QED  BY SMTT(60), <3>1, <3>2, <3>3, <4>1
    <3> QED  BY <3>3
  <2>3. CounterOK(g)'
    BY ZenonT(40), <1>1, <2>2 DEF CounterInv, CounterOK, IsCount, SameCounter
  <2> QED  BY ZenonT(40), <1>2, <2>1, <2>3, TheOthersKeep
<1> QED  BY ZenonT(40), <1>1, <1>3, <1>4

\* A lock changes no attribute that a counter depends on.
LEMMA LockCounters ==
    ASSUME Shape, CounterInv, Lock
    PROVE  CounterInv'
<1> USE DEF IsCounter, IsOrderly
<1> DEFINE Kept(e, f) == /\ DOMAIN e = DOMAIN f /\ \A x \in DOMAIN f \ {"attrs"} : e[x] = f[x]
                         /\ \A a \in {"WRITTEN", "ORDERLY"} : (a \in e.attrs) <=> (a \in f.attrs)
<1>1. running /\ UNCHANGED <<endMark, maxCounter, running, peak, image, orderlyState>>
  BY ZenonT(40) DEF Lock, NV_WriteLock, NV_ReadLock, NV_GlobalWriteLock, WriteAllowed, unchangedByLock
<1>2. DOMAIN ram = DOMAIN image /\ DOMAIN image = {h \in DOMAIN index : IsOrderly(h)}
      /\ (\A h \in DOMAIN index : DOMAIN index[h] = {"type", "attrs", "size", "data"})
      /\ \A h \in DOMAIN ram : DOMAIN ram[h] = {"attrs", "data"}
  BY <1>1 DEF Shape
<1>3. /\ DOMAIN index' = DOMAIN index
      /\ \A h \in DOMAIN index : IF IsOrderly(h) THEN index'[h] = index[h] /\ Kept(ram'[h], ram[h])
                                                 ELSE Kept(index'[h], index[h])
  <2>1. CASE NV_GlobalWriteLock
    <3> DEFINE lock(e) == IF "GLOBALLOCK" \in e.attrs
                          THEN [e EXCEPT !.attrs = @ \cup {"WRITELOCKED"}] ELSE e
    <3>1. /\ index' = [h \in DOMAIN index |-> IF IsOrderly(h) THEN index[h] ELSE lock(index[h])]
          /\ ram' = [h \in DOMAIN ram |-> lock(ram[h])]
      BY <2>1 DEF NV_GlobalWriteLock
    <3>2. ASSUME NEW e, "attrs" \in DOMAIN e PROVE Kept(lock(e), e)
      BY Zenon, <3>2
    <3> HIDE DEF lock, Kept
    <3> QED  BY <3>1, <3>2, <1>2
  <2>2. ASSUME NEW g \in DOMAIN index, NEW lock \in {"WRITELOCKED", "READLOCKED"},
               NvWriteIndexAttributes(g, Attrs(g) \cup {lock})
        PROVE  /\ DOMAIN index' = DOMAIN index
               /\ \A h \in DOMAIN index :
                     IF IsOrderly(h) THEN index'[h] = index[h] /\ Kept(ram'[h], ram[h])
                                     ELSE Kept(index'[h], index[h])
    <3>1. CASE IsOrderly(g)
      BY <1>2, <2>2, <3>1 DEF NvWriteIndexAttributes, Attrs
    <3>2. CASE ~IsOrderly(g)
      BY <1>2, <2>2, <3>2 DEF NvWriteIndexAttributes, Attrs
    <3> QED  BY <3>1, <3>2
  <2> HIDE DEF Kept
  <2> QED  BY ZenonT(40), <2>1, <2>2 DEF Lock, NV_WriteLock, NV_ReadLock, WriteAllowed, Accessible
<1>4. ASSUME NEW h \in Indexes PROVE SameCounter(h)
  <2>1. CASE h \in DOMAIN index /\ IsOrderly(h)
    BY ZenonT(60), <1>1, <1>2, <1>3, <2>1 DEF SameCounter, IsCount, Alike
  <2>2. CASE h \in DOMAIN index /\ ~IsOrderly(h)
    <3>1. Kept(index'[h], index[h]) /\ h \in DOMAIN index'
      BY Zenon, <1>3, <2>2
    <3>2. /\ index'[h].type = index[h].type /\ index'[h].data = index[h].data
          /\ \A a \in {"WRITTEN", "ORDERLY"} : (a \in index'[h].attrs) <=> (a \in index[h].attrs)
      BY ZenonT(40), <3>1, <1>2, <2>2
    <3> QED  BY ZenonT(40), <3>1, <3>2, <1>1, <2>2 DEF SameCounter, IsCount, Alike
  <2>3. CASE h \notin DOMAIN index
    BY ZenonT(40), <1>1, <1>3, <2>3 DEF SameCounter, IsCount
  <2> QED  BY ZenonT(40), <2>1, <2>2, <2>3
<1>5. MarksOK' /\ endMark <= endMark' /\ peak' \in [Indexes -> Nat]
  BY ZenonT(40), <1>1, SameMarks DEF CounterInv
<1> QED  BY ZenonT(40), <1>4, <1>5, TheOthersKeep

-----------------------------------------------------------------------------
LEMMA CounterStep ==
    ASSUME Shape, CounterInv, OrderlyIsPlatform, [Next]_vars
    PROVE  CounterInv'
<1>1. CASE Define
  BY ZenonT(40), <1>1, DefineCounters
<1>2. CASE Undefine \/ Flush
  BY ZenonT(40), <1>2, DeletingCounters
<1>3. CASE Update
  BY ZenonT(40), <1>3, OtherUpdates, IncrementCounters
<1>4. CASE Lock
  BY ZenonT(40), <1>4, LockCounters
<1>5. CASE Power
  BY ZenonT(40), <1>5, QuietCounters, StartupCounters DEF Power
<1>6. CASE Persist \/ Control \/ UNCHANGED vars
  BY ZenonT(40), <1>6, QuietCounters
<1> QED  BY ZenonT(40), <1>1, <1>2, <1>3, <1>4, <1>5, <1>6 DEF Next

-----------------------------------------------------------------------------
LEMMA IndexInit == Init => IndexInv
<1> SUFFICES ASSUME Init PROVE IndexInv
  OBVIOUS
<1>1. /\ DOMAIN index = {} /\ DOMAIN image = {} /\ DOMAIN ram = {} /\ DOMAIN latest = {}
      /\ locked = [h \in Indexes |-> {}] /\ budget = [h \in Indexes |-> 0]
  BY DEF Init
<1> QED  BY <1>1 DEF IndexInv, Shape

\* Steps that change no index: persistent objects, the enables of the
\* hierarchies, shutdown and lost power.
LEMMA QuietKeeps ==
    ASSUME IndexInv,
           Persist \/ Control \/ PowerLoss \/ UNCHANGED vars
           \/ \E type \in {"CLEAR", "STATE"} : Shutdown(type)
    PROVE  IndexInv'
<1> USE DEF IsOrderly
<1>1. /\ UNCHANGED <<index, latest, locked, budget>>
      /\ running' => running /\ ram' = ram
      /\ \/ image' = image /\ (orderlyState' = "STATE" => orderlyState = "STATE")
         \/ image' = ram /\ running
  <2>1. CASE Persist
    BY ZenonT(40), <2>1 DEF Persist, MakePersistent, EvictPersistent, ramState, history
  <2>2. CASE Control
    BY <2>2 DEF Control, HierarchyControl, history
  <2>3. CASE PowerLoss
    BY <2>3 DEF PowerLoss, nvState, history
  <2>4. CASE UNCHANGED vars
    BY <2>4 DEF vars, nvState, ramState, history
  <2>5. ASSUME NEW type \in {"CLEAR", "STATE"}, Shutdown(type)
        PROVE  /\ UNCHANGED <<index, latest, locked, budget>>
               /\ running' => running /\ ram' = ram
               /\ image' = ram /\ running
    BY <2>5 DEF Shutdown, ramState, history
  <2> QED  BY <2>1, <2>2, <2>3, <2>4, <2>5
<1>2. Shape'
  BY ZenonT(40), <1>1 DEF IndexInv, Shape
<1>3. ASSUME NEW h \in DOMAIN index PROVE EntryInv(h)'
  <2>1. SameEntry(h)
    BY <1>1 DEF SameEntry
  <2> QED  BY <2>1, SameEntryKeeps DEF IndexInv
<1> QED  BY <1>1, <1>2, <1>3 DEF IndexInv

-----------------------------------------------------------------------------
\* A new index is unlocked and unwritten.
LEMMA DefineKeeps ==
    ASSUME IndexInv, Define
    PROVE  IndexInv'
<1> USE DEF IsOrderly, IsCounter
<1>1. PICK g \in Indexes, t \in Templates, auth \in {"OWNER", "PLATFORM"} : NV_DefineSpace(g, t, auth)
  BY Zenon DEF Define
<1> DEFINE blank == Blank(t.type, t.size)
           entry == [type |-> t.type, attrs |-> t.attrs, size |-> t.size, data |-> blank]
           rentry == [attrs |-> t.attrs, data |-> blank]
<1>2. /\ running /\ g \notin DOMAIN index
      /\ index' = [x \in DOMAIN index \cup {g} |-> IF x = g THEN entry ELSE index[x]]
      /\ latest' = [x \in DOMAIN index \cup {g} |-> IF x = g THEN blank ELSE latest[x]]
      /\ UNCHANGED <<orderlyState, running, locked, budget>>
      /\ "WRITTEN" \notin t.attrs
      /\ "ORDERLY" \in t.attrs =>
            /\ ram' = [x \in DOMAIN ram \cup {g} |-> IF x = g THEN rentry ELSE ram[x]]
            /\ image' = ram'
      /\ "ORDERLY" \notin t.attrs => ram' = ram /\ image' = image
  BY SMTT(60), <1>1 DEF NV_DefineSpace, NvDefineIndex, ConsistentTemplate
<1>3. /\ t.type \in {"ordinary", "counter", "bits", "extend"} \cup Pins
      /\ t.type \in Pins => t.size = 2 /\ blank \in [1..2 -> Nat]
  <2>1. t.type \in {"ordinary", "counter", "bits", "extend"} \cup Pins /\ (t.type \in Pins => t.size = 2)
    BY NvAssumption DEF Pins
  <2>2. t.type \in Pins => blank = [i \in 1..t.size |-> 0]
    BY DEF Pins, Blank
  <2> QED  BY <2>1, <2>2
<1> HIDE DEF blank
<1>4. /\ DOMAIN ram = DOMAIN image /\ DOMAIN image = {h \in DOMAIN index : IsOrderly(h)}
      /\ DOMAIN index \subseteq Indexes /\ locked[g] = {} /\ g \notin DOMAIN ram
  BY <1>2 DEF IndexInv, Shape
<1>5. Shape'
  <2>1. /\ DOMAIN index' \subseteq Indexes /\ DOMAIN latest' = DOMAIN index'
        /\ DOMAIN image' = {h \in DOMAIN index' : IsOrderly(h)'} /\ DOMAIN ram' = DOMAIN image'
        /\ \A h \in DOMAIN image' : DOMAIN image'[h] = {"attrs", "data"} /\ DOMAIN ram'[h] = {"attrs", "data"}
    <3>1. /\ DOMAIN index' = DOMAIN index \cup {g} /\ index'[g].attrs = t.attrs
          /\ \A h \in DOMAIN index : index'[h] = index[h] /\ h # g
      BY Zenon, <1>2
    <3>2. /\ \A h \in DOMAIN image : DOMAIN image[h] = {"attrs", "data"}
          /\ \A h \in DOMAIN ram : DOMAIN ram[h] = {"attrs", "data"}
      BY Zenon, <1>2 DEF IndexInv, Shape
    <3>3. CASE "ORDERLY" \in t.attrs
      <4>1. /\ image' = ram' /\ DOMAIN ram' = DOMAIN ram \cup {g}
            /\ ram'[g] = rentry /\ \A h \in DOMAIN ram : ram'[h] = ram[h]
        BY Zenon, <3>3, <1>2, <1>4
      <4>2. DOMAIN rentry = {"attrs", "data"}
        OBVIOUS
      <4> HIDE DEF rentry
      <4> QED  BY SMTT(60), <4>1, <4>2, <3>1, <3>2, <3>3, <1>2, <1>4
    <3>4. CASE "ORDERLY" \notin t.attrs
      <4>1. image' = image /\ ram' = ram
        BY <3>4, <1>2
      <4>2. \A h \in DOMAIN index' : ("ORDERLY" \in index'[h].attrs) <=> (h \in DOMAIN image)
        BY SMTT(60), <3>1, <3>4, <1>4
      <4>3. DOMAIN image = {h \in DOMAIN index' : "ORDERLY" \in index'[h].attrs}
        BY <4>2, <3>1, <1>4
      <4>4. DOMAIN latest' = DOMAIN index'
        BY Zenon, <1>2
      <4> QED  BY ZenonT(30), <4>1, <4>3, <4>4, <3>1, <3>2, <1>4
    <3> QED  BY <3>3, <3>4
  <2>2. \A h \in DOMAIN index' : /\ DOMAIN index'[h] = {"type", "attrs", "size", "data"}
                                 /\ index'[h].type \in {"ordinary", "counter", "bits", "extend"} \cup Pins
                                 /\ index'[h].type \in Pins => index'[h].size = 2
    BY Zenon, <1>2, <1>3 DEF IndexInv, Shape
  <2> QED  BY ZenonT(40), <2>1, <2>2, <1>2 DEF IndexInv, Shape
<1>6. EntryInv(g)'
  <2>1. index'[g] = entry /\ locked'[g] = {}
    BY SMTT(60), <1>2, <1>4
  <2>3. "ORDERLY" \in t.attrs => ram'[g] = rentry /\ image'[g] = rentry
    BY Zenon, <1>2
  <2>4. "ORDERLY" \in t.attrs => Fits(g, ram[g])' /\ Current(g, ram[g])' /\ Fits(g, image[g])' /\ Current(g, image[g])'
    BY SMTT(60), <2>1, <2>3, <1>2, <1>3 DEF Fits, Current, PinsWrittenWhole
  <2>5. Fits(g, index[g])' /\ Current(g, index[g])'
    BY SMTT(60), <2>1, <1>2, <1>3 DEF Fits, Current, PinsWrittenWhole
  <2> QED  BY SMTT(60), <2>1, <2>4, <2>5 DEF EntryInv
<1>7. ASSUME NEW h \in DOMAIN index PROVE EntryInv(h)'
  <2>1. SameEntry(h)
    BY SMTT(60), <1>2, <1>4 DEF SameEntry
  <2> QED  BY Zenon, <2>1, SameEntryKeeps DEF IndexInv
<1> QED  BY SMTT(60), <1>2, <1>5, <1>6, <1>7 DEF IndexInv

\* Deleting indexes leaves the others alone.
LEMMA DeleteKeeps ==
    ASSUME IndexInv, NEW doomed \in SUBSET DOMAIN index, NEW at, running, running' = running,
           orderlyState' \in {orderlyState, "NONE"}, NvDeleteIndexes(doomed, at)
    PROVE  IndexInv'
<1> USE DEF IsOrderly
<1>1. /\ index' = [h \in DOMAIN index \ doomed |-> index[h]]
      /\ ram' = [h \in DOMAIN ram \ doomed |-> ram[h]]
      /\ latest' = [h \in DOMAIN latest \ doomed |-> latest[h]]
      /\ image' = IF doomed \cap DOMAIN ram = {} THEN image ELSE ram'
      /\ locked' = [h \in Indexes |-> IF h \in doomed THEN {} ELSE locked[h]]
      /\ budget' = [h \in Indexes |-> IF h \in doomed THEN 0 ELSE budget[h]]
  BY Zenon DEF NvDeleteIndexes, Restrict
<1>2. /\ DOMAIN ram = DOMAIN image /\ DOMAIN image = {h \in DOMAIN index : IsOrderly(h)}
      /\ DOMAIN index \subseteq Indexes /\ DOMAIN latest = DOMAIN index
  BY Zenon DEF IndexInv, Shape
<1>3. /\ DOMAIN index' = DOMAIN index \ doomed /\ DOMAIN ram' = DOMAIN ram \ doomed
      /\ \A h \in DOMAIN index' : index'[h] = index[h] /\ latest'[h] = latest[h]
      /\ DOMAIN image' = DOMAIN ram'
      /\ \A h \in DOMAIN ram' : ram'[h] = ram[h] /\ image'[h] \in {image[h], ram[h]}
  BY Zenon, <1>1, <1>2
<1>4. Shape'
  <2>1. /\ DOMAIN index' \subseteq Indexes /\ DOMAIN latest' = DOMAIN index'
        /\ DOMAIN image' = {h \in DOMAIN index' : IsOrderly(h)'} /\ DOMAIN ram' = DOMAIN image'
    BY Zenon, <1>1, <1>2, <1>3
  <2>2. /\ locked' \in [Indexes -> SUBSET {"WRITELOCKED", "READLOCKED"}]
        /\ budget' \in [Indexes -> Int]
        /\ \A h \in Indexes \ DOMAIN index' : locked'[h] = {}
    BY SMTT(60), <1>1, <1>3 DEF IndexInv, Shape
  <2>3. \A h \in DOMAIN index' : /\ DOMAIN index'[h] = {"type", "attrs", "size", "data"}
                                 /\ index'[h].type \in {"ordinary", "counter", "bits", "extend"} \cup Pins
                                 /\ index'[h].type \in Pins => index'[h].size = 2
    <3>1. \A h \in DOMAIN index : /\ DOMAIN index[h] = {"type", "attrs", "size", "data"}
                                  /\ index[h].type \in {"ordinary", "counter", "bits", "extend"} \cup Pins
                                  /\ index[h].type \in Pins => index[h].size = 2
      BY Zenon DEF IndexInv, Shape
    <3> QED  BY Zenon, <3>1, <1>3
  <2>4. \A h \in DOMAIN image' : DOMAIN image'[h] = {"attrs", "data"} /\ DOMAIN ram'[h] = {"attrs", "data"}
    <3>1. /\ \A h \in DOMAIN ram : DOMAIN ram[h] = {"attrs", "data"}
          /\ \A h \in DOMAIN image : DOMAIN image[h] = {"attrs", "data"}
      BY Zenon DEF IndexInv, Shape
    <3>2. DOMAIN image' \subseteq DOMAIN image
      BY <1>2, <1>3
    <3> QED  BY Zenon, <3>1, <3>2, <1>2, <1>3
  <2> QED  BY Zenon, <2>1, <2>2, <2>3, <2>4 DEF Shape
<1>5. ASSUME NEW h \in DOMAIN index' PROVE EntryInv(h)'
  <2>1. SameEntry(h)
    BY SMTT(60), <1>1, <1>2, <1>3 DEF SameEntry
  <2> QED  BY Zenon, <2>1, <1>3, SameEntryKeeps DEF IndexInv
<1> QED  BY Zenon, <1>4, <1>5 DEF IndexInv

LEMMA DeletingKeeps ==
    ASSUME IndexInv, Undefine \/ Flush
    PROVE  IndexInv'
<1>1. ASSUME NEW h \in Indexes, NEW auth \in Auths, NV_UndefineSpace(h, auth) PROVE IndexInv'
  <2>1. /\ running /\ h \in DOMAIN index /\ UNCHANGED <<orderlyState, running>>
        /\ NvDeleteIndexes({h}, [x \in {h} |-> Attrs(x)])
    BY <1>1 DEF NV_UndefineSpace, Accessible
  <2> QED  BY <2>1, DeleteKeeps
<1>2. ASSUME NEW h \in Indexes, NV_UndefineSpaceSpecial(h) PROVE IndexInv'
  <2>1. /\ running /\ h \in DOMAIN index /\ UNCHANGED <<orderlyState, running>>
        /\ NvDeleteIndexes({h}, [x \in {h} |-> Attrs(x)])
    BY <1>2 DEF NV_UndefineSpaceSpecial, Accessible
  <2> QED  BY Zenon, <2>1, DeleteKeeps
<1>3. ASSUME NEW hs, running, running' = running, orderlyState' = "NONE", NvFlushHierarchy(hs) PROVE IndexInv'
  <2> DEFINE doomed == {h \in DOMAIN index : "owner" \in hs /\ "PLATFORMCREATE" \notin index[h].attrs}
  <2>1. NvDeleteIndexes(doomed, [h \in DOMAIN index |-> index[h].attrs])
    BY ZenonT(40), <1>3 DEF NvFlushHierarchy
  <2>2. doomed \in SUBSET DOMAIN index
    OBVIOUS
  <2> HIDE DEF doomed
  <2> QED  BY <2>1, <2>2, <1>3, DeleteKeeps
<1>4. CASE Undefine
  BY <1>1, <1>2, <1>4 DEF Undefine
<1>5. CASE Flush
  BY ZenonT(40), <1>3, <1>5 DEF Flush, Clear, ChangePPS, ChangeEPS
<1> QED  BY <1>4, <1>5

-----------------------------------------------------------------------------
\* A write to index g of data d, where l is what it should then hold and b is
\* what it then leaves to a PIN.
LEMMA WriteKeeps ==
    ASSUME IndexInv, running, running' = running, locked' = locked,
           NEW g \in DOMAIN index, NEW d, NEW save, NEW l, NEW b \in Int,
           NvWriteIndexData(g, d, save),
           latest' = [latest EXCEPT ![g] = l], budget' = [budget EXCEPT ![g] = b],
           PinsWrittenWhole /\ ~IsCounter(g) => d = l,
           index[g].type \in Pins => d \in [1..2 -> Nat] /\ Left(d) <= b
    PROVE  IndexInv'
<1> USE DEF IsOrderly, IsCounter
<1>1. /\ DOMAIN ram = DOMAIN image /\ DOMAIN image = {h \in DOMAIN index : IsOrderly(h)}
      /\ DOMAIN index \subseteq Indexes /\ DOMAIN latest = DOMAIN index
      /\ g \in Indexes /\ budget \in [Indexes -> Int]
      /\ DOMAIN index[g] = {"type", "attrs", "size", "data"} /\ EntryInv(g)
  BY Zenon DEF IndexInv, Shape
<1>2. /\ DOMAIN latest' = DOMAIN index /\ latest'[g] = l /\ budget' \in [Indexes -> Int] /\ budget'[g] = b
      /\ \A h \in DOMAIN index \ {g} : latest'[h] = latest[h] /\ budget'[h] = budget[h]
  BY Zenon, <1>1
<1>3. CASE IsOrderly(g)
  <2> DEFINE e == [attrs |-> ram[g].attrs \cup {"WRITTEN"}, data |-> d]
  <2>1. /\ ram' = [ram EXCEPT ![g] = e] /\ image' \in {ram', image}
        /\ orderlyState' = "NONE" /\ index' = index
    BY Zenon, <1>3 DEF NvWriteIndexData, Attrs
  <2>2. /\ g \in DOMAIN ram /\ DOMAIN ram' = DOMAIN ram /\ DOMAIN image' = DOMAIN image
        /\ ram'[g] = e /\ \A h \in DOMAIN ram \ {g} : ram'[h] = ram[h]
    BY SMTT(60), <2>1, <1>1, <1>3
  <2>3. e.attrs = ram[g].attrs \cup {"WRITTEN"} /\ e.data = d /\ DOMAIN e = {"attrs", "data"}
    BY Zenon
  <2> HIDE DEF e
  <2>4. Shape'
    <3>1. \A h \in DOMAIN ram : DOMAIN ram'[h] = {"attrs", "data"} /\ DOMAIN image'[h] = {"attrs", "data"}
      BY Zenon, <2>1, <2>2, <2>3, <1>1 DEF IndexInv, Shape
    <3> QED  BY SMTT(60), <3>1, <2>1, <2>2, <1>1, <1>2 DEF IndexInv, Shape
  <2>5. Fits(g, ram[g])' /\ Current(g, ram[g])' /\ locked'[g] \subseteq ram'[g].attrs
    BY Zenon, <2>1, <2>2, <2>3, <1>1, <1>2, <1>3 DEF EntryInv, Fits, Current
  <2>6. Fits(g, image[g])'
    BY Zenon, <2>1, <2>2, <2>5, <1>1, <1>3 DEF EntryInv, Fits
  <2>7. EntryInv(g)'
    BY Zenon, <2>1, <2>5, <2>6, <1>3 DEF EntryInv
  <2>8. ASSUME NEW h \in DOMAIN index, h # g PROVE EntryInv(h)'
    <3>1. SameEntry(h)
      BY Zenon, <2>1, <2>2, <2>8, <1>1, <1>2 DEF SameEntry
    <3> QED  BY Zenon, <3>1, SameEntryKeeps DEF IndexInv
  <2> QED  BY <2>1, <2>4, <2>7, <2>8 DEF IndexInv
<1>4. CASE ~IsOrderly(g)
  <2>1. /\ index' = [index EXCEPT ![g].attrs = index[g].attrs \cup {"WRITTEN"}, ![g].data = d]
        /\ UNCHANGED <<ram, image, orderlyState>>
    BY SMTT(60), <1>4 DEF NvWriteIndexData, Attrs
  <2>2. /\ DOMAIN index' = DOMAIN index /\ DOMAIN index'[g] = DOMAIN index[g]
        /\ index'[g].type = index[g].type /\ index'[g].attrs = index[g].attrs \cup {"WRITTEN"}
        /\ index'[g].size = index[g].size /\ index'[g].data = d
        /\ \A h \in DOMAIN index \ {g} : index'[h] = index[h]
    BY ZenonT(40), <2>1, <1>1
  <2>3. Shape'
    <3>1. \A h \in DOMAIN index : ("ORDERLY" \in index'[h].attrs) <=> ("ORDERLY" \in index[h].attrs)
      BY <2>2, <1>4
    <3>2. DOMAIN image = {h \in DOMAIN index' : "ORDERLY" \in index'[h].attrs}
      BY Zenon, <3>1, <2>2, <1>1
    <3>3. \A h \in DOMAIN index' : /\ DOMAIN index'[h] = {"type", "attrs", "size", "data"}
                                   /\ index'[h].type \in {"ordinary", "counter", "bits", "extend"} \cup Pins
                                   /\ index'[h].type \in Pins => index'[h].size = 2
      BY ZenonT(40), <2>2, <1>1 DEF IndexInv, Shape
    <3> QED  BY ZenonT(40), <3>2, <3>3, <2>1, <2>2, <1>1, <1>2 DEF IndexInv, Shape
  <2>4. EntryInv(g)'
    <3>1. Fits(g, index[g]) /\ locked[g] \subseteq index[g].attrs
      BY Zenon, <1>1, <1>4 DEF EntryInv
    <3>2. Fits(g, index[g])'
      BY Zenon, <3>1, <2>2, <1>2, <1>4 DEF Fits
    <3>3. Current(g, index[g])'
      <4>1. /\ index'[g].data = d /\ latest'[g] = l /\ budget'[g] = b
            /\ index'[g].type = index[g].type
        BY Zenon, <2>2, <1>2
      <4> QED  BY ZenonT(40), <4>1 DEF Current, PinsWrittenWhole
    <3> QED  BY Zenon, <3>1, <3>2, <3>3, <2>2, <1>2, <1>4 DEF EntryInv
  <2>5. ASSUME NEW h \in DOMAIN index, h # g PROVE EntryInv(h)'
    <3>1. SameEntry(h)
      BY SMTT(60), <2>1, <2>2, <2>5, <1>1, <1>2 DEF SameEntry
    <3> QED  BY Zenon, <3>1, SameEntryKeeps DEF IndexInv
  <2> QED  BY ZenonT(40), <2>2, <2>3, <2>4, <2>5 DEF IndexInv
<1> QED  BY Zenon, <1>3, <1>4

\* NV_Write puts in place what the index should hold.
LEMMA NvWriteKeeps ==
    ASSUME IndexInv, NEW g \in Indexes, NEW first \in 0..MaxBytes, NEW last \in 0..MaxBytes,
           NEW v \in [first..last -> Bytes], NV_Write(g, first, last, v)
    PROVE  IndexInv'
<1> DEFINE base(d) == [i \in 1..index[g].size |-> IF i \in first..last THEN v[i] ELSE d[i]]
           zeros == Blank("ordinary", index[g].size)
           clean == IF Written(g) THEN latest[g] ELSE zeros
           d1 == base(Untouched(g))
           b1 == IF index[g].type \in Pins THEN Left(d1) ELSE budget[g]
<1>1. /\ running /\ g \in DOMAIN index /\ index[g].type \notin {"counter", "bits", "extend"}
      /\ "WRITEALL" \in Attrs(g) => first = 1 /\ last = index[g].size
      /\ NvWriteIndexData(g, d1, FALSE)
      /\ latest' = [latest EXCEPT ![g] = base(clean)]
      /\ budget' = IF index[g].type \in Pins THEN [budget EXCEPT ![g] = Left(d1)] ELSE budget
      /\ running' = running /\ locked' = locked
  BY ZenonT(40) DEF NV_Write, WriteAllowed, Accessible, unchangedByWrite
<1>2. budget \in [Indexes -> Int] /\ budget[g] \in Int
  BY Zenon DEF IndexInv, Shape
<1>3. ASSUME index[g].type \in Pins
      PROVE  d1 \in [1..2 -> Nat] /\ Left(d1) \in Int
  <2>1. Untouched(g) = Data(g) /\ Data(g) \in [1..2 -> Nat] /\ index[g].size = 2
    BY Zenon, <1>1, <1>3, ReadFacts DEF Untouched, Pins
  <2>2. \A i \in first..last : v[i] \in Nat
    BY ZenonT(40), NvAssumption
  <2>3. d1 \in [1..2 -> Nat]
    BY Zenon, <2>1, <2>2
  <2>4. d1[1] \in Nat /\ d1[2] \in Nat
    BY <2>3
  <2> HIDE DEF d1
  <2> QED  BY <2>3, <2>4 DEF Left, Larger
<1>4. ASSUME PinsWrittenWhole, ~IsCounter(g)
      PROVE  d1 = base(clean)
  <2>1. CASE Written(g)
    BY ZenonT(40), <2>1, <1>1, <1>4, ReadFacts DEF Untouched
  <2>2. CASE ~Written(g) /\ index[g].type = "ordinary"
    BY ZenonT(40), <2>2 DEF Untouched
  <2>3. CASE index[g].type \in Pins
    <3>1. first = 1 /\ last = index[g].size
      BY Zenon, <2>3, <1>1, <1>4, ReadFacts
    <3> QED  BY Zenon, <3>1
  <2>4. index[g].type \in {"ordinary"} \cup Pins
    BY Zenon, <1>1 DEF IndexInv, Shape
  <2> QED  BY Zenon, <2>1, <2>2, <2>3, <2>4
<1> HIDE DEF d1, clean, base
<1>5. b1 \in Int /\ budget' = [budget EXCEPT ![g] = b1]
  BY ZenonT(40), <1>1, <1>2, <1>3
<1>6. index[g].type \in Pins => d1 \in [1..2 -> Nat] /\ Left(d1) <= b1
  BY <1>3
<1> HIDE DEF b1
<1> QED  BY ZenonT(60), <1>1, <1>4, <1>5, <1>6, WriteKeeps

\* A use of a PIN takes one from what is left to it, or restores its limit.
LEMMA UsePinKeeps ==
    ASSUME IndexInv, NEW g \in Indexes, NEW success \in BOOLEAN, UsePin(g, success)
    PROVE  IndexInv'
<1> USE DEF IsCounter
<1> DEFINE isFail == index[g].type = "pinfail"
           counts == IF isFail THEN ~success ELSE success
           d == CASE counts -> [Data(g) EXCEPT ![1] = @ + 1]
                  [] ~counts /\ isFail -> [Data(g) EXCEPT ![1] = 0]
                  [] OTHER -> Data(g)
           b == IF counts THEN budget[g] - 1 ELSE IF isFail THEN d[2] ELSE budget[g]
<1>1. /\ running /\ g \in DOMAIN index /\ index[g].type \in Pins
      /\ Written(g) /\ Data(g)[1] < Data(g)[2]
      /\ IF counts \/ isFail THEN NvWriteIndexData(g, d, FALSE)
                            ELSE UNCHANGED <<index, ram, image, orderlyState>>
      /\ latest' = [latest EXCEPT ![g] = d]
      /\ budget' = [budget EXCEPT ![g] = b]
      /\ running' = running /\ locked' = locked
  BY ZenonT(40) DEF UsePin, Accessible, PinAvailable, unchangedByWrite
<1>2. /\ Data(g) \in [1..2 -> Nat] /\ Left(Data(g)) <= budget[g]
      /\ PinsWrittenWhole => Data(g) = latest[g]
  BY <1>1, ReadFacts DEF Pins
<1>3. budget[g] \in Int /\ Data(g)[1] \in Nat /\ Data(g)[2] \in Nat
      /\ Left(Data(g)) = Data(g)[2] - Data(g)[1]
  BY <1>1, <1>2 DEF IndexInv, Shape, Left, Larger
<1>4. CASE counts
  <2>1. d = [Data(g) EXCEPT ![1] = Data(g)[1] + 1] /\ b = budget[g] - 1
    BY ZenonT(40), <1>4
  <2>2. d \in [1..2 -> Nat] /\ d[1] = Data(g)[1] + 1 /\ d[2] = Data(g)[2]
    <3> HIDE DEF d, b, counts, isFail
    <3> QED  BY <2>1, <1>2, <1>3
  <2>3. b \in Int /\ Left(d) <= b
    <3> HIDE DEF d, b
    <3> QED  BY <2>1, <2>2, <1>1, <1>2, <1>3 DEF Left, Larger
  <2>4. NvWriteIndexData(g, d, FALSE)
    BY ZenonT(40), <1>1, <1>4
  <2> HIDE DEF d, b, counts, isFail
  <2> QED  BY ZenonT(60), <1>1, <2>2, <2>3, <2>4, WriteKeeps
<1>5. CASE ~counts /\ isFail
  <2>1. d = [Data(g) EXCEPT ![1] = 0] /\ b = d[2]
    BY ZenonT(40), <1>5
  <2>2. d \in [1..2 -> Nat] /\ d[1] = 0 /\ d[2] = Data(g)[2]
    <3> HIDE DEF d
    <3> QED  BY <2>1, <1>2, <1>3
  <2>3. b \in Int /\ Left(d) <= b
    <3> HIDE DEF d, b
    <3> QED  BY <2>1, <2>2, <1>3 DEF Left, Larger
  <2>4. NvWriteIndexData(g, d, FALSE)
    BY ZenonT(40), <1>1, <1>5
  <2> HIDE DEF d, b, counts, isFail
  <2> QED  BY ZenonT(60), <1>1, <2>2, <2>3, <2>4, WriteKeeps
<1>6. CASE ~counts /\ ~isFail
  <2>1. d = Data(g) /\ b = budget[g] /\ UNCHANGED <<index, ram, image, orderlyState>>
    BY ZenonT(40), <1>1, <1>6
  <2>2. /\ DOMAIN latest' = DOMAIN latest /\ budget' \in [Indexes -> Int]
        /\ \A h \in DOMAIN index : /\ budget'[h] = budget[h]
                                   /\ PinsWrittenWhole => latest'[h] = latest[h]
    <3> HIDE DEF d, b
    <3> QED  BY <2>1, <1>1, <1>2 DEF IndexInv, Shape
  <2>3. Shape'
    BY ZenonT(40), <2>1, <2>2, <1>1 DEF IndexInv, Shape, IsOrderly
  <2>4. ASSUME NEW h \in DOMAIN index PROVE EntryInv(h)'
    <3>1. SameEntry(h)
      BY ZenonT(40), <2>1, <2>2, <1>1 DEF SameEntry
    <3> QED  BY Zenon, <3>1, SameEntryKeeps DEF IndexInv
  <2> QED  BY <2>1, <2>3, <2>4 DEF IndexInv
<1> QED  BY ZenonT(40), <1>4, <1>5, <1>6

LEMMA UpdateKeeps ==
    ASSUME IndexInv, Update
    PROVE  IndexInv'
<1>1. ASSUME NEW g \in Indexes, NV_Increment(g) PROVE IndexInv'
  <2> DEFINE count == (IF Written(g) THEN Data(g) ELSE maxCounter) + 1
  <2>1. /\ running /\ g \in DOMAIN index /\ IsCounter(g) /\ index[g].type \notin Pins
        /\ NvWriteIndexData(g, count, RolledOver(count))
        /\ latest' = [latest EXCEPT ![g] = count]
        /\ running' = running /\ locked' = locked /\ budget' = budget
    BY Zenon, <1>1 DEF NV_Increment, WriteAllowed, Accessible, unchangedByWrite, IsCounter, Pins
  <2>2. budget[g] \in Int /\ budget' = [budget EXCEPT ![g] = budget[g]]
    BY <2>1 DEF IndexInv, Shape
  <2> HIDE DEF count
  <2> QED  BY ZenonT(40), <2>1, <2>2, WriteKeeps
<1>2. ASSUME NEW g \in Indexes, NEW v \in Bytes, NV_Extend(g, v) PROVE IndexInv'
  <2> DEFINE old == IF Written(g) THEN Data(g) ELSE <<>>
             expected == IF Written(g) THEN latest[g] ELSE <<>>
  <2>1. /\ running /\ g \in DOMAIN index /\ ~IsCounter(g) /\ index[g].type \notin Pins
        /\ NvWriteIndexData(g, Append(old, v), FALSE)
        /\ latest' = [latest EXCEPT ![g] = Append(expected, v)]
        /\ running' = running /\ locked' = locked /\ budget' = budget
    BY ZenonT(40), <1>2 DEF NV_Extend, WriteAllowed, Accessible, unchangedByWrite, IsCounter, Pins
  <2>2. budget[g] \in Int /\ budget' = [budget EXCEPT ![g] = budget[g]]
    BY Zenon, <2>1 DEF IndexInv, Shape
  <2>3. PinsWrittenWhole => old = expected
    BY <2>1, ReadFacts
  <2> HIDE DEF old, expected
  <2>4. PinsWrittenWhole => Append(old, v) = Append(expected, v)
    BY <2>3
  <2> QED  BY ZenonT(40), <2>1, <2>2, <2>4, WriteKeeps
<1>3. ASSUME NEW g \in Indexes, NEW bits \in SUBSET Bytes, NV_SetBits(g, bits) PROVE IndexInv'
  <2> DEFINE old == IF Written(g) THEN Data(g) ELSE {}
             expected == IF Written(g) THEN latest[g] ELSE {}
  <2>1. /\ running /\ g \in DOMAIN index /\ ~IsCounter(g) /\ index[g].type \notin Pins
        /\ NvWriteIndexData(g, old \cup bits, FALSE)
        /\ latest' = [latest EXCEPT ![g] = expected \cup bits]
        /\ running' = running /\ locked' = locked /\ budget' = budget
    BY ZenonT(40), <1>3 DEF NV_SetBits, WriteAllowed, Accessible, unchangedByWrite, IsCounter, Pins
  <2>2. budget[g] \in Int /\ budget' = [budget EXCEPT ![g] = budget[g]]
    BY Zenon, <2>1 DEF IndexInv, Shape
  <2>3. PinsWrittenWhole => old = expected
    BY <2>1, ReadFacts
  <2> HIDE DEF old, expected
  <2>4. PinsWrittenWhole => old \cup bits = expected \cup bits
    BY <2>3
  <2> QED  BY ZenonT(40), <2>1, <2>2, <2>4, WriteKeeps
<1>4. ASSUME NEW g \in Indexes, NEW first \in 0..MaxBytes, NEW last \in 0..MaxBytes,
             NEW v \in [first..last -> Bytes], NV_Write(g, first, last, v)
      PROVE  IndexInv'
  BY <1>4, NvWriteKeeps
<1>5. ASSUME NEW g \in Indexes, NEW success \in BOOLEAN, UsePin(g, success) PROVE IndexInv'
  BY <1>5, UsePinKeeps
<1> QED  BY <1>1, <1>2, <1>3, <1>4, <1>5 DEF Update

-----------------------------------------------------------------------------
\* TPM2_NV_WriteLock and TPM2_NV_ReadLock.
LEMMA AddLockKeeps ==
    ASSUME IndexInv, running, NEW g \in DOMAIN index, NEW lock \in {"WRITELOCKED", "READLOCKED"},
           NvWriteIndexAttributes(g, Attrs(g) \cup {lock}),
           locked' = [locked EXCEPT ![g] = @ \cup {lock}], UNCHANGED unchangedByLock
    PROVE  IndexInv'
<1> USE DEF IsOrderly
<1>1. /\ DOMAIN ram = DOMAIN image /\ DOMAIN image = {h \in DOMAIN index : IsOrderly(h)}
      /\ g \in Indexes /\ DOMAIN index[g] = {"type", "attrs", "size", "data"}
      /\ locked \in [Indexes -> SUBSET {"WRITELOCKED", "READLOCKED"}]
      /\ DOMAIN index \subseteq Indexes
      /\ \A h \in DOMAIN ram : DOMAIN ram[h] = {"attrs", "data"}
  BY DEF IndexInv, Shape
<1>2. UNCHANGED <<image, orderlyState, latest, budget, running>>
  BY DEF unchangedByLock
<1>3. /\ locked' \in [Indexes -> SUBSET {"WRITELOCKED", "READLOCKED"}]
      /\ locked'[g] = locked[g] \cup {lock} /\ \A h \in Indexes \ {g} : locked'[h] = locked[h]
  BY SMTT(60), <1>1
<1>4. CASE IsOrderly(g)
  <2>1. ram' = [ram EXCEPT ![g].attrs = ram[g].attrs \cup {lock}] /\ index' = index /\ g \in DOMAIN ram
    BY SMTT(60), <1>1, <1>4 DEF NvWriteIndexAttributes, Attrs
  <2>2. /\ DOMAIN ram' = DOMAIN ram /\ DOMAIN ram'[g] = {"attrs", "data"}
        /\ ram'[g].attrs = ram[g].attrs \cup {lock} /\ ram'[g].data = ram[g].data
        /\ \A h \in DOMAIN ram \ {g} : ram'[h] = ram[h]
    BY <2>1, <1>1
  <2>3. Shape'
    <3>1. \A h \in Indexes \ DOMAIN index : locked'[h] = {}
      BY <1>3 DEF IndexInv, Shape
    <3>2. \A h \in DOMAIN ram : DOMAIN ram'[h] = DOMAIN ram[h]
      BY ZenonT(40), <2>2, <1>1
    <3> QED  BY ZenonT(40), <3>1, <3>2, <2>1, <2>2, <1>2, <1>3, ShapeKeeps DEF IndexInv
  <2>4. EntryInv(g)'
    <3>1. locked'[g] \subseteq locked[g] \cup {lock} /\ {lock} \in SUBSET {"WRITELOCKED", "READLOCKED"}
      BY <1>3
    <3> QED  BY ZenonT(40), <3>1, <2>1, <2>2, <1>2, <1>4, LockedEntryKeeps DEF IndexInv
  <2>5. ASSUME NEW h \in DOMAIN index, h # g PROVE EntryInv(h)'
    <3>1. SameEntry(h)
      BY Zenon, <2>1, <2>2, <2>5, <1>1, <1>2, <1>3 DEF SameEntry
    <3> QED  BY Zenon, <3>1, SameEntryKeeps DEF IndexInv
  <2> QED  BY <2>1, <2>3, <2>4, <2>5 DEF IndexInv
<1>5. CASE ~IsOrderly(g)
  <2>1. index' = [index EXCEPT ![g].attrs = index[g].attrs \cup {lock}] /\ ram' = ram
    BY SMTT(60), <1>5 DEF NvWriteIndexAttributes, Attrs
  <2>2. /\ DOMAIN index' = DOMAIN index /\ DOMAIN index'[g] = DOMAIN index[g]
        /\ index'[g].type = index[g].type /\ index'[g].attrs = index[g].attrs \cup {lock}
        /\ index'[g].size = index[g].size /\ index'[g].data = index[g].data
        /\ \A h \in DOMAIN index \ {g} : index'[h] = index[h]
    BY <2>1, <1>1
  <2>3. Shape'
    <3>1. \A h \in DOMAIN index : ("ORDERLY" \in index'[h].attrs) <=> ("ORDERLY" \in index[h].attrs)
      BY <2>2, <1>5
    <3>2. \A h \in Indexes \ DOMAIN index : locked'[h] = {}
      BY <1>3 DEF IndexInv, Shape
    <3>3. \A h \in DOMAIN index : /\ DOMAIN index'[h] = DOMAIN index[h]
                                  /\ index'[h].type = index[h].type /\ index'[h].size = index[h].size
      BY <2>2
    <3> QED  BY ZenonT(40), <3>1, <3>2, <3>3, <2>1, <2>2, <1>2, <1>3, ShapeKeeps DEF IndexInv
  <2>4. EntryInv(g)'
    <3>1. locked'[g] \subseteq locked[g] \cup {lock} /\ {lock} \in SUBSET {"WRITELOCKED", "READLOCKED"}
      BY <1>3
    <3> QED  BY ZenonT(40), <3>1, <2>2, <1>2, <1>5, LockedEntryKeeps DEF IndexInv
  <2>5. ASSUME NEW h \in DOMAIN index, h # g PROVE EntryInv(h)'
    <3>1. SameEntry(h)
      BY Zenon, <2>1, <2>2, <2>5, <1>1, <1>2, <1>3 DEF SameEntry
    <3> QED  BY Zenon, <3>1, SameEntryKeeps DEF IndexInv
  <2> QED  BY Zenon, <2>2, <2>3, <2>4, <2>5 DEF IndexInv
<1> QED  BY Zenon, <1>4, <1>5

\* NvSetGlobalLock finds the indexes to lock by the attributes in use.
LEMMA GlobalLockKeeps ==
    ASSUME IndexInv, NV_GlobalWriteLock
    PROVE  IndexInv'
<1> USE DEF IsOrderly
<1> DEFINE lock(e) == IF "GLOBALLOCK" \in e.attrs
                      THEN [e EXCEPT !.attrs = @ \cup {"WRITELOCKED"}] ELSE e
           gained(a) == IF "GLOBALLOCK" \in a THEN {"WRITELOCKED"} ELSE {}
<1>1. /\ running /\ UNCHANGED <<image, orderlyState, latest, budget, running>>
      /\ index' = [h \in DOMAIN index |-> IF IsOrderly(h) THEN index[h] ELSE lock(index[h])]
      /\ ram' = [h \in DOMAIN ram |-> lock(ram[h])]
      /\ locked' = [h \in Indexes |->
                      IF h \in DOMAIN index /\ "GLOBALLOCK" \in index[h].attrs
                      THEN locked[h] \cup {"WRITELOCKED"} ELSE locked[h]]
  BY DEF NV_GlobalWriteLock, unchangedByLock
<1>2. ASSUME NEW e, "attrs" \in DOMAIN e
      PROVE  /\ DOMAIN lock(e) = DOMAIN e
             /\ \A f \in DOMAIN e \ {"attrs"} : lock(e)[f] = e[f]
             /\ lock(e).attrs = e.attrs \cup gained(e.attrs)
  BY <1>2
<1>3. /\ DOMAIN ram = DOMAIN image /\ DOMAIN image = {h \in DOMAIN index : IsOrderly(h)}
      /\ DOMAIN index \subseteq Indexes
      /\ \A h \in DOMAIN index : DOMAIN index[h] = {"type", "attrs", "size", "data"}
      /\ \A h \in DOMAIN ram : DOMAIN ram[h] = {"attrs", "data"}
  BY Zenon, <1>1 DEF IndexInv, Shape
<1> HIDE DEF lock
<1>4. /\ DOMAIN index' = DOMAIN index
      /\ \A h \in DOMAIN index :
            /\ DOMAIN index'[h] = DOMAIN index[h] /\ index'[h].type = index[h].type
            /\ index'[h].size = index[h].size /\ index'[h].data = index[h].data
            /\ IsOrderly(h) => index'[h] = index[h]
            /\ ~IsOrderly(h) => index'[h].attrs = index[h].attrs \cup gained(index[h].attrs)
  <2>1. index' = [h \in DOMAIN index |-> IF IsOrderly(h) THEN index[h] ELSE lock(index[h])]
    BY Zenon, <1>1
  <2>2. \A h \in DOMAIN index : DOMAIN index[h] = {"type", "attrs", "size", "data"}
    BY Zenon, <1>3
  <2> HIDE DEF gained
  <2> QED  BY <2>1, <2>2, <1>2
<1>5. /\ DOMAIN ram' = DOMAIN ram
      /\ \A h \in DOMAIN ram :
            /\ DOMAIN ram'[h] = DOMAIN ram[h] /\ ram'[h].data = ram[h].data
            /\ ram'[h].attrs = ram[h].attrs \cup gained(ram[h].attrs)
  <2>1. ram' = [h \in DOMAIN ram |-> lock(ram[h])]
    BY Zenon, <1>1
  <2>2. \A h \in DOMAIN ram : DOMAIN ram[h] = {"attrs", "data"}
    BY Zenon, <1>3
  <2> HIDE DEF gained
  <2> QED  BY <2>1, <2>2, <1>2
<1>6. Shape'
  <2>1. \A h \in DOMAIN index : ("ORDERLY" \in index'[h].attrs) <=> ("ORDERLY" \in index[h].attrs)
    <3>1. \A a : "ORDERLY" \notin gained(a)
      BY Zenon
    <3> HIDE DEF gained
    <3> QED  BY ZenonT(40), <3>1, <1>4
  <2>2. /\ locked' \in [Indexes -> SUBSET {"WRITELOCKED", "READLOCKED"}]
        /\ \A h \in Indexes \ DOMAIN index : locked'[h] = {}
    BY SMTT(60), <1>1 DEF IndexInv, Shape
  <2> QED  BY ZenonT(40), <2>1, <2>2, <1>1, <1>4, <1>5, ShapeKeeps DEF IndexInv
<1>7. ASSUME NEW h \in DOMAIN index PROVE EntryInv(h)'
  <2>0. EntryInv(h) /\ h \in Indexes
    BY Zenon, <1>3 DEF IndexInv
  <2>1. locked'[h] = locked[h] \cup gained(index[h].attrs)
    BY SMTT(60), <1>1, <2>0
  <2>2. CASE IsOrderly(h)
    <3>1. gained(index[h].attrs) \subseteq gained(ram[h].attrs)
      <4>1. "GLOBALLOCK" \in index[h].attrs => "GLOBALLOCK" \in ram[h].attrs
        BY Zenon, <2>0, <2>2, <1>1 DEF EntryInv, Fits
      <4> QED  BY Zenon, <4>1
    <3>2. gained(ram[h].attrs) \in SUBSET {"WRITELOCKED", "READLOCKED"}
      OBVIOUS
    <3>3. h \in DOMAIN ram
      BY Zenon, <2>2, <1>3
    <3> HIDE DEF gained
    <3>4. /\ index'[h] = index[h] /\ ram'[h].data = ram[h].data
          /\ ram'[h].attrs = ram[h].attrs \cup gained(ram[h].attrs)
          /\ locked'[h] \subseteq locked[h] \cup gained(ram[h].attrs)
      BY SMTT(60), <2>1, <2>2, <3>1, <3>3, <1>4, <1>5
    <3> QED  BY ZenonT(40), <2>0, <2>2, <3>2, <3>4, <1>1, LockedEntryKeeps
  <2>3. CASE ~IsOrderly(h)
    <3>2. gained(index[h].attrs) \in SUBSET {"WRITELOCKED", "READLOCKED"}
      OBVIOUS
    <3> HIDE DEF gained
    <3>3. locked'[h] \subseteq locked[h] \cup gained(index[h].attrs)
      BY <2>1
    <3> QED  BY ZenonT(40), <2>0, <2>3, <3>2, <3>3, <1>1, <1>4, LockedEntryKeeps
  <2> QED  BY <2>2, <2>3
<1> QED  BY <1>4, <1>6, <1>7 DEF IndexInv

LEMMA LockKeeps ==
    ASSUME IndexInv, Lock
    PROVE  IndexInv'
<1>1. ASSUME NEW h \in Indexes, NV_WriteLock(h) \/ NV_ReadLock(h)
      PROVE  IndexInv'
  BY Zenon, <1>1, AddLockKeeps DEF NV_WriteLock, NV_ReadLock, WriteAllowed, Accessible
<1> QED  BY Zenon, <1>1, GlobalLockKeeps DEF Lock

-----------------------------------------------------------------------------
\* An orderly index comes back from the copy of the RAM, which is up to date if
\* its contents survive; any other index is still in NV.
LEMMA StartupKeeps ==
    ASSUME IndexInv, NEW type \in {"CLEAR", "STATE"}, Startup(type)
    PROVE  IndexInv'
<1> USE DEF IsOrderly, IsCounter
<1> DEFINE kind == StartupKind(type)
           attrsOf(h) == IF IsOrderly(h) THEN ram'[h].attrs ELSE index'[h].attrs
<1>1. /\ ~running /\ running' /\ (kind = "RESUME" => orderlyState = "STATE")
      /\ (kind # "RESET" => orderlyState = "STATE") /\ kind \in {"RESUME", "RESTART", "RESET"}
      /\ ram' = OrderlyAtStartup(kind) /\ index' = OthersAtStartup(kind)
      /\ orderlyState' = "NONE" /\ UNCHANGED <<image, latest, budget>>
      /\ DOMAIN locked' = Indexes
      /\ \A h \in DOMAIN locked' :
            locked'[h] = CASE h \notin DOMAIN index -> {}
                           [] h \in DOMAIN index /\ kind = "RESUME" -> KeptLocks(h)
                           [] OTHER -> StillLocked(h, attrsOf(h))
  BY Zenon DEF Startup, StartupKind
<1> HIDE DEF kind
<1>2. /\ DOMAIN image = {h \in DOMAIN index : IsOrderly(h)} /\ DOMAIN index \subseteq Indexes
      /\ locked \in [Indexes -> SUBSET {"WRITELOCKED", "READLOCKED"}]
      /\ \A h \in DOMAIN index : EntryInv(h) /\ DOMAIN index[h] = {"type", "attrs", "size", "data"}
      /\ \A h \in DOMAIN image : DOMAIN image[h] = {"attrs", "data"}
  BY Zenon DEF IndexInv, Shape
<1> DEFINE lifted(h, attrs) == IF kind = "RESUME" THEN attrs
                               ELSE NvSetStartupAttributes(index[h].type, attrs, kind)
<1>3. /\ DOMAIN ram' = DOMAIN image
      /\ \A h \in DOMAIN image :
            /\ DOMAIN ram'[h] = {"attrs", "data"} /\ ram'[h].attrs = lifted(h, image[h].attrs)
            /\ ~IsCounter(h) => ram'[h].data = image[h].data
  <2> DEFINE data(h) == IF IsCounter(h) /\ orderlyState = "NONE" THEN OrMask(image[h].data) ELSE image[h].data
  <2>1. ram' = [h \in DOMAIN image |->
                  IF kind = "RESUME" THEN image[h]
                  ELSE [attrs |-> NvSetStartupAttributes(index[h].type, image[h].attrs, kind), data |-> data(h)]]
    BY ZenonT(40), <1>1 DEF OrderlyAtStartup
  <2>2. \A h \in DOMAIN image : ~IsCounter(h) => data(h) = image[h].data
    OBVIOUS
  <2> HIDE DEF data
  <2>3. CASE kind = "RESUME"
    BY Zenon, <2>1, <2>3, <1>2
  <2>4. CASE kind # "RESUME"
    <3>1. \A h \in DOMAIN image : /\ DOMAIN ram'[h] = {"attrs", "data"} /\ ram'[h].data = data(h)
                                  /\ ram'[h].attrs = NvSetStartupAttributes(index[h].type, image[h].attrs, kind)
      BY <2>1, <2>4
    <3> QED  BY Zenon, <3>1, <2>1, <2>2, <2>4
  <2> QED  BY Zenon, <2>3, <2>4
<1>4. /\ DOMAIN index' = DOMAIN index
      /\ \A h \in DOMAIN index :
            /\ DOMAIN index'[h] = DOMAIN index[h] /\ index'[h].type = index[h].type
            /\ index'[h].size = index[h].size /\ index'[h].data = index[h].data
            /\ IsOrderly(h) => index'[h] = index[h]
            /\ ~IsOrderly(h) => index'[h].attrs = lifted(h, index[h].attrs)
  BY Zenon, <1>1, <1>2 DEF OthersAtStartup
<1>5. ASSUME NEW h, NEW attrs
      PROVE  /\ lifted(h, attrs) \subseteq attrs
             /\ attrs \ {"WRITTEN", "WRITELOCKED", "READLOCKED"} \subseteq lifted(h, attrs)
             /\ index[h].type # "counter" /\ "ORDERLY" \in attrs /\ kind = "RESET" =>
                   "WRITTEN" \notin lifted(h, attrs)
             /\ {"WRITTEN", "WRITEDEFINE"} \subseteq lifted(h, attrs) /\ "WRITELOCKED" \in attrs =>
                   "WRITELOCKED" \in lifted(h, attrs)
  BY StartupAttrs
<1>6. ASSUME NEW h \in DOMAIN index, NEW attrs, attrsOf(h) = lifted(h, attrs), KeptLocks(h) \subseteq attrs
      PROVE  locked'[h] \subseteq attrsOf(h) /\ locked'[h] \in SUBSET {"WRITELOCKED", "READLOCKED"}
  <2>1. h \in Indexes /\ KeptLocks(h) \subseteq {"WRITELOCKED", "READLOCKED"}
    BY SMTT(60), <1>2 DEF KeptLocks
  <2>2. locked'[h] = IF kind = "RESUME" THEN KeptLocks(h) ELSE StillLocked(h, attrsOf(h))
    <3> HIDE DEF attrsOf
    <3> QED  BY Zenon, <2>1, <1>1
  <2>3. CASE kind = "RESUME"
    BY Zenon, <2>1, <2>2, <2>3, <1>6
  <2>4. CASE kind # "RESUME"
    <3> HIDE DEF attrsOf, lifted
    <3>1. StillLocked(h, attrsOf(h)) \subseteq attrsOf(h)
      BY SMTT(60), <2>1, <1>5, <1>6 DEF StillLocked
    <3>2. StillLocked(h, attrsOf(h)) \subseteq KeptLocks(h)
      BY DEF StillLocked
    <3> QED  BY Zenon, <3>1, <3>2, <2>1, <2>2, <2>4
  <2> QED  BY Zenon, <2>3, <2>4
<1> HIDE DEF lifted
<1>7. ASSUME NEW h \in DOMAIN index, IsOrderly(h)
      PROVE  EntryInv(h)' /\ locked'[h] \in SUBSET {"WRITELOCKED", "READLOCKED"}
  <2>1. h \in DOMAIN image /\ index'[h] = index[h] /\ ram'[h].attrs = lifted(h, image[h].attrs)
        /\ (~IsCounter(h) => ram'[h].data = image[h].data)
    BY Zenon, <1>2, <1>3, <1>4, <1>7
  <2>2. locked'[h] \subseteq ram'[h].attrs /\ locked'[h] \in SUBSET {"WRITELOCKED", "READLOCKED"}
    <3>1. attrsOf(h) = ram'[h].attrs /\ KeptLocks(h) \subseteq image[h].attrs
      BY Zenon, <1>7 DEF KeptLocks
    <3> HIDE DEF attrsOf
    <3> QED  BY <3>1, <2>1, <1>6
  <2>3. Fits(h, image[h]) /\ (orderlyState = "STATE" => Current(h, image[h]))
    BY <1>2, <1>7 DEF EntryInv
  <2>4. Fits(h, image[h])'
    BY SMTT(60), <2>1, <2>3, <1>1 DEF Fits
  <2>5. Fits(h, ram[h])'
    <3>1. \A a : a \in image[h].attrs /\ a \notin {"WRITTEN", "WRITELOCKED", "READLOCKED"} => a \in ram'[h].attrs
      BY SMTT(60), <2>1, <1>5
    <3>2. index[h].type \in Pins => ~IsCounter(h)
      BY DEF Pins
    <3> QED  BY Zenon, <3>1, <3>2, <2>1, <2>3, <1>1 DEF Fits
  <2>6. Current(h, ram[h])'
    <3>1. "WRITTEN" \in ram'[h].attrs => "WRITTEN" \in image[h].attrs
      BY SMTT(60), <2>1, <1>5
    <3>2. index[h].type \in Pins => ~IsCounter(h)
      BY DEF Pins
    <3>3. CASE orderlyState = "STATE"
      BY Zenon, <3>1, <3>2, <3>3, <2>1, <2>3, <1>1 DEF Current
    <3>4. CASE orderlyState # "STATE"
      <4>1. kind = "RESET" /\ "ORDERLY" \in image[h].attrs
        BY Zenon, <3>4, <2>3, <1>1, <1>7 DEF Fits
      <4>2. IsCounter(h) \/ "WRITTEN" \notin ram'[h].attrs
        BY SMTT(60), <4>1, <2>1, <1>5
      <4> QED  BY SMTT(60), <4>2, <3>2, <2>1 DEF Current
    <3> QED  BY Zenon, <3>3, <3>4
  <2> QED  BY Zenon, <2>1, <2>2, <2>4, <2>5, <2>6, <1>1, <1>7 DEF EntryInv
<1>8. ASSUME NEW h \in DOMAIN index, ~IsOrderly(h)
      PROVE  EntryInv(h)' /\ ~IsOrderly(h)' /\ locked'[h] \in SUBSET {"WRITELOCKED", "READLOCKED"}
  <2>1. /\ index'[h].attrs = lifted(h, index[h].attrs) /\ index'[h].type = index[h].type
        /\ index'[h].data = index[h].data
    BY Zenon, <1>4, <1>8
  <2>2. Fits(h, index[h]) /\ Current(h, index[h]) /\ locked[h] \subseteq index[h].attrs
    BY Zenon, <1>2, <1>8 DEF EntryInv
  <2>3. locked'[h] \subseteq index'[h].attrs /\ locked'[h] \in SUBSET {"WRITELOCKED", "READLOCKED"}
    <3>1. attrsOf(h) = index'[h].attrs /\ KeptLocks(h) \subseteq index[h].attrs
      BY Zenon, <1>8, <2>2 DEF KeptLocks
    <3> HIDE DEF attrsOf
    <3> QED  BY Zenon, <3>1, <2>1, <1>6
  <2>4. /\ \A a : a \in index[h].attrs /\ a \notin {"WRITTEN", "WRITELOCKED", "READLOCKED"} => a \in index'[h].attrs
        /\ \A a : a \in index'[h].attrs => a \in index[h].attrs
    BY SMTT(60), <2>1, <1>5
  <2>5. ~IsOrderly(h)'
    BY <2>4, <1>8
  <2>6. Fits(h, index[h])' /\ Current(h, index[h])'
    BY SMTT(60), <2>1, <2>2, <2>4, <2>5, <1>1 DEF Fits, Current
  <2> QED  BY Zenon, <2>3, <2>5, <2>6 DEF EntryInv
<1>9. Shape'
  <2>1. \A h \in DOMAIN index : ("ORDERLY" \in index'[h].attrs) <=> ("ORDERLY" \in index[h].attrs)
    BY Zenon, <1>4, <1>8
  <2>2. DOMAIN image = {h \in DOMAIN index' : "ORDERLY" \in index'[h].attrs}
    BY <2>1, <1>2, <1>4
  <2>3. \A h \in Indexes \ DOMAIN index : locked'[h] = {}
    BY Zenon, <1>1
  <2>4. \A h \in Indexes : locked'[h] \in SUBSET {"WRITELOCKED", "READLOCKED"}
    BY <2>3, <1>7, <1>8
  <2>5. locked' \in [Indexes -> SUBSET {"WRITELOCKED", "READLOCKED"}]
    <3>1. locked' = [h \in Indexes |-> locked'[h]]
      BY Zenon DEF Startup
    <3> QED  BY <3>1, <2>4
  <2>6. \A h \in DOMAIN index' : /\ DOMAIN index'[h] = {"type", "attrs", "size", "data"}
                                 /\ index'[h].type \in {"ordinary", "counter", "bits", "extend"} \cup Pins
                                 /\ index'[h].type \in Pins => index'[h].size = 2
    BY SMTT(60), <1>4 DEF IndexInv, Shape
  <2>7. /\ image' = image /\ DOMAIN ram' = DOMAIN image' /\ DOMAIN index' = DOMAIN index
        /\ DOMAIN index' \subseteq Indexes /\ DOMAIN latest' = DOMAIN index'
        /\ budget' \in [Indexes -> Int]
        /\ \A h \in DOMAIN image' : DOMAIN image'[h] = {"attrs", "data"} /\ DOMAIN ram'[h] = {"attrs", "data"}
    BY ZenonT(40), <1>1, <1>2, <1>3, <1>4 DEF IndexInv, Shape
  <2> QED  BY ZenonT(40), <2>2, <2>3, <2>5, <2>6, <2>7 DEF Shape
<1> QED  BY ZenonT(40), <1>4, <1>7, <1>8, <1>9 DEF IndexInv

-----------------------------------------------------------------------------
\* The invariant of the contents: the list entry of an index, or its RAM, has
\* the contents, the locks and the PIN count it should have; the copy of the RAM
\* has the contents as long as a startup would use them (NvDynamic.c).
THEOREM IndexInvariant == Spec => []IndexInv
<1>1. Init => IndexInv
  BY IndexInit
<1>2. IndexInv /\ [Next]_vars => IndexInv'
  <2> SUFFICES ASSUME IndexInv, [Next]_vars PROVE IndexInv'
    OBVIOUS
  <2>1. CASE Persist \/ Control \/ UNCHANGED vars
    BY <2>1, QuietKeeps
  <2>2. CASE Define
    BY <2>2, DefineKeeps
  <2>3. CASE Undefine \/ Flush
    BY <2>3, DeletingKeeps
  <2>4. CASE Update
    BY <2>4, UpdateKeeps
  <2>5. CASE Lock
    BY <2>5, LockKeeps
  <2>6. CASE Power
    BY <2>6, QuietKeeps, StartupKeeps DEF Power
  <2> QED  BY <2>1, <2>2, <2>3, <2>4, <2>5, <2>6 DEF Next
<1> QED  BY <1>1, <1>2, PTL DEF Spec

\* A lock that was taken is in force until it is due to be lifted, whatever is
\* written, locked, defined, deleted, lost with the power or restored
\* (NvWriteIndexAttributes, NvSetGlobalLock, NvSetStartupAttributes).
THEOREM LocksAreKept == Spec => []LocksHold
<1>1. IndexInv => LocksHold
  BY Zenon, ReadFacts DEF LocksHold
<1> QED  BY <1>1, IndexInvariant, PTL

\* The uses that a PIN index allows never exceed those granted less those made,
\* though the count may be in RAM and power lost at any time (CheckAuthSession,
\* NvWriteIndexData).
THEOREM PinUsesAreBounded == Spec => []PinWithinBudget
<1>1. IndexInv => PinWithinBudget
  BY ReadFacts DEF PinWithinBudget
<1> QED  BY <1>1, IndexInvariant, PTL

\* An index that can be read holds what was written to it and zeros elsewhere,
\* if PIN indexes are only written as a whole (NV_Write, NvEntityStartup).
THEOREM ContentsAreKept == PinsWrittenWhole /\ Spec => []ContentsAsWritten
<1> SUFFICES ASSUME PinsWrittenWhole PROVE Spec => []ContentsAsWritten
  BY Zenon
<1>1. IndexInv => ContentsAsWritten
  BY Zenon, ReadFacts DEF ContentsAsWritten
<1> QED  BY <1>1, IndexInvariant, PTL

\* The invariant of the counters: the entry of a counter, the orderly RAM, its
\* copy and the count in the end marker never lose a value that was shown,
\* whichever of them survives (NvDynamic.c).
THEOREM CountersInvariant == OrderlyIsPlatform /\ Spec => [](TypeOK /\ CounterInv)
<1> SUFFICES ASSUME OrderlyIsPlatform PROVE Spec => [](TypeOK /\ CounterInv)
  OBVIOUS
<1>1. Init => RestOK /\ CounterInv
  <2>1. Init => RestOK
    BY SMTT(60) DEF Init, RestOK, Gc
  <2> QED  BY SMTT(60), <2>1, CounterInit
<1>2. IndexInv /\ RestOK /\ CounterInv /\ [Next]_vars => RestOK' /\ CounterInv'
  BY ZenonT(40), RestStep, CounterStep DEF IndexInv
<1>3. IndexInv /\ RestOK /\ CounterInv => TypeOK
  BY SMTT(60) DEF IndexInv, Shape, RestOK, CounterInv, MarksOK, CountValue, TypeOK
<1>4. Spec => []IndexInv
  BY SMTT(60), IndexInvariant
<1> QED  BY <1>1, <1>2, <1>3, <1>4, PTL DEF Spec

\* The next value of an NV counter exceeds every value shown before, through
\* deletion, redefinition, lost power and resume (NV_Increment, NvDeleteIndex,
\* NvEntityStartup).
THEOREM NoCounterRollsBack == OrderlyIsPlatform /\ Spec => []CounterNeverRollsBack
<1> SUFFICES ASSUME OrderlyIsPlatform PROVE Spec => []CounterNeverRollsBack
  OBVIOUS
<1>1. IndexInv /\ CounterInv => CounterNeverRollsBack
  BY Zenon, CountersShown DEF IndexInv
<1>2. Spec => []IndexInv
  BY SMTT(60), IndexInvariant
<1>3. Spec => []CounterInv
  BY CountersInvariant, PTL
<1> QED  BY <1>1, <1>2, <1>3, PTL
=============================================================================
