----------------------------- MODULE NvStorage -----------------------------
(***************************************************************************)
(* User NV storage of the TPM reference code: NV indexes and persistent    *)
(* objects (subsystem/NvDynamic.c), the TPM2_NV_* commands, EvictControl,  *)
(* and what becomes of them at Clear, Shutdown, power loss and Startup.    *)
(*                                                                         *)
(* An index is an entry of the list in NV.  The data and the attributes of *)
(* an orderly index live in RAM (ram) and are copied to NV as a whole      *)
(* (image); the copy of the attributes in its list entry is the one it was *)
(* defined with.  A command is atomic: NvCommit is its last step.          *)
(***************************************************************************)
EXTENDS Integers, Sequences, FiniteSetsExt, Functions

CONSTANTS Indexes,        \* handles of NV indexes
          Objects,        \* handles of persistent objects
          PlatformObjects,\* those in the platform's range
          Templates,      \* what NV_DefineSpace may be asked for
          Bytes,          \* values of a byte, 0 among them
          MAX_ORDERLY,    \* MAX_ORDERLY_COUNT + 1
          IndexSize, ObjectSize, LinkSize, EndSize, CounterSize,
          NvSize,         \* bytes for the list of entries
          RamHeader, RamSize,
          MIN_EVICT, MIN_COUNTER,
          Controls,       \* hierarchies HierarchyControl is used on
          MaxCount,       \* bound on counters
          MaxExtend,      \* bound on the values extended into an index
          MaxBytes        \* bound on the size of an index

ASSUME NvAssumption ==
    /\ MAX_ORDERLY \in Nat \ {0} /\ MaxCount \in Nat /\ MAX_ORDERLY <= MaxCount + 1
    /\ 0 \in Bytes /\ Bytes \subseteq Nat /\ Controls \subseteq {"sh", "eh", "phNV", "ph"}
    /\ \A t \in Templates : t.type \in {"ordinary", "counter", "bits", "extend",
                                        "pinfail", "pinpass"}
    /\ \A t \in Templates : t.type \in {"pinfail", "pinpass"} => t.size = 2

VARIABLES index,        \* NV: entries of the list that are indexes
          objects,      \* NV: entries that are objects, with their hierarchy
          image,        \* NV: copy of the orderly RAM
          endMark,      \* NV: the count in the end-of-list marker
          orderlyState, \* NV: gp.orderlyState
          savedGc,      \* NV: copy of the enables in gc
          ram,          \* s_indexOrderlyRam
          maxCounter,   \* s_maxCounter
          enabled,      \* g_phEnable and the enables in gc
          running,      \* TPM2_Startup was executed
          peak,         \* history: the largest value a counter of a handle had
          latest,       \* history: what was written to an index
          locked,       \* history: locks taken and not due to be lifted
          budget        \* history: uses left to the PIN of an index

nvState == <<index, objects, image, endMark, orderlyState, savedGc>>
ramState == <<ram, maxCounter, enabled, running>>
history == <<peak, latest, locked, budget>>
vars == <<nvState, ramState, history>>

Larger(x, y) == IF x > y THEN x ELSE y
Gc == {"sh", "eh", "phNV"}
Pins == {"pinfail", "pinpass"}

-----------------------------------------------------------------------------
(* NvGetIndexInfo and NvGetIndexData.                                      *)
IsOrderly(h) == "ORDERLY" \in index[h].attrs
Attrs(h) == IF IsOrderly(h) THEN ram[h].attrs ELSE index[h].attrs
Data(h) == IF IsOrderly(h) THEN ram[h].data ELSE index[h].data
Written(h) == "WRITTEN" \in Attrs(h)
IsCounter(h) == index[h].type = "counter"

Blank(type, size) ==
    CASE type = "counter" -> 0
      [] type = "bits"    -> {}
      [] type = "extend"  -> <<>>
      [] OTHER            -> [i \in 1..size |-> 0]

\* counter |= MAX_ORDERLY_COUNT
OrMask(c) == (c \div MAX_ORDERLY) * MAX_ORDERLY + (MAX_ORDERLY - 1)

\* NvIndexIsAccessible
Accessible(h) ==
    /\ h \in DOMAIN index
    /\ IF "PLATFORMCREATE" \in index[h].attrs THEN "phNV" \in enabled ELSE "sh" \in enabled

\* The hierarchy of an authorization is enabled.
AuthEnabled(auth) ==
    /\ auth = "OWNER" => "sh" \in enabled
    /\ auth = "PLATFORM" => "ph" \in enabled

\* NvWriteAccessChecks, for an index that is not locked.  The index itself
\* authorises with its authValue or its policy (IsAuthValueAvailable and
\* IsAuthPolicyAvailable).
MayWrite(h, auth) ==
    /\ AuthEnabled(auth)
    /\ CASE auth = "OWNER"    -> "OWNERWRITE" \in Attrs(h)
         [] auth = "PLATFORM" -> "PPWRITE" \in Attrs(h)
         [] auth = "INDEX"    -> Attrs(h) \cap {"AUTHWRITE", "POLICYWRITE"} # {}

\* NvReadAccessChecks, for an index that is not locked.
MayRead(h, auth) ==
    /\ AuthEnabled(auth)
    /\ CASE auth = "OWNER"    -> "OWNERREAD" \in Attrs(h)
         [] auth = "PLATFORM" -> "PPREAD" \in Attrs(h)
         [] auth = "INDEX"    -> Attrs(h) \cap {"AUTHREAD", "POLICYREAD"} # {}

Auths == {"OWNER", "PLATFORM", "INDEX"}

\* A command that writes to an index may go ahead.
WriteAllowed(h) ==
    /\ running /\ Accessible(h)
    /\ "WRITELOCKED" \notin Attrs(h)
    /\ \E auth \in Auths : MayWrite(h, auth)

-----------------------------------------------------------------------------
(* Space.                                                                  *)
EntrySize(h) == LinkSize + IndexSize + (IF IsOrderly(h) THEN 0 ELSE index[h].size)

NvGetFreeBytes ==
    NvSize - MapThenSumSet(EntrySize, DOMAIN index)
           - Cardinality(DOMAIN objects) * (LinkSize + ObjectSize)

NvCapGetCounterNumber == Cardinality({h \in DOMAIN index : IsCounter(h)})

Shortfall(min, n) == IF n < min THEN min - n ELSE 0

NvTestSpace(size, isIndex, isCounter) ==
    LET evicts == IF isIndex THEN Shortfall(MIN_EVICT, Cardinality(DOMAIN objects)) ELSE 0
        counters == IF isIndex /\ isCounter THEN 0
                    ELSE Shortfall(MIN_COUNTER, NvCapGetCounterNumber)
        reserved == LinkSize + EndSize + evicts * (LinkSize + ObjectSize)
                    + counters * (LinkSize + IndexSize + CounterSize)
    IN  reserved < NvGetFreeBytes /\ size + reserved <= NvGetFreeBytes

NvRamTestSpaceIndex(size) ==
    LET entry(h) == RamHeader + index[h].size
    IN  RamSize - MapThenSumSet(entry, DOMAIN ram) >= RamHeader + size

-----------------------------------------------------------------------------
(* Defining and deleting.                                                  *)
\* NV_DefineSpace: the attributes agree with each other and with the creator.
ConsistentTemplate(t, auth) ==
    /\ t.type = "counter" => "CLEAR_STCLEAR" \notin t.attrs
    /\ t.type = "pinfail" => "NO_DA" \in t.attrs
    /\ t.type \in Pins => t.attrs \cap {"AUTHWRITE", "GLOBALLOCK", "WRITEDEFINE"} = {}
    /\ t.attrs \cap {"WRITTEN", "WRITELOCKED", "READLOCKED"} = {}
    /\ t.attrs \cap {"OWNERREAD", "PPREAD", "AUTHREAD", "POLICYREAD"} # {}
    /\ t.attrs \cap {"OWNERWRITE", "PPWRITE", "AUTHWRITE", "POLICYWRITE"} # {}
    /\ ~ {"CLEAR_STCLEAR", "WRITEDEFINE"} \subseteq t.attrs
    /\ ("PLATFORMCREATE" \in t.attrs) <=> (auth = "PLATFORM")
    /\ "POLICY_DELETE" \in t.attrs => auth = "PLATFORM"

\* NvDefineIndex, NvAdd and NvAddRAM.
NvDefineIndex(h, t) ==
    LET entry == [type |-> t.type, attrs |-> t.attrs, size |-> t.size,
                  data |-> Blank(t.type, t.size)]
    IN  /\ index' = [x \in DOMAIN index \cup {h} |-> IF x = h THEN entry ELSE index[x]]
        /\ endMark' = maxCounter
        /\ IF "ORDERLY" \in t.attrs
           THEN /\ ram' = [x \in DOMAIN ram \cup {h} |->
                             IF x = h THEN [attrs |-> t.attrs, data |-> entry.data]
                                      ELSE ram[x]]
                /\ image' = ram'
           ELSE UNCHANGED <<ram, image>>
        /\ latest' = [x \in DOMAIN index \cup {h} |->
                        IF x = h THEN entry.data ELSE latest[x]]

NV_DefineSpace(h, t, auth) ==
    /\ running /\ AuthEnabled(auth)
    /\ auth = "PLATFORM" => "phNV" \in enabled
    /\ ConsistentTemplate(t, auth)
    /\ h \notin DOMAIN index
    /\ NvTestSpace(IndexSize + (IF "ORDERLY" \in t.attrs THEN 0 ELSE t.size),
                   TRUE, t.type = "counter")
    /\ "ORDERLY" \in t.attrs => NvRamTestSpaceIndex(t.size)
    /\ NvDefineIndex(h, t)
    /\ UNCHANGED <<objects, orderlyState, savedGc, maxCounter, enabled, running,
                   peak, locked, budget>>

\* Mutant of DeletedMax: the value of a deleted counter is forgotten.
DeletedMaxForgets(doomed, at) == {maxCounter}

\* NvUpdateMaxCount for the counters that are deleted: the largest of their
\* values and maxCounter; at says which attributes of an index are looked at.
DeletedMax(doomed, at) ==
    LET values == {maxCounter}
                  \cup {Data(h) : h \in {x \in doomed : IsCounter(x) /\ "WRITTEN" \in at[x]}}
    IN  {m \in values : \A v \in values : v <= m}

\* NvDeleteIndex, NvDelete and NvDeleteRAM.
NvDeleteIndexes(doomed, at) ==
    /\ maxCounter' \in DeletedMax(doomed, at)
    /\ endMark' = IF doomed = {} THEN endMark ELSE maxCounter'
    /\ index' = Restrict(index, DOMAIN index \ doomed)
    /\ ram' = Restrict(ram, DOMAIN ram \ doomed)
    /\ image' = IF doomed \cap DOMAIN ram = {} THEN image ELSE ram'
    /\ latest' = Restrict(latest, DOMAIN latest \ doomed)
    /\ locked' = [h \in Indexes |-> IF h \in doomed THEN {} ELSE locked[h]]
    /\ budget' = [h \in Indexes |-> IF h \in doomed THEN 0 ELSE budget[h]]

\* NV_UndefineSpace finds the index with NvGetIndexInfo.
NV_UndefineSpace(h, auth) ==
    /\ running /\ Accessible(h) /\ AuthEnabled(auth) /\ auth # "INDEX"
    /\ "POLICY_DELETE" \notin Attrs(h)
    /\ auth = "OWNER" => "PLATFORMCREATE" \notin Attrs(h)
    /\ NvDeleteIndexes({h}, [x \in {h} |-> Attrs(x)])
    /\ UNCHANGED <<objects, orderlyState, savedGc, enabled, running, peak>>

NV_UndefineSpaceSpecial(h) ==
    /\ running /\ Accessible(h) /\ AuthEnabled("PLATFORM")
    /\ "POLICY_DELETE" \in Attrs(h)
    /\ NvDeleteIndexes({h}, [x \in {h} |-> Attrs(x)])
    /\ UNCHANGED <<objects, orderlyState, savedGc, enabled, running, peak>>

\* NvFlushHierarchy for the hierarchies hs; it reads the attributes from the
\* list entry.
NvFlushHierarchy(hs) ==
    /\ NvDeleteIndexes({h \in DOMAIN index : /\ "owner" \in hs
                                             /\ "PLATFORMCREATE" \notin index[h].attrs},
                       [h \in DOMAIN index |-> index[h].attrs])
    /\ objects' = Restrict(objects, {o \in DOMAIN objects : objects[o] \notin hs})

\* TPM2_Clear, what it does to NV and to the enables.
Clear ==
    /\ running
    /\ NvFlushHierarchy({"owner", "endorsement"})
    /\ enabled' = enabled \cup {"sh", "eh"}
    /\ orderlyState' = "NONE"
    /\ UNCHANGED <<savedGc, running, peak>>

ChangePPS ==
    /\ running /\ AuthEnabled("PLATFORM")
    /\ NvFlushHierarchy({"platform"})
    /\ orderlyState' = "NONE"
    /\ UNCHANGED <<savedGc, enabled, running, peak>>

ChangeEPS ==
    /\ running /\ AuthEnabled("PLATFORM")
    /\ NvFlushHierarchy({"endorsement"})
    /\ enabled' = enabled \cup {"eh"}
    /\ orderlyState' = "NONE"
    /\ UNCHANGED <<savedGc, running, peak>>

\* The enable of a hierarchy.
Enable(hier) == CASE hier = "owner" -> "sh" [] hier = "endorsement" -> "eh" [] OTHER -> "ph"

\* EvictControl of an object of hierarchy hier that is loaded.
MakePersistent(o, hier, auth) ==
    /\ running /\ AuthEnabled(auth) /\ o \notin DOMAIN objects
    /\ Enable(hier) \in enabled
    /\ CASE auth = "PLATFORM" -> hier = "platform" /\ o \in PlatformObjects
         [] auth = "OWNER"    -> hier # "platform" /\ o \notin PlatformObjects
         [] OTHER             -> FALSE
    /\ NvTestSpace(ObjectSize, FALSE, FALSE)
    /\ objects' = [x \in DOMAIN objects \cup {o} |-> IF x = o THEN hier ELSE objects[x]]
    /\ endMark' = maxCounter
    /\ UNCHANGED <<index, image, orderlyState, savedGc, ramState, history>>

EvictPersistent(o, auth) ==
    /\ running /\ AuthEnabled(auth) /\ o \in DOMAIN objects /\ auth # "INDEX"
    /\ Enable(objects[o]) \in enabled
    /\ auth = "OWNER" => objects[o] # "platform"
    /\ objects' = Restrict(objects, DOMAIN objects \ {o})
    /\ endMark' = maxCounter
    /\ UNCHANGED <<index, image, orderlyState, savedGc, ramState, history>>

-----------------------------------------------------------------------------
(* Writing.                                                                *)

\* The new contents of an index; save asks for the orderly RAM to be copied.
NvWriteIndexData(h, d, save) ==
    IF IsOrderly(h)
    THEN /\ ram' = [ram EXCEPT ![h] = [attrs |-> Attrs(h) \cup {"WRITTEN"}, data |-> d]]
         /\ image' = IF save \/ (IsCounter(h) /\ ~Written(h)) THEN ram' ELSE image
         /\ orderlyState' = "NONE"
         /\ UNCHANGED index
    ELSE /\ index' = [index EXCEPT ![h].attrs = Attrs(h) \cup {"WRITTEN"}, ![h].data = d]
         /\ UNCHANGED <<ram, image, orderlyState>>

\* Mutant of Untouched: the rest of an unwritten index is not zeroed.
UntouchedOld(h) == Data(h)

\* The bytes that a write to part of an index leaves alone.
Untouched(h) ==
    IF ~Written(h) /\ index[h].type = "ordinary" THEN Blank("ordinary", index[h].size)
                                                  ELSE Data(h)

\* What is left to the PIN that an index holds.
Left(pin) == Larger(pin[2] - pin[1], 0)

unchangedByWrite == <<objects, endMark, savedGc, maxCounter, enabled, running, locked>>

\* Bytes first..last are overwritten with v.
NV_Write(h, first, last, v) ==
    LET base(d) == [i \in 1..index[h].size |-> IF i \in first..last THEN v[i] ELSE d[i]]
        clean == IF Written(h) THEN latest[h] ELSE Blank("ordinary", index[h].size)
    IN  /\ WriteAllowed(h)
        /\ index[h].type \notin {"counter", "bits", "extend"}
        /\ first \in 1..(last + 1) /\ last <= index[h].size
        /\ "WRITEALL" \in Attrs(h) => first = 1 /\ last = index[h].size
        /\ NvWriteIndexData(h, base(Untouched(h)), FALSE)
        /\ latest' = [latest EXCEPT ![h] = base(clean)]
        /\ budget' = IF index[h].type \in Pins
                     THEN [budget EXCEPT ![h] = Left(base(Untouched(h)))] ELSE budget
        /\ UNCHANGED <<unchangedByWrite, peak>>

\* (countValue & MAX_ORDERLY_COUNT) == 0
RolledOver(c) == c % MAX_ORDERLY = 0

NV_Increment(h) ==
    LET count == (IF Written(h) THEN Data(h) ELSE maxCounter) + 1
    IN  /\ WriteAllowed(h) /\ IsCounter(h)
        /\ OrMask(count) <= MaxCount
        /\ NvWriteIndexData(h, count, RolledOver(count))
        /\ latest' = [latest EXCEPT ![h] = count]
        /\ peak' = [peak EXCEPT ![h] = Larger(@, count)]
        /\ UNCHANGED <<unchangedByWrite, budget>>

NV_Extend(h, v) ==
    LET old == IF Written(h) THEN Data(h) ELSE <<>>
        expected == IF Written(h) THEN latest[h] ELSE <<>>
    IN  /\ WriteAllowed(h) /\ index[h].type = "extend"
        /\ Len(old) < MaxExtend
        /\ NvWriteIndexData(h, Append(old, v), FALSE)
        /\ latest' = [latest EXCEPT ![h] = Append(expected, v)]
        /\ UNCHANGED <<unchangedByWrite, peak, budget>>

NV_SetBits(h, bits) ==
    LET old == IF Written(h) THEN Data(h) ELSE {}
        expected == IF Written(h) THEN latest[h] ELSE {}
    IN  /\ WriteAllowed(h) /\ index[h].type = "bits"
        /\ NvWriteIndexData(h, old \cup bits, FALSE)
        /\ latest' = [latest EXCEPT ![h] = expected \cup bits]
        /\ UNCHANGED <<unchangedByWrite, peak, budget>>

\* Mutant of PinAvailable: one use too many.
PinAvailableOneMore(pin) == pin[1] <= pin[2]

\* IsAuthValueAvailable for a PIN index: pinCount < pinLimit
PinAvailable(pin) == pin[1] < pin[2]

\* The authValue of a PIN index is used by a command, CheckAuthSession.
UsePin(h, success) ==
    /\ running /\ Accessible(h) /\ index[h].type \in Pins
    /\ Written(h) /\ PinAvailable(Data(h))
    /\ LET counts == IF index[h].type = "pinfail" THEN ~success ELSE success
           d == CASE counts -> [Data(h) EXCEPT ![1] = @ + 1]
                  [] ~counts /\ index[h].type = "pinfail" -> [Data(h) EXCEPT ![1] = 0]
                  [] OTHER -> Data(h)
       IN  /\ IF counts \/ index[h].type = "pinfail"
              THEN NvWriteIndexData(h, d, FALSE)
              ELSE UNCHANGED <<index, ram, image, orderlyState>>
           /\ latest' = [latest EXCEPT ![h] = d]
           /\ budget' = [budget EXCEPT ![h] =
                           IF counts THEN @ - 1
                           ELSE IF index[h].type = "pinfail" THEN d[2] ELSE @]
    /\ UNCHANGED <<unchangedByWrite, peak>>

-----------------------------------------------------------------------------
(* Locks.                                                                  *)
\* NvWriteIndexAttributes
NvWriteIndexAttributes(h, attrs) ==
    IF IsOrderly(h)
    THEN ram' = [ram EXCEPT ![h].attrs = attrs] /\ UNCHANGED index
    ELSE index' = [index EXCEPT ![h].attrs = attrs] /\ UNCHANGED ram

unchangedByLock ==
    <<objects, image, endMark, orderlyState, savedGc, maxCounter, enabled, running,
      peak, latest, budget>>

NV_WriteLock(h) ==
    /\ WriteAllowed(h)
    /\ Attrs(h) \cap {"WRITEDEFINE", "WRITE_STCLEAR"} # {}
    /\ NvWriteIndexAttributes(h, Attrs(h) \cup {"WRITELOCKED"})
    /\ locked' = [locked EXCEPT ![h] = @ \cup {"WRITELOCKED"}]
    /\ UNCHANGED unchangedByLock

NV_ReadLock(h) ==
    /\ running /\ Accessible(h) /\ "READLOCKED" \notin Attrs(h)
    /\ \E auth \in Auths : MayRead(h, auth)
    /\ "READ_STCLEAR" \in Attrs(h)
    /\ NvWriteIndexAttributes(h, Attrs(h) \cup {"READLOCKED"})
    /\ locked' = [locked EXCEPT ![h] = @ \cup {"READLOCKED"}]
    /\ UNCHANGED unchangedByLock

\* NvSetGlobalLock, with no regard to which indexes are accessible.
NV_GlobalWriteLock ==
    LET lock(e) == IF "GLOBALLOCK" \in e.attrs
                   THEN [e EXCEPT !.attrs = @ \cup {"WRITELOCKED"}] ELSE e
    IN  /\ running /\ \E auth \in {"OWNER", "PLATFORM"} : AuthEnabled(auth)
        /\ index' = [h \in DOMAIN index |->
                       IF IsOrderly(h) THEN index[h] ELSE lock(index[h])]
        /\ ram' = [h \in DOMAIN ram |-> lock(ram[h])]
        /\ locked' = [h \in Indexes |->
                        IF h \in DOMAIN index /\ "GLOBALLOCK" \in index[h].attrs
                        THEN locked[h] \cup {"WRITELOCKED"} ELSE locked[h]]
        /\ UNCHANGED unchangedByLock

-----------------------------------------------------------------------------
(* Hierarchies, shutdown, power loss and startup.                          *)
HierarchyControl(c, auth) ==
    /\ running /\ AuthEnabled(auth) /\ auth # "INDEX"
    /\ auth = "OWNER" => c = "sh" /\ c \in enabled
    /\ enabled' = IF c \in enabled THEN enabled \ {c} ELSE enabled \cup {c}
    /\ orderlyState' = "NONE"
    /\ UNCHANGED <<index, objects, image, endMark, savedGc, ram, maxCounter, running,
                   history>>

\* TPM2_Shutdown, what it saves of this state.
Shutdown(type) ==
    /\ running
    /\ orderlyState' = type
    /\ image' = ram
    /\ savedGc' = IF type = "STATE" THEN enabled \cap Gc ELSE savedGc
    /\ UNCHANGED <<index, objects, endMark, ramState, history>>

PowerLoss ==
    /\ running
    /\ running' = FALSE
    /\ ram' = <<>> /\ maxCounter' = 0 /\ enabled' = {}
    /\ UNCHANGED <<nvState, history>>

\* Mutant of NvSetStartupAttributes: every write lock is lifted.
NvSetStartupAttributesUnlocks(type, attrs, kind) ==
    attrs \ {"READLOCKED", "WRITELOCKED"}

NvSetStartupAttributes(type, attrs, kind) ==
    LET a1 == attrs \ {"READLOCKED"}
        a2 == IF /\ type # "counter"
                 /\ "CLEAR_STCLEAR" \in a1 \/ ("ORDERLY" \in a1 /\ kind = "RESET")
              THEN a1 \ {"WRITTEN"} ELSE a1
    IN  IF {"WRITTEN", "WRITEDEFINE"} \subseteq a2 THEN a2 ELSE a2 \ {"WRITELOCKED"}

\* TPM2_Startup, the kind of startup.
StartupKind(type) ==
    IF type = "STATE" THEN "RESUME" ELSE IF orderlyState = "STATE" THEN "RESTART" ELSE "RESET"

\* NvEntityStartup, the orderly indexes.
OrderlyAtStartup(kind) ==
    [h \in DOMAIN image |->
       IF kind = "RESUME" THEN image[h]
       ELSE [attrs |-> NvSetStartupAttributes(index[h].type, image[h].attrs, kind),
             data |-> IF IsCounter(h) /\ orderlyState = "NONE" THEN OrMask(image[h].data)
                                                               ELSE image[h].data]]

\* NvEntityStartup, the other indexes.
OthersAtStartup(kind) ==
    [h \in DOMAIN index |->
       IF kind = "RESUME" \/ IsOrderly(h) THEN index[h]
       ELSE [index[h] EXCEPT !.attrs = NvSetStartupAttributes(index[h].type, @, kind)]]

\* A lock of an orderly index is in RAM only, until the RAM is next copied.
KeptLocks(h) == IF IsOrderly(h) THEN locked[h] \cap image[h].attrs ELSE locked[h]

\* A lock is due to be lifted by a startup that is not a resume, unless it is
\* the write lock of a written index with WRITEDEFINE.
StillLocked(h, attrs) ==
    IF {"WRITTEN", "WRITEDEFINE"} \subseteq attrs THEN KeptLocks(h) \ {"READLOCKED"} ELSE {}

Startup(type) ==
    LET kind == StartupKind(type)
    IN  /\ ~running
        /\ type = "STATE" => orderlyState = "STATE"
        /\ running' = TRUE
        /\ ram' = OrderlyAtStartup(kind)
        /\ index' = OthersAtStartup(kind)
        /\ maxCounter' = endMark
        /\ enabled' = IF kind = "RESUME" THEN savedGc \cup {"ph"} ELSE Gc \cup {"ph"}
        /\ orderlyState' = "NONE"
        /\ peak' = [h \in Indexes |->
                      IF h \in DOMAIN image /\ IsCounter(h) /\ "WRITTEN" \in image[h].attrs
                      THEN Larger(peak[h], ram'[h].data) ELSE peak[h]]
        /\ locked' = [h \in Indexes |->
                        CASE h \notin DOMAIN index -> {}
                          [] h \in DOMAIN index /\ kind = "RESUME" -> KeptLocks(h)
                          [] OTHER -> StillLocked(h, IF IsOrderly(h) THEN ram'[h].attrs
                                                     ELSE index'[h].attrs)]
        /\ UNCHANGED <<objects, image, endMark, savedGc, latest, budget>>

-----------------------------------------------------------------------------
\* NvManufacture and TPM2_Startup(CLEAR).
Init ==
    /\ index = <<>> /\ objects = <<>> /\ image = <<>> /\ ram = <<>>
    /\ endMark = 0 /\ maxCounter = 0
    /\ orderlyState = "NONE" /\ savedGc = {} /\ enabled = Gc \cup {"ph"} /\ running = TRUE
    /\ peak = [h \in Indexes |-> 0]
    /\ latest = <<>>
    /\ locked = [h \in Indexes |-> {}]
    /\ budget = [h \in Indexes |-> 0]

Define == \E h \in Indexes, t \in Templates, auth \in {"OWNER", "PLATFORM"} :
             NV_DefineSpace(h, t, auth)
Undefine == \E h \in Indexes : \/ \E auth \in Auths : NV_UndefineSpace(h, auth)
                               \/ NV_UndefineSpaceSpecial(h)
Persist == \E o \in Objects, auth \in Auths :
              \/ \E hier \in {"owner", "endorsement", "platform"} : MakePersistent(o, hier, auth)
              \/ EvictPersistent(o, auth)
Flush == Clear \/ ChangePPS \/ ChangeEPS
Update == \E h \in Indexes :
             \/ \E first, last \in 0..MaxBytes :
                   \E v \in [first..last -> Bytes] : NV_Write(h, first, last, v)
             \/ NV_Increment(h)
             \/ \E v \in Bytes : NV_Extend(h, v)
             \/ \E bits \in SUBSET Bytes : NV_SetBits(h, bits)
             \/ \E success \in BOOLEAN : UsePin(h, success)
Lock == (\E h \in Indexes : NV_WriteLock(h) \/ NV_ReadLock(h)) \/ NV_GlobalWriteLock
Control == \E c \in Controls, auth \in Auths : HierarchyControl(c, auth)
Power == PowerLoss \/ \E type \in {"CLEAR", "STATE"} : Shutdown(type) \/ Startup(type)

Next == Define \/ Undefine \/ Persist \/ Flush \/ Update \/ Lock \/ Control \/ Power

Spec == Init /\ [][Next]_vars

-----------------------------------------------------------------------------
(* Properties.                                                             *)
\* The list in NV, the orderly RAM and its copy describe the same indexes:
\* whatever is added and deleted, by command or by a flush, and wherever power
\* is lost, every orderly index has its RAM entry and its place in the copy
\* (NvAddRAM, NvDeleteRAM, NvEntityStartup).
TypeOK ==
    /\ DOMAIN index \subseteq Indexes /\ DOMAIN objects \subseteq Objects
    /\ DOMAIN image = {h \in DOMAIN index : IsOrderly(h)}
    /\ running => DOMAIN ram = DOMAIN image
    /\ DOMAIN latest = DOMAIN index
    /\ endMark \in Nat /\ maxCounter \in Nat
    /\ running => maxCounter = endMark
    /\ orderlyState \in {"NONE", "CLEAR", "STATE"}
    /\ savedGc \subseteq Gc /\ enabled \subseteq Gc \cup {"ph"}
    /\ \A o \in DOMAIN objects : (o \in PlatformObjects) <=> (objects[o] = "platform")

\* A counter never goes back: whatever was deleted, flushed, redefined, lost
\* with the power or restored from a saved copy, the next value of the counter
\* of a handle exceeds every value it ever showed ("This insures that it is not
\* possible to roll back an index", NvDynamic.c).
CounterNeverRollsBack ==
    running => \A h \in Indexes :
        peak[h] <= IF h \in DOMAIN index /\ IsCounter(h) /\ Written(h) THEN Data(h)
                   ELSE maxCounter

\* An index that can be read holds what was written to it since it was last
\* unwritten, and zeros where nothing was: no data of before a reset or of a
\* stale copy of the RAM shows (NvWriteIndexData, g_clearOrderly).
ContentsAsWritten ==
    running => \A h \in DOMAIN index :
        Written(h) /\ ~IsCounter(h) => Data(h) = latest[h]

\* A lock holds until it is due to be lifted, over writes, other locks, deletion
\* and redefinition of other indexes and, for an index in NV, lost power and resume
\* (NvWriteIndexAttributes, NvSetStartupAttributes).  Of an orderly index power
\* loss leaves only the locks that were in the last copy of the RAM (KeptLocks): no
\* lock sets g_clearOrderly or asks for the copy, so that the property says nothing
\* of one taken since.
LocksHold ==
    running => \A h \in DOMAIN index : locked[h] \subseteq Attrs(h)

\* The uses that a PIN index still allows are no more than those granted when
\* it was last written less those made since, even if power was lost between
\* (CheckAuthSession, IsAuthValueAvailable).
PinWithinBudget ==
    running => \A h \in DOMAIN index :
        index[h].type \in Pins /\ Written(h) => Left(Data(h)) <= budget[h]

\* As long as fewer than MIN_EVICT_OBJECTS objects are persistent, one more can
\* be made persistent ("make sure that we do not allocate an Index if this
\* would mean that the TPM cannot allocate the minimum number of evict
\* objects", NvTestSpace).  The code does not keep this: see README.md.
EvictSpaceKept ==
    Cardinality(DOMAIN objects) < MIN_EVICT => NvTestSpace(ObjectSize, FALSE, FALSE)
=============================================================================
