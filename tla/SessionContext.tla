--------------------------- MODULE SessionContext ---------------------------
(***************************************************************************)
(* The session table of the TPM reference code that the simulator package  *)
(* builds: subsystem/Session.c, and the commands that use it (TPM2_Start-  *)
(* AuthSession, TPM2_ContextSave, TPM2_ContextLoad, TPM2_FlushContext,     *)
(* TPM2_Shutdown, TPM2_Startup).                                           *)
(*                                                                         *)
(* A session has an entry in gr.contextArray.  The entry is 0 when it is   *)
(* unused, a slot number + 1 when the session is in TPM memory, and        *)
(* otherwise the low bits of the 64-bit sequence number the session was    *)
(* saved under.  Only the low bits are kept, so the TPM must make sure     *)
(* that two saved sessions never share them, that an old context is never  *)
(* mistaken for the current one, and that it can always get out of the     *)
(* state where the numbers have run out (the "context gap").               *)
(***************************************************************************)
EXTENDS Integers, FiniteSets, FiniteSetsExt

CONSTANTS MAX_ACTIVE_SESSIONS,  \* entries of gr.contextArray
          MAX_LOADED_SESSIONS,  \* session slots in TPM memory
          SLOT_MOD,             \* 2^(width of CONTEXT_SLOT)
          MaxCounter            \* bound on gr.contextCounter (a UINT64)

ASSUME ConstantsAssumption ==
    /\ MAX_ACTIVE_SESSIONS \in Nat \ {0}
    /\ MAX_LOADED_SESSIONS \in Nat \ {0}
    /\ SLOT_MOD \in Nat
    /\ SLOT_MOD > MAX_LOADED_SESSIONS + 1
    /\ MaxCounter \in Nat
    /\ MaxCounter > MAX_LOADED_SESSIONS

VARIABLES contextArray,      \* gr.contextArray
          contextCounter,    \* gr.contextCounter
          occupied,          \* the slots of s_sessions that are occupied
          freeSlots,         \* s_freeSessionSlots
          oldest,            \* s_oldestSavedSession
          orderlyGr,         \* the copy of gr that TPM2_Startup would read back
          lastSeq            \* history: the last sequence number handed out for
                             \* each handle since the last TPM Reset, 0 if none

vars == <<contextArray, contextCounter, occupied, freeSlots, oldest,
          orderlyGr, lastSeq>>

Active == 0 .. MAX_ACTIVE_SESSIONS - 1
Slots == 0 .. MAX_LOADED_SESSIONS - 1
NoOldest == MAX_ACTIVE_SESSIONS + 1

\* gp.orderlyState is not TPM_SU_STATE: the copy of gr in NV will not be read.
NotOrderly == [contextArray |-> [h \in Active |-> 0], contextCounter |-> 0]

-----------------------------------------------------------------------------
\* What an entry of contextArray stands for.
SessionIsLoaded(arr, h) == arr[h] # 0 /\ arr[h] <= MAX_LOADED_SESSIONS
SessionIsSaved(arr, h) == arr[h] > MAX_LOADED_SESSIONS
Saved(arr) == {h \in Active : SessionIsSaved(arr, h)}

\* How far behind the low bits of the counter a saved entry is; the entry with
\* the smallest value is the oldest one.
Age(arr, ctr, h) == (arr[h] - ctr) % SLOT_MOD

\* The loop keeps the last of the entries with the smallest age.
ContextIdSetOldest(arr, ctr) ==
    LET smallest == {h \in Saved(arr) :
                        \A g \in Saved(arr) : Age(arr, ctr, h) <= Age(arr, ctr, g)}
    IN  IF Saved(arr) = {} THEN NoOldest ELSE Max(smallest)

\* The next save would reuse the low bits of the oldest saved context.
GapAtMaximum ==
    /\ oldest < MAX_ACTIVE_SESSIONS
    /\ contextArray[oldest] = contextCounter % SLOT_MOD

\* Mutant: no bound on how old the sequence number may be.
SequenceCheckWithoutGap(h, s) ==
    /\ contextArray[h] > MAX_LOADED_SESSIONS
    /\ contextArray[h] = s % SLOT_MOD
    /\ s <= contextCounter

\* Mutant: the widest gap is rejected.
SequenceCheckOffByOne(h, s) ==
    /\ SequenceCheckWithoutGap(h, s)
    /\ contextCounter - s < SLOT_MOD

\* ContextLoad accepts sequence number s for handle h.
SequenceNumberForSavedContextIsValid(h, s) ==
    /\ h < MAX_ACTIVE_SESSIONS
    /\ contextArray[h] > MAX_LOADED_SESSIONS
    /\ contextArray[h] = s % SLOT_MOD
    /\ s <= contextCounter
    /\ contextCounter - s <= SLOT_MOD

-----------------------------------------------------------------------------
\* The first startup after manufacture is a TPM Reset.
Init ==
    /\ contextArray = [h \in Active |-> 0]
    /\ contextCounter = MAX_LOADED_SESSIONS + 1
    /\ occupied = {}
    /\ freeSlots = MAX_LOADED_SESSIONS
    /\ oldest = NoOldest
    /\ orderlyGr = NotOrderly
    /\ lastSeq = [h \in Active |-> 0]

\* Mutant of SessionCreate: the last slot is given away at the maximum gap.
SessionCreateIgnoresGap ==
    /\ freeSlots # 0
    /\ \E h \in Active :
         /\ contextArray[h] = 0
         /\ contextArray' = [contextArray EXCEPT ![h] = Min(Slots \ occupied) + 1]
    /\ occupied' = occupied \cup {Min(Slots \ occupied)}
    /\ freeSlots' = freeSlots - 1
    /\ UNCHANGED <<contextCounter, oldest, orderlyGr, lastSeq>>

\* TPM2_StartAuthSession: SessionCreate takes the first free slot,
\* ContextIdSessionCreate the first free entry.  Errors leave everything alone.
SessionCreate ==
    /\ freeSlots # 0
    /\ ~(freeSlots = 1 /\ GapAtMaximum)
    /\ \E h \in Active :
         /\ contextArray[h] = 0
         /\ \A g \in Active : g < h => contextArray[g] # 0
         /\ LET slot == Min(Slots \ occupied)
            IN  /\ contextArray' = [contextArray EXCEPT ![h] = slot + 1]
                /\ occupied' = occupied \cup {slot}
    /\ freeSlots' = freeSlots - 1
    /\ UNCHANGED <<contextCounter, oldest, orderlyGr, lastSeq>>

\* The counter after a save: one more, and past the values that mean "loaded"
\* when its low bits have wrapped.
NextCounter(ctr) ==
    IF (ctr + 1) % SLOT_MOD = 0 THEN ctr + 1 + MAX_LOADED_SESSIONS + 1 ELSE ctr + 1

\* TPM2_ContextSave of a session.
SessionContextSave(h) ==
    /\ SessionIsLoaded(contextArray, h)
    /\ ~GapAtMaximum
    /\ NextCounter(contextCounter) <= MaxCounter
    /\ contextArray' = [contextArray EXCEPT ![h] = contextCounter % SLOT_MOD]
    /\ contextCounter' = NextCounter(contextCounter)
    /\ oldest' = IF oldest >= MAX_ACTIVE_SESSIONS THEN h ELSE oldest
    /\ occupied' = occupied \ {contextArray[h] - 1}
    /\ freeSlots' = freeSlots + 1
    /\ lastSeq' = [lastSeq EXCEPT ![h] = contextCounter]
    /\ orderlyGr' = NotOrderly

\* TPM2_ContextLoad of the context saved for h under sequence number s.  The
\* integrity value covers handle, sequence number and the count of TPM Resets,
\* so that s is a number handed out since the last Reset.
SessionContextLoad(h, s) ==
    /\ SequenceNumberForSavedContextIsValid(h, s)
    /\ freeSlots # 0
    /\ ~(freeSlots = 1 /\ GapAtMaximum /\ h # oldest)
    /\ LET slot == Min(Slots \ occupied)
       IN  /\ contextArray' = [contextArray EXCEPT ![h] = slot + 1]
           /\ occupied' = occupied \cup {slot}
    /\ oldest' = IF h = oldest THEN ContextIdSetOldest(contextArray', contextCounter)
                               ELSE oldest
    /\ freeSlots' = freeSlots - 1
    /\ orderlyGr' = NotOrderly
    /\ UNCHANGED <<contextCounter, lastSeq>>

\* TPM2_FlushContext, and the end of a command whose session does not have
\* continueSession set.  It does not clear the orderly state.
SessionFlush(h) ==
    /\ contextArray[h] # 0
    /\ contextArray' = [contextArray EXCEPT ![h] = 0]
    /\ IF SessionIsSaved(contextArray, h)
       THEN /\ oldest' = IF h = oldest
                         THEN ContextIdSetOldest(contextArray', contextCounter)
                         ELSE oldest
            /\ UNCHANGED <<occupied, freeSlots>>
       ELSE /\ occupied' = occupied \ {contextArray[h] - 1}
            /\ freeSlots' = freeSlots + 1
            /\ UNCHANGED oldest
    /\ UNCHANGED <<contextCounter, orderlyGr, lastSeq>>

\* TPM2_Shutdown: STATE writes gr to NV, CLEAR does not.
Shutdown(type) ==
    /\ orderlyGr' = IF type = "STATE"
                    THEN [contextArray |-> contextArray,
                          contextCounter |-> contextCounter]
                    ELSE NotOrderly
    /\ UNCHANGED <<contextArray, contextCounter, occupied, freeSlots, oldest, lastSeq>>

\* SessionStartup(SU_RESTART or SU_RESUME): gr is read back, sessions that were
\* in memory are gone, saved ones survive.
ResumeSessions ==
    LET kept == [h \in Active |-> IF orderlyGr.contextArray[h] <= MAX_LOADED_SESSIONS
                                  THEN 0 ELSE orderlyGr.contextArray[h]]
    IN  /\ contextArray' = kept
        /\ contextCounter' = orderlyGr.contextCounter
        /\ oldest' = ContextIdSetOldest(kept, orderlyGr.contextCounter)
        /\ UNCHANGED lastSeq

\* SessionStartup(SU_RESET).  Contexts saved before are no longer acceptable.
ResetSessions ==
    /\ contextArray' = [h \in Active |-> 0]
    /\ contextCounter' = MAX_LOADED_SESSIONS + 1
    /\ oldest' = NoOldest
    /\ lastSeq' = [h \in Active |-> 0]

\* Power is lost at any moment and the TPM is started again.
Startup ==
    /\ IF orderlyGr # NotOrderly THEN ResumeSessions ELSE ResetSessions
    /\ occupied' = {}
    /\ freeSlots' = MAX_LOADED_SESSIONS
    /\ orderlyGr' = NotOrderly

Next ==
    \/ SessionCreate
    \/ \E h \in Active : SessionContextSave(h)
    \/ \E h \in Active, s \in 1 .. contextCounter - 1 : SessionContextLoad(h, s)
    \/ \E h \in Active : SessionFlush(h)
    \/ \E type \in {"STATE", "CLEAR"} : Shutdown(type)
    \/ Startup

Spec == Init /\ [][Next]_vars

-----------------------------------------------------------------------------
\* Types of the session table; every entry fits a CONTEXT_SLOT.
TypeOK ==
    /\ contextArray \in [Active -> 0 .. SLOT_MOD - 1]
    /\ contextCounter \in 1 .. MaxCounter
    /\ occupied \subseteq Slots
    /\ freeSlots \in 0 .. MAX_LOADED_SESSIONS
    /\ oldest \in Active \cup {NoOldest}
    /\ orderlyGr \in [contextArray : [Active -> 0 .. SLOT_MOD - 1],
                      contextCounter : 0 .. MaxCounter]
    /\ lastSeq \in [Active -> 0 .. MaxCounter]

\* s_freeSessionSlots counts the unoccupied slots, every occupied slot belongs
\* to exactly one loaded session and every loaded session has its own slot
\* (SessionCreate, SessionContextSave, SessionContextLoad, SessionFlush each
\* update the three by hand).
SlotsAccounted ==
    /\ freeSlots = MAX_LOADED_SESSIONS - Cardinality(occupied)
    /\ \A i \in Slots :
         i \in occupied <=> \E h \in Active : contextArray[h] = i + 1
    /\ \A g, h \in Active :
         SessionIsLoaded(contextArray, g) /\ contextArray[g] = contextArray[h] => g = h

\* Of all the sequence numbers handed out since the last Reset,
\* SequenceNumberForSavedContextIsValid accepts only the most recent one of
\* the handle: an older context of a session is never loaded again, although
\* the TPM remembers only the low bits of the number.
NoStaleContext ==
    \A h \in Active, s \in 1 .. contextCounter - 1 :
        SequenceNumberForSavedContextIsValid(h, s) => s = lastSeq[h]

\* A saved session is never stranded: its most recent context passes the check
\* of ContextLoad for as long as the TPM tracks the session, also when the
\* gap between the oldest number and the counter is as large as it can be.
NeverStranded ==
    \A h \in Saved(contextArray) : SequenceNumberForSavedContextIsValid(h, lastSeq[h])

\* s_oldestSavedSession is the saved session with the smallest sequence number
\* and is unassigned exactly when none is saved.
OldestIsOldest ==
    /\ oldest = NoOldest <=> Saved(contextArray) = {}
    /\ oldest \in Active =>
         /\ oldest \in Saved(contextArray)
         /\ \A h \in Saved(contextArray) : lastSeq[oldest] <= lastSeq[h]

\* When the sequence numbers have run out there is a free slot left to load the
\* oldest session into: the TPM can always be brought out of the context gap.
GapCanBeClosed == GapAtMaximum => freeSlots >= 1

-----------------------------------------------------------------------------
\* Array arr agrees with the numbers handed out: the entry of a saved session
\* holds the low bits of its number, the number is behind the counter by no
\* more than the range of a CONTEXT_SLOT, and no two sessions share one.
TrackedBy(arr, ctr, seq) ==
    /\ \A h \in Active : arr[h] > MAX_LOADED_SESSIONS =>
         /\ arr[h] = seq[h] % SLOT_MOD
         /\ 0 < seq[h] /\ seq[h] < ctr
         /\ ctr - seq[h] <= SLOT_MOD
    /\ \A g, h \in Active :
         /\ arr[g] > MAX_LOADED_SESSIONS
         /\ arr[h] > MAX_LOADED_SESSIONS
         /\ seq[g] = seq[h]
         => g = h

\* The inductive invariant from which the properties above follow.  It adds that
\* the low bits of the counter never mean "loaded", that the tracked numbers
\* agree with the entries, and that what Startup would read back from NV agrees
\* with them too: Shutdown(STATE) may be followed by FlushContext, but by no
\* save or load.
SessionInv ==
    /\ TypeOK
    /\ SlotsAccounted
    /\ contextCounter % SLOT_MOD > MAX_LOADED_SESSIONS
    /\ TrackedBy(contextArray, contextCounter, lastSeq)
    /\ OldestIsOldest
    /\ GapCanBeClosed
    /\ orderlyGr # NotOrderly =>
         /\ orderlyGr.contextCounter = contextCounter
         /\ TrackedBy(orderlyGr.contextArray, contextCounter, lastSeq)
=============================================================================
