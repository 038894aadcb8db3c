----------------------------- MODULE TSFMaster -----------------------------
(***************************************************************************)
(* The thread support of the toolkit: PGS_TSF_GetTSFMaster, which every    *)
(* call that locks or has data of its own starts with.  The first call of  *)
(* the process creates keys and mutexes (the master); the first call of a  *)
(* thread finds it a slot in threadUsed, whose number is the index of the  *)
(* thread in the arrays that keep data per thread; the destructor of the   *)
(* key gives the slot back when the thread ends.                           *)
(***************************************************************************)
EXTENDS Naturals, FiniteSets

CONSTANTS
    Threads,     \* the threads of the process
    Main,        \* the one that it starts with
    MaxThreads,  \* _POSIX_THREAD_THREADS_MAX, the length of threadUsed
    MainFirst,   \* does the main thread make a call before it starts others?
    Failing      \* can mutexes and keys fail to be created, or the lock to be taken?

Slots == 0..MaxThreads - 1
NoSlot == MaxThreads

\* The two keys that the slots need: keyTSFonce and keyTSFMasterIndex.
SlotKeys == {"once", "index"}

ASSUME ThreadsAssumption ==
    /\ IsFiniteSet(Threads) /\ Main \in Threads
    /\ MaxThreads \in Nat \ {0}
    /\ MainFirst \in BOOLEAN /\ Failing \in BOOLEAN

VARIABLES
    alive,       \* the threads that run
    place,       \* where each thread is in PGS_TSF_GetTSFMaster
    saveStatus,  \* did all go well in its call?
    countVar,    \* where its search of threadUsed is
    initFlag,    \* is the initialisation done or under way?
    locked,      \* getGlobalLock
    keys,        \* how often the keys were created, or tried to be
    created,     \* the keys that there are
    master,      \* the rest of the master: its mutexes and keys
    threadUsed,  \* the slots that are taken
    once,        \* keyTSFonce: has the thread been initialised?
    index,       \* keyTSFMasterIndex: the slot of the thread
    most         \* history: the most threads that ran at once

threadVars == <<alive, most>>
masterVars == <<initFlag, keys, created, master>>
slotVars == <<threadUsed, once, index>>
tsfVars == <<threadVars, place, saveStatus, countVar, locked, masterVars, slotVars>>

TsfInit ==
    /\ alive = {Main} /\ most = 1
    /\ place = [t \in Threads |-> "idle"]
    /\ saveStatus = [t \in Threads |-> "ok"]
    /\ countVar = [t \in Threads |-> 0]
    /\ initFlag = FALSE /\ locked = FALSE
    /\ keys = 0 /\ created = {} /\ master = "none"
    /\ threadUsed = {}
    /\ once = [t \in Threads |-> FALSE]
    /\ index = [t \in Threads |-> NoSlot]

Moves(t, from, to) == place[t] = from /\ place' = [place EXCEPT ![t] = to]
Fails(t) == saveStatus' = [saveStatus EXCEPT ![t] = "failed"]

----------------------------------------------------------------------------
(* PGS_TSF_GetTSFMaster                                                    *)

\* The flag is read without the lock,
Call(t) ==
    /\ t \in alive
    /\ Moves(t, "idle", IF initFlag THEN "lock" ELSE "mutexInit")
    /\ UNCHANGED <<threadVars, saveStatus, countVar, locked, masterVars, slotVars>>

\* and who finds it unset makes the lock anew, whoever has it.
MutexInit(t) ==
    /\ Moves(t, "mutexInit", "lock")
    /\ locked' = FALSE
    /\ UNCHANGED <<threadVars, saveStatus, countVar, masterVars, slotVars>>

\* A lock that cannot be made or taken ends the call.
NoMutex(t) ==
    /\ Failing
    /\ Moves(t, "mutexInit", "idle") \/ Moves(t, "lock", "idle")
    /\ UNCHANGED <<threadVars, saveStatus, countVar, locked, masterVars, slotVars>>

NoLock(t) ==                                       \* mutated Lock
    /\ Moves(t, "lock", "test")
    /\ locked' = TRUE
    /\ UNCHANGED <<threadVars, saveStatus, countVar, masterVars, slotVars>>
Lock(t) ==
    /\ Moves(t, "lock", "test")
    /\ ~locked /\ locked' = TRUE
    /\ UNCHANGED <<threadVars, saveStatus, countVar, masterVars, slotVars>>

Test(t) ==
    /\ Moves(t, "test", IF initFlag THEN "once" ELSE "initKeys")
    /\ UNCHANGED <<threadVars, saveStatus, countVar, locked, masterVars, slotVars>>

\* Each key is tried, whatever became of the one before.  A new key has no
\* value in any thread; one that cannot be created stays what it was.
InitKeys(t) ==
    /\ Moves(t, "initKeys", "initLocks")
    /\ initFlag' = TRUE
    /\ keys' = keys + 1
    /\ \E made \in IF Failing THEN SUBSET SlotKeys ELSE {SlotKeys} :
          /\ created' = created \cup made
          /\ once' = IF "once" \in made THEN [u \in Threads |-> FALSE] ELSE once
          /\ index' = IF "index" \in made THEN [u \in Threads |-> NoSlot] ELSE index
          /\ IF made = SlotKeys THEN UNCHANGED saveStatus ELSE Fails(t)
    /\ threadUsed' = {}
    /\ master' = "partial"
    /\ UNCHANGED <<threadVars, countVar, locked>>

\* The mutexes of the toolkit and, if all went well so far, the other keys.
\* After a failure the rest is not created, and the flag stays set.
InitLocks(t) ==
    /\ Moves(t, "initLocks", "once")
    /\ \/ saveStatus[t] = "ok" /\ master' = "complete" /\ UNCHANGED saveStatus
       \/ (Failing \/ saveStatus[t] = "failed") /\ master' = "failed" /\ Fails(t)
    /\ UNCHANGED <<threadVars, countVar, locked, initFlag, keys, created, slotVars>>

\* PGS_TSF_ThreadInit in the first call of a thread.  Which call that is, only
\* keyTSFonce tells.  A key that was not created is still 0, which is no key,
\* or that of somebody else, or the other of the two: it tells anything.
Once(t) ==
    /\ \/ /\ created = SlotKeys => ~once[t]
          /\ Moves(t, "once", "search")
          /\ once' = IF "once" \in created THEN [once EXCEPT ![t] = TRUE] ELSE once
       \/ /\ created = SlotKeys => once[t]
          /\ Moves(t, "once", "unlock") /\ UNCHANGED once
    /\ UNCHANGED <<threadVars, saveStatus, countVar, locked, masterVars, threadUsed, index>>

Skip(t) ==
    /\ place[t] = "search" /\ countVar[t] \in threadUsed
    /\ countVar' = [countVar EXCEPT ![t] = @ + 1]
    /\ UNCHANGED <<threadVars, place, saveStatus, locked, masterVars, slotVars>>

Found(t) ==
    /\ Moves(t, "search", "take") /\ countVar[t] \in Slots \ threadUsed
    /\ UNCHANGED <<threadVars, saveStatus, countVar, locked, masterVars, slotVars>>

TakesFromEnd(t) ==                                 \* mutated Take
    /\ Moves(t, "take", "unlock")
    /\ threadUsed' = threadUsed \cup {MaxThreads - countVar[t]}
    /\ index' = IF "index" \in created THEN [index EXCEPT ![t] = MaxThreads - countVar[t]]
                                       ELSE index
    /\ countVar' = [countVar EXCEPT ![t] = 0]
    /\ UNCHANGED <<threadVars, saveStatus, locked, masterVars, once>>
\* A key that was not created cannot be set.  The next search begins at 0.
Take(t) ==
    /\ Moves(t, "take", "unlock")
    /\ threadUsed' = threadUsed \cup {countVar[t]}
    /\ index' = IF "index" \in created THEN [index EXCEPT ![t] = countVar[t]] ELSE index
    /\ countVar' = [countVar EXCEPT ![t] = 0]
    /\ UNCHANGED <<threadVars, saveStatus, locked, masterVars, once>>

KeepsLock(t) ==                                    \* mutated Unlock
    /\ place[t] = "unlock" /\ UNCHANGED tsfVars
\* The call returns; the next one begins with a saveStatus of its own.
Unlock(t) ==
    /\ Moves(t, "unlock", "idle")
    /\ locked' = FALSE
    /\ saveStatus' = [saveStatus EXCEPT ![t] = "ok"]
    /\ UNCHANGED <<threadVars, countVar, masterVars, slotVars>>

----------------------------------------------------------------------------
(* Threads start and end between calls.  PGS_TSF_ThreadEnd runs without    *)
(* the lock, and not for the slot 0: a destructor is not called for NULL.  *)

Start(t) ==
    /\ t \notin alive
    /\ \E u \in alive : place[u] = "idle"
    /\ MainFirst => keys > 0
    /\ alive' = alive \cup {t}
    /\ most' = IF Cardinality(alive') > most THEN Cardinality(alive') ELSE most
    /\ UNCHANGED <<place, saveStatus, countVar, locked, masterVars, slotVars>>

KeepsSlotOf(t) == threadUsed                       \* mutated WithoutSlotOf
WithoutSlotOf(t) == threadUsed \ ({index[t]} \ {0})

End(t) ==
    /\ t \in alive \ {Main} /\ place[t] = "idle"
    /\ alive' = alive \ {t}
    /\ threadUsed' = WithoutSlotOf(t)
    /\ once' = [once EXCEPT ![t] = FALSE]
    /\ index' = [index EXCEPT ![t] = NoSlot]
    /\ UNCHANGED <<most, place, saveStatus, countVar, locked, masterVars>>

----------------------------------------------------------------------------

\* A search past the end of threadUsed: what it finds there, and what it then
\* marks as used, is not threadUsed.  The model goes no further.
Overrun == \E t \in Threads : place[t] = "search" /\ countVar[t] \notin Slots
Undefined == Overrun /\ UNCHANGED tsfVars

\* What a thread does once it has the lock.
Holding(t) ==
    /\ ~Overrun
    /\ \/ Test(t) \/ InitKeys(t) \/ InitLocks(t)
       \/ Once(t) \/ Skip(t) \/ Found(t) \/ Take(t)
       \/ Unlock(t)

Other(t) ==
    /\ ~Overrun
    /\ \/ Call(t) \/ MutexInit(t) \/ NoMutex(t) \/ Lock(t)
       \/ Start(t) \/ End(t)

TsfNext == Undefined \/ \E t \in Threads : Holding(t) \/ Other(t)

\* A thread that holds the lock waits for nothing.
Fairness == \A t \in Threads : WF_tsfVars(Holding(t))

TsfSpec == TsfInit /\ [][TsfNext]_tsfVars /\ Fairness

----------------------------------------------------------------------------
(* Properties                                                              *)

\* What a thread is at while it has the lock.
Inside == {"test", "initKeys", "initLocks", "once", "search", "take", "unlock"}

\* Types of the threads, the master and the slots.
TsfTypeOK ==
    /\ alive \subseteq Threads /\ Main \in alive
    /\ most \in Nat
    /\ place \in [Threads -> Inside \cup {"idle", "mutexInit", "lock"}]
    /\ saveStatus \in [Threads -> {"ok", "failed"}]
    /\ countVar \in [Threads -> 0..MaxThreads]
    /\ initFlag \in BOOLEAN /\ locked \in BOOLEAN
    /\ keys \in Nat
    /\ created \subseteq SlotKeys
    /\ master \in {"none", "partial", "complete", "failed"}
    /\ threadUsed \subseteq Slots
    /\ once \in [Threads -> BOOLEAN]
    /\ index \in [Threads -> Slots \cup {NoSlot}]

\* PGS_TSF_ThreadInit: no two threads have one slot, though slots are given
\* back without the lock and taken again.
SlotsExclusive ==
    \A t, u \in Threads : t # u /\ index[t] # NoSlot => index[t] # index[u]

\* PGS_TSF_ThreadInit: the search of threadUsed, which has no bound of its own,
\* stays in the array whoever ends meanwhile.  It can leave it only when there
\* were more threads at once than slots, or one of the two keys is missing:
\* then a thread takes a slot in each call, or no slot comes back.
SearchInBounds == Overrun => most > MaxThreads \/ created # SlotKeys

\* The data of a thread stay in one slot of the arrays, which is marked as
\* used until the thread ends, however often it calls and whoever else ends,
\* if the key that tells its first call from the others could be created.
SlotKept ==
    [][\A t \in alive \cap alive' :
          created = SlotKeys /\ index[t] # NoSlot =>
              index'[t] = index[t] /\ index[t] \in threadUsed']_tsfVars

\* Whoever has getGlobalLock gives it back.
LockReturned ==
    \A t \in Threads : place[t] \in Inside ~> place[t] \notin Inside \/ Overrun

\* "Setup a lock so we only go through the init phase once."
InitOnce == keys <= 1

\* A call that reports success gives a master that is complete.
SuccessIsComplete ==
    \A t \in Threads : place[t] = "unlock" /\ saveStatus[t] = "ok" => master = "complete"
=============================================================================
