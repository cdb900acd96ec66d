---------------------------- MODULE ObjectPool ----------------------------
(***************************************************************************)
(* ObjectPoolEx<T> (Lib.Base/ObjectPoolEx.h) with the counting semaphore   *)
(* of SemaphoreClock.cpp beside its list of free objects.                  *)
(*                                                                         *)
(* The list is guarded by m_mutex; the semaphore is not.  getNew takes an  *)
(* object without taking a permit, waitDataEvent takes a permit without    *)
(* taking an object: between the two anything may happen.  Objects are     *)
(* numbered in the order they are created.                                 *)
(*                                                                         *)
(* The callers are not in the repository.  A caller gives back only what   *)
(* it was given, once, and waits only while it holds nothing.              *)
(***************************************************************************)
EXTENDS Integers, Sequences, FiniteSets

CONSTANTS Threads,    \* the callers
          PoolSizes,  \* the sizes initialize is called with
          MaxPermits, \* LONG_MAX, the limit CreateSemaphore is given
          MaxObjects, \* bound on the objects initialize creates in all
          MaxNulls    \* bound on the null pointers the callers of Get hold

ASSUME ObjectPoolAssumption ==
  /\ IsFiniteSet(Threads)
  /\ PoolSizes \subseteq Nat \ {0}
  /\ MaxObjects \in Nat /\ MaxPermits \in Nat /\ MaxObjects <= MaxPermits
  /\ MaxNulls \in Nat

VARIABLES
  free,     \* m_data_list
  permits,  \* the count of the semaphore
  made,     \* how many objects exist
  held,     \* per thread, the objects it was given and has not returned
  nulls,    \* per thread, the null shared_ptrs from Get it has yet to drop
  waiting   \* per thread: "no", "blocked" in waitDataEvent, or "granted"

poolVars == <<free, permits, made, held, nulls, waiting>>

Objects == 1 .. made

\* ReleaseSemaphore fails, and changes nothing, at the limit.
raiseEvent(times) ==
  permits' = IF permits + times <= MaxPermits THEN permits + times ELSE MaxPermits

Granted == {t \in Threads : waiting[t] = "granted"}

-----------------------------------------------------------------------------

Init ==
  /\ free = <<>> /\ permits = 0 /\ made = 0
  /\ held = [t \in Threads |-> {}]
  /\ nulls = [t \in Threads |-> 0]
  /\ waiting = [t \in Threads |-> "no"]

\* SetMaxSize: every addOneFree under one lock.
initialize(size) ==
  /\ made + size <= MaxObjects
  /\ made' = made + size
  /\ free' = free \o [i \in 1 .. size |-> made + i]
  /\ raiseEvent(size)
  /\ UNCHANGED <<held, nulls, waiting>>

\* Mutations: a getNew that looks without removing, a release that announces
\* the object only when the list was empty, and one that never does.
getNewPeek(t) ==
  /\ waiting[t] # "blocked" /\ free # <<>>
  /\ held' = [held EXCEPT ![t] = @ \cup {Head(free)}]
  /\ waiting' = [waiting EXCEPT ![t] = "no"]
  /\ UNCHANGED <<free, permits, made, nulls>>

releaseIfEmpty(t, elem) ==
  /\ held' = [held EXCEPT ![t] = @ \ {elem}]
  /\ free' = Append(free, elem)
  /\ IF free = <<>> THEN raiseEvent(1) ELSE UNCHANGED permits
  /\ UNCHANGED <<made, nulls, waiting>>

releaseSilent(t, elem) ==
  /\ held' = [held EXCEPT ![t] = @ \ {elem}]
  /\ free' = Append(free, elem)
  /\ UNCHANGED <<permits, made, nulls, waiting>>

\* getNew: the list only; a permit, if the caller waited for one, is spent.
getNew(t) ==
  /\ waiting[t] # "blocked"
  /\ IF free # <<>>
     THEN /\ held' = [held EXCEPT ![t] = @ \cup {Head(free)}]
          /\ free' = Tail(free)
     ELSE UNCHANGED <<free, held>>
  /\ waiting' = [waiting EXCEPT ![t] = "no"]
  /\ UNCHANGED <<permits, made, nulls>>

\* release of an object: stored and announced under the lock.
release(t, elem) ==
  /\ held' = [held EXCEPT ![t] = @ \ {elem}]
  /\ free' = Append(free, elem)
  /\ raiseEvent(1)
  /\ UNCHANGED <<made, nulls, waiting>>

\* Get on an empty pool: a shared_ptr that holds nullptr but has a deleter.
GetNull(t) ==
  /\ waiting[t] # "blocked" /\ free = <<>> /\ nulls[t] < MaxNulls
  /\ nulls' = [nulls EXCEPT ![t] = @ + 1]
  /\ waiting' = [waiting EXCEPT ![t] = "no"]
  /\ UNCHANGED <<free, permits, made, held>>

\* Its deleter calls release(nullptr): nothing is stored, the event is raised.
DropNull(t) ==
  /\ waiting[t] # "blocked" /\ nulls[t] > 0
  /\ nulls' = [nulls EXCEPT ![t] = @ - 1]
  /\ raiseEvent(1)
  /\ UNCHANGED <<free, made, held, waiting>>

\* waitDataEvent: WaitForSingleObject on the semaphore, without the lock.
waitDataEvent(t) ==
  /\ waiting[t] = "no" /\ held[t] = {}
  /\ waiting' = [waiting EXCEPT ![t] = "blocked"]
  /\ UNCHANGED <<free, permits, made, held, nulls>>

WaitReturnsTrue(t) ==
  /\ waiting[t] = "blocked" /\ permits > 0
  /\ permits' = permits - 1
  /\ waiting' = [waiting EXCEPT ![t] = "granted"]
  /\ UNCHANGED <<free, made, held, nulls>>

\* A timeout is reported only while the semaphore is not signalled.
WaitTimesOut(t) ==
  /\ waiting[t] = "blocked" /\ permits = 0
  /\ waiting' = [waiting EXCEPT ![t] = "no"]
  /\ UNCHANGED <<free, permits, made, held, nulls>>

releaseHeld(t) == waiting[t] # "blocked" /\ \E elem \in held[t] : release(t, elem)

Next ==
  \/ \E size \in PoolSizes : initialize(size)
  \/ \E t \in Threads :
       \/ getNew(t) \/ releaseHeld(t) \/ GetNull(t) \/ DropNull(t)
       \/ waitDataEvent(t) \/ WaitReturnsTrue(t) \/ WaitTimesOut(t)

\* A caller that was granted a permit goes on to getNew, and what is taken is
\* given back in the end; the system wakes some waiter of a signalled
\* semaphore, and every waiter if the semaphore is signalled often enough.
\* A timeout is never certain to happen: the caller may wait INFINITE.
Fairness ==
  \A t \in Threads :
    /\ WF_poolVars(waiting[t] = "granted" /\ getNew(t))
    /\ WF_poolVars(releaseHeld(t))
    /\ SF_poolVars(WaitReturnsTrue(t))

Spec     == Init /\ [][Next]_poolVars
FairSpec == Spec /\ Fairness

-----------------------------------------------------------------------------

TypeOK ==
  /\ free \in Seq(Objects)
  /\ permits \in 0 .. MaxPermits
  /\ made \in 0 .. MaxObjects
  /\ held \in [Threads -> SUBSET Objects]
  /\ nulls \in [Threads -> 0 .. MaxNulls]
  /\ waiting \in [Threads -> {"no", "blocked", "granted"}]

\* Every object is in the list once or with exactly one caller: no interleaving
\* of getNew and release hands one object to two callers or loses one
\* (ObjectPoolEx.h:44-70).
ObjectsConserved ==
  /\ \A i, j \in DOMAIN free : free[i] = free[j] => i = j
  /\ \A t \in Threads, i \in DOMAIN free : free[i] \notin held[t]
  /\ \A s, t \in Threads : s # t => held[s] \cap held[t] = {}
  /\ \A o \in Objects : (\E i \in DOMAIN free : free[i] = o) \/ (\E t \in Threads : o \in held[t])

\* Permits may outnumber the free objects (getNew takes none back, Get raises
\* for nothing) but never fall short of them: every free object is announced
\* by a permit or by a waiter already released for it, so that nobody sleeps
\* in waitDataEvent beside an object (ObjectPoolEx.h:44-70, SemaphoreClock.cpp:13-23).
NoSleepBesideObject == Len(free) <= permits + Cardinality(Granted)

\* A caller blocked in waitDataEvent on a pool with objects gets out, even if
\* no object is free and none of the other callers ever waits.
WaitersServed ==
  \A t \in Threads : (waiting[t] = "blocked" /\ made > 0) ~> (waiting[t] # "blocked")
=============================================================================
