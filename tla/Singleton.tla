----------------------------- MODULE Singleton -----------------------------
(***************************************************************************)
(* The objects of which there is one: IConfig (Lib.Base/XXConfig.cpp),     *)
(* which can also be released, IAJA_TcOSD (Lib.TCMarker/IAJA_TcOSD.cpp),   *)
(* the same without a release, and PoolMgrEx (Lib.Base/PoolMgrEx.cpp),     *)
(* whose GetInstance always locks.                                         *)
(*                                                                         *)
(* getInstance tests the pointer without the lock, and reads it again to   *)
(* return it, beside a thread that sets it: the second value may be the    *)
(* first or a newer one, and the pointer may be seen before all of the     *)
(* object is.                                                              *)
(***************************************************************************)
EXTENDS Locker

CONSTANTS Threads,
          MaxReleases  \* bound on the calls of releaseInstance

Kinds == {"IConfig", "IAJA_TcOSD", "PoolMgrEx"}

VARIABLES
  kind,       \* which of the three, fixed
  mSInstance, \* the pointer: the number of an object, or 0
  g_lock,
  objects,    \* those that exist
  built,      \* those that are constructed
  made,       \* how many were made
  asks,       \* per thread: where it is in a call, and what it was given
  releases    \* how often releaseInstance was called

singleVars == <<kind, mSInstance, g_lock, objects, built, made, asks, releases>>

\* released is history: a release was at work on the object during the call.
NoAsk == [at |-> "idle", got |-> 0, released |-> FALSE]

AskAt(t, place) == asks[t].at = place
Goes(t, place)  == asks' = [asks EXCEPT ![t].at = place]

-----------------------------------------------------------------------------

Init ==
  /\ kind \in Kinds
  /\ mSInstance = 0 /\ g_lock = Unlocked
  /\ objects = {} /\ built = {} /\ made = 0
  /\ asks = [t \in Threads |-> NoAsk]
  /\ releases = 0

\* The test without the lock.
getInstance(t) ==
  /\ AskAt(t, "idle")
  /\ asks' = [asks EXCEPT ![t] =
       [NoAsk EXCEPT !.at = IF kind # "PoolMgrEx" /\ mSInstance # 0 THEN "reread" ELSE "lock",
                     !.got = mSInstance, !.released = \E u \in Threads : AskAt(u, "relNull")]]
  /\ UNCHANGED <<kind, mSInstance, g_lock, objects, built, made, releases>>

Reread(t) ==
  /\ AskAt(t, "reread")
  /\ \E pointer \in {asks[t].got, mSInstance} :
       asks' = [asks EXCEPT ![t].at = "returned", ![t].got = pointer]
  /\ UNCHANGED <<kind, mSInstance, g_lock, objects, built, made, releases>>

Lock(t) ==
  /\ AskAt(t, "lock") \/ AskAt(t, "relLock")
  /\ mayLock(g_lock, t)
  /\ g_lock' = lock(g_lock, t)
  /\ Goes(t, IF AskAt(t, "lock") THEN "test" ELSE "relTest")
  /\ UNCHANGED <<kind, mSInstance, objects, built, made, releases>>

\* Mutation: no second test.
TestOnce(t) ==
  /\ AskAt(t, "test")
  /\ made' = made + 1
  /\ objects' = objects \cup {made + 1}
  /\ Goes(t, "make")
  /\ UNCHANGED <<kind, mSInstance, g_lock, built, releases>>

\* The test with the lock; then the object is allocated.
Test(t) ==
  /\ AskAt(t, "test")
  /\ IF mSInstance # 0
     THEN Goes(t, "leave") /\ UNCHANGED <<objects, made>>
     ELSE /\ made' = made + 1
          /\ objects' = objects \cup {made + 1}
          /\ Goes(t, "make")
  /\ UNCHANGED <<kind, mSInstance, g_lock, built, releases>>

\* The constructor and the assignment, in the order in which the build stores
\* what they store.
Construct(t) ==
  /\ AskAt(t, "make") /\ made \notin built
  /\ built' = built \cup {made}
  /\ IF mSInstance = made THEN Goes(t, "leave") ELSE UNCHANGED asks
  /\ UNCHANGED <<kind, mSInstance, g_lock, objects, made, releases>>

Publish(t) ==
  /\ AskAt(t, "make") /\ mSInstance # made
  /\ mSInstance' = made
  /\ IF made \in built THEN Goes(t, "leave") ELSE UNCHANGED asks
  /\ UNCHANGED <<kind, g_lock, objects, built, made, releases>>

\* The value is read before the lock is left.
Leave(t) ==
  /\ AskAt(t, "leave")
  /\ g_lock' = unlock(g_lock)
  /\ asks' = [asks EXCEPT ![t].at = "returned", ![t].got = mSInstance]
  /\ UNCHANGED <<kind, mSInstance, objects, built, made, releases>>

Return(t) ==
  /\ AskAt(t, "returned")
  /\ asks' = [asks EXCEPT ![t] = NoAsk]
  /\ UNCHANGED <<kind, mSInstance, g_lock, objects, built, made, releases>>

releaseInstance(t) ==
  /\ kind = "IConfig" /\ AskAt(t, "idle") /\ releases < MaxReleases
  /\ releases' = releases + 1
  /\ Goes(t, "relLock")
  /\ UNCHANGED <<kind, mSInstance, g_lock, objects, built, made>>

Delete(t) ==
  /\ AskAt(t, "relTest")
  /\ IF mSInstance = 0
     THEN Goes(t, "relLeave") /\ UNCHANGED objects
     ELSE /\ objects' = objects \ {mSInstance}
          /\ asks' = [u \in Threads |-> IF u = t THEN [asks[t] EXCEPT !.at = "relNull"]
                                                ELSE [asks[u] EXCEPT !.released = @ \/ asks[u].at # "idle"]]
  /\ UNCHANGED <<kind, mSInstance, g_lock, built, made, releases>>

\* Mutation: the pointer stays.
SetNullNever(t) ==
  /\ AskAt(t, "relNull") /\ Goes(t, "relLeave")
  /\ UNCHANGED <<kind, mSInstance, g_lock, objects, built, made, releases>>

SetNull(t) ==
  /\ AskAt(t, "relNull")
  /\ mSInstance' = 0
  /\ Goes(t, "relLeave")
  /\ UNCHANGED <<kind, g_lock, objects, built, made, releases>>

ReleaseLeave(t) ==
  /\ AskAt(t, "relLeave")
  /\ g_lock' = unlock(g_lock)
  /\ asks' = [asks EXCEPT ![t] = NoAsk]
  /\ UNCHANGED <<kind, mSInstance, objects, built, made, releases>>

\* The rest of a call, where it has no lock to wait for.
Within(t) ==
  \/ Reread(t) \/ Test(t) \/ Construct(t) \/ Publish(t) \/ Leave(t) \/ Return(t)
  \/ Delete(t) \/ SetNull(t) \/ ReleaseLeave(t)

Next == \E t \in Threads : getInstance(t) \/ releaseInstance(t) \/ Lock(t) \/ Within(t)

\* A thread in a call goes on; one that waits for the lock gets it when it is free
\* again and again.
GoesOn(t) == Lock(t) \/ Within(t)

Spec == Init /\ [][Next]_singleVars /\ \A t \in Threads : SF_singleVars(GoesOn(t))

-----------------------------------------------------------------------------

\* There is never more than one object, and whoever changes anything has the
\* lock alone: two threads that both find no object make one
\* (XXConfig.cpp:113-132, IAJA_TcOSD.cpp:7-16, PoolMgrEx.cpp:15-25).
OneInstance ==
  /\ \A o, p \in objects : o = p
  /\ objects \subseteq {mSInstance} \cup {made}
  /\ \A t \in Threads :
       asks[t].at \in {"test", "make", "leave", "relTest", "relNull", "relLeave"} => g_lock.owner = t

\* A call returns an object that exists and is constructed, unless, for the
\* unlocked test, a release was at work during the call or another thread had
\* set the pointer and was still inside the constructor; PoolMgrEx, which
\* locks, has no such case (XXConfig.cpp:115-121, 127-131).
GotObject ==
  \A t \in Threads :
    asks[t].at = "returned" =>
      \/ asks[t].got \in objects \cap built
      \/ asks[t].released /\ kind = "IConfig"
      \/ asks[t].got = made /\ kind # "PoolMgrEx" /\ \E u \in Threads \ {t} : AskAt(u, "make")
=============================================================================
