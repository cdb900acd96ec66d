----------------------------- MODULE LockUsers -----------------------------
(***************************************************************************)
(* The two kinds of code that hold a Locker over more than one step: the   *)
(* lists, each with its own, and the singletons, with one of theirs.  No   *)
(* code of the repository is inside both at once, so that the threads do   *)
(* one or the other.                                                       *)
(***************************************************************************)
EXTENDS SyncList

CONSTANT MaxReleases  \* bound on the calls of releaseInstance

VARIABLES kind, mSInstance, g_lock, objects, built, made, asks, releases,  \* of Singleton
          doing  \* what the threads do: "lists" or "instances"

singleVars == <<kind, mSInstance, g_lock, objects, built, made, asks, releases>>
lockVars   == <<vars, singleVars, doing>>

Instance == INSTANCE Singleton

LocksInit ==
  /\ Init /\ Instance!Init
  /\ doing \in {"lists", "instances"} /\ (doing = "lists" => kind = "IConfig")

LocksNext ==
  /\ UNCHANGED doing
  /\ \/ doing = "lists" /\ Next /\ UNCHANGED singleVars
     \/ doing = "instances" /\ Instance!Next /\ UNCHANGED vars

GoesOnWith(t) ==
  /\ UNCHANGED doing
  /\ \/ doing = "lists" /\ GoesOn(t) /\ UNCHANGED singleVars
     \/ doing = "instances" /\ Instance!GoesOn(t) /\ UNCHANGED vars

LocksSpec ==
  LocksInit /\ [][LocksNext]_lockVars /\ \A t \in Threads : SF_lockVars(GoesOnWith(t))

-----------------------------------------------------------------------------

\* See Singleton: one object, made once, and what a call of getInstance may
\* return (XXConfig.cpp:113-132, IAJA_TcOSD.cpp:7-16, PoolMgrEx.cpp:15-25).
OneInstance == Instance!OneInstance
GotObject   == Instance!GotObject

\* Every call ends: one of a singleton always, one of a list unless it waits in or
\* behind a ring of threads that are each inside a list and want that of the next,
\* by an assignment or by a callback that turns to another list
\* (SyncList.h:93-102, 121-133, XXConfig.cpp:118-132).
LocksAreLeft ==
  \A t \in Threads : []<>(IF doing = "lists" THEN Ended(t) ELSE Instance!AskAt(t, "idle"))
=============================================================================
