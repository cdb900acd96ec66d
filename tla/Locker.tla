------------------------------- MODULE Locker -------------------------------
(***************************************************************************)
(* Locker and LockHolder (Lib.Base/locker.cpp): a critical section, which  *)
(* its owner may enter again.  A lock is a record of its owner and of how  *)
(* often it was entered.                                                   *)
(***************************************************************************)
EXTENDS Integers

CONSTANT NoOne  \* the owner of a lock nobody holds

Unlocked == [owner |-> NoOne, depth |-> 0]

\* Mutation: a lock that its owner cannot take again.
mayLockOnce(locker, t) == locker.owner = NoOne

\* EnterCriticalSection goes on for the owner too, LeaveCriticalSection frees
\* the lock when it was left as often as it was entered.
mayLock(locker, t) == locker.owner \in {NoOne, t}

lock(locker, t) == [owner |-> t, depth |-> locker.depth + 1]

\* Mutation: the lock is free when it was left once.
unlockAll(locker) == Unlocked

unlock(locker) ==
  [owner |-> IF locker.depth = 1 THEN NoOne ELSE locker.owner, depth |-> locker.depth - 1]
=============================================================================
