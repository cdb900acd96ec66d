------------------------------ MODULE SyncList ------------------------------
(***************************************************************************)
(* SyncList<T> (Lib.Base/SyncList.h), a list with a Locker of its own.     *)
(*                                                                         *)
(* Calls that hold their lock from the first to the last access are one    *)
(* step, taken when no other thread is inside.  for_each keeps the lock    *)
(* while its callback runs, once per item; operator= holds its own lock    *)
(* while it goes through the other list.  empty() takes none: a caller of  *)
(* pop_front and pop_back, which must not meet an empty list, asks it      *)
(* before.                                                                 *)
(*                                                                         *)
(* The callers are not in the repository, and for_each runs whatever       *)
(* callback they give it.  Here one may, for each item, look for an item   *)
(* of any list, that it is called for or another, or take the first item   *)
(* of another; it does not change the list it is called for, which would   *)
(* break the iteration.                                                    *)
(***************************************************************************)
EXTENDS Locker, Sequences, FiniteSets

CONSTANTS Threads, Lists, Values,
          NoList,  \* the destination of a for_each that is no assignment, and
                   \* the list of a callback that uses none
          MaxLen   \* bound on the lists

ASSUME SyncListAssumption ==
  /\ NoOne \notin Threads /\ NoList \notin Lists
  /\ MaxLen \in Nat

VARIABLES
  list,    \* m_list, per list
  locker,  \* m_lock, per list: its owner and how often it is held
  call,    \* per thread: where it is in a call of several steps
  fault    \* pop_front or pop_back was called on an empty list

vars == <<list, locker, call, fault>>

\* taken is history: another thread took from src since empty() was asked.
NoCall == [at |-> "idle", dst |-> NoList, src |-> NoList, look |-> NoList, seen |-> <<>>,
           taken |-> FALSE]

Idle(t)      == call[t].at = "idle" /\ ~fault
At(t, place) == call[t].at = place /\ ~fault

\* The calls, when something was taken from l.
Noticed(l) ==
  [t \in Threads |-> [call[t] EXCEPT !.taken = @ \/ (call[t].at = "pop" /\ call[t].src = l)]]

-----------------------------------------------------------------------------

Init ==
  /\ list = [l \in Lists |-> <<>>]
  /\ locker = [l \in Lists |-> Unlocked]
  /\ call = [t \in Threads |-> NoCall]
  /\ fault = FALSE

\* A call of one step, by a thread that is in none.
Locked(t, l) == Idle(t) /\ mayLock(locker[l], t) /\ UNCHANGED <<locker, fault>>

emplace_back(t, l, val) ==
  /\ Locked(t, l) /\ Len(list[l]) < MaxLen
  /\ list' = [list EXCEPT ![l] = Append(@, val)]
  /\ UNCHANGED call

emplace_front(t, l, val) ==
  /\ Locked(t, l) /\ Len(list[l]) < MaxLen
  /\ list' = [list EXCEPT ![l] = <<val>> \o @]
  /\ UNCHANGED call

pop_begin(t, l) ==
  /\ Locked(t, l) /\ list[l] # <<>>
  /\ list' = [list EXCEPT ![l] = Tail(@)]
  /\ call' = Noticed(l)

clear(t, l) ==
  /\ Locked(t, l)
  /\ list' = [list EXCEPT ![l] = <<>>]
  /\ call' = Noticed(l)

\* What stays keeps its order.
remove(t, l, item) ==
  LET stay == {i \in DOMAIN list[l] : list[l][i] # item}
  IN  /\ Locked(t, l)
      /\ \E order \in [1 .. Cardinality(stay) -> stay] :
           /\ \A i, j \in DOMAIN order : i < j => order[i] < order[j]
           /\ list' = [list EXCEPT ![l] = [i \in DOMAIN order |-> list[l][order[i]]]]
      /\ call' = Noticed(l)

-----------------------------------------------------------------------------

\* Mutation: the answer does not depend on the list.
emptyNever(t, l) ==
  /\ Idle(t)
  /\ call' = [call EXCEPT ![t] = [NoCall EXCEPT !.at = "pop", !.src = l]]
  /\ UNCHANGED <<list, locker, fault>>

\* empty() answered no, without the lock; pop_front or pop_back comes next.
empty(t, l) ==
  /\ Idle(t) /\ list[l] # <<>>
  /\ call' = [call EXCEPT ![t] = [NoCall EXCEPT !.at = "pop", !.src = l]]
  /\ UNCHANGED <<list, locker, fault>>

Pop(t, rest(_)) ==
  LET l == call[t].src
  IN  /\ At(t, "pop") /\ mayLock(locker[l], t)
      /\ IF list[l] = <<>>
         THEN fault' = TRUE /\ UNCHANGED <<list, call>>
         ELSE /\ list' = [list EXCEPT ![l] = rest(@)]
              /\ call' = [Noticed(l) EXCEPT ![t] = NoCall]
              /\ UNCHANGED fault
      /\ UNCHANGED locker

pop_front(t) == Pop(t, Tail)
pop_back(t)  == Pop(t, LAMBDA s : SubSeq(s, 1, Len(s) - 1))

-----------------------------------------------------------------------------

for_each(t, l) ==
  /\ Idle(t) /\ mayLock(locker[l], t)
  /\ locker' = [locker EXCEPT ![l] = lock(@, t)]
  /\ call' = [call EXCEPT ![t] = [NoCall EXCEPT !.at = "each", !.src = l]]
  /\ UNCHANGED <<list, fault>>

\* The callback, for the next item: that of operator= appends it; another may
\* call find for the same list, or turn to another list.
func(t) ==
  LET c    == call[t]
      item == list[c.src][Len(c.seen) + 1]
  IN  /\ At(t, "each") /\ Len(c.seen) < Len(list[c.src])
      /\ \/ call' = [call EXCEPT ![t].seen = Append(@, item)]
         \/ /\ c.dst = NoList
            /\ call' = [call EXCEPT ![t].seen = Append(@, item), ![t].at = "find"]
         \/ /\ c.dst = NoList
            /\ \E l \in Lists \ {c.src} :
                 call' = [call EXCEPT ![t].seen = Append(@, item), ![t].at = "turn", ![t].look = l]
      /\ list' = IF c.dst = NoList THEN list ELSE [list EXCEPT ![c.dst] = Append(@, item)]
      /\ UNCHANGED <<locker, fault>>

FindLock(t) ==
  LET l == call[t].src
  IN  /\ At(t, "find") /\ mayLock(locker[l], t)
      /\ locker' = [locker EXCEPT ![l] = lock(@, t)]
      /\ call' = [call EXCEPT ![t].at = "found"]
      /\ UNCHANGED <<list, fault>>

FindUnlock(t) ==
  LET l == call[t].src
  IN  /\ At(t, "found")
      /\ locker' = [locker EXCEPT ![l] = unlock(@)]
      /\ call' = [call EXCEPT ![t].at = "each"]
      /\ UNCHANGED <<list, fault>>

\* A call of one step for the other list: pop_begin, or find or pop_begin that
\* leaves it as it is.
Turn(t) ==
  LET l == call[t].look
  IN  /\ At(t, "turn") /\ mayLock(locker[l], t)
      /\ \/ /\ list[l] # <<>>
            /\ list' = [list EXCEPT ![l] = Tail(@)]
            /\ call' = [Noticed(l) EXCEPT ![t].at = "each", ![t].look = NoList]
         \/ /\ call' = [call EXCEPT ![t].at = "each", ![t].look = NoList]
            /\ UNCHANGED list
      /\ UNCHANGED <<locker, fault>>

\* for_each returns at the end of the list, or before it when the callback
\* says so.
EachEnd(t) ==
  LET c == call[t]
  IN  /\ At(t, "each") /\ (c.dst # NoList => Len(c.seen) = Len(list[c.src]))
      /\ locker' = [locker EXCEPT ![c.src] = unlock(@)]
      /\ call' = [call EXCEPT ![t] = IF c.dst = NoList THEN NoCall ELSE [c EXCEPT !.at = "assigned"]]
      /\ UNCHANGED <<list, fault>>

\* operator=: nothing for the list itself, otherwise its own lock first.
Assign(t, dst, src) ==
  /\ Idle(t) /\ dst # src /\ mayLock(locker[dst], t)
  /\ locker' = [locker EXCEPT ![dst] = lock(@, t)]
  /\ list' = [list EXCEPT ![dst] = <<>>]
  /\ call' = [Noticed(dst) EXCEPT ![t] = [NoCall EXCEPT !.at = "assign", !.dst = dst, !.src = src]]
  /\ UNCHANGED fault

AssignEach(t) ==
  LET l == call[t].src
  IN  /\ At(t, "assign") /\ mayLock(locker[l], t)
      /\ locker' = [locker EXCEPT ![l] = lock(@, t)]
      /\ call' = [call EXCEPT ![t].at = "each"]
      /\ UNCHANGED <<list, fault>>

AssignEnd(t) ==
  LET l == call[t].dst
  IN  /\ At(t, "assigned")
      /\ locker' = [locker EXCEPT ![l] = unlock(@)]
      /\ call' = [call EXCEPT ![t] = NoCall]
      /\ UNCHANGED <<list, fault>>

\* The rest of a call, where it has no lock to wait for and where it has.
Inside(t)  == func(t) \/ FindUnlock(t) \/ EachEnd(t) \/ AssignEnd(t)
Waiting(t) == FindLock(t) \/ Turn(t) \/ AssignEach(t) \/ pop_front(t) \/ pop_back(t)

Next ==
  \E t \in Threads :
    \/ Inside(t) \/ Waiting(t)
    \/ \E l \in Lists :
         \/ pop_begin(t, l) \/ clear(t, l) \/ empty(t, l) \/ for_each(t, l)
         \/ \E val \in Values : emplace_back(t, l, val) \/ emplace_front(t, l, val) \/ remove(t, l, val)
         \/ \E src \in Lists : Assign(t, l, src)

\* A thread in a call goes on; one that waits for a lock gets it when it is free
\* again and again.
GoesOn(t) == Inside(t) \/ Waiting(t)

Spec == Init /\ [][Next]_vars /\ \A t \in Threads : SF_vars(GoesOn(t))

-----------------------------------------------------------------------------

\* Whoever goes through a list sees what it holds from its first item on, with
\* nothing changed behind it, also after its callback used that list or another;
\* an assigned list holds just the items seen (SyncList.h:93-102, 121-133,
\* locker.cpp:14-27).
SeesTheList ==
  \A t \in Threads :
    /\ call[t].at \in {"each", "find", "found", "turn"} =>
         LET seen == call[t].seen
             whole == list[call[t].src]
         IN  Len(seen) <= Len(whole) /\ seen = SubSeq(whole, 1, Len(seen))
    /\ call[t].dst # NoList => list[call[t].dst] = call[t].seen

\* A list that empty() called not empty is empty for the pop that follows only
\* if another thread took from it between the two (SyncList.h:30-34, 46-50, 63-66).
EmptyPopNeedsTaking ==
  fault => \E t \in Threads : call[t].at = "pop" /\ call[t].taken /\ list[call[t].src] = <<>>

\* Where a thread needs a lock to go on, and of which list.
Waits(t)  == call[t].at \in {"find", "turn", "assign", "pop"}
Wanted(t) == IF call[t].at = "turn" THEN call[t].look ELSE call[t].src

\* Threads that each wait for a list another of them is inside: a ring, and
\* whoever waits behind it.
Stuck(t) ==
  \E ring \in SUBSET Threads :
    /\ t \in ring
    /\ \A s \in ring : Waits(s) /\ locker[Wanted(s)].owner \in ring \ {s}

\* The call has ended, or waits in or behind a ring of threads that are each inside
\* a list and want that of the next: assignments whose lists are passed round, or
\* callbacks that turn to another list.
Ended(t) == call[t].at = "idle" \/ Stuck(t) \/ fault
=============================================================================
