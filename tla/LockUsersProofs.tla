-------------------------- MODULE LockUsersProofs --------------------------
(***************************************************************************)
(* Proofs about what holds a Locker over several steps.  The lists, for    *)
(* any threads, lists and items: who goes through a list sees the list,    *)
(* and an assigned list holds what was seen.  The singletons, for any      *)
(* threads and any number of releases: there is one object, and what a     *)
(* call is given exists.                                                   *)
(***************************************************************************)
EXTENDS LockUsers, FiniteSetTheorems, SequenceTheorems, TLAPS

OneIf(P) == IF P THEN 1 ELSE 0

\* Inside for_each, with its callback, and inside an assignment.
Going(c)     == c.at \in {"each", "find", "found", "turn"}
Assigning(c) == c.at \in {"assign", "each", "assigned"} /\ c.dst # NoList

\* How often a call holds the lock of l.
Depth(c, l) == OneIf(Going(c) /\ c.src = l) + OneIf(c.at = "found" /\ c.src = l)
               + OneIf(Assigning(c) /\ c.dst = l)

Calls == [at : {"idle", "pop", "each", "find", "found", "turn", "assign", "assigned"},
          dst : Lists \cup {NoList}, src : Lists \cup {NoList}, look : Lists \cup {NoList},
          seen : Seq(Values), taken : BOOLEAN]

TypeOK ==
  /\ list \in [Lists -> Seq(Values)]
  /\ locker \in [Lists -> [owner : Threads \cup {NoOne}, depth : Nat]]
  /\ call \in [Threads -> Calls]
  /\ fault \in BOOLEAN

\* Which lists a call works on, by its place.
CallOK(c) ==
  /\ c.at # "idle" => c.src \in Lists
  /\ c.at \in {"idle", "pop", "find", "found", "turn"} => c.dst = NoList
  /\ c.at = "turn" => c.look \in Lists \ {c.src}
  /\ c.at \in {"assign", "assigned"} => c.dst # NoList
  /\ c.dst # c.src \/ c.at = "idle"
  /\ c.at = "assign" => c.seen = <<>>

\* A lock is held as often as the call of its owner says, and by no other.
LocksOK ==
  \A l \in Lists :
    /\ \A t \in Threads : Depth(call[t], l) > 0 =>
         locker[l].owner = t /\ locker[l].depth = Depth(call[t], l)
    /\ locker[l].owner # NoOne => Depth(call[locker[l].owner], l) > 0
    /\ locker[l].owner = NoOne => locker[l].depth = 0

\* SeesTheList item by item.
Seen(c, lists) ==
  /\ Going(c) =>
       /\ Len(c.seen) <= Len(lists[c.src])
       /\ \A i \in 1 .. Len(c.seen) : c.seen[i] = lists[c.src][i]
  /\ c.dst # NoList => lists[c.dst] = c.seen

IInv ==
  /\ TypeOK /\ LocksOK
  /\ \A t \in Threads : CallOK(call[t]) /\ Seen(call[t], list)

-----------------------------------------------------------------------------

\* The depth of a call, place by place.
LEMMA Depths ==
  ASSUME NEW c \in Calls, CallOK(c), NEW l \in Lists
  PROVE  /\ Depth(c, l) \in Nat
         /\ c.at \in {"idle", "pop"} => Depth(c, l) = 0
         /\ c.at \in {"each", "find", "turn"} /\ c.src = l => Depth(c, l) = 1
         /\ c.at = "found" /\ c.src = l => Depth(c, l) = 2
         /\ c.at \in {"assign", "assigned"} /\ c.dst = l => Depth(c, l) = 1
         /\ c.at = "each" /\ c.dst = l => Depth(c, l) = 1
         /\ c.at # "idle" /\ c.src # l /\ c.dst # l => Depth(c, l) = 0
         /\ c.at \in {"assign", "assigned"} /\ c.dst # l => Depth(c, l) = 0
BY SyncListAssumption DEF Depth, OneIf, Going, Assigning, CallOK, Calls

\* A lock that a thread may take and does not hold is held by nobody.
LEMMA NobodyInside ==
  ASSUME IInv, NEW t \in Threads, NEW l \in Lists, mayLock(locker[l], t),
         Depth(call[t], l) = 0
  PROVE  (\A u \in Threads : Depth(call[u], l) = 0) /\ locker[l] = Unlocked
<1>1. \A u \in Threads : Depth(call[u], l) \in Nat
  BY Depths DEF IInv, TypeOK
<1>2. locker[l].owner = NoOne /\ locker[l].depth = 0
  BY <1>1 DEF mayLock, IInv, LocksOK
<1>3. locker[l] = Unlocked
  BY <1>2 DEF IInv, TypeOK, Unlocked
<1> QED BY <1>1, <1>2, <1>3, SyncListAssumption DEF IInv, LocksOK

\* A call that does not hold the lock of a list does not depend on it.
LEMMA NotLooking ==
  ASSUME NEW c \in Calls, CallOK(c), NEW l \in Lists, Depth(c, l) = 0,
         \A k \in Lists \ {l} : list'[k] = list[k], Seen(c, list)
  PROVE  Seen(c, list')
<1>1. Going(c) => c.src \in Lists \ {l}
  BY Depths DEF Going, CallOK, Calls
<1>2. c.dst # NoList => c.dst \in Lists \ {l}
  BY Depths DEF CallOK, Calls
<1> QED BY <1>1, <1>2 DEF Seen

\* Calls that differ in nothing but what others took.
Like(c, d) ==
  c.at = d.at /\ c.src = d.src /\ c.dst = d.dst /\ c.look = d.look /\ c.seen = d.seen

LEMMA LikeCalls ==
  ASSUME NEW c, NEW d, Like(c, d)
  PROVE  /\ CallOK(c) <=> CallOK(d)
         /\ \A l \in Lists : Depth(c, l) = Depth(d, l)
         /\ \A lists : Seen(c, lists) <=> Seen(d, lists)
BY DEF Like, CallOK, Depth, Going, Assigning, Seen

Held(t, n) == IF n = 0 THEN Unlocked ELSE [owner |-> t, depth |-> n]

\* A step of t, after which its call is d: what it changes of a lock or of a
\* list, no other call depends on.
LEMMA StepIInv ==
  ASSUME IInv, NEW t \in Threads, NEW d \in Calls, CallOK(d),
         list' \in [Lists -> Seq(Values)], call' \in [Threads -> Calls], fault' \in BOOLEAN,
         locker' \in [Lists -> [owner : Threads \cup {NoOne}, depth : Nat]],
         Like(call'[t], d), \A u \in Threads \ {t} : Like(call'[u], call[u]),
         \A l \in Lists :
           \/ locker'[l] = locker[l] /\ Depth(d, l) = Depth(call[t], l)
           \/ /\ \A u \in Threads \ {t} : Depth(call[u], l) = 0
              /\ locker'[l] = Held(t, Depth(d, l)),
         Seen(d, list'), \A u \in Threads \ {t} : Seen(call[u], list')
  PROVE  IInv'
<1>1. TypeOK'
  BY DEF TypeOK
<1>2. ASSUME NEW u \in Threads PROVE CallOK(call[u])' /\ Seen(call[u], list)'
  <2>1. CASE u = t
    <3>1. CallOK(call'[t]) /\ Seen(call'[t], list')
      BY LikeCalls
    <3> QED BY <2>1, <3>1 DEF CallOK, Seen, Going
  <2>2. CASE u # t
    <3>1. CallOK(call'[u]) /\ Seen(call'[u], list')
      BY <2>2, LikeCalls DEF IInv
    <3> QED BY <3>1 DEF CallOK, Seen, Going
  <2> QED BY <2>1, <2>2
<1>3. LocksOK'
  <2>1. ASSUME NEW l \in Lists, NEW u \in Threads
        PROVE  Depth(call'[u], l) = IF u = t THEN Depth(d, l) ELSE Depth(call[u], l)
    BY LikeCalls
  <2>2. SUFFICES ASSUME NEW l \in Lists
        PROVE  /\ \A u \in Threads : Depth(call'[u], l) > 0 =>
                    locker'[l].owner = u /\ locker'[l].depth = Depth(call'[u], l)
               /\ locker'[l].owner # NoOne => Depth(call'[locker'[l].owner], l) > 0
               /\ locker'[l].owner = NoOne => locker'[l].depth = 0
    BY DEF LocksOK, Depth, Going, Assigning
  <2>3. locker'[l].owner \in Threads \cup {NoOne}
    OBVIOUS
  <2>4. CASE locker'[l] = locker[l] /\ Depth(d, l) = Depth(call[t], l)
    <3>1. \A u \in Threads : Depth(call'[u], l) = Depth(call[u], l)
      BY <2>1, <2>4
    <3> QED BY <2>3, <2>4, <3>1 DEF IInv, LocksOK
  <2>5. CASE /\ \A u \in Threads \ {t} : Depth(call[u], l) = 0
             /\ locker'[l] = Held(t, Depth(d, l))
    <3>1. \A u \in Threads \ {t} : Depth(call'[u], l) = 0
      BY <2>1, <2>5
    <3>2. Depth(call'[t], l) = Depth(d, l) /\ Depth(d, l) \in Nat
      BY <2>1, Depths
    <3> QED BY <2>5, <3>1, <3>2, SyncListAssumption DEF Held, Unlocked
  <2> QED BY <2>4, <2>5
<1> QED BY <1>1, <1>2, <1>3 DEF IInv

LEMMA NoCallOK ==
  /\ NoCall \in Calls /\ CallOK(NoCall)
  /\ \A l \in Lists : Depth(NoCall, l) = 0
  /\ \A lists : Seen(NoCall, lists)
BY SyncListAssumption DEF NoCall, Calls, CallOK, Depth, OneIf, Going, Assigning, Seen

LEMMA NoticedLike ==
  ASSUME IInv, NEW l
  PROVE  /\ Noticed(l) \in [Threads -> Calls]
         /\ \A t \in Threads : Like(Noticed(l)[t], call[t])
<1>1. \A t \in Threads : call[t] \in Calls
  BY DEF IInv, TypeOK
<1>2. ASSUME NEW t \in Threads
      PROVE  Noticed(l)[t] \in Calls /\ Like(Noticed(l)[t], call[t])
  <2>1. Noticed(l)[t] = [call[t] EXCEPT !.taken = call[t].taken \/ (call[t].at = "pop" /\ call[t].src = l)]
    BY DEF Noticed
  <2>2. (call[t].taken \/ (call[t].at = "pop" /\ call[t].src = l)) \in BOOLEAN
    OBVIOUS
  <2> QED BY <1>1, <2>1, <2>2 DEF Calls, Like
<1> QED BY <1>2 DEF Noticed

\* A call in one step, or the last of a pop: t is alone at a list that changes.
LEMMA QuickIInv ==
  ASSUME IInv, NEW t \in Threads, NEW l \in Lists, mayLock(locker[l], t),
         call[t].at \in {"idle", "pop"},
         NEW rest \in Seq(Values), list' = [list EXCEPT ![l] = rest],
         UNCHANGED <<locker, fault>>,
         call' \in {call, Noticed(l), [Noticed(l) EXCEPT ![t] = NoCall]}
  PROVE  IInv'
<1>1. call[t] \in Calls /\ CallOK(call[t]) /\ \A k \in Lists : Depth(call[t], k) = 0
  BY Depths DEF IInv, TypeOK
<1>2. \A u \in Threads : Depth(call[u], l) = 0
  BY <1>1, NobodyInside
<1>3. ASSUME NEW u \in Threads PROVE Seen(call[u], list')
  <2>1. \A k \in Lists \ {l} : list'[k] = list[k]
    BY DEF IInv, TypeOK
  <2>2. call[u] \in Calls /\ CallOK(call[u]) /\ Depth(call[u], l) = 0 /\ Seen(call[u], list)
    BY <1>2 DEF IInv, TypeOK
  <2> QED BY <2>1, <2>2, NotLooking
<1>4. list' \in [Lists -> Seq(Values)] /\ fault' \in BOOLEAN
      /\ locker' \in [Lists -> [owner : Threads \cup {NoOne}, depth : Nat]]
  BY DEF IInv, TypeOK
<1>5. /\ call' \in [Threads -> Calls]
      /\ \A u \in Threads \ {t} : Like(call'[u], call[u])
      /\ Like(call'[t], call[t]) \/ Like(call'[t], NoCall)
  <2>1. CASE call' = call
    BY <2>1 DEF IInv, TypeOK, Like
  <2>2. CASE call' = Noticed(l)
    BY <2>2, NoticedLike
  <2>3. CASE call' = [Noticed(l) EXCEPT ![t] = NoCall]
    BY <2>3, NoticedLike, NoCallOK DEF Like
  <2> QED BY <2>1, <2>2, <2>3
<1>6. CASE Like(call'[t], call[t])
  BY <1>1, <1>3, <1>4, <1>5, <1>6, StepIInv
<1>7. CASE Like(call'[t], NoCall)
  BY <1>1, <1>3, <1>4, <1>5, <1>7, NoCallOK, StepIInv
<1> QED BY <1>5, <1>6, <1>7

LEMMA FunctionIsSeq ==
  ASSUME NEW S, NEW n \in Nat, NEW g \in [1 .. n -> S]
  PROVE  g \in Seq(S)
OBVIOUS

LEMMA OneStepIInv ==
  ASSUME IInv, NEW t \in Threads, NEW l \in Lists, NEW val \in Values,
         emplace_back(t, l, val) \/ emplace_front(t, l, val) \/ remove(t, l, val)
  PROVE  IInv'
<1>1. list[l] \in Seq(Values) /\ list \in [Lists -> Seq(Values)]
  BY DEF IInv, TypeOK
<1>2. mayLock(locker[l], t) /\ call[t].at \in {"idle", "pop"} /\ UNCHANGED <<locker, fault>>
  BY DEF emplace_back, emplace_front, remove, Locked, Idle
<1>3. call' \in {call, Noticed(l), [Noticed(l) EXCEPT ![t] = NoCall]}
  BY DEF emplace_back, emplace_front, remove
<1>4. \E rest \in Seq(Values) : list' = [list EXCEPT ![l] = rest]
  <2>1. CASE emplace_back(t, l, val) \/ emplace_front(t, l, val)
    <3>1. Append(list[l], val) \in Seq(Values) /\ <<val>> \o list[l] \in Seq(Values)
      BY <1>1
    <3>2. \/ list' = [list EXCEPT ![l] = Append(list[l], val)]
          \/ list' = [list EXCEPT ![l] = <<val>> \o list[l]]
      BY <2>1 DEF emplace_back, emplace_front
    <3> QED BY <3>1, <3>2
  <2>2. CASE remove(t, l, val)
    <3> DEFINE stay == {i \in DOMAIN list[l] : list[l][i] # val}
    <3>1. IsFiniteSet(stay) /\ Cardinality(stay) \in Nat
      <4>1. DOMAIN list[l] = 1 .. Len(list[l]) /\ IsFiniteSet(1 .. Len(list[l]))
        BY <1>1, FS_Interval
      <4>2. IsFiniteSet(stay)
        BY <4>1, FS_Subset
      <4> QED BY <4>2, FS_CardinalityType
    <3>2. PICK order \in [1 .. Cardinality(stay) -> stay] :
            list' = [list EXCEPT ![l] = [i \in DOMAIN order |-> list[l][order[i]]]]
      BY <2>2 DEF remove
    <3>3. [i \in DOMAIN order |-> list[l][order[i]]] \in Seq(Values)
      <4>1. DOMAIN order = 1 .. Cardinality(stay)
        OBVIOUS
      <4>2. \A i \in 1 .. Cardinality(stay) : order[i] \in 1 .. Len(list[l])
        BY <1>1
      <4>3. \A i \in 1 .. Cardinality(stay) : list[l][order[i]] \in Values
        BY <1>1, <4>2
      <4>4. [i \in DOMAIN order |-> list[l][order[i]]] \in [1 .. Cardinality(stay) -> Values]
        BY <4>1, <4>3
      <4> QED BY <3>1, <4>4, FunctionIsSeq
    <3> QED BY <3>2, <3>3
  <2> QED BY <2>1, <2>2
<1> QED BY <1>2, <1>3, <1>4, QuickIInv

LEMMA PopIInv ==
  ASSUME IInv, NEW t \in Threads, pop_front(t) \/ pop_back(t)
  PROVE  IInv'
<1> DEFINE l == call[t].src
<1>1. l \in Lists /\ mayLock(locker[l], t) /\ call[t].at = "pop" /\ UNCHANGED locker
  BY DEF pop_front, pop_back, Pop, At, IInv, CallOK
<1>2. CASE list[l] = <<>>
  <2>1. fault' = TRUE /\ UNCHANGED <<list, call, locker>>
    BY <1>2 DEF pop_front, pop_back, Pop
  <2> QED BY <2>1 DEF IInv, TypeOK, LocksOK, CallOK, Seen, Going, Depth, Assigning
<1>3. CASE list[l] # <<>>
  <2>1. list[l] \in Seq(Values)
    BY <1>1 DEF IInv, TypeOK
  <2>2. Tail(list[l]) \in Seq(Values) /\ SubSeq(list[l], 1, Len(list[l]) - 1) \in Seq(Values)
    BY <1>3, <2>1
  <2>3. /\ call' = [Noticed(l) EXCEPT ![t] = NoCall] /\ UNCHANGED fault
        /\ \/ list' = [list EXCEPT ![l] = Tail(list[l])]
           \/ list' = [list EXCEPT ![l] = SubSeq(list[l], 1, Len(list[l]) - 1)]
    BY <1>3 DEF pop_front, pop_back, Pop
  <2> QED BY <1>1, <2>2, <2>3, QuickIInv
<1> QED BY <1>2, <1>3

-----------------------------------------------------------------------------
\* Calls of several steps.

\* Whoever is inside a list is there alone.
LEMMA AloneInside ==
  ASSUME IInv, NEW t \in Threads, NEW l \in Lists, Depth(call[t], l) > 0
  PROVE  /\ \A u \in Threads \ {t} : Depth(call[u], l) = 0
         /\ locker[l] = [owner |-> t, depth |-> Depth(call[t], l)]
<1>1. \A u \in Threads : Depth(call[u], l) \in Nat
  BY Depths DEF IInv, TypeOK
<1>2. locker[l].owner = t /\ locker[l].depth = Depth(call[t], l)
  BY DEF IInv, LocksOK
<1>3. \A u \in Threads \ {t} : Depth(call[u], l) = 0
  BY <1>1, <1>2 DEF IInv, LocksOK
<1> QED BY <1>2, <1>3 DEF IInv, TypeOK

\* What leaving does to the lock of a list t is inside.
LEMMA Unlocks ==
  ASSUME IInv, NEW t \in Threads, NEW l \in Lists, Depth(call[t], l) > 0
  PROVE  unlock(locker[l]) = Held(t, Depth(call[t], l) - 1)
<1>1. locker[l] = [owner |-> t, depth |-> Depth(call[t], l)] /\ Depth(call[t], l) \in Nat
  BY AloneInside, Depths DEF IInv, TypeOK
<1> QED BY <1>1 DEF unlock, Held, Unlocked

\* And what taking it does, once more or for the first time.
LEMMA Locks ==
  ASSUME IInv, NEW t \in Threads, NEW l \in Lists, mayLock(locker[l], t)
  PROVE  /\ lock(locker[l], t) = Held(t, Depth(call[t], l) + 1)
         /\ \A u \in Threads \ {t} : Depth(call[u], l) = 0
<1>1. Depth(call[t], l) \in Nat
  BY Depths DEF IInv, TypeOK
<1>2. CASE Depth(call[t], l) = 0
  <2>1. (\A u \in Threads : Depth(call[u], l) = 0) /\ locker[l] = Unlocked
    BY <1>2, NobodyInside
  <2> QED BY <1>2, <2>1 DEF lock, Held, Unlocked
<1>3. CASE Depth(call[t], l) > 0
  <2>1. locker[l] = [owner |-> t, depth |-> Depth(call[t], l)]
        /\ \A u \in Threads \ {t} : Depth(call[u], l) = 0
    BY <1>3, AloneInside
  <2>2. lock(locker[l], t) = [owner |-> t, depth |-> Depth(call[t], l) + 1]
    BY <2>1 DEF lock
  <2>3. Depth(call[t], l) + 1 # 0
    BY <1>1
  <2> QED BY <2>1, <2>2, <2>3 DEF Held
<1> QED BY <1>1, <1>2, <1>3

LEMMA LockTypes ==
  ASSUME NEW t \in Threads, NEW n \in Nat
  PROVE  Held(t, n) \in [owner : Threads \cup {NoOne}, depth : Nat]
BY DEF Held, Unlocked

\* A step of t that takes or leaves the lock of l and changes no list; its call
\* is d after it.
LockStep(t, l, d) ==
  /\ d \in Calls /\ CallOK(d) /\ Seen(d, list)
  /\ UNCHANGED <<list, fault>>
  /\ call' = [call EXCEPT ![t] = d]
  /\ \A u \in Threads \ {t} : Depth(call[u], l) = 0
  /\ \A k \in Lists \ {l} : Depth(d, k) = Depth(call[t], k)
  /\ locker' = [locker EXCEPT ![l] = Held(t, Depth(d, l))]

LEMMA LockStepIInv ==
  ASSUME IInv, NEW t \in Threads, NEW l \in Lists, NEW d, LockStep(t, l, d)
  PROVE  IInv'
<1> USE DEF LockStep
<1>1. Depth(d, l) \in Nat
  BY Depths
<1>2. /\ list' \in [Lists -> Seq(Values)] /\ call' \in [Threads -> Calls] /\ fault' \in BOOLEAN
      /\ locker' \in [Lists -> [owner : Threads \cup {NoOne}, depth : Nat]]
  BY <1>1, LockTypes DEF IInv, TypeOK
<1>3. Like(call'[t], d) /\ \A u \in Threads \ {t} : Like(call'[u], call[u])
  BY DEF IInv, TypeOK, Like
<1>4. \A k \in Lists :
        \/ locker'[k] = locker[k] /\ Depth(d, k) = Depth(call[t], k)
        \/ /\ \A u \in Threads \ {t} : Depth(call[u], k) = 0
           /\ locker'[k] = Held(t, Depth(d, k))
  BY DEF IInv, TypeOK
<1>5. Seen(d, list') /\ \A u \in Threads \ {t} : Seen(call[u], list')
  BY DEF IInv
<1> QED BY <1>2, <1>3, <1>4, <1>5, StepIInv

LEMMA for_eachIInv ==
  ASSUME IInv, NEW t \in Threads, NEW l \in Lists, for_each(t, l)
  PROVE  IInv'
<1> DEFINE d == [NoCall EXCEPT !.at = "each", !.src = l]
<1>1. /\ d \in Calls /\ CallOK(d) /\ d.at = "each" /\ d.src = l /\ d.dst = NoList /\ d.seen = <<>>
      /\ call' = [call EXCEPT ![t] = d]
  <2>1. NoCall \in Calls /\ NoCall.dst = NoList /\ NoCall.seen = <<>>
    BY NoCallOK DEF NoCall
  <2>2. call' = [call EXCEPT ![t] = d]
    BY DEF for_each
  <2> QED BY <2>1, <2>2, SyncListAssumption DEF Calls, CallOK
<1> HIDE DEF d
<1>2. Seen(d, list)
  BY <1>1 DEF Seen, IInv, TypeOK
<1>3. call[t].at = "idle" /\ \A k \in Lists : Depth(call[t], k) = 0
  BY Depths DEF for_each, Idle, IInv, TypeOK
<1>4. Depth(d, l) = 1 /\ \A k \in Lists \ {l} : Depth(d, k) = 0
  BY <1>1, Depths, SyncListAssumption
<1>5. mayLock(locker[l], t) /\ UNCHANGED <<list, fault>>
      /\ locker' = [locker EXCEPT ![l] = lock(locker[l], t)]
  BY DEF for_each
<1>6. lock(locker[l], t) = Held(t, 1) /\ \A u \in Threads \ {t} : Depth(call[u], l) = 0
  BY <1>3, <1>5, Locks
<1>7. locker' = [locker EXCEPT ![l] = Held(t, Depth(d, l))]
  BY <1>4, <1>5, <1>6
<1>8. \A k \in Lists \ {l} : Depth(d, k) = Depth(call[t], k)
  BY <1>3, <1>4
<1>9. LockStep(t, l, d)
  BY <1>1, <1>2, <1>5, <1>6, <1>7, <1>8 DEF LockStep
<1> QED BY <1>9, LockStepIInv

\* The lock of find is the second of its thread, and is left with one to go.
LEMMA FindIInv ==
  ASSUME IInv, NEW t \in Threads, FindLock(t) \/ FindUnlock(t)
  PROVE  IInv'
<1>1. call[t] \in Calls /\ CallOK(call[t]) /\ Seen(call[t], list) /\ call[t].at \in {"find", "found"}
  BY DEF IInv, TypeOK, FindLock, FindUnlock, At
<1>2. PICK l \in Lists : l = call[t].src
  BY <1>1 DEF CallOK
<1>3. call[t].dst = NoList /\ \A k \in Lists \ {l} : Depth(call[t], k) = 0
  BY <1>1, <1>2, Depths, SyncListAssumption DEF CallOK
<1>4. ASSUME NEW place \in {"each", "found"}, NEW d, d = [call[t] EXCEPT !.at = place]
      PROVE  /\ d \in Calls /\ CallOK(d) /\ Seen(d, list)
             /\ d.at = place /\ d.src = l /\ d.dst = NoList
             /\ \A k \in Lists \ {l} : Depth(d, k) = Depth(call[t], k)
  <2>1. /\ d \in Calls /\ CallOK(d) /\ Seen(d, list)
        /\ d.at = place /\ d.src = l /\ d.dst = NoList
    BY <1>1, <1>2, <1>3, <1>4, SyncListAssumption DEF Calls, CallOK, Seen, Going
  <2>2. \A k \in Lists \ {l} : Depth(d, k) = 0
    BY <2>1, Depths, SyncListAssumption
  <2> QED BY <1>3, <2>1, <2>2
<1>5. CASE FindLock(t)
  <2>1. PICK d : d = [call[t] EXCEPT !.at = "found"]
    OBVIOUS
  <2>2. /\ UNCHANGED <<list, fault>> /\ call' = [call EXCEPT ![t] = d] /\ mayLock(locker[l], t)
        /\ call[t].at = "find" /\ locker' = [locker EXCEPT ![l] = lock(locker[l], t)]
    BY <1>2, <1>5, <2>1 DEF FindLock, At
  <2>3. Depth(call[t], l) = 1 /\ d.at = "found" /\ d.src = l /\ d \in Calls /\ CallOK(d)
    BY <1>1, <1>2, <1>4, <2>1, <2>2, Depths
  <2>4. Depth(d, l) = 2
    BY <2>3, Depths
  <2>5. lock(locker[l], t) = Held(t, 2) /\ \A u \in Threads \ {t} : Depth(call[u], l) = 0
    BY <2>2, <2>3, Locks
  <2>6. locker' = [locker EXCEPT ![l] = Held(t, Depth(d, l))]
    BY <2>2, <2>4, <2>5
  <2>7. Seen(d, list) /\ \A k \in Lists \ {l} : Depth(d, k) = Depth(call[t], k)
    BY <1>4, <2>1
  <2>8. LockStep(t, l, d)
    BY <2>2, <2>3, <2>5, <2>6, <2>7 DEF LockStep
  <2> QED BY <2>8, LockStepIInv
<1>6. CASE FindUnlock(t)
  <2>1. PICK d : d = [call[t] EXCEPT !.at = "each"]
    OBVIOUS
  <2>2. /\ UNCHANGED <<list, fault>> /\ call' = [call EXCEPT ![t] = d]
        /\ call[t].at = "found" /\ locker' = [locker EXCEPT ![l] = unlock(locker[l])]
    BY <1>2, <1>6, <2>1 DEF FindUnlock, At
  <2>3. Depth(call[t], l) = 2 /\ d.at = "each" /\ d.src = l /\ d \in Calls /\ CallOK(d)
    BY <1>1, <1>2, <1>4, <2>1, <2>2, Depths
  <2>4. Depth(d, l) = 1
    BY <2>3, Depths
  <2>5. unlock(locker[l]) = Held(t, 1) /\ \A u \in Threads \ {t} : Depth(call[u], l) = 0
    <3>1. Depth(call[t], l) > 0 /\ Depth(call[t], l) - 1 = 1
      BY <2>3
    <3>2. unlock(locker[l]) = Held(t, Depth(call[t], l) - 1)
      BY <3>1, Unlocks
    <3> QED BY <3>1, <3>2, AloneInside
  <2>6. locker' = [locker EXCEPT ![l] = Held(t, Depth(d, l))]
    BY <2>2, <2>4, <2>5
  <2>7. Seen(d, list) /\ \A k \in Lists \ {l} : Depth(d, k) = Depth(call[t], k)
    BY <1>4, <2>1
  <2>8. LockStep(t, l, d)
    BY <2>2, <2>3, <2>5, <2>6, <2>7 DEF LockStep
  <2> QED BY <2>8, LockStepIInv
<1> QED BY <1>5, <1>6

\* Whatever the callback is, its call goes on with one item more.
LEMMA funcCall ==
  ASSUME IInv, NEW t \in Threads, func(t),
         NEW item \in Values, item = list[call[t].src][Len(call[t].seen) + 1]
  PROVE  \E d \in Calls :
           /\ call' = [call EXCEPT ![t] = d]
           /\ d.at \in {"each", "find", "turn"} /\ (d.at # "each" => call[t].dst = NoList)
           /\ d.at = "turn" => d.look \in Lists \ {call[t].src}
           /\ d.src = call[t].src /\ d.dst = call[t].dst /\ d.seen = Append(call[t].seen, item)
<1> DEFINE c == call[t]
<1>1. /\ call \in [Threads -> Calls] /\ c \in Calls /\ c.at = "each"
      /\ Append(c.seen, item) \in Seq(Values)
  <2>1. call \in [Threads -> Calls] /\ c.at = "each"
    BY DEF IInv, TypeOK, func, At
  <2>2. c \in Calls
    BY <2>1
  <2>3. c.seen \in Seq(Values)
    BY <2>2 DEF Calls
  <2> QED BY <2>1, <2>2, <2>3
<1>2. CASE call' = [call EXCEPT ![t].seen = Append(@, item)]
  <2>1. PICK d : d = [c EXCEPT !.seen = Append(c.seen, item)]
    OBVIOUS
  <2>2. call' = [call EXCEPT ![t] = d]
    BY <1>1, <1>2, <2>1
  <2>3. d \in Calls /\ d.at = "each" /\ d.src = c.src /\ d.dst = c.dst /\ d.seen = Append(c.seen, item)
    BY <1>1, <2>1 DEF Calls
  <2> QED BY <2>2, <2>3
<1>3. CASE c.dst = NoList /\ call' = [call EXCEPT ![t].seen = Append(@, item), ![t].at = "find"]
  <2>1. PICK d : d = [c EXCEPT !.seen = Append(c.seen, item), !.at = "find"]
    OBVIOUS
  <2>2. call' = [call EXCEPT ![t] = d]
    BY <1>1, <1>3, <2>1
  <2>3. d \in Calls /\ d.at = "find" /\ d.src = c.src /\ d.dst = c.dst /\ d.seen = Append(c.seen, item)
    BY <1>1, <2>1 DEF Calls
  <2> QED BY <1>3, <2>2, <2>3
<1>4. ASSUME c.dst = NoList, NEW l \in Lists \ {c.src},
             call' = [call EXCEPT ![t].seen = Append(@, item), ![t].at = "turn", ![t].look = l]
      PROVE  \E d \in Calls :
               /\ call' = [call EXCEPT ![t] = d]
               /\ d.at \in {"each", "find", "turn"} /\ (d.at # "each" => c.dst = NoList)
               /\ d.at = "turn" => d.look \in Lists \ {c.src}
               /\ d.src = c.src /\ d.dst = c.dst /\ d.seen = Append(c.seen, item)
  <2>1. PICK d : d = [c EXCEPT !.seen = Append(c.seen, item), !.at = "turn", !.look = l]
    OBVIOUS
  <2>2. call' = [call EXCEPT ![t] = d]
    BY <1>1, <1>4, <2>1
  <2>3. /\ d \in Calls /\ d.at = "turn" /\ d.src = c.src /\ d.dst = c.dst /\ d.look = l
        /\ d.seen = Append(c.seen, item)
    BY <1>1, <2>1 DEF Calls
  <2> QED BY <1>4, <2>2, <2>3
<1> QED BY <1>2, <1>3, <1>4 DEF func

\* The callback of a for_each that is an assignment appends to a list its
\* thread is inside; another changes nothing but its place, which may be find or
\* another list.
LEMMA funcIInv ==
  ASSUME IInv, NEW t \in Threads, func(t)
  PROVE  IInv'
<1> DEFINE c == call[t]
           n == Len(c.seen)
           item == list[c.src][n + 1]
<1>1. c \in Calls /\ CallOK(c) /\ Seen(c, list) /\ c.at = "each" /\ n < Len(list[c.src])
  BY DEF IInv, TypeOK, func, At
<1>2. c.src \in Lists /\ c.dst # c.src /\ c.seen \in Seq(Values) /\ n \in Nat
      /\ list[c.src] \in Seq(Values) /\ c.dst \in Lists \cup {NoList}
  BY <1>1 DEF CallOK, Calls, IInv, TypeOK
<1>3. item \in Values
  BY <1>1, <1>2
<1>4. PICK d \in Calls :
        /\ call' = [call EXCEPT ![t] = d]
        /\ d.at \in {"each", "find", "turn"} /\ (d.at # "each" => c.dst = NoList)
        /\ d.at = "turn" => d.look \in Lists \ {c.src}
        /\ d.src = c.src /\ d.dst = c.dst /\ d.seen = Append(c.seen, item)
  BY <1>3, funcCall
<1>7. /\ list' = IF c.dst = NoList THEN list ELSE [list EXCEPT ![c.dst] = Append(@, item)]
      /\ UNCHANGED <<locker, fault>>
  BY DEF func
<1>8. CallOK(d)
  BY <1>1, <1>2, <1>4 DEF CallOK
<1>9. \A k \in Lists : Depth(d, k) = Depth(c, k)
  BY <1>1, <1>4 DEF Depth, Going, Assigning
<1>10. list' \in [Lists -> Seq(Values)] /\ list'[c.src] = list[c.src]
  BY <1>2, <1>3, <1>7 DEF IInv, TypeOK
<1>11. Seen(d, list')
  <2>1. d.dst # NoList => list'[d.dst] = d.seen
    BY <1>1, <1>2, <1>7, <1>4 DEF Seen, IInv, TypeOK
  <2>2. Len(d.seen) = n + 1 /\ \A i \in 1 .. n + 1 : d.seen[i] = IF i = n + 1 THEN item ELSE c.seen[i]
    BY <1>2, <1>3, <1>4
  <2>3. Len(c.seen) <= Len(list[c.src]) /\ \A i \in 1 .. n : c.seen[i] = list[c.src][i]
    BY <1>1 DEF Seen, Going
  <2>4. Len(d.seen) <= Len(list'[d.src]) /\ \A i \in 1 .. Len(d.seen) : d.seen[i] = list'[d.src][i]
    <3> DEFINE after == list'[d.src]
    <3>1. after = list[c.src]
      BY <1>4, <1>10
    <3>2. n + 1 <= Len(after) /\ \A i \in 1 .. n : c.seen[i] = after[i]
      BY <1>1, <1>2, <2>3, <3>1
    <3>3. \A i \in 1 .. n + 1 : d.seen[i] = after[i]
      <4> HIDE DEF n
      <4> TAKE i \in 1 .. n + 1
      <4>1. CASE i = n + 1
        BY <2>2, <3>1, <4>1
      <4>2. CASE i # n + 1
        <5>1. i \in 1 .. n
          BY <1>2, <4>2
        <5> QED BY <2>2, <3>2, <4>2, <5>1
      <4> QED BY <4>1, <4>2
    <3> QED BY <2>2, <3>2, <3>3
  <2> QED BY <2>1, <2>4 DEF Seen
<1>12. ASSUME NEW u \in Threads \ {t} PROVE Seen(call[u], list')
  <2>1. Seen(call[u], list) /\ call[u] \in Calls /\ CallOK(call[u])
    BY DEF IInv, TypeOK
  <2>2. CASE c.dst = NoList
    BY <1>7, <2>1, <2>2
  <2>3. CASE c.dst # NoList
    <3>1. c.dst \in Lists /\ Depth(c, c.dst) = 1
      BY <1>1, <1>2, <2>3, Depths
    <3>2. Depth(call[u], c.dst) = 0
      <4>1. Depth(call[t], c.dst) > 0
        BY <3>1
      <4> QED BY <3>1, <4>1, AloneInside
    <3>3. \A k \in Lists \ {c.dst} : list'[k] = list[k]
      BY <1>7, <2>3 DEF IInv, TypeOK
    <3> QED BY <2>1, <3>1, <3>2, <3>3, NotLooking
  <2> QED BY <2>2, <2>3
<1>13. call' \in [Threads -> Calls] /\ Like(call'[t], d) /\ \A u \in Threads \ {t} : Like(call'[u], call[u])
  BY <1>4 DEF IInv, TypeOK, Like
<1>14. fault' \in BOOLEAN /\ locker' \in [Lists -> [owner : Threads \cup {NoOne}, depth : Nat]]
       /\ \A k \in Lists : locker'[k] = locker[k] /\ Depth(d, k) = Depth(call[t], k)
  BY <1>7, <1>9 DEF IInv, TypeOK
<1> QED BY <1>4, <1>8, <1>10, <1>11, <1>12, <1>13, <1>14, StepIInv

\* A callback that turned to another list is alone there, and back at its place
\* after it.
LEMMA TurnIInv ==
  ASSUME IInv, NEW t \in Threads, Turn(t)
  PROVE  IInv'
<1>1. call[t] \in Calls /\ CallOK(call[t]) /\ Seen(call[t], list) /\ call[t].at = "turn"
  BY DEF IInv, TypeOK, Turn, At
<1>2. PICK l \in Lists : l = call[t].look
  BY <1>1 DEF CallOK
<1>3. /\ call[t].src \in Lists \ {l} /\ call[t].dst = NoList /\ mayLock(locker[l], t)
      /\ Depth(call[t], l) = 0
  <2>1. call[t].src \in Lists \ {l} /\ call[t].dst = NoList /\ mayLock(locker[l], t)
    BY <1>1, <1>2 DEF CallOK, Turn
  <2> QED BY <1>1, <2>1, Depths, SyncListAssumption
<1>4. \A u \in Threads : Depth(call[u], l) = 0
  BY <1>3, NobodyInside
<1>5. PICK rest \in Seq(Values) : list' = [list EXCEPT ![l] = rest]
  <2>1. list \in [Lists -> Seq(Values)]
    BY DEF IInv, TypeOK
  <2>2. CASE UNCHANGED list
    BY <2>1, <2>2
  <2>3. CASE list[l] # <<>> /\ list' = [list EXCEPT ![l] = Tail(list[l])]
    <3>1. Tail(list[l]) \in Seq(Values)
      BY <2>1, <2>3
    <3> QED BY <2>3, <3>1
  <2> QED BY <1>2, <2>2, <2>3 DEF Turn
<1>6. PICK calls \in [Threads -> Calls] :
        /\ \A u \in Threads : Like(calls[u], call[u])
        /\ call' = [calls EXCEPT ![t].at = "each", ![t].look = NoList]
  <2>1. call \in [Threads -> Calls] /\ \A u \in Threads : Like(call[u], call[u])
    BY DEF IInv, TypeOK, Like
  <2> QED BY <1>2, <2>1, NoticedLike DEF Turn
<1>7. PICK d : d = [calls[t] EXCEPT !.at = "each", !.look = NoList]
  OBVIOUS
<1>8. call' = [calls EXCEPT ![t] = d]
  BY <1>6, <1>7
<1>9. /\ d \in Calls /\ d.at = "each" /\ d.src = call[t].src /\ d.dst = NoList
      /\ d.seen = call[t].seen
  <2>1. calls[t] \in Calls /\ Like(calls[t], call[t])
    BY <1>6
  <2> QED BY <1>3, <1>7, <2>1 DEF Calls, Like
<1>10. CallOK(d) /\ \A k \in Lists : Depth(d, k) = Depth(call[t], k)
  BY <1>1, <1>3, <1>9, SyncListAssumption DEF CallOK, Depth, Going, Assigning
<1>11. \A k \in Lists \ {l} : list'[k] = list[k]
  BY <1>5 DEF IInv, TypeOK
<1>12. Seen(d, list')
  BY <1>1, <1>3, <1>9, <1>11 DEF Seen, Going
<1>13. ASSUME NEW u \in Threads \ {t} PROVE Seen(call[u], list')
  <2>1. call[u] \in Calls /\ CallOK(call[u]) /\ Depth(call[u], l) = 0 /\ Seen(call[u], list)
    BY <1>4 DEF IInv, TypeOK
  <2> QED BY <1>11, <2>1, NotLooking
<1>14. /\ call' \in [Threads -> Calls] /\ Like(call'[t], d)
       /\ \A u \in Threads \ {t} : Like(call'[u], call[u])
  <2>1. call' \in [Threads -> Calls] /\ call'[t] = d
    BY <1>6, <1>8, <1>9
  <2>2. \A u \in Threads \ {t} : call'[u] = calls[u]
    BY <1>6, <1>8
  <2> QED BY <1>6, <2>1, <2>2 DEF Like
<1>15. /\ list' \in [Lists -> Seq(Values)] /\ fault' \in BOOLEAN
       /\ locker' \in [Lists -> [owner : Threads \cup {NoOne}, depth : Nat]]
       /\ \A k \in Lists : locker'[k] = locker[k] /\ Depth(d, k) = Depth(call[t], k)
  BY <1>5, <1>10 DEF IInv, TypeOK, Turn
<1> QED BY <1>9, <1>10, <1>12, <1>13, <1>14, <1>15, StepIInv

LEMMA EachEndIInv ==
  ASSUME IInv, NEW t \in Threads, EachEnd(t)
  PROVE  IInv'
<1>1. call[t] \in Calls /\ CallOK(call[t]) /\ Seen(call[t], list) /\ call[t].at = "each"
  BY DEF IInv, TypeOK, EachEnd, At
<1>2. PICK l \in Lists : l = call[t].src
  BY <1>1 DEF CallOK
<1>3. PICK d : d = IF call[t].dst = NoList THEN NoCall ELSE [call[t] EXCEPT !.at = "assigned"]
  OBVIOUS
<1>4. /\ UNCHANGED <<list, fault>> /\ call' = [call EXCEPT ![t] = d]
      /\ locker' = [locker EXCEPT ![l] = unlock(locker[l])]
  BY <1>2, <1>3 DEF EachEnd
<1>5. Depth(call[t], l) = 1
  BY <1>1, <1>2, Depths
<1>6. unlock(locker[l]) = Held(t, 0) /\ \A u \in Threads \ {t} : Depth(call[u], l) = 0
  <2>1. Depth(call[t], l) > 0 /\ Depth(call[t], l) - 1 = 0
    BY <1>5
  <2>2. unlock(locker[l]) = Held(t, Depth(call[t], l) - 1)
    BY <2>1, Unlocks
  <2> QED BY <2>1, <2>2, AloneInside
<1>7. /\ d \in Calls /\ CallOK(d) /\ Seen(d, list) /\ Depth(d, l) = 0
      /\ \A k \in Lists \ {l} : Depth(d, k) = Depth(call[t], k)
  <2>1. CASE call[t].dst = NoList
    <3>1. \A k \in Lists \ {l} : Depth(call[t], k) = 0
      BY <1>1, <1>2, <2>1, Depths, SyncListAssumption
    <3> QED BY <1>3, <2>1, <3>1, NoCallOK
  <2>2. CASE call[t].dst # NoList
    <3>1. /\ d \in Calls /\ CallOK(d) /\ d.at = "assigned" /\ d.dst = call[t].dst
          /\ d.src = l /\ d.seen = call[t].seen
      BY <1>1, <1>2, <1>3, <2>2 DEF Calls, CallOK
    <3>2. Seen(d, list)
      BY <1>1, <3>1 DEF Seen, Going
    <3>3. d.dst # l
      BY <1>1, <1>2, <3>1 DEF CallOK
    <3>4. ASSUME NEW k \in Lists \ {l} PROVE Depth(d, k) = Depth(call[t], k)
      BY <1>1, <1>2, <2>2, <3>1, Depths
    <3> QED BY <3>1, <3>2, <3>3, <3>4, Depths
  <2> QED BY <2>1, <2>2
<1>8. locker' = [locker EXCEPT ![l] = Held(t, Depth(d, l))]
  BY <1>4, <1>6, <1>7
<1>9. LockStep(t, l, d)
  BY <1>4, <1>6, <1>7, <1>8 DEF LockStep
<1> QED BY <1>9, LockStepIInv

LEMMA AssignEndIInv ==
  ASSUME IInv, NEW t \in Threads, AssignEnd(t)
  PROVE  IInv'
<1>1. call[t] \in Calls /\ CallOK(call[t]) /\ call[t].at = "assigned"
  BY DEF IInv, TypeOK, AssignEnd, At
<1>2. PICK l \in Lists : l = call[t].dst
  BY <1>1 DEF CallOK, Calls
<1>3. /\ UNCHANGED <<list, fault>> /\ call' = [call EXCEPT ![t] = NoCall]
      /\ locker' = [locker EXCEPT ![l] = unlock(locker[l])]
  BY <1>2 DEF AssignEnd
<1>4. Depth(call[t], l) = 1 /\ \A k \in Lists \ {l} : Depth(call[t], k) = 0
  BY <1>1, <1>2, Depths
<1>5. unlock(locker[l]) = Held(t, 0) /\ \A u \in Threads \ {t} : Depth(call[u], l) = 0
  <2>1. Depth(call[t], l) > 0 /\ Depth(call[t], l) - 1 = 0
    BY <1>4
  <2>2. unlock(locker[l]) = Held(t, Depth(call[t], l) - 1)
    BY <2>1, Unlocks
  <2> QED BY <2>1, <2>2, AloneInside
<1>6. /\ locker' = [locker EXCEPT ![l] = Held(t, Depth(NoCall, l))]
      /\ \A k \in Lists \ {l} : Depth(NoCall, k) = Depth(call[t], k)
  BY <1>3, <1>4, <1>5, NoCallOK
<1>7. LockStep(t, l, NoCall)
  BY <1>3, <1>5, <1>6, NoCallOK DEF LockStep
<1> QED BY <1>7, LockStepIInv

\* The assignment empties the list nobody is inside of.
LEMMA AssignIInv ==
  ASSUME IInv, NEW t \in Threads, NEW l \in Lists, NEW src \in Lists, Assign(t, l, src)
  PROVE  IInv'
<1>1. call[t].at = "idle" /\ \A k \in Lists : Depth(call[t], k) = 0
  BY Depths DEF Assign, Idle, IInv, TypeOK
<1>2. PICK d : d = [NoCall EXCEPT !.at = "assign", !.dst = l, !.src = src]
  OBVIOUS
<1>3. /\ l # src /\ mayLock(locker[l], t) /\ UNCHANGED fault
      /\ locker' = [locker EXCEPT ![l] = lock(locker[l], t)]
      /\ list' = [list EXCEPT ![l] = <<>>]
      /\ call' = [Noticed(l) EXCEPT ![t] = d]
  BY <1>2 DEF Assign
<1>4. d \in Calls /\ CallOK(d) /\ d.at = "assign" /\ d.dst = l /\ d.src = src /\ d.seen = <<>>
  <2>1. NoCall \in Calls /\ NoCall.seen = <<>>
    BY NoCallOK DEF NoCall
  <2>2. /\ d \in Calls /\ d.at = "assign" /\ d.dst = l /\ d.src = src /\ d.seen = <<>>
    BY <1>2, <2>1 DEF Calls
  <2> QED BY <1>3, <2>2, SyncListAssumption DEF CallOK
<1>5. Depth(d, l) = 1 /\ \A k \in Lists \ {l} : Depth(d, k) = 0
  BY <1>4, Depths
<1>6. \A u \in Threads : Depth(call[u], l) = 0
  BY <1>1, <1>3, NobodyInside
<1>7. lock(locker[l], t) = Held(t, 1)
  <2>1. lock(locker[l], t) = Held(t, Depth(call[t], l) + 1)
    BY <1>3, Locks
  <2> QED BY <1>1, <2>1
<1>8. /\ list' \in [Lists -> Seq(Values)] /\ fault' \in BOOLEAN
      /\ \A k \in Lists \ {l} : list'[k] = list[k]
      /\ list'[l] = <<>>
  BY <1>3 DEF IInv, TypeOK
<1>9. locker' = [locker EXCEPT ![l] = Held(t, 1)] /\ Held(t, 1) \in [owner : Threads \cup {NoOne}, depth : Nat]
  BY <1>3, <1>7, LockTypes
<1>10. /\ locker' \in [Lists -> [owner : Threads \cup {NoOne}, depth : Nat]]
       /\ locker'[l] = Held(t, Depth(d, l)) /\ \A k \in Lists \ {l} : locker'[k] = locker[k]
  BY <1>5, <1>9 DEF IInv, TypeOK
<1>11. /\ call' \in [Threads -> Calls] /\ Like(call'[t], d)
       /\ \A u \in Threads \ {t} : Like(call'[u], call[u])
  BY <1>3, <1>4, NoticedLike DEF Like
<1>12. Seen(d, list')
  BY <1>4, <1>8 DEF Seen, Going
<1>13. ASSUME NEW u \in Threads PROVE Seen(call[u], list')
  <2>1. call[u] \in Calls /\ CallOK(call[u]) /\ Depth(call[u], l) = 0 /\ Seen(call[u], list)
    BY <1>6 DEF IInv, TypeOK
  <2> QED BY <1>8, <2>1, NotLooking
<1>14. \A k \in Lists :
         \/ locker'[k] = locker[k] /\ Depth(d, k) = Depth(call[t], k)
         \/ /\ \A u \in Threads \ {t} : Depth(call[u], k) = 0
            /\ locker'[k] = Held(t, Depth(d, k))
  BY <1>1, <1>5, <1>6, <1>10
<1> QED BY <1>4, <1>8, <1>10, <1>11, <1>12, <1>13, <1>14, StepIInv

\* Then it goes through the other list, of which it has seen nothing.
LEMMA AssignEachIInv ==
  ASSUME IInv, NEW t \in Threads, AssignEach(t)
  PROVE  IInv'
<1>1. call[t] \in Calls /\ CallOK(call[t]) /\ Seen(call[t], list) /\ call[t].at = "assign"
  BY DEF IInv, TypeOK, AssignEach, At
<1>2. PICK l \in Lists : l = call[t].src
  BY <1>1 DEF CallOK
<1>3. PICK d : d = [call[t] EXCEPT !.at = "each"]
  OBVIOUS
<1>4. /\ UNCHANGED <<list, fault>> /\ call' = [call EXCEPT ![t] = d] /\ mayLock(locker[l], t)
      /\ locker' = [locker EXCEPT ![l] = lock(locker[l], t)]
  BY <1>2, <1>3 DEF AssignEach
<1>5. /\ call[t].dst # l /\ call[t].dst # NoList /\ call[t].seen = <<>>
      /\ d \in Calls /\ d.at = "each" /\ d.src = l /\ d.dst = call[t].dst /\ d.seen = call[t].seen
  BY <1>1, <1>2, <1>3 DEF CallOK, Calls
<1>6. CallOK(d)
  BY <1>5 DEF CallOK
<1>7. Seen(d, list)
  <2>1. Len(d.seen) = 0 /\ Len(list[l]) \in Nat
    BY <1>5 DEF IInv, TypeOK
  <2> QED BY <1>1, <1>5, <2>1 DEF Seen
<1>8. Depth(call[t], l) = 0 /\ Depth(d, l) = 1
  BY <1>1, <1>2, <1>5, <1>6, Depths
<1>9. \A k \in Lists \ {l} : Depth(d, k) = Depth(call[t], k)
  BY <1>1, <1>2, <1>5, <1>6, Depths
<1>10. lock(locker[l], t) = Held(t, 1) /\ \A u \in Threads \ {t} : Depth(call[u], l) = 0
  <2>1. lock(locker[l], t) = Held(t, Depth(call[t], l) + 1)
        /\ \A u \in Threads \ {t} : Depth(call[u], l) = 0
    BY <1>4, Locks
  <2> QED BY <1>8, <2>1
<1>11. locker' = [locker EXCEPT ![l] = Held(t, Depth(d, l))]
  BY <1>4, <1>8, <1>10
<1>12. d \in Calls /\ \A u \in Threads \ {t} : Depth(call[u], l) = 0
  BY <1>5, <1>10
<1>13. UNCHANGED <<list, fault>> /\ call' = [call EXCEPT ![t] = d]
  BY <1>4
<1>14. LockStep(t, l, d)
  BY <1>6, <1>7, <1>9, <1>11, <1>12, <1>13 DEF LockStep
<1> QED BY <1>14, LockStepIInv

LEMMA emptyIInv ==
  ASSUME IInv, NEW t \in Threads, NEW l \in Lists, empty(t, l)
  PROVE  IInv'
<1>1. call[t] \in Calls /\ CallOK(call[t]) /\ call[t].at = "idle"
  BY DEF IInv, TypeOK, empty, Idle
<1>2. PICK d : d = [NoCall EXCEPT !.at = "pop", !.src = l]
  OBVIOUS
<1>3. UNCHANGED <<list, locker, fault>> /\ call' = [call EXCEPT ![t] = d]
  BY <1>2 DEF empty
<1>4. d \in Calls /\ d.at = "pop" /\ d.src = l /\ d.dst = NoList
  <2>1. NoCall \in Calls /\ NoCall.dst = NoList
    BY NoCallOK DEF NoCall
  <2> QED BY <1>2, <2>1 DEF Calls
<1>5. CallOK(d) /\ Seen(d, list)
  BY <1>4, SyncListAssumption DEF CallOK, Seen, Going
<1>6. \A k \in Lists : Depth(d, k) = Depth(call[t], k)
  BY <1>1, <1>4, <1>5, Depths
<1>7. /\ list' \in [Lists -> Seq(Values)] /\ call' \in [Threads -> Calls] /\ fault' \in BOOLEAN
      /\ locker' \in [Lists -> [owner : Threads \cup {NoOne}, depth : Nat]]
  BY <1>3, <1>4 DEF IInv, TypeOK
<1>8. Like(call'[t], d) /\ \A u \in Threads \ {t} : Like(call'[u], call[u])
  BY <1>3 DEF IInv, TypeOK, Like
<1>9. Seen(d, list') /\ (\A u \in Threads \ {t} : Seen(call[u], list'))
      /\ \A k \in Lists : locker'[k] = locker[k] /\ Depth(d, k) = Depth(call[t], k)
  BY <1>3, <1>5, <1>6 DEF IInv
<1> QED BY <1>4, <1>5, <1>7, <1>8, <1>9, StepIInv

-----------------------------------------------------------------------------

LEMMA InitIInv == Init => IInv
<1> SUFFICES ASSUME Init PROVE IInv
  OBVIOUS
<1>1. Unlocked \in [owner : Threads \cup {NoOne}, depth : Nat] /\ Unlocked.owner = NoOne /\ Unlocked.depth = 0
  BY DEF Unlocked
<1>2. \A t \in Threads : call[t] = NoCall
  BY DEF Init
<1>3. TypeOK
  <2>1. list \in [Lists -> Seq(Values)] /\ fault \in BOOLEAN
    <3>1. <<>> \in Seq(Values)
      OBVIOUS
    <3> QED BY <3>1 DEF Init
  <2>2. locker \in [Lists -> [owner : Threads \cup {NoOne}, depth : Nat]]
    BY <1>1 DEF Init
  <2>3. call \in [Threads -> Calls]
    BY NoCallOK DEF Init
  <2> QED BY <2>1, <2>2, <2>3 DEF TypeOK
<1>4. LocksOK
  BY <1>1, <1>2, NoCallOK DEF Init, LocksOK
<1>5. \A t \in Threads : CallOK(call[t]) /\ Seen(call[t], list)
  BY <1>2, NoCallOK
<1> QED BY <1>3, <1>4, <1>5 DEF IInv

LEMMA Inductive == IInv /\ [Next]_vars => IInv'
<1> SUFFICES ASSUME IInv, [Next]_vars PROVE IInv'
  OBVIOUS
<1>1. CASE Next
  <2>1. PICK t \in Threads :
          \/ Inside(t) \/ Waiting(t)
          \/ \E l \in Lists :
               \/ pop_begin(t, l) \/ clear(t, l) \/ empty(t, l) \/ for_each(t, l)
               \/ \E val \in Values : emplace_back(t, l, val) \/ emplace_front(t, l, val) \/ remove(t, l, val)
               \/ \E src \in Lists : Assign(t, l, src)
    BY <1>1 DEF Next
  <2>2. CASE Inside(t) \/ Waiting(t)
    BY <2>2, funcIInv, FindIInv, TurnIInv, EachEndIInv, AssignEndIInv, AssignEachIInv, PopIInv
    DEF Inside, Waiting
  <2>3. ASSUME NEW l \in Lists, pop_begin(t, l) \/ clear(t, l) PROVE IInv'
    <3>1. PICK rest : /\ rest \in Seq(Values) /\ list' = [list EXCEPT ![l] = rest]
      <4>1. list[l] \in Seq(Values)
        BY DEF IInv, TypeOK
      <4>2. (list[l] # <<>> => Tail(list[l]) \in Seq(Values)) /\ <<>> \in Seq(Values)
        BY <4>1
      <4> QED BY <2>3, <4>2 DEF pop_begin, clear
    <3>2. /\ mayLock(locker[l], t) /\ call[t].at = "idle" /\ UNCHANGED <<locker, fault>>
          /\ call' = Noticed(l)
      BY <2>3 DEF pop_begin, clear, Locked, Idle
    <3> QED BY <3>1, <3>2, QuickIInv
  <2>4. ASSUME NEW l \in Lists, empty(t, l) \/ for_each(t, l) PROVE IInv'
    BY <2>4, emptyIInv, for_eachIInv
  <2>5. ASSUME NEW l \in Lists, NEW val \in Values,
               emplace_back(t, l, val) \/ emplace_front(t, l, val) \/ remove(t, l, val)
        PROVE  IInv'
    BY <2>5, OneStepIInv
  <2>6. ASSUME NEW l \in Lists, NEW src \in Lists, Assign(t, l, src) PROVE IInv'
    BY <2>6, AssignIInv
  <2> QED BY <2>1, <2>2, <2>3, <2>4, <2>5, <2>6
<1>2. CASE UNCHANGED vars
  BY <1>2 DEF vars, IInv, TypeOK, LocksOK, CallOK, Seen, Going, Depth, Assigning
<1> QED BY <1>1, <1>2

LEMMA IInvSees == IInv => SeesTheList
<1> SUFFICES ASSUME IInv, NEW t \in Threads
    PROVE  /\ call[t].at \in {"each", "find", "found", "turn"} =>
                /\ Len(call[t].seen) <= Len(list[call[t].src])
                /\ call[t].seen = SubSeq(list[call[t].src], 1, Len(call[t].seen))
           /\ call[t].dst # NoList => list[call[t].dst] = call[t].seen
  BY DEF SeesTheList
<1>1. call[t] \in Calls /\ CallOK(call[t]) /\ Seen(call[t], list)
  BY DEF IInv, TypeOK
<1>2. ASSUME call[t].at \in {"each", "find", "found", "turn"}
      PROVE  /\ Len(call[t].seen) <= Len(list[call[t].src])
             /\ call[t].seen = SubSeq(list[call[t].src], 1, Len(call[t].seen))
  <2>1. PICK seen \in Seq(Values) : seen = call[t].seen
    BY <1>1 DEF Calls
  <2>2. PICK whole \in Seq(Values) : whole = list[call[t].src]
    BY <1>1, <1>2 DEF CallOK, IInv, TypeOK
  <2>3. Len(seen) \in Nat /\ Len(seen) <= Len(whole) /\ \A i \in 1 .. Len(seen) : seen[i] = whole[i]
    BY <1>1, <1>2, <2>1, <2>2 DEF Seen, Going
  <2>4. seen = SubSeq(whole, 1, Len(seen))
    BY <2>3
  <2> QED BY <2>1, <2>2, <2>3, <2>4
<1> QED BY <1>1, <1>2 DEF Seen

\* For any threads, lists and items: whoever goes through a list sees what it
\* holds from its first item on, with nothing changed behind it, and an assigned
\* list holds just the items seen (SyncList.h:93-102, 121-133, locker.cpp:14-27).
THEOREM AlwaysSeesTheList == Spec => []SeesTheList
<1>1. Init => IInv
  BY InitIInv
<1>2. IInv /\ [Next]_vars => IInv'
  BY Inductive
<1>3. IInv => SeesTheList
  BY IInvSees
<1> QED BY <1>1, <1>2, <1>3, PTL DEF Spec

-----------------------------------------------------------------------------
\* Between empty() and the pop.

\* What was not empty when it was asked, and was not taken from, still is not.
NotTaken ==
  \A t \in Threads : call[t].at = "pop" /\ ~call[t].taken => list[call[t].src] # <<>>

PopInv == IInv /\ NotTaken /\ EmptyPopNeedsTaking

\* A step of t at the list l: others notice it or l is not empty after it.
LEMMA NotTakenStep ==
  ASSUME IInv, NotTaken, NEW t \in Threads, NEW l \in Lists,
         \A k \in Lists \ {l} : list'[k] = list[k],
         \/ /\ list'[l] = list[l] \/ list'[l] # <<>>
            /\ \A u \in Threads \ {t} : call'[u] = call[u]
         \/ \A u \in Threads \ {t} : call'[u] = Noticed(l)[u],
         call'[t].at = "pop" => list'[call'[t].src] # <<>>
  PROVE  NotTaken'
<1> SUFFICES ASSUME NEW u \in Threads, call'[u].at = "pop", ~call'[u].taken
             PROVE  list'[call'[u].src] # <<>>
  BY DEF NotTaken
<1>1. CASE u = t
  BY <1>1
<1>2. CASE u # t
  <2>1. call[u] \in Calls /\ CallOK(call[u])
    BY DEF IInv, TypeOK
  <2>2. Noticed(l)[u] = [call[u] EXCEPT !.taken = call[u].taken \/ (call[u].at = "pop" /\ call[u].src = l)]
    BY DEF Noticed
  <2>3. CASE call'[u] = call[u] /\ (list'[l] = list[l] \/ list'[l] # <<>>)
    <3>1. call[u].src \in Lists /\ list[call[u].src] # <<>>
      BY <2>1, <2>3 DEF CallOK, NotTaken
    <3> QED BY <2>3, <3>1
  <2>4. CASE call'[u] = Noticed(l)[u]
    <3>1. call'[u].at = call[u].at /\ call'[u].src = call[u].src
      BY <2>1, <2>2, <2>4 DEF Calls
    <3>2. call'[u].taken = (call[u].taken \/ (call[u].at = "pop" /\ call[u].src = l))
      BY <2>1, <2>2, <2>4 DEF Calls
    <3>3. ~call[u].taken /\ call[u].src \in Lists \ {l}
      BY <1>2, <2>1, <3>1, <3>2 DEF CallOK
    <3> QED BY <3>1, <3>3 DEF NotTaken
  <2> QED BY <1>2, <2>3, <2>4
<1> QED BY <1>1, <1>2

\* Calls of one step.
LEMMA NotTakenQuick ==
  ASSUME PopInv, NEW t \in Threads, NEW l \in Lists, NEW val,
         \/ val \in Values /\ (emplace_back(t, l, val) \/ emplace_front(t, l, val))
         \/ pop_begin(t, l) \/ clear(t, l) \/ remove(t, l, val)
  PROVE  NotTaken' /\ UNCHANGED fault
<1>1. /\ UNCHANGED fault /\ call[t].at = "idle" /\ call[t] \in Calls
      /\ \A k \in Lists \ {l} : list'[k] = list[k]
  BY DEF emplace_back, emplace_front, pop_begin, clear, remove, Locked, Idle, PopInv, IInv, TypeOK
<1>2. CASE val \in Values /\ (emplace_back(t, l, val) \/ emplace_front(t, l, val))
  <2>1. list[l] \in Seq(Values)
    BY DEF PopInv, IInv, TypeOK
  <2>2. Append(list[l], val) # <<>> /\ <<val>> \o list[l] # <<>>
    <3>1. PICK s \in Seq(Values) : s = list[l]
      BY <2>1
    <3>2. Len(Append(s, val)) = Len(s) + 1 /\ Len(s) \in Nat
      BY <1>2
    <3>3. <<val>> \in Seq(Values) /\ Len(<<val>>) = 1
      BY <1>2
    <3>4. Len(<<val>> \o s) = 1 + Len(s)
      BY <3>3, ConcatProperties
    <3> QED BY <3>1, <3>2, <3>4
  <2>3. list'[l] # <<>> /\ call' = call
    BY <1>2, <2>2 DEF emplace_back, emplace_front, PopInv, IInv, TypeOK
  <2> QED BY <1>1, <2>3, NotTakenStep DEF PopInv
<1>3. CASE pop_begin(t, l) \/ clear(t, l) \/ remove(t, l, val)
  <2>1. call' = Noticed(l)
    BY <1>3 DEF pop_begin, clear, remove
  <2>2. Like(call'[t], call[t])
    BY <2>1, NoticedLike DEF PopInv
  <2>3. call'[t].at # "pop"
    BY <1>1, <2>2 DEF Like
  <2> QED BY <1>1, <2>1, <2>3, NotTakenStep DEF PopInv
<1> QED BY <1>2, <1>3

LEMMA NotTakenPop ==
  ASSUME PopInv, NEW t \in Threads, pop_front(t) \/ pop_back(t)
  PROVE  NotTaken' /\ EmptyPopNeedsTaking'
<1>1. call[t] \in Calls /\ CallOK(call[t]) /\ call[t].at = "pop" /\ ~fault
  BY DEF pop_front, pop_back, Pop, At, PopInv, IInv, TypeOK
<1>2. PICK l \in Lists : l = call[t].src
  BY <1>1 DEF CallOK
<1>3. CASE list[l] = <<>>
  <2>1. UNCHANGED <<list, call>>
    BY <1>2, <1>3 DEF pop_front, pop_back, Pop
  <2>2. call[t].taken
    BY <1>1, <1>2, <1>3 DEF PopInv, NotTaken
  <2> QED BY <1>1, <1>2, <1>3, <2>1, <2>2 DEF PopInv, NotTaken, EmptyPopNeedsTaking
<1>4. CASE list[l] # <<>>
  <2>1. call' = [Noticed(l) EXCEPT ![t] = NoCall] /\ UNCHANGED fault
    BY <1>2, <1>4 DEF pop_front, pop_back, Pop
  <2>2. \A k \in Lists \ {l} : list'[k] = list[k]
    BY <1>2, <1>4 DEF pop_front, pop_back, Pop, PopInv, IInv, TypeOK
  <2>3. (\A u \in Threads \ {t} : call'[u] = Noticed(l)[u]) /\ call'[t] = NoCall
    BY <2>1, NoticedLike DEF PopInv
  <2>4. call'[t].at # "pop"
    BY <2>3 DEF NoCall
  <2>5. NotTaken'
    BY <2>2, <2>3, <2>4, NotTakenStep DEF PopInv
  <2> QED BY <1>1, <2>1, <2>5 DEF EmptyPopNeedsTaking
<1> QED BY <1>3, <1>4

\* The callback adds to the list its thread assigns to.
LEMMA NotTakenfunc ==
  ASSUME PopInv, NEW t \in Threads, func(t)
  PROVE  NotTaken' /\ UNCHANGED fault
<1>1. call[t] \in Calls /\ CallOK(call[t]) /\ call[t].at = "each" /\ UNCHANGED fault
  BY DEF func, At, PopInv, IInv, TypeOK
<1>2. PICK item : /\ item = list[call[t].src][Len(call[t].seen) + 1]
                  /\ list' = IF call[t].dst = NoList THEN list
                             ELSE [list EXCEPT ![call[t].dst] = Append(@, item)]
  BY DEF func
<1>3. item \in Values
  <2>1. call[t].src \in Lists /\ Len(call[t].seen) \in Nat
    BY <1>1 DEF CallOK, Calls
  <2>2. Len(call[t].seen) < Len(list[call[t].src])
    BY DEF func
  <2> QED BY <1>2, <2>1, <2>2 DEF PopInv, IInv, TypeOK
<1>4. PICK d \in Calls :
        call' = [call EXCEPT ![t] = d] /\ d.at \in {"each", "find", "turn"}
  BY <1>2, <1>3, funcCall DEF PopInv
<1>5. /\ \A u \in Threads \ {t} : call'[u] = call[u]
      /\ call'[t].at # "pop"
  BY <1>4 DEF PopInv, IInv, TypeOK
<1>6. CASE call[t].dst = NoList
  <2>1. call[t].src \in Lists /\ list' = list
    BY <1>1, <1>2, <1>6 DEF CallOK
  <2> QED BY <1>1, <1>5, <2>1, NotTakenStep DEF PopInv
<1>7. CASE call[t].dst # NoList
  <2>1. PICK l \in Lists : l = call[t].dst
    BY <1>1, <1>7 DEF Calls
  <2>2. list[l] \in Seq(Values) /\ item \in Values
    BY <1>3, <2>1 DEF PopInv, IInv, TypeOK
  <2>3. Append(list[l], item) # <<>>
    BY <2>2
  <2>4. list'[l] # <<>> /\ \A k \in Lists \ {l} : list'[k] = list[k]
    BY <1>2, <1>7, <2>1, <2>3 DEF PopInv, IInv, TypeOK
  <2> QED BY <1>1, <1>5, <2>1, <2>4, NotTakenStep DEF PopInv
<1> QED BY <1>6, <1>7

\* The callback that takes from another list is noticed.
LEMMA NotTakenTurn ==
  ASSUME PopInv, NEW t \in Threads, Turn(t)
  PROVE  NotTaken' /\ UNCHANGED fault
<1>1. call[t] \in Calls /\ CallOK(call[t]) /\ call[t].at = "turn" /\ UNCHANGED fault
  BY DEF Turn, At, PopInv, IInv, TypeOK
<1>2. PICK l \in Lists : l = call[t].look
  BY <1>1 DEF CallOK
<1>3. \A k \in Lists \ {l} : list'[k] = list[k]
  BY <1>2 DEF Turn, PopInv, IInv, TypeOK
<1>4. PICK calls \in [Threads -> Calls] :
        /\ call' = [calls EXCEPT ![t].at = "each", ![t].look = NoList]
        /\ (calls = call /\ list'[l] = list[l]) \/ calls = Noticed(l)
  BY <1>2, NoticedLike DEF Turn, PopInv, IInv, TypeOK
<1>5. call'[t].at = "each" /\ \A u \in Threads \ {t} : call'[u] = calls[u]
  <2>1. calls[t] \in Calls /\ call'[t] = [calls[t] EXCEPT !.at = "each", !.look = NoList]
    BY <1>4
  <2> QED BY <1>4, <2>1 DEF Calls
<1> QED BY <1>1, <1>3, <1>4, <1>5, NotTakenStep DEF PopInv

\* Steps that change no list.
LEMMA NotTakenOther ==
  ASSUME PopInv, NEW t \in Threads, NEW l \in Lists,
         \/ empty(t, l) \/ for_each(t, l)
         \/ FindLock(t) \/ FindUnlock(t) \/ EachEnd(t) \/ AssignEach(t) \/ AssignEnd(t)
  PROVE  NotTaken' /\ UNCHANGED fault
<1>1. call[t] \in Calls /\ CallOK(call[t]) /\ UNCHANGED <<list, fault>>
  BY DEF empty, for_each, FindLock, FindUnlock, EachEnd, AssignEach, AssignEnd, PopInv, IInv, TypeOK
<1>2. PICK d : call' = [call EXCEPT ![t] = d]
               /\ (d.at = "pop" => d.src = l /\ list[l] # <<>>)
  <2>1. CASE empty(t, l) \/ for_each(t, l)
    <3>1. PICK d : /\ d \in {[NoCall EXCEPT !.at = "pop", !.src = l], [NoCall EXCEPT !.at = "each", !.src = l]}
                   /\ call' = [call EXCEPT ![t] = d]
                   /\ d.at = "pop" => list[l] # <<>>
      <4>1. CASE empty(t, l)
        BY <4>1 DEF empty
      <4>2. CASE for_each(t, l)
        BY <4>2 DEF for_each, NoCall
      <4> QED BY <2>1, <4>1, <4>2
    <3>2. d.src = l
      BY <3>1 DEF NoCall
    <3> QED BY <3>1, <3>2
  <2>2. CASE FindLock(t) \/ FindUnlock(t) \/ AssignEach(t)
    <3>1. PICK place \in {"each", "found"} : call' = [call EXCEPT ![t].at = place]
      BY <2>2 DEF FindLock, FindUnlock, AssignEach
    <3>2. PICK d : d = [call[t] EXCEPT !.at = place]
      OBVIOUS
    <3>3. call' = [call EXCEPT ![t] = d] /\ d.at = place
      BY <1>1, <3>1, <3>2 DEF Calls
    <3> QED BY <3>3
  <2>3. CASE EachEnd(t) \/ AssignEnd(t)
    <3>1. PICK d \in {NoCall, [call[t] EXCEPT !.at = "assigned"]} : call' = [call EXCEPT ![t] = d]
      BY <2>3 DEF EachEnd, AssignEnd
    <3>2. d.at # "pop"
      BY <1>1 DEF NoCall, Calls
    <3> QED BY <3>1, <3>2
  <2> QED BY <2>1, <2>2, <2>3
<1>3. call'[t] = d /\ \A u \in Threads \ {t} : call'[u] = call[u]
  BY <1>2 DEF PopInv, IInv, TypeOK
<1> QED BY <1>1, <1>2, <1>3, NotTakenStep DEF PopInv

LEMMA NotTakenAssign ==
  ASSUME PopInv, NEW t \in Threads, NEW l \in Lists, NEW src \in Lists, Assign(t, l, src)
  PROVE  NotTaken' /\ UNCHANGED fault
<1>1. PICK d : /\ d = [NoCall EXCEPT !.at = "assign", !.dst = l, !.src = src]
               /\ call' = [Noticed(l) EXCEPT ![t] = d]
  BY DEF Assign
<1>2. UNCHANGED fault /\ \A k \in Lists \ {l} : list'[k] = list[k]
  BY DEF Assign, PopInv, IInv, TypeOK
<1>3. (\A u \in Threads \ {t} : call'[u] = Noticed(l)[u]) /\ call'[t] = d
  BY <1>1, NoticedLike DEF PopInv
<1>4. d.at # "pop"
  BY <1>1 DEF NoCall
<1> QED BY <1>2, <1>3, <1>4, NotTakenStep DEF PopInv

LEMMA PopInductive == PopInv /\ [Next]_vars => PopInv'
<1> SUFFICES ASSUME PopInv, [Next]_vars PROVE PopInv'
  OBVIOUS
<1>1. IInv'
  BY Inductive DEF PopInv
<1>2. CASE Next
  <2>1. PICK t \in Threads :
          \/ Inside(t) \/ Waiting(t)
          \/ \E l \in Lists :
               \/ pop_begin(t, l) \/ clear(t, l) \/ empty(t, l) \/ for_each(t, l)
               \/ \E val \in Values : emplace_back(t, l, val) \/ emplace_front(t, l, val) \/ remove(t, l, val)
               \/ \E src \in Lists : Assign(t, l, src)
    BY <1>2 DEF Next
  <2>2. ~fault
    BY <2>1 DEF Inside, Waiting, func, FindLock, FindUnlock, EachEnd, AssignEach, AssignEnd,
                Turn, pop_front, pop_back, Pop, pop_begin, clear, empty, for_each, emplace_back,
                emplace_front, remove, Assign, Locked, Idle, At
  <2>3. CASE pop_front(t) \/ pop_back(t)
    BY <1>1, <2>3, NotTakenPop DEF PopInv
  <2>4. SUFFICES ASSUME ~(pop_front(t) \/ pop_back(t)) PROVE NotTaken' /\ UNCHANGED fault
    BY <1>1, <2>2, <2>3 DEF PopInv, EmptyPopNeedsTaking
  <2>5. CASE func(t) \/ Turn(t)
    BY <2>5, NotTakenfunc, NotTakenTurn
  <2>6. CASE FindLock(t) \/ FindUnlock(t) \/ EachEnd(t) \/ AssignEach(t) \/ AssignEnd(t)
    <3>1. PICK l \in Lists : l = call[t].src \/ l = call[t].dst
      BY <2>6 DEF FindLock, FindUnlock, EachEnd, AssignEach, AssignEnd, At, PopInv, IInv, CallOK
    <3> QED BY <2>6, NotTakenOther
  <2>7. ASSUME NEW l \in Lists, empty(t, l) \/ for_each(t, l) PROVE NotTaken' /\ UNCHANGED fault
    BY <2>7, NotTakenOther
  <2>8. ASSUME NEW l \in Lists, NEW val \in Values,
               \/ emplace_back(t, l, val) \/ emplace_front(t, l, val)
               \/ remove(t, l, val)
        PROVE  NotTaken' /\ UNCHANGED fault
    BY <2>8, NotTakenQuick
  <2>9. ASSUME NEW l \in Lists, pop_begin(t, l) \/ clear(t, l) PROVE NotTaken' /\ UNCHANGED fault
    BY <2>9, NotTakenQuick
  <2>10. ASSUME NEW l \in Lists, NEW src \in Lists, Assign(t, l, src)
         PROVE  NotTaken' /\ UNCHANGED fault
    BY <2>10, NotTakenAssign
  <2> QED BY <2>1, <2>4, <2>5, <2>6, <2>7, <2>8, <2>9, <2>10 DEF Inside, Waiting
<1>3. CASE UNCHANGED vars
  BY <1>1, <1>3 DEF vars, PopInv, NotTaken, EmptyPopNeedsTaking
<1> QED BY <1>2, <1>3

\* For any threads, lists and items: a list that empty() called not empty is
\* empty for the pop that follows only if another thread took from it between
\* the two (SyncList.h:30-34, 46-50, 63-66).
THEOREM EmptyPopAlwaysNeedsTaking == Spec => []EmptyPopNeedsTaking
<1>1. Init => PopInv
  BY InitIInv DEF Init, PopInv, NotTaken, EmptyPopNeedsTaking, NoCall
<1>2. PopInv /\ [Next]_vars => PopInv'
  BY PopInductive
<1>3. PopInv => EmptyPopNeedsTaking
  BY DEF PopInv
<1> QED BY <1>1, <1>2, <1>3, PTL DEF Spec

-----------------------------------------------------------------------------
\* Who waits for whom.

\* As long as a call has not ended in that sense, some call has no lock to wait
\* for: no lock is left behind by a thread that is done (SyncList.h:93-102,
\* 121-133, locker.cpp:14-37).
SomebodyGoesOn ==
  (\E t \in Threads : ~Ended(t)) =>
    \E s \in Threads :
      call[s].at # "idle" /\ (Waits(s) => mayLock(locker[Wanted(s)], s))

\* Whoever keeps a thread waiting is in a call himself.
LEMMA OwnerIsInside ==
  ASSUME IInv, NEW t \in Threads, Waits(t), ~mayLock(locker[Wanted(t)], t)
  PROVE  /\ locker[Wanted(t)].owner \in Threads \ {t}
         /\ call[locker[Wanted(t)].owner].at # "idle"
<1>1. call[t] \in Calls /\ CallOK(call[t])
  BY DEF IInv, TypeOK
<1>2. PICK l \in Lists : l = Wanted(t)
  BY <1>1 DEF Waits, Wanted, CallOK
<1>3. PICK s \in Threads : s = locker[l].owner /\ s # t
  BY <1>2 DEF mayLock, IInv, TypeOK
<1>4. Depth(call[s], l) > 0
  BY <1>3, SyncListAssumption DEF IInv, LocksOK
<1>5. call[s] \in Calls /\ CallOK(call[s])
  BY DEF IInv, TypeOK
<1>6. call[s].at # "idle"
  <2>1. SUFFICES ASSUME call[s].at = "idle" PROVE FALSE
    OBVIOUS
  <2>2. Depth(call[s], l) = 0
    BY <1>5, <2>1, Depths
  <2> QED BY <1>4, <2>2
<1> QED BY <1>2, <1>3, <1>6

\* For any threads and lists: as long as a call has neither ended nor waits in or
\* behind a ring, some call has no lock to wait for.  All that wait would be such
\* a ring (SyncList.h:93-102, 121-133, locker.cpp:14-37).
THEOREM SomebodyAlwaysGoesOn == Spec => []SomebodyGoesOn
<1>1. IInv => SomebodyGoesOn
  <2> SUFFICES ASSUME IInv, NEW t \in Threads, ~Ended(t),
                      \A s \in Threads : call[s].at # "idle" =>
                        Waits(s) /\ ~mayLock(locker[Wanted(s)], s)
               PROVE  FALSE
    BY DEF SomebodyGoesOn
  <2> DEFINE ring == {s \in Threads : call[s].at # "idle"}
  <2>1. t \in ring /\ ring \in SUBSET Threads
    BY DEF Ended
  <2>2. \A s \in ring : Waits(s) /\ locker[Wanted(s)].owner \in ring \ {s}
    BY OwnerIsInside
  <2>3. Stuck(t)
    BY <2>1, <2>2 DEF Stuck
  <2> QED BY <2>3 DEF Ended
<1>2. Init => IInv
  BY InitIInv
<1>3. IInv /\ [Next]_vars => IInv'
  BY Inductive
<1> QED BY <1>1, <1>2, <1>3, PTL DEF Spec

-----------------------------------------------------------------------------
\* The singletons.

Places == {"idle", "reread", "lock", "test", "make", "leave", "returned",
           "relLock", "relTest", "relNull", "relLeave"}

Holding(place) == place \in {"test", "make", "leave", "relTest", "relNull", "relLeave"}

Nobody(place) == \A t \in Threads : asks[t].at # place

AskedTyped ==
  /\ kind \in {"IConfig", "IAJA_TcOSD", "PoolMgrEx"} /\ mSInstance \in Nat /\ made \in Nat
  /\ g_lock \in [owner : Threads \cup {NoOne}, depth : Nat]
  /\ asks \in [Threads -> [at : Places, got : Nat, released : BOOLEAN]]

LockIsHeld ==
  /\ \A t \in Threads : Holding(asks[t].at) => g_lock.owner = t /\ g_lock.depth = 1
  /\ g_lock.owner # NoOne => Holding(asks[g_lock.owner].at)
  /\ g_lock.owner = NoOne => g_lock.depth = 0

\* The object there is while one is made, while one is released, and otherwise.
ObjectOK ==
  /\ mSInstance \in {0, made}
  /\ \A t \in Threads :
       /\ asks[t].at = "make" =>
            made > 0 /\ objects = {made} /\ ~(made \in built /\ mSInstance = made)
       /\ asks[t].at = "relNull" => objects = {} /\ mSInstance # 0
       /\ asks[t].at = "leave" => mSInstance # 0
  /\ Nobody("make") /\ Nobody("relNull") => objects = {mSInstance} \ {0} /\ objects \subseteq built

\* Only IConfig is released, and PoolMgrEx has no test without the lock.
KindOK ==
  \A t \in Threads :
    /\ asks[t].at \in {"relLock", "relTest", "relNull", "relLeave"} \/ asks[t].released
         => kind = "IConfig"
    /\ asks[t].at = "reread" => kind # "PoolMgrEx"

\* A call that no release was beside was given the object there is.
GotOK ==
  \A t \in Threads :
    asks[t].at \in {"reread", "returned"} /\ ~asks[t].released =>
      /\ asks[t].got = mSInstance /\ mSInstance # 0 /\ Nobody("relNull")
      /\ kind = "PoolMgrEx" => Nobody("make")

AskInv == AskedTyped /\ LockIsHeld /\ ObjectOK /\ KindOK /\ GotOK

LEMMA InitAskInv == Instance!Init => AskInv
<1> SUFFICES ASSUME Instance!Init PROVE AskInv
  OBVIOUS
<1>1. asks = [t \in Threads |-> [at |-> "idle", got |-> 0, released |-> FALSE]]
  BY DEF Instance!Init, Instance!NoAsk
<1>2. AskedTyped
  <2>1. asks \in [Threads -> [at : Places, got : Nat, released : BOOLEAN]]
    BY <1>1 DEF Places
  <2>2. kind \in Instance!Kinds /\ mSInstance = 0 /\ made = 0 /\ g_lock = Instance!Unlocked
    BY DEF Instance!Init
  <2> QED BY <2>1, <2>2 DEF Instance!Unlocked, Instance!Kinds, AskedTyped
<1>3. LockIsHeld
  BY <1>1 DEF Instance!Init, Instance!Unlocked, LockIsHeld, Holding
<1>4. ObjectOK /\ KindOK /\ GotOK
  BY <1>1 DEF Instance!Init, ObjectOK, KindOK, GotOK, Nobody
<1> QED BY <1>2, <1>3, <1>4 DEF AskInv

\* A thread inside the lock is there alone, and the lock is its own.
LEMMA AloneInLock ==
  ASSUME AskInv, NEW t \in Threads, Holding(asks[t].at)
  PROVE  /\ g_lock = [owner |-> t, depth |-> 1]
         /\ \A u \in Threads \ {t} : ~Holding(asks[u].at)
<1>1. g_lock.owner = t /\ g_lock.depth = 1
  BY DEF AskInv, LockIsHeld
<1>2. g_lock = [owner |-> t, depth |-> 1]
  BY <1>1 DEF AskInv, AskedTyped
<1>3. ASSUME NEW u \in Threads \ {t} PROVE ~Holding(asks[u].at)
  BY <1>1 DEF AskInv, LockIsHeld
<1> QED BY <1>2, <1>3

\* A step of t to another place that keeps what the call was given.
Steps(t, place) == /\ asks'[t] = [at |-> place, got |-> asks[t].got, released |-> asks[t].released]
                   /\ \A u \in Threads \ {t} : asks'[u] = asks[u]
                   /\ asks' \in [Threads -> [at : Places, got : Nat, released : BOOLEAN]]

LEMMA GoesSteps ==
  ASSUME AskedTyped, NEW t \in Threads, NEW place \in Places, Instance!Goes(t, place)
  PROVE  Steps(t, place)
BY DEF AskedTyped, Instance!Goes, Steps

\* The lock after a step of t: kept, taken or left as the place says.
LEMMA LockFollows ==
  ASSUME AskInv, NEW t \in Threads, asks' \in [Threads -> [at : Places, got : Nat, released : BOOLEAN]],
         \A u \in Threads \ {t} : asks'[u].at = asks[u].at,
         \/ g_lock' = g_lock /\ (Holding(asks'[t].at) <=> Holding(asks[t].at))
         \/ Instance!mayLock(g_lock, t) /\ ~Holding(asks[t].at) /\ Holding(asks'[t].at)
            /\ g_lock' = Instance!lock(g_lock, t)
         \/ Holding(asks[t].at) /\ ~Holding(asks'[t].at) /\ g_lock' = Instance!unlock(g_lock)
  PROVE  LockIsHeld' /\ g_lock' \in [owner : Threads \cup {NoOne}, depth : Nat]
<1>1. CASE g_lock' = g_lock /\ (Holding(asks'[t].at) <=> Holding(asks[t].at))
  BY <1>1 DEF AskInv, AskedTyped, LockIsHeld
<1>2. CASE Instance!mayLock(g_lock, t) /\ ~Holding(asks[t].at) /\ Holding(asks'[t].at)
           /\ g_lock' = Instance!lock(g_lock, t)
  <2>1. g_lock.owner = NoOne
    BY <1>2 DEF AskInv, LockIsHeld, Instance!mayLock
  <2>2. g_lock' = [owner |-> t, depth |-> 1] /\ \A u \in Threads : ~Holding(asks[u].at)
    BY <1>2, <2>1, SyncListAssumption DEF AskInv, LockIsHeld, Instance!lock
  <2> QED BY <1>2, <2>2, SyncListAssumption DEF LockIsHeld
<1>3. CASE Holding(asks[t].at) /\ ~Holding(asks'[t].at) /\ g_lock' = Instance!unlock(g_lock)
  <2>1. g_lock = [owner |-> t, depth |-> 1] /\ \A u \in Threads \ {t} : ~Holding(asks[u].at)
    BY <1>3, AloneInLock
  <2>2. g_lock' = [owner |-> NoOne, depth |-> 0]
    BY <1>3, <2>1 DEF Instance!unlock
  <2>3. \A u \in Threads : ~Holding(asks'[u].at)
    BY <1>3, <2>1
  <2> QED BY <2>2, <2>3 DEF LockIsHeld
<1> QED BY <1>1, <1>2, <1>3

LEMMA getInstanceInv ==
  ASSUME AskInv, NEW t \in Threads, Instance!getInstance(t) PROVE AskInv'
<1>1. /\ asks[t].at = "idle"
      /\ UNCHANGED <<kind, mSInstance, g_lock, objects, built, made>>
  BY DEF Instance!getInstance, Instance!AskAt
<1>2. PICK place \in {"reread", "lock"}, hit \in BOOLEAN :
        /\ place = "reread" => kind # "PoolMgrEx" /\ mSInstance # 0
        /\ ~hit => Nobody("relNull")
        /\ hit => ~Nobody("relNull")
        /\ asks' = [asks EXCEPT ![t] = [at |-> place, got |-> mSInstance, released |-> hit]]
  <2>1. PICK place : place = IF kind # "PoolMgrEx" /\ mSInstance # 0 THEN "reread" ELSE "lock"
    OBVIOUS
  <2>2. PICK hit : hit = (\E u \in Threads : asks[u].at = "relNull")
    OBVIOUS
  <2>3. PICK ask : ask = [Instance!NoAsk EXCEPT !.at = place, !.got = mSInstance, !.released = hit]
    OBVIOUS
  <2>4. asks' = [asks EXCEPT ![t] = ask]
    BY <2>1, <2>2, <2>3, Zenon DEF Instance!getInstance, Instance!AskAt
  <2>5. place \in {"reread", "lock"} /\ (place = "reread" => kind # "PoolMgrEx" /\ mSInstance # 0)
    BY <2>1
  <2>6. hit \in BOOLEAN /\ (hit <=> ~Nobody("relNull"))
    BY <2>2, Zenon DEF Nobody
  <2>7. ask = [at |-> place, got |-> mSInstance, released |-> hit]
    <3>1. ask.at = place
      BY <2>3 DEF Instance!NoAsk
    <3>2. ask.got = mSInstance
      BY <2>3 DEF Instance!NoAsk
    <3>3. ask.released = hit
      BY <2>3 DEF Instance!NoAsk
    <3>4. ask = [at |-> ask.at, got |-> ask.got, released |-> ask.released]
      BY <2>3 DEF Instance!NoAsk
    <3> QED BY <3>1, <3>2, <3>3, <3>4, Zenon
  <2> QED BY <2>4, <2>5, <2>6, <2>7, Zenon
<1>3. /\ asks'[t] = [at |-> place, got |-> mSInstance, released |-> hit]
      /\ \A u \in Threads \ {t} : asks'[u] = asks[u]
      /\ asks' \in [Threads -> [at : Places, got : Nat, released : BOOLEAN]]
  BY <1>2 DEF AskInv, AskedTyped, Places
<1>4. AskedTyped' /\ LockIsHeld'
  BY <1>1, <1>2, <1>3, LockFollows DEF AskInv, AskedTyped, Holding
<1>5. \A p \in {"make", "relNull"} : Nobody(p)' <=> Nobody(p)
  BY <1>1, <1>2, <1>3 DEF Nobody
<1>6. ObjectOK'
  BY <1>1, <1>2, <1>3, <1>5 DEF AskInv, ObjectOK
<1>7. KindOK'
  BY <1>1, <1>2, <1>3 DEF AskInv, KindOK, Nobody
<1>8. GotOK'
  BY <1>1, <1>2, <1>3, <1>5 DEF AskInv, GotOK, KindOK
<1> QED BY <1>4, <1>6, <1>7, <1>8 DEF AskInv

\* What an asker that comes back with a pointer changes of asks.
LEMMA ComesBackWith ==
  ASSUME AskInv, NEW t \in Threads, NEW pointer \in Nat,
         asks' = [asks EXCEPT ![t].at = "returned", ![t].got = pointer]
  PROVE  /\ asks'[t].at = "returned" /\ asks'[t].got = pointer
         /\ asks'[t].released = asks[t].released
         /\ \A u \in Threads \ {t} : asks'[u] = asks[u]
         /\ asks' \in [Threads -> [at : Places, got : Nat, released : BOOLEAN]]
<1> DEFINE Row == [at : Places, got : Nat, released : BOOLEAN]
<1>1. asks \in [Threads -> Row]
  BY DEF AskInv, AskedTyped
<1>2. asks' = [asks EXCEPT ![t] = [asks[t] EXCEPT !.at = "returned", !.got = pointer]]
  OBVIOUS
<1>3. PICK row : row = [asks[t] EXCEPT !.at = "returned", !.got = pointer]
  OBVIOUS
<1>4. asks[t] \in Row
  BY <1>1
<1>5. row.at = "returned" /\ row.got = pointer /\ row.released = asks[t].released
  BY <1>3, <1>4
<1>6. row \in Row
  BY <1>3, <1>4 DEF Places
<1>7. asks' = [asks EXCEPT ![t] = row]
  BY <1>2, <1>3
<1> HIDE DEF Row
<1>8. asks'[t] = row /\ (\A u \in Threads \ {t} : asks'[u] = asks[u]) /\ asks' \in [Threads -> Row]
  BY <1>1, <1>6, <1>7
<1> QED BY <1>5, <1>8 DEF Row

LEMMA RereadInv ==
  ASSUME AskInv, NEW t \in Threads, Instance!Reread(t) PROVE AskInv'
<1>1. asks[t].at = "reread" /\ UNCHANGED <<kind, mSInstance, g_lock, objects, built, made>>
  BY DEF Instance!Reread, Instance!AskAt
<1>2. PICK pointer \in {asks[t].got, mSInstance} :
        asks' = [asks EXCEPT ![t].at = "returned", ![t].got = pointer]
  BY DEF Instance!Reread
<1>3. pointer \in Nat
  BY DEF AskInv, AskedTyped
<1>4. /\ asks'[t].at = "returned" /\ asks'[t].got = pointer /\ asks'[t].released = asks[t].released
      /\ \A u \in Threads \ {t} : asks'[u] = asks[u]
      /\ asks' \in [Threads -> [at : Places, got : Nat, released : BOOLEAN]]
  BY <1>2, <1>3, ComesBackWith
<1>5. AskedTyped' /\ LockIsHeld'
  BY <1>1, <1>4, LockFollows DEF AskInv, AskedTyped, Holding
<1>6. \A p \in {"make", "relNull"} : Nobody(p)' <=> Nobody(p)
  BY <1>1, <1>4 DEF Nobody
<1>7. ObjectOK'
  BY <1>1, <1>4, <1>6 DEF AskInv, ObjectOK
<1>8. KindOK'
  BY <1>1, <1>4 DEF AskInv, KindOK
<1>9. GotOK'
  BY <1>1, <1>2, <1>4, <1>6 DEF AskInv, GotOK
<1> QED BY <1>5, <1>7, <1>8, <1>9 DEF AskInv

LEMMA LockInv ==
  ASSUME AskInv, NEW t \in Threads, Instance!Lock(t) PROVE AskInv'
<1>1. /\ asks[t].at \in {"lock", "relLock"}
      /\ UNCHANGED <<kind, mSInstance, objects, built, made>>
      /\ Instance!mayLock(g_lock, t) /\ g_lock' = Instance!lock(g_lock, t)
  BY DEF Instance!Lock, Instance!AskAt
<1>2. PICK place \in {"test", "relTest"} :
        /\ place = "relTest" => asks[t].at = "relLock"
        /\ Instance!Goes(t, place)
  BY <1>1 DEF Instance!Lock, Instance!AskAt
<1>3. Steps(t, place)
  BY <1>2, GoesSteps DEF AskInv, Places
<1>4. AskedTyped' /\ LockIsHeld'
  BY <1>1, <1>2, <1>3, LockFollows DEF AskInv, AskedTyped, Holding, Steps
<1>5. \A p \in {"make", "relNull"} : Nobody(p)' <=> Nobody(p)
  BY <1>1, <1>2, <1>3 DEF Nobody, Steps
<1>6. ObjectOK'
  BY <1>1, <1>2, <1>3, <1>5 DEF AskInv, ObjectOK, Steps
<1>7. KindOK'
  BY <1>1, <1>2, <1>3 DEF AskInv, KindOK, Steps
<1>8. GotOK'
  BY <1>1, <1>2, <1>3, <1>5 DEF AskInv, GotOK, Steps
<1> QED BY <1>4, <1>6, <1>7, <1>8 DEF AskInv

\* While t tests, nothing is made and nothing released.
LEMMA TestInv ==
  ASSUME AskInv, NEW t \in Threads, Instance!Test(t) PROVE AskInv'
<1>1. asks[t].at = "test" /\ UNCHANGED <<kind, mSInstance, g_lock, built>>
  BY DEF Instance!Test, Instance!AskAt
<1>2. /\ Nobody("make") /\ Nobody("relNull")
      /\ \A u \in Threads \ {t} : ~Holding(asks[u].at)
  BY <1>1, AloneInLock DEF Holding, Nobody
<1>3. mSInstance \in {0, made} /\ objects = {mSInstance} \ {0} /\ objects \subseteq built
  BY <1>2 DEF AskInv, ObjectOK
<1>4. CASE mSInstance # 0
  <2>1. Instance!Goes(t, "leave") /\ UNCHANGED <<objects, made>>
    BY <1>4 DEF Instance!Test
  <2>2. Steps(t, "leave")
    BY <2>1, GoesSteps DEF AskInv, Places
  <2>3. AskedTyped' /\ LockIsHeld'
    BY <1>1, <2>1, <2>2, LockFollows DEF AskInv, AskedTyped, Holding, Steps
  <2>4. \A p \in {"make", "relNull"} : Nobody(p)'
    BY <1>2, <2>2 DEF Nobody, Steps
  <2>5. ObjectOK'
    BY <1>1, <1>3, <1>4, <2>1, <2>2, <2>4 DEF AskInv, ObjectOK, Steps, Nobody
  <2>6. KindOK'
    BY <1>1, <2>2 DEF AskInv, KindOK, Steps
  <2>7. GotOK'
    BY <1>1, <2>2, <2>4 DEF AskInv, GotOK, Steps
  <2> QED BY <2>3, <2>5, <2>6, <2>7 DEF AskInv
<1>5. CASE mSInstance = 0
  <2>1. Instance!Goes(t, "make") /\ made' = made + 1 /\ objects' = objects \cup {made + 1}
    BY <1>5 DEF Instance!Test
  <2>2. Steps(t, "make")
    BY <2>1, GoesSteps DEF AskInv, Places
  <2>3. made' \in Nat /\ made' > 0 /\ objects' = {made'} /\ made' # mSInstance
    BY <1>3, <1>5, <2>1 DEF AskInv, AskedTyped
  <2>4. AskedTyped' /\ LockIsHeld'
    BY <1>1, <2>2, <2>3, LockFollows DEF AskInv, AskedTyped, Holding, Steps
  <2>5. ObjectOK'
    BY <1>1, <1>2, <1>5, <2>2, <2>3 DEF ObjectOK, Steps, Holding, Nobody
  <2>6. KindOK'
    BY <1>1, <2>2 DEF AskInv, KindOK, Steps
  <2>7. \A u \in Threads : ~(asks[u].at \in {"reread", "returned"} /\ ~asks[u].released)
    BY <1>5 DEF AskInv, GotOK
  <2>8. GotOK'
    BY <2>2, <2>7 DEF GotOK, Steps
  <2> QED BY <2>4, <2>5, <2>6, <2>8 DEF AskInv
<1> QED BY <1>4, <1>5

LEMMA ConstructInv ==
  ASSUME AskInv, NEW t \in Threads, Instance!Construct(t) PROVE AskInv'
<1>1. /\ asks[t].at = "make" /\ UNCHANGED <<kind, mSInstance, g_lock, objects, made>>
      /\ built' = built \cup {made}
  BY DEF Instance!Construct, Instance!AskAt
<1>2. \A u \in Threads \ {t} : ~Holding(asks[u].at)
  BY <1>1, AloneInLock DEF Holding
<1>3. made > 0 /\ objects = {made} /\ mSInstance \in {0, made}
  BY <1>1 DEF AskInv, ObjectOK
<1>4. CASE mSInstance = made
  <2>1. Steps(t, "leave")
    BY <1>4, GoesSteps DEF Instance!Construct, AskInv, Places
  <2>2. AskedTyped' /\ LockIsHeld'
    BY <1>1, <2>1, LockFollows DEF AskInv, AskedTyped, Holding, Steps
  <2>3. Nobody("make")' /\ (Nobody("relNull")' <=> Nobody("relNull"))
    BY <1>1, <1>2, <2>1 DEF Nobody, Steps, Holding
  <2>4. made \in Nat /\ made # 0
    BY <1>3 DEF AskInv, AskedTyped
  <2>5. objects' = {mSInstance'} \ {0} /\ objects' \subseteq built'
    BY <1>1, <1>3, <1>4, <2>4
  <2>6. ObjectOK'
    BY <1>1, <1>2, <1>4, <2>1, <2>3, <2>4, <2>5 DEF ObjectOK, Steps, Holding, Nobody
  <2>7. KindOK'
    BY <1>1, <2>1 DEF AskInv, KindOK, Steps
  <2>8. GotOK'
    BY <1>1, <2>1, <2>3 DEF AskInv, GotOK, Steps
  <2> QED BY <2>2, <2>6, <2>7, <2>8 DEF AskInv
<1>5. CASE mSInstance # made
  <2>1. UNCHANGED asks
    BY <1>5 DEF Instance!Construct
  <2>2. AskedTyped' /\ LockIsHeld' /\ KindOK' /\ GotOK'
    BY <1>1, <2>1 DEF AskInv, AskedTyped, LockIsHeld, KindOK, GotOK, Nobody
  <2>3. ObjectOK'
    BY <1>1, <1>2, <1>3, <1>5, <2>1 DEF ObjectOK, Holding, Nobody
  <2> QED BY <2>2, <2>3 DEF AskInv
<1> QED BY <1>4, <1>5

\* The pointer is set while nobody can have been given an object.
LEMMA PublishInv ==
  ASSUME AskInv, NEW t \in Threads, Instance!Publish(t) PROVE AskInv'
<1>1. /\ asks[t].at = "make" /\ UNCHANGED <<kind, g_lock, objects, built, made>>
      /\ mSInstance # made /\ mSInstance' = made
  BY DEF Instance!Publish, Instance!AskAt
<1>2. \A u \in Threads \ {t} : ~Holding(asks[u].at)
  BY <1>1, AloneInLock DEF Holding
<1>3. made > 0 /\ made \in Nat /\ objects = {made} /\ mSInstance = 0
  BY <1>1 DEF AskInv, ObjectOK, AskedTyped
<1>4. \A u \in Threads : ~(asks[u].at \in {"reread", "returned"} /\ ~asks[u].released)
  BY <1>3 DEF AskInv, GotOK
<1>5. CASE made \in built
  <2>1. Steps(t, "leave")
    BY <1>5, GoesSteps DEF Instance!Publish, AskInv, Places
  <2>2. AskedTyped' /\ LockIsHeld'
    BY <1>1, <1>3, <2>1, LockFollows DEF AskInv, AskedTyped, Holding, Steps
  <2>3. Nobody("make")'
    BY <1>1, <1>2, <2>1 DEF Nobody, Steps, Holding
  <2>4. made # 0
    BY <1>3
  <2>5. objects' = {mSInstance'} \ {0} /\ objects' \subseteq built'
    BY <1>1, <1>3, <1>5, <2>4
  <2>6. ObjectOK'
    BY <1>1, <1>2, <2>1, <2>3, <2>4, <2>5 DEF ObjectOK, Steps, Holding, Nobody
  <2>7. KindOK'
    BY <1>1, <2>1 DEF AskInv, KindOK, Steps
  <2>8. GotOK'
    BY <1>4, <2>1 DEF GotOK, Steps
  <2> QED BY <2>2, <2>6, <2>7, <2>8 DEF AskInv
<1>6. CASE made \notin built
  <2>1. UNCHANGED asks
    BY <1>6 DEF Instance!Publish
  <2>2. AskedTyped' /\ LockIsHeld' /\ KindOK'
    BY <1>1, <1>3, <2>1 DEF AskInv, AskedTyped, LockIsHeld, KindOK
  <2>3. ObjectOK'
    BY <1>1, <1>2, <1>3, <1>6, <2>1 DEF ObjectOK, Holding, Nobody
  <2>4. GotOK'
    BY <1>4, <2>1 DEF GotOK
  <2> QED BY <2>2, <2>3, <2>4 DEF AskInv
<1> QED BY <1>5, <1>6

LEMMA LeaveInv ==
  ASSUME AskInv, NEW t \in Threads, Instance!Leave(t) PROVE AskInv'
<1>1. /\ asks[t].at = "leave" /\ UNCHANGED <<kind, mSInstance, objects, built, made>>
      /\ g_lock' = Instance!unlock(g_lock)
      /\ asks' = [asks EXCEPT ![t].at = "returned", ![t].got = mSInstance]
  BY DEF Instance!Leave, Instance!AskAt
<1>2. mSInstance \in Nat /\ mSInstance # 0
  BY <1>1 DEF AskInv, AskedTyped, ObjectOK
<1>3. /\ asks'[t].at = "returned" /\ asks'[t].got = mSInstance
      /\ asks'[t].released = asks[t].released
      /\ \A u \in Threads \ {t} : asks'[u] = asks[u]
      /\ asks' \in [Threads -> [at : Places, got : Nat, released : BOOLEAN]]
  BY <1>1, <1>2, ComesBackWith
<1>4. AskedTyped' /\ LockIsHeld'
  BY <1>1, <1>3, LockFollows DEF AskInv, AskedTyped, Holding
<1>5. \A u \in Threads \ {t} : ~Holding(asks[u].at)
  BY <1>1, AloneInLock DEF Holding
<1>6. \A p \in {"make", "relNull"} : Nobody(p)' /\ Nobody(p)
  BY <1>1, <1>3, <1>5 DEF Nobody, Holding
<1>7. ObjectOK'
  BY <1>1, <1>3, <1>6 DEF AskInv, ObjectOK
<1>8. KindOK'
  BY <1>1, <1>3 DEF AskInv, KindOK
<1>9. GotOK'
  BY <1>1, <1>2, <1>3, <1>6 DEF AskInv, GotOK
<1> QED BY <1>4, <1>7, <1>8, <1>9 DEF AskInv

\* The end of either call.
LEMMA ReturnsInv ==
  ASSUME AskInv, NEW t \in Threads, Instance!Return(t) \/ Instance!ReleaseLeave(t)
  PROVE  AskInv'
<1>1. /\ asks[t].at \in {"returned", "relLeave"} /\ UNCHANGED <<kind, mSInstance, objects, built, made>>
      /\ asks' = [asks EXCEPT ![t] = Instance!NoAsk]
      /\ asks[t].at = "returned" => g_lock' = g_lock
      /\ asks[t].at = "relLeave" => g_lock' = Instance!unlock(g_lock)
  BY DEF Instance!Return, Instance!ReleaseLeave, Instance!AskAt
<1>2. /\ asks'[t] = Instance!NoAsk /\ \A u \in Threads \ {t} : asks'[u] = asks[u]
      /\ asks' \in [Threads -> [at : Places, got : Nat, released : BOOLEAN]]
  BY <1>1 DEF AskInv, AskedTyped, Places, Instance!NoAsk
<1>3. asks'[t].at = "idle" /\ asks'[t].released = FALSE
  BY <1>2 DEF Instance!NoAsk
<1>4. AskedTyped' /\ LockIsHeld'
  BY <1>1, <1>2, <1>3, LockFollows DEF AskInv, AskedTyped, Holding
<1>5. \A p \in {"make", "relNull"} : Nobody(p)' <=> Nobody(p)
  BY <1>1, <1>2, <1>3 DEF Nobody
<1>6. ObjectOK'
  BY <1>1, <1>2, <1>3, <1>5 DEF AskInv, ObjectOK
<1>7. KindOK'
  BY <1>1, <1>2, <1>3 DEF AskInv, KindOK
<1>8. GotOK'
  BY <1>1, <1>2, <1>3, <1>5 DEF AskInv, GotOK
<1> QED BY <1>4, <1>6, <1>7, <1>8 DEF AskInv

LEMMA releaseInstanceInv ==
  ASSUME AskInv, NEW t \in Threads, Instance!releaseInstance(t) PROVE AskInv'
<1>1. /\ asks[t].at = "idle" /\ kind = "IConfig"
      /\ UNCHANGED <<kind, mSInstance, g_lock, objects, built, made>>
  BY DEF Instance!releaseInstance, Instance!AskAt
<1>2. Steps(t, "relLock")
  BY GoesSteps DEF Instance!releaseInstance, AskInv, Places
<1>3. AskedTyped' /\ LockIsHeld'
  BY <1>1, <1>2, LockFollows DEF AskInv, AskedTyped, Holding, Steps
<1>4. \A p \in {"make", "relNull"} : Nobody(p)' <=> Nobody(p)
  BY <1>1, <1>2 DEF Nobody, Steps
<1>5. ObjectOK'
  BY <1>1, <1>2, <1>4 DEF AskInv, ObjectOK, Steps
<1>6. KindOK'
  BY <1>1 DEF AskInv, KindOK
<1>7. GotOK'
  BY <1>1, <1>2, <1>4 DEF AskInv, GotOK, Steps
<1> QED BY <1>3, <1>5, <1>6, <1>7 DEF AskInv

\* A release that finds an object tells everybody who is in a call.
LEMMA DeleteInv ==
  ASSUME AskInv, NEW t \in Threads, Instance!Delete(t) PROVE AskInv'
<1>1. asks[t].at = "relTest" /\ UNCHANGED <<kind, mSInstance, g_lock, built, made>>
  BY DEF Instance!Delete, Instance!AskAt
<1>2. /\ Nobody("make") /\ Nobody("relNull")
      /\ \A u \in Threads \ {t} : ~Holding(asks[u].at)
  BY <1>1, AloneInLock DEF Holding, Nobody
<1>3. objects = {mSInstance} \ {0} /\ objects \subseteq built /\ kind = "IConfig"
  BY <1>1, <1>2 DEF AskInv, ObjectOK, KindOK
<1>4. CASE mSInstance = 0
  <2>1. Steps(t, "relLeave") /\ UNCHANGED objects
    BY <1>4, GoesSteps DEF Instance!Delete, AskInv, Places
  <2>2. AskedTyped' /\ LockIsHeld'
    BY <1>1, <2>1, LockFollows DEF AskInv, AskedTyped, Holding, Steps
  <2>3. \A p \in {"make", "relNull"} : Nobody(p)'
    BY <1>2, <2>1 DEF Nobody, Steps
  <2>4. ObjectOK'
    BY <1>1, <1>3, <2>1, <2>3 DEF AskInv, ObjectOK, Steps
  <2>5. KindOK'
    BY <1>1, <1>3 DEF KindOK
  <2>6. GotOK'
    BY <1>1, <2>1, <2>3 DEF AskInv, GotOK, Steps
  <2> QED BY <2>2, <2>4, <2>5, <2>6 DEF AskInv
<1>5. CASE mSInstance # 0
  <2>1. /\ objects' = objects \ {mSInstance}
        /\ asks' = [u \in Threads |-> IF u = t THEN [asks[t] EXCEPT !.at = "relNull"]
                                     ELSE [asks[u] EXCEPT !.released = @ \/ asks[u].at # "idle"]]
    BY <1>5 DEF Instance!Delete
  <2>2. objects' = {}
    BY <1>3, <2>1
  <2>3. asks'[t] = [asks[t] EXCEPT !.at = "relNull"]
    BY <2>1
  <2>4. ASSUME NEW u \in Threads \ {t}
        PROVE  /\ asks'[u].at = asks[u].at
               /\ asks[u].at # "idle" => asks'[u].released = TRUE
               /\ asks'[u] \in [at : Places, got : Nat, released : BOOLEAN]
    <3>1. PICK old : old = asks[u] /\ old \in [at : Places, got : Nat, released : BOOLEAN]
      BY DEF AskInv, AskedTyped
    <3>2. PICK hit : hit = (old.released \/ old.at # "idle")
      OBVIOUS
    <3>3. hit \in BOOLEAN /\ (old.at # "idle" => hit = TRUE)
      BY <3>2, Zenon
    <3>4. asks'[u] = [old EXCEPT !.released = hit]
      <4>1. asks'[u] = [asks[u] EXCEPT !.released = @ \/ asks[u].at # "idle"]
        BY <2>1
      <4> QED BY <3>1, <3>2, <4>1
    <3>5. [old EXCEPT !.released = hit].at = old.at /\ [old EXCEPT !.released = hit].released = hit
      BY <3>1
    <3>6. [old EXCEPT !.released = hit] \in [at : Places, got : Nat, released : BOOLEAN]
      BY <3>1, <3>3
    <3> QED BY <3>1, <3>3, <3>4, <3>5, <3>6, Zenon
  <2>5. asks'[t].at = "relNull" /\ asks'[t] \in [at : Places, got : Nat, released : BOOLEAN]
    BY <2>3 DEF AskInv, AskedTyped, Places
  <2>6. asks' \in [Threads -> [at : Places, got : Nat, released : BOOLEAN]]
    <3>1. \A u \in Threads : asks'[u] \in [at : Places, got : Nat, released : BOOLEAN]
      BY <2>4, <2>5
    <3>2. asks' = [u \in Threads |-> asks'[u]]
      BY <2>1
    <3> QED BY <3>1, <3>2
  <2>7. AskedTyped' /\ LockIsHeld'
    BY <1>1, <2>4, <2>5, <2>6, LockFollows DEF AskInv, AskedTyped, Holding
  <2>8. ~Nobody("relNull")' /\ Nobody("make")'
    BY <1>2, <2>4, <2>5 DEF Nobody
  <2>9. ObjectOK'
    BY <1>1, <1>2, <1>5, <2>2, <2>4, <2>5, <2>8 DEF AskInv, ObjectOK, Holding, Nobody
  <2>10. KindOK'
    BY <1>1, <1>3 DEF KindOK
  <2>11. \A u \in Threads : asks'[u].at \in {"reread", "returned"} => asks'[u].released = TRUE
    BY <2>4, <2>5
  <2>12. GotOK'
    BY <2>11 DEF GotOK
  <2> QED BY <2>7, <2>9, <2>10, <2>12 DEF AskInv
<1> QED BY <1>4, <1>5

LEMMA SetNullInv ==
  ASSUME AskInv, NEW t \in Threads, Instance!SetNull(t) PROVE AskInv'
<1>1. /\ asks[t].at = "relNull" /\ UNCHANGED <<kind, g_lock, objects, built, made>>
      /\ mSInstance' = 0
  BY DEF Instance!SetNull, Instance!AskAt
<1>2. Steps(t, "relLeave")
  BY GoesSteps DEF Instance!SetNull, AskInv, Places
<1>3. AskedTyped' /\ LockIsHeld'
  BY <1>1, <1>2, LockFollows DEF AskInv, AskedTyped, Holding, Steps
<1>4. \A u \in Threads \ {t} : ~Holding(asks[u].at)
  BY <1>1, AloneInLock DEF Holding
<1>5. objects = {}
  BY <1>1 DEF AskInv, ObjectOK
<1>6. ObjectOK'
  BY <1>1, <1>2, <1>4, <1>5 DEF ObjectOK, Steps, Holding
<1>7. KindOK'
  BY <1>1, <1>2 DEF AskInv, KindOK, Steps
<1>8. \A u \in Threads : ~(asks[u].at \in {"reread", "returned"} /\ ~asks[u].released)
  BY <1>1 DEF AskInv, GotOK, Nobody
<1>9. GotOK'
  BY <1>8, <1>2 DEF GotOK, Steps
<1> QED BY <1>3, <1>6, <1>7, <1>9 DEF AskInv

LEMMA AskInductive == AskInv /\ [LocksNext]_lockVars => AskInv'
<1> SUFFICES ASSUME AskInv, [LocksNext]_lockVars PROVE AskInv'
  OBVIOUS
<1>1. CASE UNCHANGED singleVars
  BY <1>1 DEF singleVars, AskInv, AskedTyped, LockIsHeld, ObjectOK, KindOK, GotOK, Nobody
<1>2. CASE Instance!Next
  <2>1. PICK t \in Threads : \/ Instance!getInstance(t) \/ Instance!releaseInstance(t)
                            \/ Instance!Lock(t) \/ Instance!Within(t)
    BY <1>2 DEF Instance!Next
  <2> QED BY <2>1, getInstanceInv, releaseInstanceInv, LockInv, RereadInv, TestInv, ConstructInv,
             PublishInv, LeaveInv, ReturnsInv, DeleteInv, SetNullInv
          DEF Instance!Within
<1> QED BY <1>1, <1>2 DEF LocksNext, lockVars

LEMMA AlwaysAskInv == LocksSpec => []AskInv
<1>1. LocksInit => AskInv
  BY InitAskInv DEF LocksInit
<1> QED BY <1>1, AskInductive, PTL DEF LocksSpec

\* For any threads, whichever of the three objects it is and however often it
\* is released: there is never more than one, and whoever changes it has the
\* lock alone (XXConfig.cpp:113-132, IAJA_TcOSD.cpp:7-16, PoolMgrEx.cpp:15-25).
THEOREM AlwaysOneInstance == LocksSpec => []OneInstance
<1>1. AskInv => OneInstance
  <2> SUFFICES ASSUME AskInv PROVE OneInstance
    OBVIOUS
  <2>1. \A t \in Threads : Holding(asks[t].at) => g_lock.owner = t
    BY DEF AskInv, LockIsHeld
  <2>2. objects = {made} \/ objects = {} \/ objects = {mSInstance} \ {0}
    BY DEF AskInv, ObjectOK, Nobody
  <2> QED BY <2>1, <2>2 DEF OneInstance, Instance!OneInstance, Holding
<1> QED BY <1>1, AlwaysAskInv, PTL

\* What a call of getInstance returns exists and is constructed, except beside a
\* release, or, for a call that found the pointer without the lock, beside the
\* constructor (XXConfig.cpp:115-121, 127-131).
THEOREM AlwaysGotObject == LocksSpec => []GotObject
<1>1. AskInv => GotObject
  <2> SUFFICES ASSUME AskInv, NEW t \in Threads, asks[t].at = "returned", ~asks[t].released,
                      ~(asks[t].got = made /\ kind # "PoolMgrEx"
                        /\ \E u \in Threads \ {t} : asks[u].at = "make")
               PROVE  asks[t].got \in objects \cap built
    BY DEF AskInv, KindOK, GotObject, Instance!GotObject, Instance!AskAt
  <2>1. /\ asks[t].got = mSInstance /\ mSInstance # 0 /\ Nobody("relNull")
        /\ kind = "PoolMgrEx" => Nobody("make")
    BY DEF AskInv, GotOK
  <2>2. asks[t].got = made
    BY <2>1 DEF AskInv, ObjectOK
  <2>3. Nobody("make")
    BY <2>1, <2>2 DEF Nobody
  <2>4. objects = {mSInstance} \ {0} /\ objects \subseteq built
    BY <2>1, <2>3 DEF AskInv, ObjectOK
  <2> QED BY <2>1, <2>4
<1> QED BY <1>1, AlwaysAskInv, PTL
=============================================================================
