------------------------- MODULE ObjectPoolProofs -------------------------
(***************************************************************************)
(* Proofs about ObjectPoolEx for any callers and any number of objects:    *)
(* types, that no object is duplicated or lost, and that no free object    *)
(* goes unannounced.                                                       *)
(***************************************************************************)
EXTENDS ObjectPool, FiniteSetTheorems, SequenceTheorems, TLAPS

IInv == TypeOK /\ ObjectsConserved /\ NoSleepBesideObject

-----------------------------------------------------------------------------

\* A list without repetition of numbers up to n is not longer than n.
LEMMA ShortList ==
  ASSUME NEW n \in Nat, NEW s \in Seq(1 .. n),
         \A i, j \in DOMAIN s : s[i] = s[j] => i = j
  PROVE  Len(s) <= n
<1>1. s \in Injection(1 .. Len(s), 1 .. n)
  BY DEF Injection, IsInjective
<1>2. Cardinality(1 .. Len(s)) <= Cardinality(1 .. n)
  BY <1>1, FS_Injection, FS_Interval
<1> QED BY <1>2, FS_Interval

Distinct(s) == \A i, j \in DOMAIN s : s[i] = s[j] => i = j

\* Numbers above m, in order, behind a list of numbers up to m.
LEMMA DistinctExtended ==
  ASSUME NEW m \in Nat, NEW k \in Nat, NEW s \in Seq(1 .. m), Distinct(s),
         NEW r \in Seq(1 .. m + k), Len(r) = Len(s) + k,
         \A i \in 1 .. Len(r) : r[i] = IF i <= Len(s) THEN s[i] ELSE m + (i - Len(s))
  PROVE  Distinct(r)
<1> SUFFICES ASSUME NEW i \in 1 .. Len(r), NEW j \in 1 .. Len(r), r[i] = r[j]
             PROVE  i = j
  BY DEF Distinct
<1>1. /\ Len(s) \in Nat /\ DOMAIN s = 1 .. Len(s) /\ i \in Nat /\ j \in Nat
      /\ \A n \in 1 .. Len(s) : s[n] \in 1 .. m
  OBVIOUS
<1>2. CASE i <= Len(s) /\ j <= Len(s)
  <2>1. s[i] = s[j] /\ i \in DOMAIN s /\ j \in DOMAIN s
    BY <1>1, <1>2
  <2> QED BY <2>1 DEF Distinct
<1>3. CASE i <= Len(s) /\ ~(j <= Len(s))
  <2>1. r[i] = s[i] /\ r[j] = m + (j - Len(s))
    BY <1>3
  <2>2. s[i] \in 1 .. m
    BY <1>1, <1>3
  <2>3. m + (j - Len(s)) > m
    BY <1>1, <1>3
  <2>4. s[i] = m + (j - Len(s))
    BY <2>1
  <2> QED BY <1>1, <2>2, <2>3, <2>4
<1>4. CASE ~(i <= Len(s)) /\ j <= Len(s)
  <2>1. r[j] = s[j] /\ r[i] = m + (i - Len(s)) /\ s[j] \in 1 .. m
    BY <1>1, <1>4
  <2> QED BY <1>1, <1>4, <2>1
<1>5. CASE ~(i <= Len(s)) /\ ~(j <= Len(s))
  <2>1. r[j] = m + (j - Len(s)) /\ r[i] = m + (i - Len(s))
    BY <1>5
  <2> QED BY <1>1, <2>1
<1> QED BY <1>2, <1>3, <1>4, <1>5

\* Raising the event leaves room for one more free object, unless there are
\* more than the semaphore can count.
LEMMA Raised ==
  ASSUME permits \in 0 .. MaxPermits, NEW n \in Nat, raiseEvent(n)
  PROVE  /\ permits' \in 0 .. MaxPermits
         /\ permits <= permits'
         /\ permits' = permits + n \/ permits' = MaxPermits
BY ObjectPoolAssumption DEF raiseEvent

\* The waiters that were granted a permit: a finite set, and what a step of
\* one caller makes of its size.
LEMMA GrantedFinite == IsFiniteSet(Granted) /\ Cardinality(Granted) \in Nat
<1>1. Granted \in SUBSET Threads
  BY DEF Granted
<1> QED BY <1>1, ObjectPoolAssumption, FS_Subset, FS_CardinalityType

LEMMA GrantedFiniteNext == Cardinality(Granted') \in Nat
<1>1. Granted' \in SUBSET Threads
  BY DEF Granted
<1> QED BY <1>1, ObjectPoolAssumption, FS_Subset, FS_CardinalityType

LEMMA GrantedSame ==
  ASSUME UNCHANGED waiting
  PROVE  Cardinality(Granted') = Cardinality(Granted)
<1>1. Granted' = Granted
  BY DEF Granted
<1> QED BY <1>1

LEMMA GrantedLoses ==
  ASSUME TypeOK, NEW t \in Threads, waiting' = [waiting EXCEPT ![t] = "no"]
  PROVE  Cardinality(Granted') =
           IF waiting[t] = "granted" THEN Cardinality(Granted) - 1 ELSE Cardinality(Granted)
<1>1. Granted' = Granted \ {t}
  BY DEF Granted, TypeOK
<1>2. t \in Granted <=> waiting[t] = "granted"
  BY DEF Granted
<1> QED BY <1>1, <1>2, GrantedFinite, FS_RemoveElement

LEMMA GrantedGains ==
  ASSUME TypeOK, NEW t \in Threads, waiting[t] = "blocked",
         waiting' = [waiting EXCEPT ![t] = "granted"]
  PROVE  Cardinality(Granted') = Cardinality(Granted) + 1
<1>1. Granted' = Granted \cup {t}
  BY DEF Granted, TypeOK
<1>2. t \notin Granted
  BY DEF Granted
<1> QED BY <1>1, <1>2, GrantedFinite, FS_AddElement

\* The free objects fit in the semaphore.
LEMMA FreeFits ==
  ASSUME TypeOK, ObjectsConserved
  PROVE  Len(free) \in Nat /\ Len(free) <= MaxPermits
<1>1. made \in Nat /\ made <= MaxPermits /\ free \in Seq(1 .. made)
  BY ObjectPoolAssumption DEF TypeOK, Objects
<1>2. Len(free) <= made
  BY <1>1, ShortList DEF ObjectsConserved
<1> QED BY <1>1, <1>2, ObjectPoolAssumption DEF TypeOK

LEMMA FreeFitsNext ==
  ASSUME TypeOK', ObjectsConserved'
  PROVE  Len(free') \in Nat /\ Len(free') <= MaxPermits
<1>1. made' \in Nat /\ made' <= MaxPermits /\ free' \in Seq(1 .. made')
  BY ObjectPoolAssumption DEF TypeOK, Objects
<1>2. Len(free') <= made'
  BY <1>1, ShortList DEF ObjectsConserved
<1> QED BY <1>1, <1>2, ObjectPoolAssumption DEF TypeOK

-----------------------------------------------------------------------------

LEMMA InitIInv == Init => IInv
<1> SUFFICES ASSUME Init PROVE IInv
  OBVIOUS
<1>1. TypeOK
  BY ObjectPoolAssumption DEF Init, TypeOK, Objects
<1>2. ObjectsConserved
  BY DEF Init, ObjectsConserved, Objects
<1>3. NoSleepBesideObject
  <2>1. Granted = {}
    BY DEF Init, Granted
  <2> QED BY <2>1, FS_EmptySet DEF Init, NoSleepBesideObject
<1> QED BY <1>1, <1>2, <1>3 DEF IInv

\* initialize: the new objects come after the old ones, each with a permit.
LEMMA initializeIInv ==
  ASSUME IInv, NEW size \in PoolSizes, initialize(size)
  PROVE  IInv'
<1>1. /\ size \in Nat /\ made \in Nat /\ made' = made + size /\ made' \in 0 .. MaxObjects
      /\ free \in Seq(1 .. made) /\ Len(free) \in Nat
  BY ObjectPoolAssumption DEF IInv, initialize, TypeOK, Objects
<1>2. /\ Len(free') = Len(free) + size /\ DOMAIN free' = 1 .. Len(free')
      /\ free' \in Seq(1 .. made')
      /\ \A i \in 1 .. Len(free') :
           free'[i] = IF i <= Len(free) THEN free[i] ELSE made + (i - Len(free))
  <2>1. [i \in 1 .. size |-> made + i] \in Seq(1 .. made') /\ free \in Seq(1 .. made')
    BY <1>1
  <2> QED BY <1>1, <2>1 DEF initialize
<1>3. TypeOK'
  <2>1. permits' \in 0 .. MaxPermits
    BY <1>1, Raised DEF IInv, TypeOK, initialize
  <2>2. held' \in [Threads -> SUBSET (1 .. made')]
    BY <1>1 DEF IInv, TypeOK, Objects, initialize
  <2> QED BY <1>1, <1>2, <2>1, <2>2 DEF IInv, TypeOK, Objects, initialize
<1>4. ObjectsConserved'
  <2>1. Distinct(free) /\ \A i \in 1 .. Len(free) : free[i] \in 1 .. made
    BY <1>1 DEF IInv, ObjectsConserved, Distinct
  <2>2. Distinct(free')
    BY <1>1, <1>2, <2>1, DistinctExtended
  <2>3. \A t \in Threads, i \in DOMAIN free' : free'[i] \notin held'[t]
    <3> SUFFICES ASSUME NEW t \in Threads, NEW i \in 1 .. Len(free')
                 PROVE  free'[i] \notin held[t]
      BY <1>2 DEF initialize
    <3>1. DOMAIN free = 1 .. Len(free) /\ held[t] \subseteq 1 .. made
      BY <1>1 DEF IInv, TypeOK, Objects
    <3>2. CASE i <= Len(free)
      <4>1. i \in DOMAIN free /\ free'[i] = free[i]
        BY <1>1, <1>2, <3>1, <3>2
      <4> QED BY <4>1 DEF IInv, ObjectsConserved
    <3>3. CASE ~(i <= Len(free))
      <4>1. free'[i] = made + (i - Len(free)) /\ i \in Nat
        BY <1>1, <1>2, <3>3
      <4> QED BY <1>1, <3>1, <3>3, <4>1
    <3> QED BY <3>2, <3>3
  <2>4. \A o \in 1 .. made' :
          (\E i \in DOMAIN free' : free'[i] = o) \/ (\E t \in Threads : o \in held'[t])
    <3> SUFFICES ASSUME NEW o \in 1 .. made', ~(\E t \in Threads : o \in held[t])
                 PROVE  \E i \in 1 .. Len(free') : free'[i] = o
      BY <1>2 DEF initialize
    <3>1. CASE o \in 1 .. made
      <4>1. PICK i \in DOMAIN free : free[i] = o
        BY <3>1 DEF IInv, ObjectsConserved, Objects
      <4>2. i \in 1 .. Len(free) /\ i \in 1 .. Len(free')
        BY <1>1, <1>2, <4>1
      <4>3. free'[i] = o
        BY <1>2, <4>1, <4>2
      <4> QED BY <4>2, <4>3
    <3>2. CASE o \in made + 1 .. made + size
      <4>1. /\ Len(free) + (o - made) \in 1 .. Len(free')
            /\ ~(Len(free) + (o - made) <= Len(free))
            /\ made + ((Len(free) + (o - made)) - Len(free)) = o
        BY <1>1, <1>2, <3>2
      <4>2. free'[Len(free) + (o - made)] = o
        BY <1>2, <4>1
      <4> QED BY <4>1, <4>2
    <3> QED BY <1>1, <3>1, <3>2
  <2> QED BY <2>2, <2>3, <2>4 DEF IInv, ObjectsConserved, Objects, Distinct, initialize
<1>5. NoSleepBesideObject'
  <2>1. Cardinality(Granted') = Cardinality(Granted) /\ Cardinality(Granted) \in Nat
    BY GrantedSame, GrantedFinite DEF initialize
  <2>2. permits' = permits + size \/ permits' = MaxPermits
    BY <1>1, Raised DEF IInv, TypeOK, initialize
  <2>3. Len(free') <= MaxPermits
    BY <1>3, <1>4, FreeFitsNext
  <2> QED BY <1>1, <1>2, <2>1, <2>2, <2>3, ObjectPoolAssumption
        DEF IInv, NoSleepBesideObject, TypeOK
<1> QED BY <1>3, <1>4, <1>5 DEF IInv

\* getNew: the head of the list passes from the list to the caller, with the
\* permit the caller may have been granted.
LEMMA getNewIInv ==
  ASSUME IInv, NEW t \in Threads, getNew(t)
  PROVE  IInv'
<1>1. /\ made' = made /\ permits' = permits /\ nulls' = nulls
      /\ waiting' = [waiting EXCEPT ![t] = "no"]
      /\ free \in Seq(1 .. made)
  BY DEF IInv, getNew, TypeOK, Objects
<1>2. Cardinality(Granted) \in Nat /\ Cardinality(Granted') \in Nat
      /\ Cardinality(Granted') >= Cardinality(Granted) - 1
  <2>1. Cardinality(Granted') =
          IF waiting[t] = "granted" THEN Cardinality(Granted) - 1 ELSE Cardinality(Granted)
    BY <1>1, GrantedLoses DEF IInv
  <2> QED BY <2>1, GrantedFinite, GrantedFiniteNext
<1>3. CASE free = <<>>
  <2>1. free' = <<>> /\ held' = held
    BY <1>3 DEF getNew
  <2>2. TypeOK' /\ ObjectsConserved'
    BY <1>1, <1>3, <2>1 DEF IInv, TypeOK, ObjectsConserved, Objects
  <2>3. NoSleepBesideObject'
    BY <1>1, <1>2, <2>1 DEF IInv, TypeOK, NoSleepBesideObject
  <2> QED BY <2>2, <2>3 DEF IInv
<1>4. CASE free # <<>>
  <2>1. /\ free' = Tail(free)
        /\ held' = [held EXCEPT ![t] = @ \cup {Head(free)}]
    BY <1>4 DEF getNew
  <2>2. /\ Len(free') = Len(free) - 1 /\ Len(free) \in Nat \ {0}
        /\ free' \in Seq(1 .. made)
        /\ DOMAIN free' = 1 .. Len(free) - 1 /\ DOMAIN free = 1 .. Len(free)
        /\ \A i \in DOMAIN free' : free'[i] = free[i + 1]
        /\ Head(free) = free[1] /\ Head(free) \in 1 .. made
    <3>1. Len(free) \in Nat \ {0} /\ DOMAIN free = 1 .. Len(free)
      BY <1>1, <1>4
    <3>2. /\ Len(free') = Len(free) - 1 /\ free' \in Seq(1 .. made)
          /\ \A i \in 1 .. Len(free') : free'[i] = free[i + 1]
      BY <1>1, <1>4, <2>1
    <3>3. DOMAIN free' = 1 .. Len(free')
      BY <3>2
    <3>4. Head(free) = free[1] /\ Head(free) \in 1 .. made
      <4>1. Head(free) = free[1]
        BY <1>1, <1>4
      <4>2. 1 \in DOMAIN free
        BY <3>1
      <4>3. free[1] \in 1 .. made
        BY <1>1, <3>1, <4>2, ElementOfSeq
      <4> QED BY <4>1, <4>3
    <3> QED BY <3>1, <3>2, <3>3, <3>4
  <2>3. TypeOK'
    BY <1>1, <2>1, <2>2 DEF IInv, TypeOK, Objects
  <2>4. ObjectsConserved'
    <3>1. Distinct(free')
      <4> SUFFICES ASSUME NEW i \in DOMAIN free', NEW j \in DOMAIN free', free'[i] = free'[j]
                   PROVE  i = j
        BY DEF Distinct
      <4>1. i + 1 \in DOMAIN free /\ j + 1 \in DOMAIN free /\ i \in Nat /\ j \in Nat
        BY <2>2
      <4>2. free[i + 1] = free[j + 1]
        BY <2>2
      <4> QED BY <4>1, <4>2 DEF IInv, ObjectsConserved
    <3>2. ASSUME NEW s \in Threads, NEW i \in DOMAIN free' PROVE free'[i] \notin held'[s]
      <4>1. i + 1 \in DOMAIN free /\ 1 \in DOMAIN free /\ i \in Nat /\ i + 1 # 1
        BY <2>2
      <4>2. free[i + 1] \notin held[s] /\ free[i + 1] # free[1]
        BY <4>1 DEF IInv, ObjectsConserved
      <4> QED BY <2>1, <2>2, <4>2 DEF IInv, TypeOK
    <3>3. ASSUME NEW r \in Threads, NEW s \in Threads, r # s PROVE held'[r] \cap held'[s] = {}
      <4>1. 1 \in DOMAIN free
        BY <2>2
      <4>2. free[1] \notin held[r] /\ free[1] \notin held[s] /\ held[r] \cap held[s] = {}
        BY <3>3, <4>1 DEF IInv, ObjectsConserved
      <4> QED BY <2>1, <2>2, <3>3, <4>2 DEF IInv, TypeOK
    <3>4. ASSUME NEW o \in 1 .. made, ~(\E s \in Threads : o \in held'[s])
          PROVE  \E i \in DOMAIN free' : free'[i] = o
      <4>1. o # free[1] /\ ~(\E s \in Threads : o \in held[s])
        BY <2>1, <2>2, <3>4 DEF IInv, TypeOK
      <4>2. PICK k \in DOMAIN free : free[k] = o
        BY <4>1 DEF IInv, ObjectsConserved, Objects
      <4>3. k - 1 \in DOMAIN free' /\ (k - 1) + 1 = k
        BY <2>2, <4>1, <4>2
      <4>4. free'[k - 1] = o
        BY <2>2, <4>2, <4>3
      <4> QED BY <4>3, <4>4
    <3> QED BY <1>1, <3>1, <3>2, <3>3, <3>4 DEF ObjectsConserved, Objects, Distinct
  <2>5. NoSleepBesideObject'
    BY <1>1, <1>2, <2>2, ObjectPoolAssumption DEF IInv, TypeOK, NoSleepBesideObject
  <2> QED BY <2>3, <2>4, <2>5 DEF IInv
<1> QED BY <1>3, <1>4

\* release: the object passes from the caller to the end of the list.
LEMMA releaseIInv ==
  ASSUME IInv, NEW t \in Threads, NEW elem \in held[t], release(t, elem)
  PROVE  IInv'
<1>1. /\ made' = made /\ nulls' = nulls /\ waiting' = waiting
      /\ free' = Append(free, elem)
      /\ held' = [held EXCEPT ![t] = @ \ {elem}]
      /\ free \in Seq(1 .. made) /\ elem \in 1 .. made
  BY DEF IInv, release, TypeOK, Objects
<1>2. /\ Len(free') = Len(free) + 1 /\ Len(free) \in Nat
      /\ free' \in Seq(1 .. made)
      /\ DOMAIN free' = 1 .. Len(free) + 1 /\ DOMAIN free = 1 .. Len(free)
      /\ \A i \in DOMAIN free : free'[i] = free[i]
      /\ free'[Len(free) + 1] = elem
  BY <1>1
<1>3. TypeOK'
  <2>1. permits' \in 0 .. MaxPermits
    BY Raised DEF IInv, TypeOK, release
  <2> QED BY <1>1, <1>2, <2>1 DEF IInv, TypeOK, Objects
<1>4. ObjectsConserved'
  <2>1. \A i \in DOMAIN free : free[i] # elem
    BY DEF IInv, ObjectsConserved
  <2>2. Distinct(free')
    <3> SUFFICES ASSUME NEW i \in DOMAIN free', NEW j \in DOMAIN free', free'[i] = free'[j]
                 PROVE  i = j
      BY DEF Distinct
    <3>1. (i \in DOMAIN free \/ i = Len(free) + 1) /\ (j \in DOMAIN free \/ j = Len(free) + 1)
      BY <1>2
    <3> QED BY <1>2, <2>1, <3>1 DEF IInv, ObjectsConserved
  <2>3. ASSUME NEW s \in Threads, NEW i \in DOMAIN free' PROVE free'[i] \notin held'[s]
    <3>1. i \in DOMAIN free \/ i = Len(free) + 1
      BY <1>2
    <3>2. elem \notin held'[s]
      BY <1>1 DEF IInv, TypeOK, ObjectsConserved
    <3>3. held'[s] \subseteq held[s]
      BY <1>1 DEF IInv, TypeOK
    <3> QED BY <1>2, <3>1, <3>2, <3>3 DEF IInv, ObjectsConserved
  <2>4. ASSUME NEW r \in Threads, NEW s \in Threads, r # s PROVE held'[r] \cap held'[s] = {}
    BY <1>1, <2>4 DEF IInv, TypeOK, ObjectsConserved
  <2>5. ASSUME NEW o \in 1 .. made, ~(\E s \in Threads : o \in held'[s])
        PROVE  \E i \in DOMAIN free' : free'[i] = o
    <3>1. CASE o = elem
      <4>1. Len(free) + 1 \in DOMAIN free'
        BY <1>2
      <4> QED BY <1>2, <3>1, <4>1
    <3>2. CASE o # elem
      <4>1. ~(\E s \in Threads : o \in held[s])
        BY <1>1, <2>5, <3>2 DEF IInv, TypeOK
      <4>2. PICK k \in DOMAIN free : free[k] = o
        BY <4>1 DEF IInv, ObjectsConserved, Objects
      <4>3. k \in DOMAIN free'
        BY <1>2
      <4> QED BY <1>2, <4>2, <4>3
    <3> QED BY <3>1, <3>2
  <2> QED BY <1>1, <2>2, <2>3, <2>4, <2>5 DEF ObjectsConserved, Objects, Distinct
<1>5. NoSleepBesideObject'
  <2>1. Cardinality(Granted') = Cardinality(Granted) /\ Cardinality(Granted) \in Nat
    BY <1>1, GrantedSame, GrantedFinite
  <2>2. permits' = permits + 1 \/ permits' = MaxPermits
    BY Raised DEF IInv, TypeOK, release
  <2>3. Len(free') <= MaxPermits
    BY <1>3, <1>4, FreeFitsNext
  <2> QED BY <1>2, <2>1, <2>2, <2>3, ObjectPoolAssumption DEF IInv, NoSleepBesideObject, TypeOK
<1> QED BY <1>3, <1>4, <1>5 DEF IInv

\* A step that leaves the objects where they are keeps their part.
LEMMA ObjectsUnchanged ==
  ASSUME ObjectsConserved, UNCHANGED <<free, made, held>>
  PROVE  ObjectsConserved'
BY DEF ObjectsConserved, Objects

LEMMA NullsIInv ==
  ASSUME IInv, NEW t \in Threads, GetNull(t) \/ DropNull(t)
  PROVE  IInv'
<1>1. CASE GetNull(t)
  <2>1. /\ UNCHANGED <<free, permits, made, held>> /\ free = <<>>
        /\ waiting' = [waiting EXCEPT ![t] = "no"]
    BY <1>1 DEF GetNull
  <2>2. TypeOK'
    BY <1>1, <2>1, ObjectPoolAssumption DEF IInv, TypeOK, GetNull, Objects
  <2>3. NoSleepBesideObject'
    <3>1. Cardinality(Granted') \in Nat
      BY GrantedFiniteNext
    <3> QED BY <2>1, <3>1 DEF IInv, TypeOK, NoSleepBesideObject
  <2> QED BY <2>1, <2>2, <2>3, ObjectsUnchanged DEF IInv
<1>2. CASE DropNull(t)
  <2>1. UNCHANGED <<free, made, held, waiting>> /\ raiseEvent(1)
    BY <1>2 DEF DropNull
  <2>2. permits' \in 0 .. MaxPermits /\ permits <= permits'
    BY <2>1, Raised DEF IInv, TypeOK
  <2>3. TypeOK'
    BY <1>2, <2>1, <2>2, ObjectPoolAssumption DEF IInv, TypeOK, DropNull, Objects
  <2>4. NoSleepBesideObject'
    <3>1. Cardinality(Granted') = Cardinality(Granted) /\ Cardinality(Granted) \in Nat
      BY <2>1, GrantedSame, GrantedFinite
    <3>2. Len(free) \in Nat
      BY DEF IInv, TypeOK
    <3> QED BY <2>1, <2>2, <3>1, <3>2, ObjectPoolAssumption DEF IInv, TypeOK, NoSleepBesideObject
  <2> QED BY <2>1, <2>3, <2>4, ObjectsUnchanged DEF IInv
<1> QED BY <1>1, <1>2

LEMMA WaitsIInv ==
  ASSUME IInv, NEW t \in Threads, waitDataEvent(t) \/ WaitReturnsTrue(t) \/ WaitTimesOut(t)
  PROVE  IInv'
<1>1. UNCHANGED <<free, made, held, nulls>>
  BY DEF waitDataEvent, WaitReturnsTrue, WaitTimesOut
<1>2. Len(free) \in Nat /\ Cardinality(Granted) \in Nat
  BY GrantedFinite DEF IInv, TypeOK
<1>3. CASE waitDataEvent(t) \/ WaitTimesOut(t)
  <2>1. permits' = permits /\ TypeOK'
    BY <1>1, <1>3 DEF IInv, TypeOK, waitDataEvent, WaitTimesOut, Objects
  <2>2. Granted' = Granted
    BY <1>3 DEF IInv, TypeOK, Granted, waitDataEvent, WaitTimesOut
  <2> QED BY <1>1, <2>1, <2>2, ObjectsUnchanged DEF IInv, NoSleepBesideObject
<1>4. CASE WaitReturnsTrue(t)
  <2>1. /\ permits' = permits - 1 /\ permits > 0 /\ waiting[t] = "blocked"
        /\ waiting' = [waiting EXCEPT ![t] = "granted"]
    BY <1>4 DEF WaitReturnsTrue
  <2>2. TypeOK'
    BY <1>1, <2>1, ObjectPoolAssumption DEF IInv, TypeOK, Objects
  <2>3. Cardinality(Granted') = Cardinality(Granted) + 1
    BY <2>1, GrantedGains DEF IInv
  <2>4. NoSleepBesideObject'
    BY <1>1, <1>2, <2>1, <2>3, ObjectPoolAssumption DEF IInv, TypeOK, NoSleepBesideObject
  <2> QED BY <1>1, <2>2, <2>4, ObjectsUnchanged DEF IInv
<1> QED BY <1>3, <1>4

-----------------------------------------------------------------------------

LEMMA Inductive == Spec => []IInv
<1>1. IInv /\ [Next]_poolVars => IInv'
  <2> SUFFICES ASSUME IInv, [Next]_poolVars PROVE IInv'
    OBVIOUS
  <2>1. CASE \E size \in PoolSizes : initialize(size)
    BY <2>1, initializeIInv
  <2>2. ASSUME NEW t \in Threads, getNew(t) PROVE IInv'
    BY <2>2, getNewIInv
  <2>3. ASSUME NEW t \in Threads, releaseHeld(t) PROVE IInv'
    BY <2>3, releaseIInv DEF releaseHeld
  <2>4. ASSUME NEW t \in Threads, GetNull(t) \/ DropNull(t) PROVE IInv'
    BY <2>4, NullsIInv
  <2>5. ASSUME NEW t \in Threads, waitDataEvent(t) \/ WaitReturnsTrue(t) \/ WaitTimesOut(t)
        PROVE  IInv'
    BY <2>5, WaitsIInv
  <2>6. CASE UNCHANGED poolVars
    <3>1. Granted' = Granted
      BY <2>6 DEF poolVars, Granted
    <3> QED BY <2>6, <3>1 DEF IInv, poolVars, TypeOK, Objects, ObjectsConserved, NoSleepBesideObject
  <2> QED BY <2>1, <2>2, <2>3, <2>4, <2>5, <2>6 DEF Next
<1> QED BY <1>1, InitIInv, PTL DEF Spec

\* Every variable keeps its type: the count of the semaphore stays within its
\* limit (ObjectPoolEx.h:15-70, SemaphoreClock.cpp:5-23).
THEOREM TypesHold == Spec => []TypeOK
BY Inductive, PTL DEF IInv

\* No interleaving of any callers gives one object to two of them or loses
\* one (ObjectPoolEx.h:44-70).
THEOREM ObjectsAlwaysConserved == Spec => []ObjectsConserved
BY Inductive, PTL DEF IInv

\* Free objects are announced, whatever the callers do and although permits
\* and objects are taken apart (ObjectPoolEx.h:44-70, SemaphoreClock.cpp:13-23).
THEOREM NobodySleepsBesideObject == Spec => []NoSleepBesideObject
BY Inductive, PTL DEF IInv
=============================================================================
