------------------------- MODULE LoopBufferProofs -------------------------
(***************************************************************************)
(* Proofs about CLoopBuffer for every buffer size, every set of threads    *)
(* and every block: types, the agreement of pointers and counters, and     *)
(* where a copy through a null buffer can come from.                       *)
(***************************************************************************)
EXTENDS LoopBuffer, FiniteSetTheorems, SequenceTheorems, TLAPS

\* The writer is less than one length ahead of the reader.  Without it the
\* sum rp + bufLen - wp - 1 may be negative and both distances be wrong.
WriterBehindLap == wp - rp < bufLen

\* A buffer never initialised is null and of length 1, an open one is not null.
BufferMatchesLife ==
  /\ life = "new" => bufLen = 1
  /\ life \in {"open", "reset"} => buf # Null

IInv == TypeOK /\ WriterBehindLap /\ PositionsAgree /\ BufferMatchesLife
        /\ NullCopyOnlyAfterUnInit

-----------------------------------------------------------------------------

\* The remainder of a sum that is at most one length too long.
LEMMA RemSmall ==
  ASSUME NEW n \in Nat \ {0}, NEW a \in 0 .. 2 * n - 1
  PROVE  CRem(a, n) = IF a < n THEN a ELSE a - n
<1>1. CASE a < n
  BY <1>1, a % n = a DEF CRem
<1>2. CASE a >= n
  BY <1>2, a % n = a - n DEF CRem
<1> QED BY <1>1, <1>2

\* The two distances and a moved pointer, as functions of plain numbers.
ReadDist(n, w, r)  == CRem(w + n - r, n)
WriteDist(n, w, r) == CRem(r + n - w - 1, n)
Moved(n, p, k)     == IF n - p >= k THEN p + k ELSE k - (n - p)

\* The distances of two pointers less than one lap apart.
LEMMA Distances ==
  ASSUME NEW n \in Nat \ {0}, NEW w \in 0 .. n, NEW r \in 0 .. n, w - r < n
  PROVE  /\ ReadDist(n, w, r) = IF w >= r THEN w - r ELSE w + n - r
         /\ ReadDist(n, w, r) \in 0 .. n - 1
         /\ WriteDist(n, w, r) = n - 1 - ReadDist(n, w, r)
<1>1. w + n - r \in 0 .. 2 * n - 1 /\ r + n - w - 1 \in 0 .. 2 * n - 1
  OBVIOUS
<1>2. ReadDist(n, w, r) = IF w >= r THEN w - r ELSE w + n - r
  BY <1>1, RemSmall DEF ReadDist
<1>3. WriteDist(n, w, r) = n - 1 - (IF w >= r THEN w - r ELSE w + n - r)
  BY <1>1, RemSmall DEF WriteDist
<1> QED BY <1>2, <1>3

\* Moving a pointer over k bytes that are there to move takes k from the
\* distance read from it and leaves the pointers less than a lap apart.
LEMMA MoveReader ==
  ASSUME NEW n \in Nat \ {0}, NEW w \in 0 .. n, NEW r \in 0 .. n, w - r < n,
         NEW k \in Nat, k <= ReadDist(n, w, r)
  PROVE  /\ Moved(n, r, k) \in 0 .. n /\ w - Moved(n, r, k) < n
         /\ ReadDist(n, w, Moved(n, r, k)) = ReadDist(n, w, r) - k
<1>1. k <= IF w >= r THEN w - r ELSE w + n - r
  BY Distances
<1>2. Moved(n, r, k) \in 0 .. n /\ w - Moved(n, r, k) < n
  BY <1>1 DEF Moved
<1>3. (IF w >= Moved(n, r, k) THEN w - Moved(n, r, k) ELSE w + n - Moved(n, r, k))
        = (IF w >= r THEN w - r ELSE w + n - r) - k
  BY <1>1 DEF Moved
<1> QED BY <1>2, <1>3, Distances

LEMMA MoveWriter ==
  ASSUME NEW n \in Nat \ {0}, NEW w \in 0 .. n, NEW r \in 0 .. n, w - r < n,
         NEW k \in Nat, k <= WriteDist(n, w, r)
  PROVE  /\ Moved(n, w, k) \in 0 .. n /\ Moved(n, w, k) - r < n
         /\ ReadDist(n, Moved(n, w, k), r) = ReadDist(n, w, r) + k
<1>1. k <= n - 1 - (IF w >= r THEN w - r ELSE w + n - r)
  <2>1. WriteDist(n, w, r) = n - 1 - ReadDist(n, w, r)
    BY Distances
  <2>2. ReadDist(n, w, r) = IF w >= r THEN w - r ELSE w + n - r
    BY Distances
  <2> QED BY <2>1, <2>2
<1>2. Moved(n, w, k) \in 0 .. n /\ Moved(n, w, k) - r < n
  BY <1>1 DEF Moved
<1>3. (IF Moved(n, w, k) >= r THEN Moved(n, w, k) - r ELSE Moved(n, w, k) + n - r)
        = (IF w >= r THEN w - r ELSE w + n - r) + k
  BY <1>1 DEF Moved
<1> QED BY <1>2, <1>3, Distances

\* A buffer with a byte in it is not the null buffer.
LEMMA NotNull ==
  ASSUME NEW n \in Nat \ {0}, NEW f, DOMAIN f = 0 .. n - 1
  PROVE  f # Null
<1>1. 0 \in DOMAIN f /\ 0 \notin DOMAIN Null
  BY DEF Null
<1> QED BY <1>1

-----------------------------------------------------------------------------

\* The parts of the type invariant, so that a step need only look at its own.
RingTyped ==
  /\ bufLen \in Nat \ {0}
  /\ wp \in 0 .. bufLen /\ rp \in 0 .. bufLen
  /\ wcnt \in Nat /\ rcnt \in Nat
BufTyped   == buf = Null \/ buf \in [0 .. bufLen - 1 -> Bytes]
LifeTyped  == life \in {"new", "open", "reset", "closed"} /\ fault \in BOOLEAN
SnapTyped  == snap \in [Threads -> [loaded : {"none", "w", "r"}, val : Nat]]
KnownTyped == known \in [Threads -> Int]
ReplyTyped == reply.n \in Int /\ reply.data \in Seq(Bytes)

LEMMA TypeParts ==
  TypeOK <=> RingTyped /\ BufTyped /\ LifeTyped /\ SnapTyped /\ KnownTyped /\ ReplyTyped
BY DEF TypeOK, RingTyped, BufTyped, LifeTyped, SnapTyped, KnownTyped, ReplyTyped

LEMMA TypePartsNext ==
  TypeOK' <=> RingTyped' /\ BufTyped' /\ LifeTyped' /\ SnapTyped' /\ KnownTyped' /\ ReplyTyped'
BY DEF TypeOK, RingTyped, BufTyped, LifeTyped, SnapTyped, KnownTyped, ReplyTyped

\* The distances are those of the pointers.
LEMMA DistancesOf ==
  /\ GetReadDistance = ReadDist(bufLen, wp, rp)
  /\ GetWriteDistance = WriteDist(bufLen, wp, rp)
  /\ GetReadDistance' = ReadDist(bufLen', wp', rp')
  /\ GetWriteDistance' = WriteDist(bufLen', wp', rp')
BY DEF GetReadDistance, GetWriteDistance, ReadDist, WriteDist

\* The shape of the ring in a state of the invariant.
LEMMA RingShape ==
  ASSUME RingTyped, WriterBehindLap
  PROVE  /\ GetReadDistance \in 0 .. bufLen - 1
         /\ GetWriteDistance = bufLen - 1 - GetReadDistance
<1>1. /\ bufLen \in Nat \ {0} /\ wp \in 0 .. bufLen /\ rp \in 0 .. bufLen
      /\ wp - rp < bufLen
  BY DEF RingTyped, WriterBehindLap
<1> QED BY <1>1, Distances, DistancesOf

LEMMA RingShapeNext ==
  ASSUME RingTyped', WriterBehindLap'
  PROVE  /\ GetReadDistance' \in 0 .. bufLen' - 1
         /\ GetWriteDistance' = bufLen' - 1 - GetReadDistance'
<1>1. /\ bufLen' \in Nat \ {0} /\ wp' \in 0 .. bufLen' /\ rp' \in 0 .. bufLen'
      /\ wp' - rp' < bufLen'
  BY DEF RingTyped, WriterBehindLap
<1> QED BY <1>1, Distances, DistancesOf

\* Two pointers at the start are at distance 0.
LEMMA StartDistance ==
  ASSUME NEW n \in Nat \ {0}
  PROVE  ReadDist(n, 0, 0) = 0 /\ WriteDist(n, 0, 0) = n - 1
BY Distances

LEMMA InitIInv == Init => IInv
<1> SUFFICES ASSUME Init PROVE IInv
  OBVIOUS
<1>1. RingTyped /\ WriterBehindLap
  BY DEF Init, Constructed, RingTyped, WriterBehindLap
<1>2. BufTyped /\ LifeTyped
  BY DEF Init, Constructed, BufTyped, LifeTyped
<1>3. SnapTyped
  BY DEF Init, Constructed, SnapTyped, Idle
<1>4. KnownTyped
  BY DEF Init, Constructed, KnownTyped
<1>5. ReplyTyped
  BY DEF Init, Constructed, ReplyTyped, Reply
<1>6. GetReadDistance = 0 /\ GetWriteDistance = 0
  BY StartDistance, DistancesOf DEF Init, Constructed
<1> QED BY <1>1, <1>2, <1>3, <1>4, <1>5, <1>6, TypeParts
      DEF Init, Constructed, IInv, PositionsAgree, BufferMatchesLife, NullCopyOnlyAfterUnInit

\* Pointers at the start agree whatever the length.
LEMMA RestartedAgree ==
  ASSUME bufLen' \in Nat \ {0}, RestBufferPos
  PROVE  RingTyped' /\ WriterBehindLap' /\ PositionsAgree'
<1>1. RingTyped' /\ WriterBehindLap'
  BY DEF RestBufferPos, RingTyped, WriterBehindLap
<1>2. GetReadDistance' = 0 /\ GetWriteDistance' = bufLen' - 1
  BY StartDistance, DistancesOf DEF RestBufferPos
<1> QED BY <1>1, <1>2 DEF RestBufferPos, PositionsAgree

\* A step that leaves the ring and the lifecycle alone keeps all but the types.
LEMMA StoreUnchanged ==
  ASSUME IInv, UNCHANGED <<store, life, fault>>, SnapTyped', KnownTyped', ReplyTyped'
  PROVE  IInv'
<1>1. RingTyped' /\ BufTyped' /\ LifeTyped'
  BY TypeParts DEF IInv, store, RingTyped, BufTyped, LifeTyped
<1>2. (WriterBehindLap /\ PositionsAgree /\ BufferMatchesLife /\ NullCopyOnlyAfterUnInit)'
  BY DEF IInv, store, WriterBehindLap, PositionsAgree, BufferMatchesLife,
         NullCopyOnlyAfterUnInit, GetReadDistance, GetWriteDistance
<1> QED BY <1>1, <1>2, TypePartsNext DEF IInv

LEMMA InitBufferIInv ==
  ASSUME IInv, NEW size \in BufSizes, InitBuffer(size)
  PROVE  IInv'
<1>1. size \in Nat \ {0} /\ bufLen' = size /\ RestBufferPos
  BY LoopBufferAssumption DEF InitBuffer
<1>2. buf' \in [0 .. bufLen' - 1 -> Bytes] /\ buf' # Null
  BY <1>1, NotNull, LoopBufferAssumption DEF InitBuffer
<1>3. LifeTyped' /\ SnapTyped' /\ KnownTyped' /\ ReplyTyped' /\ BufTyped'
  BY <1>2, TypeParts
     DEF InitBuffer, IInv, LifeTyped, SnapTyped, KnownTyped, ReplyTyped, BufTyped
<1>4. BufferMatchesLife' /\ NullCopyOnlyAfterUnInit'
  BY <1>2 DEF InitBuffer, BufferMatchesLife, NullCopyOnlyAfterUnInit
<1> QED BY <1>1, <1>3, <1>4, RestartedAgree, TypePartsNext DEF IInv

LEMMA UnInitBufferIInv ==
  ASSUME IInv, UnInitBuffer
  PROVE  IInv'
<1>1. bufLen' \in Nat \ {0} /\ RestBufferPos
  BY TypeParts DEF IInv, RingTyped, UnInitBuffer
<1>2. LifeTyped' /\ SnapTyped' /\ KnownTyped' /\ ReplyTyped' /\ BufTyped'
  BY TypeParts
     DEF UnInitBuffer, IInv, LifeTyped, SnapTyped, KnownTyped, ReplyTyped, BufTyped
<1> QED BY <1>1, <1>2, RestartedAgree, TypePartsNext
      DEF UnInitBuffer, IInv, BufferMatchesLife, NullCopyOnlyAfterUnInit

LEMMA ResetBufferIInv ==
  ASSUME IInv, ResetBuffer
  PROVE  IInv'
<1>1. bufLen' \in Nat \ {0} /\ RestBufferPos
  BY TypeParts DEF IInv, RingTyped, ResetBuffer
<1>2. LifeTyped' /\ SnapTyped' /\ KnownTyped' /\ ReplyTyped' /\ BufTyped'
  BY TypeParts
     DEF ResetBuffer, IInv, LifeTyped, SnapTyped, KnownTyped, ReplyTyped, BufTyped
<1> QED BY <1>1, <1>2, RestartedAgree, TypePartsNext
      DEF ResetBuffer, IInv, BufferMatchesLife, NullCopyOnlyAfterUnInit

\* Bytes put in or taken out of a ring stay bytes.
LEMMA StoredType ==
  ASSUME TypeOK, NEW s \in Seq(Bytes), buf # Null, Len(s) <= bufLen - 1
  PROVE  Stored(wp, s) \in [0 .. bufLen - 1 -> Bytes]
<1> SUFFICES ASSUME NEW i \in 0 .. bufLen - 1
             PROVE  Stored(wp, s)[i] \in Bytes
  BY DEF Stored
<1>1. CASE i >= wp /\ i < wp + Len(s)
  <2>1. i - wp + 1 \in 1 .. Len(s)
    BY <1>1 DEF TypeOK
  <2> QED BY <1>1, <2>1 DEF Stored
<1>2. CASE ~(i >= wp /\ i < wp + Len(s)) /\ i < Len(s) - (bufLen - wp)
  <2>1. i + (bufLen - wp) + 1 \in 1 .. Len(s)
    BY <1>2 DEF TypeOK
  <2> QED BY <1>2, <2>1 DEF Stored
<1>3. CASE ~(i >= wp /\ i < wp + Len(s)) /\ ~(i < Len(s) - (bufLen - wp))
  BY <1>3 DEF Stored, TypeOK
<1> QED BY <1>1, <1>2, <1>3

LEMMA FetchedType ==
  ASSUME TypeOK, NEW n \in Nat, buf # Null \/ n = 0, n <= bufLen - 1
  PROVE  Fetched(rp, n) \in Seq(Bytes)
<1>1. ASSUME NEW i \in 1 .. n PROVE Fetched(rp, n)[i] \in Bytes
  <2>1. buf \in [0 .. bufLen - 1 -> Bytes]
    BY DEF TypeOK
  <2>2. CASE i <= bufLen - rp
    BY <2>1, <2>2, rp + i - 1 \in 0 .. bufLen - 1 DEF Fetched, TypeOK
  <2>3. CASE i > bufLen - rp
    BY <2>1, <2>3, i - (bufLen - rp) - 1 \in 0 .. bufLen - 1 DEF Fetched, TypeOK
  <2> QED BY <2>2, <2>3 DEF TypeOK
<1>2. Fetched(rp, n) \in [1 .. n -> Bytes]
  BY <1>1 DEF Fetched
<1> QED BY <1>2

\* A refused transfer leaves the ring alone; one through a null buffer needs
\* a distance of at least 1, hence a length that is no longer 1.
LEMMA WriteBufferIInv ==
  ASSUME IInv, NEW t \in Producers, NEW s \in Blocks, WriteBuffer(t, s)
  PROVE  IInv'
<1>1. s \in Seq(Bytes) /\ Len(s) \in Nat /\ t \in Threads
  BY LoopBufferAssumption DEF Threads
<1>2. RingTyped /\ BufTyped /\ LifeTyped /\ SnapTyped /\ KnownTyped /\ ReplyTyped
  BY TypeParts DEF IInv
<1>3. GetReadDistance \in 0 .. bufLen - 1 /\ GetWriteDistance = bufLen - 1 - GetReadDistance
  BY <1>2, RingShape DEF IInv
<1>4. CASE GetWriteDistance < Len(s)
  <2>1. UNCHANGED <<store, life, fault, snap, known>> /\ reply' = Reply(-1, <<>>)
    BY <1>4 DEF WriteBuffer
  <2>2. SnapTyped' /\ KnownTyped'
    BY <1>2, <2>1 DEF SnapTyped, KnownTyped
  <2>3. ReplyTyped'
    BY <2>1 DEF ReplyTyped, Reply
  <2> QED BY <2>1, <2>2, <2>3, StoreUnchanged
<1>5. CASE ~(GetWriteDistance < Len(s)) /\ NullCopy(Len(s))
  <2>1. UNCHANGED <<store, life, snap, known, reply>> /\ fault' = TRUE
    BY <1>5 DEF WriteBuffer
  <2>2. life = "closed"
    BY <1>1, <1>2, <1>3, <1>5 DEF IInv, LifeTyped, RingTyped, BufferMatchesLife, NullCopy
  <2>3. RingTyped' /\ BufTyped' /\ LifeTyped' /\ SnapTyped' /\ KnownTyped' /\ ReplyTyped'
    BY <1>2, <2>1
       DEF store, RingTyped, BufTyped, LifeTyped, SnapTyped, KnownTyped, ReplyTyped
  <2> QED BY <2>1, <2>2, <2>3, TypePartsNext
        DEF IInv, store, WriterBehindLap, PositionsAgree, BufferMatchesLife,
            NullCopyOnlyAfterUnInit, GetReadDistance, GetWriteDistance
<1>6. CASE ~(GetWriteDistance < Len(s)) /\ ~NullCopy(Len(s))
  <2>1. /\ wp' = Advance(wp, Len(s)) /\ wcnt' = wcnt + Len(s)
        /\ UNCHANGED <<bufLen, rp, rcnt, life, fault, snap>>
        /\ buf' = IF Len(s) = 0 THEN buf ELSE Stored(wp, s)
        /\ known' = [known EXCEPT ![t] = IF Len(s) <= @ THEN @ - Len(s) ELSE 0]
        /\ reply' = Reply(Len(s), <<>>)
    BY <1>6 DEF WriteBuffer
  <2>2. Len(s) <= WriteDist(bufLen, wp, rp)
    <3>1. Len(s) <= GetWriteDistance
      BY <1>1, <1>2, <1>3, <1>6 DEF RingTyped
    <3> QED BY <3>1, DistancesOf
  <2>3. /\ wp' \in 0 .. bufLen /\ wp' - rp < bufLen
        /\ ReadDist(bufLen, wp', rp) = ReadDist(bufLen, wp, rp) + Len(s)
    <3>1. wp' = Moved(bufLen, wp, Len(s))
      BY <2>1 DEF Advance, Moved
    <3>2. bufLen \in Nat \ {0} /\ wp \in 0 .. bufLen /\ rp \in 0 .. bufLen /\ wp - rp < bufLen
      BY <1>2 DEF IInv, RingTyped, WriterBehindLap
    <3> QED BY <1>1, <2>2, <3>1, <3>2, MoveWriter
  <2>4. RingTyped' /\ WriterBehindLap'
    BY <1>1, <1>2, <2>1, <2>3 DEF RingTyped, WriterBehindLap
  <2>5. GetReadDistance' = GetReadDistance + Len(s)
    BY <2>1, <2>3, DistancesOf
  <2>6. PositionsAgree'
    BY <1>1, <1>2, <1>3, <2>1, <2>4, <2>5, RingShapeNext DEF IInv, PositionsAgree, RingTyped
  <2>7. buf' = buf \/ (buf # Null /\ buf' \in [0 .. bufLen - 1 -> Bytes])
    BY <1>1, <1>2, <1>3, <1>6, <2>1, StoredType DEF NullCopy, IInv, RingTyped
  <2>8. BufTyped'
    BY <1>2, <2>1, <2>7 DEF BufTyped
  <2>9. SnapTyped' /\ LifeTyped'
    BY <1>2, <2>1 DEF SnapTyped, LifeTyped
  <2>10. KnownTyped'
    BY <1>1, <1>2, <2>1 DEF KnownTyped
  <2>11. ReplyTyped'
    BY <1>1, <2>1 DEF ReplyTyped, Reply
  <2>12. BufferMatchesLife' /\ NullCopyOnlyAfterUnInit'
    BY <1>2, <2>1, <2>7, NotNull DEF IInv, RingTyped, BufferMatchesLife, NullCopyOnlyAfterUnInit
  <2> QED BY <2>4, <2>6, <2>8, <2>9, <2>10, <2>11, <2>12, TypePartsNext DEF IInv
<1> QED BY <1>4, <1>5, <1>6

LEMMA ReadBufferIInv ==
  ASSUME IInv, NEW t \in Consumers, NEW size \in ReadSizes, NEW bAll \in BOOLEAN,
         ReadBuffer(t, size, bAll)
  PROVE  IInv'
<1>1. RingTyped /\ BufTyped /\ LifeTyped /\ SnapTyped /\ KnownTyped /\ ReplyTyped
  BY TypeParts DEF IInv
<1>2. GetReadDistance \in 0 .. bufLen - 1 /\ GetWriteDistance = bufLen - 1 - GetReadDistance
  BY <1>1, RingShape DEF IInv
<1>3. PICK n : n = IF bAll THEN GetReadDistance ELSE size
  OBVIOUS
<1>4. n \in Nat /\ t \in Threads
  BY <1>1, <1>2, <1>3, LoopBufferAssumption DEF Threads, RingTyped
<1>5. CASE GetReadDistance < n
  <2>1. UNCHANGED <<store, life, fault, snap, known>> /\ reply' = Reply(0, <<>>)
    BY <1>3, <1>5 DEF ReadBuffer
  <2>2. SnapTyped' /\ KnownTyped'
    BY <1>1, <2>1 DEF SnapTyped, KnownTyped
  <2>3. ReplyTyped'
    BY <2>1 DEF ReplyTyped, Reply
  <2> QED BY <2>1, <2>2, <2>3, StoreUnchanged
<1>6. CASE ~(GetReadDistance < n) /\ NullCopy(n)
  <2>1. UNCHANGED <<store, life, snap, known, reply>> /\ fault' = TRUE
    BY <1>3, <1>6 DEF ReadBuffer
  <2>2. life = "closed"
    BY <1>1, <1>2, <1>4, <1>6 DEF IInv, LifeTyped, RingTyped, BufferMatchesLife, NullCopy
  <2>3. RingTyped' /\ BufTyped' /\ LifeTyped' /\ SnapTyped' /\ KnownTyped' /\ ReplyTyped'
    BY <1>1, <2>1
       DEF store, RingTyped, BufTyped, LifeTyped, SnapTyped, KnownTyped, ReplyTyped
  <2> QED BY <2>1, <2>2, <2>3, TypePartsNext
        DEF IInv, store, WriterBehindLap, PositionsAgree, BufferMatchesLife,
            NullCopyOnlyAfterUnInit, GetReadDistance, GetWriteDistance
<1>7. CASE ~(GetReadDistance < n) /\ ~NullCopy(n)
  <2>1. /\ rp' = Advance(rp, n) /\ rcnt' = rcnt + n
        /\ UNCHANGED <<buf, bufLen, wp, wcnt, life, fault, snap>>
        /\ known' = [known EXCEPT ![t] = IF n <= @ THEN @ - n ELSE 0]
        /\ reply' = Reply(n, Fetched(rp, n))
    BY <1>3, <1>7 DEF ReadBuffer
  <2>2. n <= ReadDist(bufLen, wp, rp)
    <3>1. n <= GetReadDistance
      BY <1>1, <1>2, <1>4, <1>7 DEF RingTyped
    <3> QED BY <3>1, DistancesOf
  <2>3. /\ rp' \in 0 .. bufLen /\ wp - rp' < bufLen
        /\ ReadDist(bufLen, wp, rp') = ReadDist(bufLen, wp, rp) - n
    <3>1. rp' = Moved(bufLen, rp, n)
      BY <2>1 DEF Advance, Moved
    <3>2. bufLen \in Nat \ {0} /\ wp \in 0 .. bufLen /\ rp \in 0 .. bufLen /\ wp - rp < bufLen
      BY <1>1 DEF IInv, RingTyped, WriterBehindLap
    <3> QED BY <1>4, <2>2, <3>1, <3>2, MoveReader
  <2>4. RingTyped' /\ WriterBehindLap'
    BY <1>1, <1>4, <2>1, <2>3 DEF RingTyped, WriterBehindLap
  <2>5. GetReadDistance' = GetReadDistance - n
    BY <2>1, <2>3, DistancesOf
  <2>6. PositionsAgree'
    BY <1>1, <1>2, <1>4, <2>1, <2>4, <2>5, RingShapeNext DEF IInv, PositionsAgree, RingTyped
  <2>7. Fetched(rp, n) \in Seq(Bytes)
    <3>1. (buf # Null \/ n = 0) /\ n <= bufLen - 1
      BY <1>1, <1>2, <1>4, <1>7 DEF NullCopy, RingTyped
    <3> QED BY <1>4, <3>1, FetchedType DEF IInv
  <2>8. BufTyped' /\ SnapTyped' /\ LifeTyped'
    BY <1>1, <2>1 DEF BufTyped, SnapTyped, LifeTyped
  <2>9. KnownTyped'
    BY <1>1, <1>4, <2>1 DEF KnownTyped
  <2>10. ReplyTyped'
    BY <1>4, <2>1, <2>7 DEF ReplyTyped, Reply
  <2>11. BufferMatchesLife' /\ NullCopyOnlyAfterUnInit'
    BY <2>1 DEF IInv, BufferMatchesLife, NullCopyOnlyAfterUnInit
  <2> QED BY <2>4, <2>6, <2>8, <2>9, <2>10, <2>11, TypePartsNext DEF IInv
<1> QED BY <1>5, <1>6, <1>7

LEMMA QueriesIInv ==
  ASSUME IInv,
         \/ \E t \in Consumers, size \in ReadSizes : CanGetAudioData(t, size)
         \/ \E t \in Threads : SizeLoad(t) \/ SizeReturn(t)
  PROVE  IInv'
<1>1. RingTyped /\ SnapTyped /\ KnownTyped /\ ReplyTyped
  BY TypeParts DEF IInv
<1>2. UNCHANGED <<store, life, fault, reply>>
  BY DEF CanGetAudioData, SizeLoad, SizeReturn
<1>3. ASSUME NEW t \in Consumers, NEW size \in ReadSizes, CanGetAudioData(t, size)
      PROVE  SnapTyped' /\ KnownTyped'
  BY <1>1, <1>3, LoopBufferAssumption DEF CanGetAudioData, SnapTyped, KnownTyped, Threads
<1>4. ASSUME NEW t \in Threads, SizeLoad(t)
      PROVE  SnapTyped' /\ KnownTyped'
  <2>1. PICK first \in {"w", "r"} :
          snap' = [snap EXCEPT ![t] = [loaded |-> first,
                                       val |-> IF first = "w" THEN wcnt ELSE rcnt]]
    BY <1>4 DEF SizeLoad
  <2> QED BY <1>1, <1>4, <2>1 DEF SizeLoad, RingTyped, SnapTyped, KnownTyped
<1>5. ASSUME NEW t \in Threads, SizeReturn(t)
      PROVE  SnapTyped' /\ KnownTyped'
  BY <1>1, <1>5 DEF SizeReturn, RingTyped, SnapTyped, KnownTyped, Idle
<1>6. SnapTyped' /\ KnownTyped' /\ ReplyTyped'
  BY <1>1, <1>2, <1>3, <1>4, <1>5 DEF ReplyTyped
<1> QED BY <1>2, <1>6, StoreUnchanged

-----------------------------------------------------------------------------

LEMMA Inductive == Spec => []IInv
<1>1. IInv /\ [Next]_vars => IInv'
  <2> SUFFICES ASSUME IInv, [Next]_vars PROVE IInv'
    OBVIOUS
  <2>1. CASE \E size \in BufSizes : InitBuffer(size)
    BY <2>1, InitBufferIInv
  <2>2. CASE UnInitBuffer
    BY <2>2, UnInitBufferIInv
  <2>3. CASE \E t \in Resetters : ResetBuffer
    BY <2>3, ResetBufferIInv
  <2>4. CASE \E t \in Producers, s \in Blocks : WriteBuffer(t, s)
    BY <2>4, WriteBufferIInv
  <2>5. CASE \E t \in Consumers, size \in ReadSizes, bAll \in BOOLEAN : ReadBuffer(t, size, bAll)
    BY <2>5, ReadBufferIInv
  <2>6. CASE \/ \E t \in Consumers, size \in ReadSizes : CanGetAudioData(t, size)
             \/ \E t \in Threads : SizeLoad(t) \/ SizeReturn(t)
    BY <2>6, QueriesIInv
  <2>7. CASE UNCHANGED vars
    <3>1. SnapTyped' /\ KnownTyped' /\ ReplyTyped'
      BY <2>7, TypeParts DEF IInv, vars, SnapTyped, KnownTyped, ReplyTyped
    <3> QED BY <2>7, <3>1, StoreUnchanged DEF vars
  <2> QED BY <2>1, <2>2, <2>3, <2>4, <2>5, <2>6, <2>7 DEF Next
<1> QED BY <1>1, InitIInv, PTL DEF Spec

-----------------------------------------------------------------------------
\* The answers of the queries.  What a thread knows and what it has loaded for
\* GetSizeOfDataList are compared with the two counters, which IInv ties to the
\* distances.

OneEach == Cardinality(Producers) <= 1 /\ Cardinality(Consumers) <= 1

\* A buffer that is not open counts nothing: a reset of it changes nothing.
ClosedIsEmpty == life \in {"new", "closed"} => buf = Null /\ wcnt = 0 /\ rcnt = 0

LoadedOrIdle == \A t \in Threads : snap[t].loaded = "none" => snap[t] = Idle

KnownBounded ==
  /\ \A t \in Consumers : known[t] <= wcnt - rcnt
  /\ \A t \in Producers : known[t] <= bufLen - 1 - (wcnt - rcnt)

\* A loaded counter is old, and old on the safe side: the consumer has seen at
\* most what is written and at least what it has read, the producer the reverse.
LoadsBounded ==
  /\ \A t \in Consumers : /\ snap[t].loaded = "w" => snap[t].val <= wcnt
                          /\ snap[t].loaded = "r" => snap[t].val >= rcnt
  /\ \A t \in Producers : /\ snap[t].loaded = "w" => snap[t].val >= wcnt
                          /\ snap[t].loaded = "r" => snap[t].val <= rcnt

AInv == /\ ClosedIsEmpty /\ LoadedOrIdle
        /\ OneEach /\ life # "reset" => KnownBounded /\ LoadsBounded

LEMMA AtMostOne ==
  ASSUME NEW S, IsFiniteSet(S), Cardinality(S) <= 1, NEW x \in S, NEW y \in S
  PROVE  x = y
<1> SUFFICES ASSUME x # y PROVE FALSE
  OBVIOUS
<1>1. {x} \in SUBSET S /\ {x} # S
  OBVIOUS
<1>2. Cardinality({x}) <= Cardinality(S) /\ Cardinality({x}) # Cardinality(S)
  BY <1>1, FS_Subset
<1>3. Cardinality({x}) = 1 /\ Cardinality(S) \in Nat
  BY FS_Singleton, FS_CardinalityType
<1> QED BY <1>2, <1>3

LEMMA OnlyOne ==
  ASSUME OneEach
  PROVE  /\ \A x, y \in Producers : x = y
         /\ \A x, y \in Consumers : x = y
         /\ \A x \in Producers : x \notin Consumers
BY AtMostOne, LoopBufferAssumption DEF OneEach

LEMMA InitAInv == Init => AInv
<1> SUFFICES ASSUME Init PROVE AInv
  OBVIOUS
<1>1. ClosedIsEmpty /\ LoadedOrIdle
  BY DEF Init, Constructed, ClosedIsEmpty, LoadedOrIdle
<1>2. KnownBounded
  BY DEF Init, Constructed, KnownBounded, Threads
<1>3. LoadsBounded
  BY DEF Init, Constructed, LoadsBounded, Threads, Idle
<1> QED BY <1>1, <1>2, <1>3 DEF AInv

\* InitBuffer and UnInitBuffer start everything over.
LEMMA RestartedAnswers ==
  ASSUME Quiet, RestBufferPos, bufLen' \in Nat \ {0}, life' = "open" \/ buf' = Null,
         known' = [t \in Threads |-> 0], UNCHANGED snap
  PROVE  AInv'
<1>1. wcnt' = 0 /\ rcnt' = 0 /\ \A t \in Threads : snap'[t] = Idle /\ known'[t] = 0
  BY DEF RestBufferPos, Quiet
<1>2. ClosedIsEmpty' /\ LoadedOrIdle'
  BY <1>1 DEF ClosedIsEmpty, LoadedOrIdle
<1>3. KnownBounded'
  <2>1. wcnt' - rcnt' = 0
    BY <1>1
  <2>2. bufLen' - 1 - 0 >= 0
    <3>1. \A n \in Nat \ {0} : n - 1 - 0 >= 0
      OBVIOUS
    <3> QED BY <3>1
  <2>3. \A t \in Threads : known'[t] = 0
    BY <1>1
  <2>4. \A t \in Threads : known'[t] <= wcnt' - rcnt' /\ known'[t] <= bufLen' - 1 - (wcnt' - rcnt')
    BY <2>1, <2>2, <2>3
  <2> QED BY <2>4 DEF KnownBounded, Threads
<1>4. LoadsBounded'
  BY <1>1 DEF LoadsBounded, Threads, Idle
<1> QED BY <1>2, <1>3, <1>4 DEF AInv

\* A reset of a buffer that is open spoils the answers, any other changes nothing.
LEMMA ResetAnswers ==
  ASSUME IInv, AInv, ResetBuffer
  PROVE  AInv'
<1>1. life \in {"new", "open", "reset", "closed"}
  BY DEF IInv, TypeOK
<1>2. wcnt' = 0 /\ rcnt' = 0 /\ UNCHANGED <<bufLen, snap, known>>
  BY DEF ResetBuffer, RestBufferPos
<1>3. ClosedIsEmpty' /\ LoadedOrIdle'
  BY <1>1, <1>2 DEF AInv, ClosedIsEmpty, LoadedOrIdle, ResetBuffer
<1>4. CASE life \in {"open", "reset"}
  <2>1. life' = "reset"
    BY <1>4 DEF ResetBuffer
  <2> QED BY <1>3, <2>1 DEF AInv
<1>5. CASE life \in {"new", "closed"}
  <2>1. wcnt = 0 /\ rcnt = 0 /\ life' = life
    BY <1>5 DEF AInv, ClosedIsEmpty, ResetBuffer
  <2>2. OneEach /\ life' # "reset" => KnownBounded /\ LoadsBounded
    BY <2>1 DEF AInv
  <2>3. KnownBounded => KnownBounded'
    BY <1>2, <2>1 DEF KnownBounded
  <2>4. LoadsBounded => LoadsBounded'
    BY <1>2, <2>1 DEF LoadsBounded
  <2> QED BY <1>3, <2>2, <2>3, <2>4 DEF AInv
<1> QED BY <1>1, <1>4, <1>5

\* A step that leaves the counters alone and the queries too.
LEMMA AnswersUnchanged ==
  ASSUME AInv, UNCHANGED <<store, life, snap, known>>
  PROVE  AInv'
<1>1. ClosedIsEmpty' /\ LoadedOrIdle'
  BY DEF AInv, store, ClosedIsEmpty, LoadedOrIdle
<1>2. (KnownBounded => KnownBounded') /\ (LoadsBounded => LoadsBounded')
  BY DEF store, KnownBounded, LoadsBounded
<1> QED BY <1>1, <1>2 DEF AInv

\* The only producer takes n bytes from what it knows to be free and leaves the
\* consumer more than it knows of.
LEMMA WriteAnswers ==
  ASSUME IInv, AInv, NEW t \in Producers, NEW s \in Blocks, WriteBuffer(t, s)
  PROVE  AInv'
<1>1. CASE GetWriteDistance < Len(s) \/ NullCopy(Len(s))
  BY <1>1, AnswersUnchanged DEF WriteBuffer
<1>2. CASE ~(GetWriteDistance < Len(s)) /\ ~NullCopy(Len(s))
  <2>1. /\ wcnt' = wcnt + Len(s)
        /\ UNCHANGED <<bufLen, rp, rcnt, life, fault, snap>>
        /\ known' = [known EXCEPT ![t] = IF Len(s) <= @ THEN @ - Len(s) ELSE 0]
        /\ buf' = IF Len(s) = 0 THEN buf ELSE Stored(wp, s)
        /\ snap[t] = Idle
    BY <1>2 DEF WriteBuffer
  <2>2. PICK n \in Nat : n = Len(s)
    BY LoopBufferAssumption
  <2>3. wcnt \in Nat /\ rcnt \in Nat /\ bufLen \in Nat /\ known \in [Threads -> Int]
        /\ life \in {"new", "open", "reset", "closed"}
        /\ snap \in [Threads -> [loaded : {"none", "w", "r"}, val : Nat]]
    BY DEF IInv, TypeOK
  <2>4. n <= bufLen - 1 - (wcnt - rcnt)
    <3>1. GetWriteDistance = bufLen - 1 - (wcnt - rcnt)
      BY <2>3, RingShape, TypeParts DEF IInv, PositionsAgree
    <3> QED BY <1>2, <2>2, <2>3, <3>1
  <2>5. ClosedIsEmpty'
    BY <1>2, <2>1, <2>2, <2>3 DEF AInv, ClosedIsEmpty, NullCopy
  <2>6. LoadedOrIdle'
    BY <2>1 DEF AInv, LoadedOrIdle
  <2>7. ASSUME OneEach, life # "reset" PROVE KnownBounded' /\ LoadsBounded'
    <3>1. KnownBounded /\ LoadsBounded
      BY <2>7 DEF AInv
    <3>2. t \in Threads /\ t \notin Consumers /\ \A x \in Producers : x = t
      BY <2>7, OnlyOne DEF Threads
    <3>3. \A x \in Consumers : known'[x] = known[x] /\ known[x] \in Int
      BY <2>1, <2>3, <3>2 DEF Threads
    <3>4. known'[t] = IF n <= known[t] THEN known[t] - n ELSE 0
      BY <2>1, <2>2, <2>3, <3>2
    <3>5. \A x \in Consumers : known'[x] <= wcnt' - rcnt'
      BY <2>1, <2>2, <2>3, <3>1, <3>3 DEF KnownBounded
    <3>6. known'[t] <= bufLen' - 1 - (wcnt' - rcnt')
      <4>1. known[t] \in Int /\ known[t] <= bufLen - 1 - (wcnt - rcnt)
        BY <2>3, <3>1, <3>2 DEF KnownBounded
      <4>2. wcnt' - rcnt' = wcnt - rcnt + n /\ bufLen' = bufLen
        BY <2>1, <2>2, <2>3
      <4> QED BY <2>2, <2>3, <2>4, <3>4, <4>1, <4>2
    <3>7. KnownBounded'
      BY <3>2, <3>5, <3>6 DEF KnownBounded
    <3>8. ASSUME NEW x \in Consumers
          PROVE  /\ snap'[x].loaded = "w" => snap'[x].val <= wcnt'
                 /\ snap'[x].loaded = "r" => snap'[x].val >= rcnt'
      <4>1. snap[x].val \in Nat
        BY <2>3 DEF Threads
      <4> QED BY <2>1, <2>2, <2>3, <3>1, <4>1 DEF LoadsBounded
    <3>9. LoadsBounded'
      BY <2>1, <3>2, <3>8 DEF LoadsBounded, Idle
    <3> QED BY <3>7, <3>9
  <2> QED BY <2>1, <2>5, <2>6, <2>7 DEF AInv, OneEach
<1> QED BY <1>1, <1>2

\* The only consumer, likewise.
LEMMA ReadAnswers ==
  ASSUME IInv, AInv, NEW t \in Consumers, NEW size \in ReadSizes, NEW bAll \in BOOLEAN,
         ReadBuffer(t, size, bAll)
  PROVE  AInv'
<1>1. PICK n : n = IF bAll THEN GetReadDistance ELSE size
  OBVIOUS
<1>2. GetReadDistance = wcnt - rcnt /\ GetReadDistance \in Nat
  BY RingShape, TypeParts DEF IInv, PositionsAgree, RingTyped
<1>3. n \in Nat
  BY <1>1, <1>2, LoopBufferAssumption
<1>4. CASE GetReadDistance < n \/ NullCopy(n)
  BY <1>1, <1>4, AnswersUnchanged DEF ReadBuffer
<1>5. CASE ~(GetReadDistance < n) /\ ~NullCopy(n)
  <2>1. /\ rcnt' = rcnt + n
        /\ UNCHANGED <<buf, bufLen, wp, wcnt, life, fault, snap>>
        /\ known' = [known EXCEPT ![t] = IF n <= @ THEN @ - n ELSE 0]
        /\ snap[t] = Idle
    BY <1>1, <1>5 DEF ReadBuffer
  <2>2. wcnt \in Nat /\ rcnt \in Nat /\ bufLen \in Nat /\ known \in [Threads -> Int]
        /\ snap \in [Threads -> [loaded : {"none", "w", "r"}, val : Nat]]
    BY DEF IInv, TypeOK
  <2>3. n <= wcnt - rcnt
    BY <1>2, <1>3, <1>5
  <2>4. ClosedIsEmpty'
    BY <1>3, <1>5, <2>1, <2>2 DEF AInv, ClosedIsEmpty, NullCopy
  <2>5. LoadedOrIdle'
    BY <2>1 DEF AInv, LoadedOrIdle
  <2>6. ASSUME OneEach, life # "reset" PROVE KnownBounded' /\ LoadsBounded'
    <3>1. KnownBounded /\ LoadsBounded
      BY <2>6 DEF AInv
    <3>2. t \in Threads /\ t \notin Producers /\ \A x \in Consumers : x = t
      BY <2>6, OnlyOne DEF Threads
    <3>3. \A x \in Producers : known'[x] = known[x] /\ known[x] \in Int
      BY <2>1, <2>2, <3>2 DEF Threads
    <3>4. known'[t] = IF n <= known[t] THEN known[t] - n ELSE 0
      BY <2>1, <2>2, <3>2
    <3>5. wcnt' - rcnt' = wcnt - rcnt - n /\ bufLen' = bufLen
      BY <1>3, <2>1, <2>2
    <3>6. \A x \in Producers : known'[x] <= bufLen' - 1 - (wcnt' - rcnt')
      BY <1>3, <2>2, <3>1, <3>3, <3>5 DEF KnownBounded
    <3>7. known'[t] <= wcnt' - rcnt'
      <4>1. known[t] \in Int /\ known[t] <= wcnt - rcnt
        BY <2>2, <3>1, <3>2 DEF KnownBounded
      <4> QED BY <1>3, <2>2, <2>3, <3>4, <3>5, <4>1
    <3>8. KnownBounded'
      BY <3>2, <3>6, <3>7 DEF KnownBounded
    <3>9. ASSUME NEW x \in Producers
          PROVE  /\ snap'[x].loaded = "w" => snap'[x].val >= wcnt'
                 /\ snap'[x].loaded = "r" => snap'[x].val <= rcnt'
      <4>1. snap[x].val \in Nat
        BY <2>2 DEF Threads
      <4> QED BY <1>3, <2>1, <2>2, <3>1, <4>1 DEF LoadsBounded
    <3>10. LoadsBounded'
      BY <2>1, <3>2, <3>9 DEF LoadsBounded, Idle
    <3> QED BY <3>8, <3>10
  <2> QED BY <2>1, <2>4, <2>5, <2>6 DEF AInv, OneEach
<1> QED BY <1>4, <1>5

\* What a query finds holds when it finds it.
LEMMA CanGetAnswers ==
  ASSUME IInv, AInv, NEW t \in Consumers, NEW size \in ReadSizes, CanGetAudioData(t, size)
  PROVE  AInv'
<1>1. GetReadDistance = wcnt - rcnt /\ GetReadDistance \in Nat
  BY RingShape, TypeParts DEF IInv, PositionsAgree, RingTyped
<1>2. size \in Nat /\ size <= wcnt - rcnt
  BY <1>1, LoopBufferAssumption DEF CanGetAudioData
<1>3. known' = [known EXCEPT ![t] = size] /\ UNCHANGED <<buf, bufLen, wcnt, rcnt, life, snap>>
  BY DEF CanGetAudioData, store
<1>4. ClosedIsEmpty' /\ LoadedOrIdle' /\ (LoadsBounded => LoadsBounded')
  BY <1>3 DEF AInv, ClosedIsEmpty, LoadedOrIdle, LoadsBounded
<1>5. ASSUME KnownBounded PROVE KnownBounded'
  <2>1. known \in [Threads -> Int] /\ t \in Threads /\ t \notin Producers
    BY LoopBufferAssumption DEF IInv, TypeOK, Threads
  <2>2. known'[t] = size /\ \A x \in Threads \ {t} : known'[x] = known[x]
    BY <1>3, <2>1
  <2> QED BY <1>2, <1>3, <1>5, <2>1, <2>2 DEF KnownBounded, Threads
<1> QED BY <1>3, <1>4, <1>5 DEF AInv

LEMMA SizeLoadAnswers ==
  ASSUME IInv, AInv, NEW t \in Threads, SizeLoad(t)
  PROVE  AInv'
<1>1. PICK first \in {"w", "r"} :
        snap' = [snap EXCEPT ![t] = [loaded |-> first,
                                     val |-> IF first = "w" THEN wcnt ELSE rcnt]]
  BY DEF SizeLoad
<1>2. UNCHANGED <<buf, bufLen, wcnt, rcnt, life, known>>
  BY DEF SizeLoad, store
<1>3. /\ snap \in [Threads -> [loaded : {"none", "w", "r"}, val : Nat]]
      /\ wcnt \in Nat /\ rcnt \in Nat
  BY DEF IInv, TypeOK
<1>4. /\ snap'[t].loaded = first /\ snap'[t].val = IF first = "w" THEN wcnt ELSE rcnt
      /\ \A x \in Threads \ {t} : snap'[x] = snap[x]
  BY <1>1, <1>3
<1>5. ClosedIsEmpty' /\ (KnownBounded => KnownBounded')
  BY <1>2 DEF AInv, ClosedIsEmpty, KnownBounded
<1>6. LoadedOrIdle'
  BY <1>4 DEF AInv, LoadedOrIdle
<1>7. ASSUME LoadsBounded PROVE LoadsBounded'
  <2>1. ASSUME NEW x \in Consumers
        PROVE  /\ snap'[x].loaded = "w" => snap'[x].val <= wcnt
               /\ snap'[x].loaded = "r" => snap'[x].val >= rcnt
    BY <1>3, <1>4, <1>7 DEF LoadsBounded, Threads
  <2>2. ASSUME NEW x \in Producers
        PROVE  /\ snap'[x].loaded = "w" => snap'[x].val >= wcnt
               /\ snap'[x].loaded = "r" => snap'[x].val <= rcnt
    BY <1>3, <1>4, <1>7 DEF LoadsBounded, Threads
  <2> QED BY <1>2, <2>1, <2>2 DEF LoadsBounded
<1> QED BY <1>2, <1>5, <1>6, <1>7 DEF AInv

\* The second load makes the answer: too few bytes for a consumer, too many for
\* a producer, never the other way.
LEMMA SizeReturnAnswers ==
  ASSUME IInv, AInv, NEW t \in Threads, SizeReturn(t)
  PROVE  AInv'
<1>1. /\ snap \in [Threads -> [loaded : {"none", "w", "r"}, val : Nat]]
      /\ known \in [Threads -> Int] /\ wcnt \in Nat /\ rcnt \in Nat /\ bufLen \in Nat
  BY DEF IInv, TypeOK
<1>2. PICK size \in Int :
        /\ size = IF snap[t].loaded = "w" THEN snap[t].val - rcnt ELSE wcnt - snap[t].val
        /\ known' = [known EXCEPT ![t] = IF t \in Consumers THEN size ELSE bufLen - 1 - size]
  <2>1. (IF snap[t].loaded = "w" THEN snap[t].val - rcnt ELSE wcnt - snap[t].val) \in Int
    <3>1. snap[t].val \in Nat
      BY <1>1
    <3> QED BY <1>1, <3>1
  <2> QED BY <2>1 DEF SizeReturn
<1>3. /\ UNCHANGED <<buf, bufLen, wcnt, rcnt, life>>
      /\ snap' = [snap EXCEPT ![t] = Idle] /\ snap[t] # Idle
  BY DEF SizeReturn, store
<1>4. snap[t].loaded \in {"w", "r"} /\ snap[t].val \in Nat
  BY <1>1, <1>3 DEF AInv, LoadedOrIdle
<1>5. snap'[t] = Idle /\ \A x \in Threads \ {t} : snap'[x] = snap[x]
  BY <1>1, <1>3
<1>6. ClosedIsEmpty' /\ LoadedOrIdle'
  BY <1>3, <1>5 DEF AInv, ClosedIsEmpty, LoadedOrIdle
<1>7. ASSUME KnownBounded, LoadsBounded PROVE KnownBounded' /\ LoadsBounded'
  <2>1. /\ known'[t] = IF t \in Consumers THEN size ELSE bufLen - 1 - size
        /\ \A x \in Threads \ {t} : known'[x] = known[x]
    BY <1>1, <1>2
  <2>2. t \in Consumers => size <= wcnt - rcnt
    <3>1. CASE snap[t].loaded = "w"
      BY <1>1, <1>2, <1>4, <1>7, <3>1 DEF LoadsBounded
    <3>2. CASE snap[t].loaded = "r"
      BY <1>1, <1>2, <1>4, <1>7, <3>2 DEF LoadsBounded
    <3> QED BY <1>4, <3>1, <3>2
  <2>3. t \in Producers => size >= wcnt - rcnt
    <3>1. CASE snap[t].loaded = "w"
      BY <1>1, <1>2, <1>4, <1>7, <3>1 DEF LoadsBounded
    <3>2. CASE snap[t].loaded = "r"
      BY <1>1, <1>2, <1>4, <1>7, <3>2 DEF LoadsBounded
    <3> QED BY <1>4, <3>1, <3>2
  <2>4. ASSUME NEW x \in Consumers PROVE known'[x] <= wcnt - rcnt
    BY <1>7, <2>1, <2>2 DEF KnownBounded, Threads
  <2>5. ASSUME NEW x \in Producers PROVE known'[x] <= bufLen - 1 - (wcnt - rcnt)
    <3>1. CASE x = t
      <4>1. known'[x] = bufLen - 1 - size
        BY <2>1, <3>1, LoopBufferAssumption
      <4> QED BY <1>1, <1>2, <2>3, <3>1, <4>1
    <3>2. CASE x # t
      BY <1>7, <2>1, <3>2 DEF KnownBounded, Threads
    <3> QED BY <3>1, <3>2
  <2>6. KnownBounded'
    BY <1>3, <2>4, <2>5 DEF KnownBounded
  <2>7. LoadsBounded'
    BY <1>3, <1>5, <1>7 DEF LoadsBounded, Threads, Idle
  <2> QED BY <2>6, <2>7
<1> QED BY <1>3, <1>6, <1>7 DEF AInv

LEMMA AnswersInductive == Spec => []AInv
<1>1. IInv /\ AInv /\ [Next]_vars => AInv'
  <2> SUFFICES ASSUME IInv, AInv, [Next]_vars PROVE AInv'
    OBVIOUS
  <2>1. ASSUME NEW size \in BufSizes, InitBuffer(size) PROVE AInv'
    <3>1. bufLen' \in Nat \ {0}
      BY <2>1, LoopBufferAssumption DEF InitBuffer
    <3> QED BY <2>1, <3>1, RestartedAnswers DEF InitBuffer
  <2>2. CASE UnInitBuffer
    <3>1. bufLen' \in Nat \ {0}
      BY <2>2 DEF UnInitBuffer, IInv, TypeOK
    <3> QED BY <2>2, <3>1, RestartedAnswers DEF UnInitBuffer
  <2>3. CASE \E t \in Resetters : ResetBuffer
    BY <2>3, ResetAnswers
  <2>4. CASE \E t \in Producers, s \in Blocks : WriteBuffer(t, s)
    BY <2>4, WriteAnswers
  <2>5. CASE \E t \in Consumers, size \in ReadSizes, bAll \in BOOLEAN : ReadBuffer(t, size, bAll)
    BY <2>5, ReadAnswers
  <2>6. CASE \E t \in Consumers, size \in ReadSizes : CanGetAudioData(t, size)
    BY <2>6, CanGetAnswers
  <2>7. CASE \E t \in Threads : SizeLoad(t) \/ SizeReturn(t)
    BY <2>7, SizeLoadAnswers, SizeReturnAnswers
  <2>8. CASE UNCHANGED vars
    BY <2>8, AnswersUnchanged DEF vars
  <2> QED BY <2>1, <2>2, <2>3, <2>4, <2>5, <2>6, <2>7, <2>8 DEF Next
<1> QED BY <1>1, InitAInv, Inductive, PTL DEF Spec

-----------------------------------------------------------------------------

\* Every variable keeps its type: both pointers stay within the buffer or one
\* past its end, and the buffer's contents stay bytes (LoopBuffer.cpp:116-157).
THEOREM TypesHold == Spec => []TypeOK
BY Inductive, PTL DEF IInv

\* Pointers and counters agree and the two distances add up to the capacity,
\* whatever the length of the buffer and of the blocks (LoopBuffer.cpp:104-157).
THEOREM PositionsAlwaysAgree == Spec => []PositionsAgree
BY Inductive, PTL DEF IInv

\* Only a buffer closed by UnInitBuffer can be copied through null
\* (LoopBuffer.cpp:84-93).
THEOREM NullCopyNeedsUnInit == Spec => []NullCopyOnlyAfterUnInit
BY Inductive, PTL DEF IInv

\* What a query answered stays true until the thread's own next transfer, for
\* one producer and one consumer and until a reset of an open buffer, whatever
\* lies between the two loads of GetSizeOfDataList (LoopBuffer.cpp:159-171).
THEOREM AnswersAlwaysGood == Spec => []AnswersStayGood
<1>1. IInv /\ AInv => AnswersStayGood
  <2> SUFFICES ASSUME IInv, KnownBounded
               PROVE  /\ \A t \in Consumers : known[t] <= GetReadDistance
                      /\ \A t \in Producers : known[t] <= GetWriteDistance
    BY DEF AInv, AnswersStayGood, OneEach
  <2>1. GetReadDistance = wcnt - rcnt /\ GetWriteDistance = bufLen - 1 - GetReadDistance
    BY RingShape, TypeParts DEF IInv, PositionsAgree
  <2> QED BY <2>1 DEF KnownBounded
<1> QED BY <1>1, Inductive, AnswersInductive, PTL

-----------------------------------------------------------------------------
\* The refinement.  The queue is what a reader would find from m_iRPointer on:
\* d bytes of a ring of n, the i-th of them in slot Slot(n, r, i).

Slot(n, r, i)    == IF i <= n - r THEN r + i - 1 ELSE i - (n - r) - 1
Ring(f, n, r, d) == [i \in 1 .. d |-> f[Slot(n, r, i)]]
Store(f, n, w, s) ==
  [i \in 0 .. n - 1 |-> IF i >= w /\ i < w + Len(s) THEN s[i - w + 1]
                        ELSE IF i < Len(s) - (n - w) THEN s[i + (n - w) + 1]
                        ELSE f[i]]

LEMMA RingIsSeq ==
  ASSUME NEW n \in Nat \ {0}, NEW r \in 0 .. n, NEW d \in 0 .. n - 1, NEW f,
         f \in [0 .. n - 1 -> Bytes] \/ d = 0
  PROVE  /\ Ring(f, n, r, d) \in Seq(Bytes) /\ Len(Ring(f, n, r, d)) = d
         /\ \A i \in 1 .. d : Ring(f, n, r, d)[i] = f[Slot(n, r, i)]
<1>1. ASSUME NEW i \in 1 .. d PROVE f[Slot(n, r, i)] \in Bytes
  <2>1. Slot(n, r, i) \in 0 .. n - 1
    BY DEF Slot
  <2> QED BY <2>1
<1>2. Ring(f, n, r, d) \in [1 .. d -> Bytes]
  BY <1>1 DEF Ring
<1>3. d \in Nat
  OBVIOUS
<1>4. Ring(f, n, r, d) \in Seq(Bytes) /\ Len(Ring(f, n, r, d)) = d
  BY <1>2, <1>3
<1> QED BY <1>4 DEF Ring

Queued(q, f, n, r, d) ==
  q \in Seq(Bytes) /\ Len(q) = d /\ \A i \in 1 .. d : q[i] = f[Slot(n, r, i)]

LEMMA RingAsQueue ==
  ASSUME NEW n \in Nat \ {0}, NEW r \in 0 .. n, NEW d \in 0 .. n - 1, NEW f,
         f \in [0 .. n - 1 -> Bytes] \/ d = 0
  PROVE  Queued(Ring(f, n, r, d), f, n, r, d)
BY RingIsSeq DEF Queued

\* Taking k bytes leaves the others in their slots, also across the end.
LEMMA SlotAfterRead ==
  ASSUME NEW n \in Nat \ {0}, NEW r \in 0 .. n, NEW k \in Nat, NEW i \in Nat \ {0},
         k + i <= n - 1
  PROVE  Slot(n, Moved(n, r, k), i) = Slot(n, r, k + i)
<1>1. CASE n - r >= k
  BY <1>1 DEF Slot, Moved
<1>2. CASE ~(n - r >= k)
  BY <1>2 DEF Slot, Moved
<1> QED BY <1>1, <1>2

SplitAt(f, n, r, d, k) ==
  /\ Ring(f, n, r, k) = SubSeq(Ring(f, n, r, d), 1, k)
  /\ Ring(f, n, Moved(n, r, k), d - k) = SubSeq(Ring(f, n, r, d), k + 1, d)

LEMMA RingGet ==
  ASSUME NEW n \in Nat \ {0}, NEW r \in 0 .. n, NEW d \in 0 .. n - 1, NEW f,
         f \in [0 .. n - 1 -> Bytes] \/ d = 0, NEW k \in 0 .. d
  PROVE  SplitAt(f, n, r, d, k)
<1>1. PICK q : q = Ring(f, n, r, d)
  OBVIOUS
<1>0. Queued(q, f, n, r, d)
  BY <1>1, RingAsQueue
<1>2. Len(q) = d /\ \A i \in 1 .. d : q[i] = f[Slot(n, r, i)] /\ q[i] \in Bytes
  BY <1>0, ElementOfSeq DEF Queued
<1>3. Ring(f, n, r, k) = SubSeq(q, 1, k)
  <2>1. f \in [0 .. n - 1 -> Bytes] \/ k = 0
    OBVIOUS
  <2>2. k \in 0 .. n - 1
    OBVIOUS
  <2>3. PICK p : p = Ring(f, n, r, k) /\ Queued(p, f, n, r, k)
    BY <2>1, <2>2, RingAsQueue
  <2>4. \A i \in 1 .. k : q[i] \in Bytes
    BY <1>2
  <2>5. /\ SubSeq(q, 1, k) \in Seq(Bytes) /\ Len(SubSeq(q, 1, k)) = IF 1 <= k THEN k - 1 + 1 ELSE 0
        /\ \A i \in 1 .. k - 1 + 1 : SubSeq(q, 1, k)[i] = q[1 + i - 1]
    BY <2>4, SubSeqProperties
  <2>6. Len(SubSeq(q, 1, k)) = k /\ \A i \in 1 .. k : SubSeq(q, 1, k)[i] = p[i]
    BY <1>2, <2>3, <2>5 DEF Queued
  <2> QED BY <2>3, <2>5, <2>6, SeqEqual DEF Queued
<1>4. Ring(f, n, Moved(n, r, k), d - k) = SubSeq(q, k + 1, d)
  <2>1. Moved(n, r, k) \in 0 .. n /\ d - k \in 0 .. n - 1
    BY DEF Moved
  <2>2. f \in [0 .. n - 1 -> Bytes] \/ d - k = 0
    OBVIOUS
  <2>3. PICK p : /\ p = Ring(f, n, Moved(n, r, k), d - k)
                 /\ Queued(p, f, n, Moved(n, r, k), d - k)
    BY <2>1, <2>2, RingAsQueue
  <2>4. /\ p \in Seq(Bytes) /\ Len(p) = d - k
        /\ \A i \in 1 .. d - k : p[i] = f[Slot(n, Moved(n, r, k), i)]
    BY <2>3 DEF Queued
  <2>5. \A i \in 1 .. d - k : Slot(n, Moved(n, r, k), i) = Slot(n, r, k + i) /\ k + i \in 1 .. d
    BY SlotAfterRead
  <2>6. \A i \in k + 1 .. d : q[i] \in Bytes
    BY <1>2
  <2>7. /\ SubSeq(q, k + 1, d) \in Seq(Bytes)
        /\ Len(SubSeq(q, k + 1, d)) = IF k + 1 <= d THEN d - (k + 1) + 1 ELSE 0
        /\ \A i \in 1 .. d - (k + 1) + 1 : SubSeq(q, k + 1, d)[i] = q[k + 1 + i - 1]
    BY <2>6, SubSeqProperties
  <2>8. ASSUME NEW i \in 1 .. d - k PROVE SubSeq(q, k + 1, d)[i] = p[i]
    <3>1. SubSeq(q, k + 1, d)[i] = q[k + i]
      BY <2>7, k + 1 + i - 1 = k + i, i \in 1 .. d - (k + 1) + 1
    <3> QED BY <1>2, <2>4, <2>5, <3>1
  <2>9. Len(SubSeq(q, k + 1, d)) = d - k
    BY <2>7
  <2> QED BY <2>3, <2>4, <2>7, <2>8, <2>9, SeqEqual
<1> QED BY <1>1, <1>3, <1>4 DEF SplitAt

\* A write of m bytes that fits overwrites no unread slot, and puts its j-th
\* byte into the slot the reader will find after the d bytes there are.
Written(k, n, w, m, j) ==
  /\ k \in 0 .. n - 1
  /\ IF k >= w /\ k < w + m THEN k - w + 1 = j
                            ELSE k < m - (n - w) /\ k + (n - w) + 1 = j

LEMMA SlotAfterWrite ==
  ASSUME NEW n \in Nat \ {0}, NEW w \in 0 .. n, NEW r \in 0 .. n, w - r < n,
         NEW d \in 0 .. n - 1, d = IF w >= r THEN w - r ELSE w + n - r,
         NEW m \in Nat, m <= n - 1 - d
  PROVE  /\ \A i \in 1 .. d : /\ Slot(n, r, i) \in 0 .. n - 1
                              /\ ~(Slot(n, r, i) >= w /\ Slot(n, r, i) < w + m)
                              /\ ~(Slot(n, r, i) < m - (n - w))
         /\ \A i \in d + 1 .. d + m : Written(Slot(n, r, i), n, w, m, i - d)
<1>1. CASE w >= r
  BY <1>1 DEF Slot, Written
<1>2. CASE w < r
  BY <1>2 DEF Slot, Written
<1> QED BY <1>1, <1>2

Appended(f, n, w, r, s, d) ==
  Ring(Store(f, n, w, s), n, r, d + Len(s)) = Ring(f, n, r, d) \o s

LEMMA RingPut ==
  ASSUME NEW n \in Nat \ {0}, NEW w \in 0 .. n, NEW r \in 0 .. n, w - r < n,
         NEW f \in [0 .. n - 1 -> Bytes], NEW s \in Seq(Bytes), NEW d,
         d = ReadDist(n, w, r), Len(s) <= n - 1 - d,
         Store(f, n, w, s) \in [0 .. n - 1 -> Bytes]
  PROVE  Appended(f, n, w, r, s, d)
<1>1. d \in 0 .. n - 1 /\ d = IF w >= r THEN w - r ELSE w + n - r
  BY Distances
<1>2. PICK m \in Nat : m = Len(s)
  BY LenProperties
<1>3. PICK q : q = Ring(f, n, r, d) /\ Queued(q, f, n, r, d)
  BY <1>1, RingAsQueue
<1>4. q \in Seq(Bytes) /\ Len(q) = d /\ \A i \in 1 .. d : q[i] = f[Slot(n, r, i)]
  BY <1>3 DEF Queued
<1>5. PICK g \in [0 .. n - 1 -> Bytes] : g = Store(f, n, w, s)
  OBVIOUS
<1>6. d + m \in 0 .. n - 1
  BY <1>1, <1>2
<1>7. PICK p : p = Ring(g, n, r, d + m) /\ Queued(p, g, n, r, d + m)
  BY <1>6, RingAsQueue
<1>8. p \in Seq(Bytes) /\ Len(p) = d + m /\ \A i \in 1 .. d + m : p[i] = g[Slot(n, r, i)]
  BY <1>7 DEF Queued
<1>9. /\ q \o s \in Seq(Bytes) /\ Len(q \o s) = d + m
      /\ \A i \in 1 .. d + m : (q \o s)[i] = IF i <= d THEN q[i] ELSE s[i - d]
  <2>1. /\ q \o s \in Seq(Bytes) /\ Len(q \o s) = Len(q) + Len(s)
        /\ \A i \in 1 .. Len(q) + Len(s) : (q \o s)[i] = IF i <= Len(q) THEN q[i] ELSE s[i - Len(q)]
    BY <1>4, ConcatProperties
  <2>2. Len(q) = d /\ Len(s) = m
    BY <1>2, <1>4
  <2> QED BY <2>1, <2>2, Zenon
<1>10. \A i \in 1 .. d : g[Slot(n, r, i)] = f[Slot(n, r, i)]
  BY <1>1, <1>2, <1>5, SlotAfterWrite DEF Store
<1>11. ASSUME NEW i \in d + 1 .. d + m PROVE g[Slot(n, r, i)] = s[i - d]
  <2>1. PICK k : k = Slot(n, r, i)
    OBVIOUS
  <2>2. m <= n - 1 - d
    BY <1>2
  <2>3. Written(k, n, w, m, i - d)
    BY <1>1, <2>1, <2>2, SlotAfterWrite
  <2> QED BY <1>2, <1>5, <2>1, <2>3 DEF Store, Written
<1>12. \A i \in 1 .. d + m : p[i] = (q \o s)[i]
  <2>1. ASSUME NEW i \in 1 .. d + m, i <= d PROVE p[i] = (q \o s)[i]
    <3>1. i \in 1 .. d
      BY <1>1, <2>1
    <3> QED BY <1>4, <1>8, <1>9, <1>10, <2>1, <3>1
  <2>2. ASSUME NEW i \in 1 .. d + m, ~(i <= d) PROVE p[i] = (q \o s)[i]
    <3>1. i \in d + 1 .. d + m
      BY <1>1, <2>2
    <3> QED BY <1>8, <1>9, <1>11, <2>2, <3>1
  <2> QED BY <2>1, <2>2
<1>13. p = q \o s
  BY <1>8, <1>9, <1>12, SeqEqual
<1> QED BY <1>2, <1>3, <1>5, <1>7, <1>13 DEF Appended

\* The queue the ring stands for, in a state of the two invariants.
Queue == IF buf = Null THEN <<>> ELSE Contents

QueueShape ==
  /\ Queue = Ring(buf, bufLen, rp, GetReadDistance)
  /\ GetReadDistance = ReadDist(bufLen, wp, rp)
  /\ GetReadDistance \in 0 .. bufLen - 1
  /\ GetWriteDistance = bufLen - 1 - GetReadDistance
  /\ bufLen \in Nat \ {0} /\ wp \in 0 .. bufLen /\ rp \in 0 .. bufLen /\ wp - rp < bufLen
  /\ buf \in [0 .. bufLen - 1 -> Bytes] \/ GetReadDistance = 0
  /\ buf = Null \/ buf \in [0 .. bufLen - 1 -> Bytes]

LEMMA QueueHasShape == IInv /\ AInv => QueueShape
<1> SUFFICES ASSUME IInv, AInv PROVE QueueShape
  OBVIOUS
<1>1. RingTyped /\ BufTyped /\ WriterBehindLap /\ PositionsAgree
  BY TypeParts DEF IInv
<1>2. GetReadDistance \in 0 .. bufLen - 1 /\ GetWriteDistance = bufLen - 1 - GetReadDistance
  BY <1>1, RingShape
<1>3. buf = Null => GetReadDistance = 0
  <2> SUFFICES ASSUME buf = Null PROVE GetReadDistance = 0
    OBVIOUS
  <2>1. life \in {"new", "closed"}
    BY DEF IInv, TypeOK, BufferMatchesLife
  <2>2. wcnt = 0 /\ rcnt = 0
    BY <2>1 DEF AInv, ClosedIsEmpty
  <2> QED BY <1>1, <2>2 DEF PositionsAgree
<1>4. Contents = Ring(buf, bufLen, rp, GetReadDistance)
  BY DEF Contents, Fetched, Ring, Slot
<1>5. GetReadDistance = 0 => Ring(buf, bufLen, rp, GetReadDistance) = <<>>
  BY DEF Ring
<1>6. Queue = Ring(buf, bufLen, rp, GetReadDistance)
  BY <1>3, <1>4, <1>5 DEF Queue
<1> QED BY <1>1, <1>2, <1>3, <1>6, DistancesOf
      DEF QueueShape, RingTyped, BufTyped, WriterBehindLap

LEMMA QueueHasShapeNext ==
  ASSUME IInv', AInv' PROVE QueueShape'
<1>1. (IInv /\ AInv => QueueShape)'
  BY QueueHasShape, PTL
<1> QED BY <1>1

\* The empty queue is what a ring at the start stands for.
LEMMA EmptyQueue ==
  ASSUME QueueShape', RestBufferPos PROVE Queue' = <<>>
<1>1. GetReadDistance' = 0
  <2>1. bufLen' \in Nat \ {0} /\ wp' = 0 /\ rp' = 0
    BY DEF QueueShape, RestBufferPos
  <2>2. GetReadDistance' = ReadDist(bufLen', wp', rp')
    BY DEF QueueShape
  <2> QED BY <2>1, <2>2, StartDistance
<1>2. Queue' = Ring(buf', bufLen', rp', 0)
  BY <1>1 DEF QueueShape
<1> QED BY <1>2 DEF Ring

\* A write is a Put or a refused Put, or it ends in the null buffer.
LEMMA WriteRefines ==
  ASSUME QueueShape, QueueShape', NEW t \in Producers, NEW s \in Blocks, WriteBuffer(t, s)
  PROVE  \/ Len(Queue) + Len(s) <= bufLen - 1 /\ Queue' = Queue \o s
            /\ reply' = Reply(Len(s), <<>>) /\ bufLen' = bufLen
         \/ Len(Queue) + Len(s) > bufLen - 1
            /\ reply' = Reply(-1, <<>>) /\ UNCHANGED <<Queue, bufLen>>
         \/ UNCHANGED <<Queue, bufLen, reply>>
<1>1. s \in Seq(Bytes) /\ Len(s) \in Nat
  BY LoopBufferAssumption
<1>2. Queued(Queue, buf, bufLen, rp, GetReadDistance)
  BY RingAsQueue DEF QueueShape
<1>3. Len(Queue) = GetReadDistance /\ Queue \in Seq(Bytes)
  BY <1>2 DEF Queued
<1>0. /\ bufLen \in Nat \ {0} /\ GetReadDistance \in 0 .. bufLen - 1
      /\ GetWriteDistance = bufLen - 1 - GetReadDistance
      /\ wp \in 0 .. bufLen /\ rp \in 0 .. bufLen /\ wp - rp < bufLen
      /\ GetReadDistance = ReadDist(bufLen, wp, rp)
  BY DEF QueueShape
<1>4. CASE GetWriteDistance < Len(s)
  <2>1. UNCHANGED store /\ reply' = Reply(-1, <<>>)
    BY <1>4 DEF WriteBuffer
  <2>2. UNCHANGED <<Queue, bufLen>>
    BY <2>1 DEF store, Queue, Contents, Fetched, GetReadDistance
  <2>3. Len(Queue) + Len(s) > bufLen - 1
    BY <1>0, <1>1, <1>3, <1>4
  <2> QED BY <2>1, <2>2, <2>3
<1>5. CASE ~(GetWriteDistance < Len(s)) /\ NullCopy(Len(s))
  <2>1. UNCHANGED store /\ UNCHANGED reply
    BY <1>5 DEF WriteBuffer
  <2> QED BY <2>1 DEF store, Queue, Contents, Fetched, GetReadDistance
<1>6. CASE ~(GetWriteDistance < Len(s)) /\ ~NullCopy(Len(s))
  <2>1. /\ wp' = Advance(wp, Len(s)) /\ bufLen' = bufLen /\ rp' = rp
        /\ buf' = IF Len(s) = 0 THEN buf ELSE Stored(wp, s)
        /\ reply' = Reply(Len(s), <<>>)
    BY <1>6 DEF WriteBuffer
  <2>2. Len(s) <= bufLen - 1 - GetReadDistance
    BY <1>1, <1>6 DEF QueueShape
  <2>3. GetReadDistance' = GetReadDistance + Len(s)
    <3>1. wp' = Moved(bufLen, wp, Len(s))
      BY <2>1 DEF Advance, Moved
    <3>2. Len(s) <= WriteDist(bufLen, wp, rp)
      BY <2>2, DistancesOf DEF QueueShape
    <3>3. ReadDist(bufLen, wp', rp) = ReadDist(bufLen, wp, rp) + Len(s)
      BY <1>0, <1>1, <3>1, <3>2, MoveWriter
    <3> QED BY <2>1, <3>3 DEF QueueShape
  <2>4. Queue' = Queue \o s
    <3>1. CASE Len(s) = 0
      <4>1. s = <<>>
        BY <1>1, <3>1, EmptySeq
      <4>2. GetReadDistance' = GetReadDistance /\ buf' = buf
        BY <2>1, <2>3, <3>1 DEF QueueShape
      <4>3. Queue' = Queue
        BY <2>1, <4>2 DEF QueueShape
      <4> QED BY <1>3, <4>1, <4>3, ConcatProperties, ConcatEmptySeq
    <3>2. CASE Len(s) # 0
      <4>1. buf # Null /\ buf \in [0 .. bufLen - 1 -> Bytes] /\ Len(s) > 0
        <5>1. Len(s) > 0
          BY <1>1, <3>2
        <5>2. buf # Null
          BY <1>6, <5>1 DEF NullCopy
        <5> QED BY <5>1, <5>2 DEF QueueShape
      <4>2. buf' = Store(buf, bufLen, wp, s)
        BY <2>1, <3>2 DEF Stored, Store
      <4>3. buf' \in [0 .. bufLen - 1 -> Bytes]
        <5>1. buf' # Null
          BY <4>2, NotNull DEF Store, QueueShape
        <5> QED BY <2>1, <5>1 DEF QueueShape
      <4>4. Ring(Store(buf, bufLen, wp, s), bufLen, rp, GetReadDistance + Len(s))
              = Ring(buf, bufLen, rp, GetReadDistance) \o s
        <5>1. Store(buf, bufLen, wp, s) \in [0 .. bufLen - 1 -> Bytes]
          BY <4>2, <4>3
        <5>2. Appended(buf, bufLen, wp, rp, s, GetReadDistance)
          BY <1>0, <1>1, <2>2, <4>1, <5>1, RingPut
        <5> QED BY <5>2 DEF Appended
      <4> QED BY <2>1, <2>3, <4>2, <4>4 DEF QueueShape
    <3> QED BY <3>1, <3>2
  <2>5. Len(Queue) + Len(s) <= bufLen - 1
    BY <1>0, <1>1, <1>3, <2>2
  <2> QED BY <2>1, <2>4, <2>5
<1> QED BY <1>4, <1>5, <1>6

\* A read is a Get of what it is asked for, or of everything there is, or a
\* refused Get, or it ends in the null buffer.
LEMMA ReadRefines ==
  ASSUME QueueShape, QueueShape', NEW t \in Consumers, NEW size \in ReadSizes,
         NEW bAll \in BOOLEAN, ReadBuffer(t, size, bAll)
  PROVE  \/ \E n \in 0 .. Len(Queue) :
              /\ Queue' = SubSeq(Queue, n + 1, Len(Queue))
              /\ reply' = Reply(n, SubSeq(Queue, 1, n)) /\ bufLen' = bufLen
         \/ size > Len(Queue) /\ reply' = Reply(0, <<>>) /\ UNCHANGED <<Queue, bufLen>>
         \/ UNCHANGED <<Queue, bufLen, reply>>
<1>1. PICK n : n = IF bAll THEN GetReadDistance ELSE size
  OBVIOUS
<1>2. n \in Nat /\ size \in Nat /\ GetReadDistance \in Nat
  BY <1>1, LoopBufferAssumption DEF QueueShape
<1>3. Queued(Queue, buf, bufLen, rp, GetReadDistance)
  BY RingAsQueue DEF QueueShape
<1>4. Len(Queue) = GetReadDistance /\ Queue \in Seq(Bytes)
  BY <1>3 DEF Queued
<1>0. /\ bufLen \in Nat \ {0} /\ GetReadDistance \in 0 .. bufLen - 1
      /\ wp \in 0 .. bufLen /\ rp \in 0 .. bufLen /\ wp - rp < bufLen
      /\ GetReadDistance = ReadDist(bufLen, wp, rp)
      /\ buf \in [0 .. bufLen - 1 -> Bytes] \/ GetReadDistance = 0
  BY DEF QueueShape
<1>5. CASE GetReadDistance < n
  <2>1. UNCHANGED store /\ reply' = Reply(0, <<>>)
    BY <1>1, <1>5 DEF ReadBuffer
  <2>2. UNCHANGED <<Queue, bufLen>>
    BY <2>1 DEF store, Queue, Contents, Fetched, GetReadDistance
  <2>3. size > Len(Queue)
    BY <1>1, <1>2, <1>4, <1>5
  <2> QED BY <2>1, <2>2, <2>3
<1>6. CASE ~(GetReadDistance < n) /\ NullCopy(n)
  <2>1. UNCHANGED store /\ UNCHANGED reply
    BY <1>1, <1>6 DEF ReadBuffer
  <2> QED BY <2>1 DEF store, Queue, Contents, Fetched, GetReadDistance
<1>7. CASE ~(GetReadDistance < n) /\ ~NullCopy(n)
  <2>1. /\ rp' = Advance(rp, n) /\ UNCHANGED <<buf, bufLen, wp>>
        /\ reply' = Reply(n, Fetched(rp, n))
    BY <1>1, <1>7 DEF ReadBuffer
  <2>2. n \in 0 .. GetReadDistance
    BY <1>2, <1>7
  <2>3. rp' = Moved(bufLen, rp, n)
    BY <2>1 DEF Advance, Moved
  <2>4. GetReadDistance' = GetReadDistance - n
    <3>1. ReadDist(bufLen, wp, rp') = ReadDist(bufLen, wp, rp) - n
      BY <1>0, <1>2, <2>2, <2>3, MoveReader
    <3> QED BY <2>1, <3>1 DEF QueueShape
  <2>5. /\ Ring(buf, bufLen, rp, n) = SubSeq(Ring(buf, bufLen, rp, GetReadDistance), 1, n)
        /\ Ring(buf, bufLen, Moved(bufLen, rp, n), GetReadDistance - n)
             = SubSeq(Ring(buf, bufLen, rp, GetReadDistance), n + 1, GetReadDistance)
    <3>1. SplitAt(buf, bufLen, rp, GetReadDistance, n)
      BY <1>0, <2>2, RingGet
    <3> QED BY <3>1 DEF SplitAt
  <2>6. Fetched(rp, n) = Ring(buf, bufLen, rp, n)
    BY DEF Fetched, Ring, Slot
  <2>7. Queue' = SubSeq(Queue, n + 1, Len(Queue))
    BY <1>4, <2>1, <2>3, <2>4, <2>5 DEF QueueShape
  <2>8. reply' = Reply(n, SubSeq(Queue, 1, n))
    BY <2>1, <2>5, <2>6 DEF QueueShape
  <2> QED BY <1>4, <2>1, <2>2, <2>7, <2>8
<1> QED BY <1>5, <1>6, <1>7

LEMMA InitRefines == Init => Fifo!Init
<1> SUFFICES ASSUME Init PROVE Fifo!Init
  OBVIOUS
<1>1. buf = Null /\ bufLen = 1 /\ reply = Reply(0, <<>>)
  BY DEF Init, Constructed
<1> QED BY <1>1 DEF Fifo!Init, Fifo!Reply, Reply

\* Every step of the ring is a step of the queue or leaves the queue alone.
LEMMA StepRefines ==
  ASSUME IInv, AInv, IInv', AInv', [Next]_vars
  PROVE  [Fifo!Next]_Fifo!fifoVars
<1>1. QueueShape /\ QueueShape'
  BY QueueHasShape, QueueHasShapeNext
<1>2. CASE UNCHANGED <<Queue, bufLen, reply>>
  BY <1>2 DEF Fifo!fifoVars, Queue
<1>3. ASSUME NEW size \in BufSizes, InitBuffer(size) PROVE Fifo!Next
  <2>1. Queue' = <<>> /\ bufLen' = size /\ reply' = reply
    BY <1>1, <1>3, EmptyQueue DEF InitBuffer
  <2>2. Fifo!Open(size - 1)
    BY <2>1 DEF Fifo!Open, Queue
  <2> QED BY <2>2 DEF Fifo!Next
<1>4. ASSUME UnInitBuffer \/ ResetBuffer PROVE Fifo!Next
  <2>1. Queue' = <<>> /\ bufLen' = bufLen /\ reply' = reply
    BY <1>1, <1>4, EmptyQueue DEF UnInitBuffer, ResetBuffer
  <2>2. Fifo!Clear
    BY <2>1 DEF Fifo!Clear, Queue
  <2> QED BY <2>2 DEF Fifo!Next
<1>5. ASSUME NEW t \in Producers, NEW s \in Blocks, WriteBuffer(t, s)
      PROVE  [Fifo!Next]_Fifo!fifoVars
  <2>1. CASE Len(Queue) + Len(s) <= bufLen - 1 /\ Queue' = Queue \o s
             /\ reply' = Reply(Len(s), <<>>) /\ bufLen' = bufLen
    <3>1. Fifo!Put(s)
      BY <2>1 DEF Fifo!Put, Fifo!Reply, Reply, Queue
    <3> QED BY <3>1 DEF Fifo!Next
  <2>2. CASE Len(Queue) + Len(s) > bufLen - 1
             /\ reply' = Reply(-1, <<>>) /\ UNCHANGED <<Queue, bufLen>>
    <3>1. Fifo!RefusePut(s)
      BY <2>2 DEF Fifo!RefusePut, Fifo!Reply, Reply, Queue
    <3> QED BY <3>1 DEF Fifo!Next
  <2> QED BY <1>1, <1>2, <1>5, <2>1, <2>2, WriteRefines
<1>6. ASSUME NEW t \in Consumers, NEW size \in ReadSizes, NEW bAll \in BOOLEAN,
             ReadBuffer(t, size, bAll)
      PROVE  [Fifo!Next]_Fifo!fifoVars
  <2>1. ASSUME NEW n \in 0 .. Len(Queue), Queue' = SubSeq(Queue, n + 1, Len(Queue)),
               reply' = Reply(n, SubSeq(Queue, 1, n)), bufLen' = bufLen
        PROVE  Fifo!Next
    <3>1. n <= Len(Queue)
      <4>0. GetReadDistance \in Nat
        BY <1>1 DEF QueueShape
      <4>1. Queued(Queue, buf, bufLen, rp, GetReadDistance)
        <5>1. QueueShape
          BY <1>1
        <5> QED BY <5>1, RingAsQueue DEF QueueShape
      <4>2. Len(Queue) \in Nat
        BY <4>0, <4>1 DEF Queued
      <4> QED BY <4>2
    <3>2. Fifo!Get(n)
      BY <2>1, <3>1 DEF Fifo!Get, Fifo!Reply, Reply, Queue
    <3> QED BY <3>2 DEF Fifo!Next, Queue
  <2>2. CASE size > Len(Queue) /\ reply' = Reply(0, <<>>) /\ UNCHANGED <<Queue, bufLen>>
    <3>1. Fifo!RefuseGet(size)
      BY <2>2 DEF Fifo!RefuseGet, Fifo!Reply, Reply, Queue
    <3> QED BY <3>1 DEF Fifo!Next
  <2> QED BY <1>1, <1>2, <1>6, <2>1, <2>2, ReadRefines
<1>7. CASE \/ \E t \in Consumers, size \in ReadSizes : CanGetAudioData(t, size)
           \/ \E t \in Threads : SizeLoad(t) \/ SizeReturn(t)
           \/ UNCHANGED vars
  <2>1. UNCHANGED store /\ UNCHANGED reply
    BY <1>7 DEF CanGetAudioData, SizeLoad, SizeReturn, vars
  <2>2. UNCHANGED <<Queue, bufLen, reply>>
    BY <2>1 DEF store, Queue, Contents, Fetched, GetReadDistance
  <2> QED BY <1>2, <2>2
<1> QED BY <1>3, <1>4, <1>5, <1>6, <1>7 DEF Next

\* CLoopBuffer is a bounded queue of bytes: for every size of the buffer and of
\* the blocks, bytes come out once, in the order they went in, none is overwritten
\* unread, and a transfer that does not fit changes nothing (LoopBuffer.cpp:35-157).
THEOREM RingIsBoundedFifo == Spec => IsBoundedFifo
<1>1. [](IInv /\ AInv) /\ [][Next]_vars => [][Fifo!Next]_Fifo!fifoVars
  <2>1. (IInv /\ AInv) /\ (IInv /\ AInv)' /\ [Next]_vars => [Fifo!Next]_Fifo!fifoVars
    BY StepRefines
  <2> QED BY <2>1, PTL
<1> QED BY <1>1, InitRefines, Inductive, AnswersInductive, PTL DEF Spec, IsBoundedFifo, Fifo!Spec
=============================================================================
