---------------------------- MODULE LoopBuffer ----------------------------
(***************************************************************************)
(* CLoopBuffer (Lib.Base/LoopBuffer.h, LoopBuffer.cpp): the ring of bytes  *)
(* an audio producer and an audio consumer share.                          *)
(*                                                                         *)
(* ReadBuffer, WriteBuffer, CanGetAudioData and ResetBuffer hold the       *)
(* critical section from their first to their last access, so each is one  *)
(* step.  GetSizeOfDataList takes no lock and subtracts two counters: it   *)
(* is two steps.  InitBuffer and UnInitBuffer take no lock either; the     *)
(* owner calls them while no other call is inside the object (no caller is *)
(* in the repository), so each is one step.                                *)
(***************************************************************************)
EXTENDS Integers, Sequences, FiniteSets

CONSTANTS Bytes,       \* the byte values; memset fills with 0
          BufSizes,    \* the sizes InitBuffer is called with
          Blocks,      \* the blocks of bytes WriteBuffer is called with
          ReadSizes,   \* the sizes ReadBuffer and CanGetAudioData are called with
          Producers,   \* the threads that write
          Consumers,   \* the threads that read
          Resetters,   \* the threads that call ResetBuffer
          MaxCount     \* bound on the 64-bit counter of written bytes

ASSUME LoopBufferAssumption ==
  /\ 0 \in Bytes
  /\ BufSizes \subseteq Nat \ {0}
  /\ Blocks \subseteq Seq(Bytes)
  /\ ReadSizes \subseteq Nat
  /\ IsFiniteSet(Producers) /\ IsFiniteSet(Consumers)
  /\ Producers \cap Consumers = {}
  /\ MaxCount \in Nat

VARIABLES
  buf,      \* m_pBuffer: a function on 0..bufLen-1, or Null
  bufLen,   \* m_iBufLen
  wp, rp,   \* m_iWPointer, m_iRPointer: both may stand one past the end
  wcnt,     \* m_i64WritedCnt
  rcnt,     \* m_i64ReadedCnt
  life,     \* which lifecycle call came last: "new", "open" or "closed", and
            \* "reset" for an open buffer that ResetBuffer emptied
  fault,    \* a memcpy went through a null m_pBuffer
  snap,     \* per thread, the counter GetSizeOfDataList has already loaded
  known,    \* per thread, bytes its last query said it may still move
  reply     \* what the last read or write returned and copied out

store == <<buf, bufLen, wp, rp, wcnt, rcnt>>
vars  == <<store, life, fault, snap, known, reply>>

Threads == Producers \cup Consumers
Null    == <<>>
Idle    == [loaded |-> "none", val |-> 0]

Reply(n, data) == [n |-> n, data |-> data]

\* The remainder of C: it takes the sign of the dividend.
CRem(a, b) == IF a >= 0 THEN a % b ELSE -((-a) % b)

\* Mutation: a write distance without the byte that keeps full and empty apart.
GetWriteDistanceNoGap == CRem(rp + bufLen - wp, bufLen)

GetReadDistance  == CRem(wp + bufLen - rp, bufLen)
GetWriteDistance == CRem(rp + bufLen - wp - 1, bufLen)

\* Mutation of Memcopy: a wrapped read whose second memcpy starts at byte 1.
FetchedSkip(pos, n) ==
  [i \in 1 .. n |-> IF i <= bufLen - pos THEN buf[pos + i - 1]
                                         ELSE buf[(i - (bufLen - pos)) % bufLen]]

\* Memcopy: where a pointer stands after n bytes, the ring with s stored at
\* position pos, and the n bytes found from position pos on.
Advance(pos, n) == IF bufLen - pos >= n THEN pos + n ELSE n - (bufLen - pos)

Stored(pos, s) ==
  [i \in 0 .. bufLen - 1 |->
     IF i >= pos /\ i < pos + Len(s) THEN s[i - pos + 1]
     ELSE IF i < Len(s) - (bufLen - pos) THEN s[i + (bufLen - pos) + 1]
     ELSE buf[i]]

Fetched(pos, n) ==
  [i \in 1 .. n |-> IF i <= bufLen - pos THEN buf[pos + i - 1]
                                         ELSE buf[i - (bufLen - pos) - 1]]

\* memcpy of n > 0 bytes through m_pBuffer == NULL.
NullCopy(n) == buf = Null /\ n > 0

-----------------------------------------------------------------------------

\* The constructor; Mutation: one that starts with a length it has no buffer for.
Constructed(len) ==
  /\ buf = Null /\ bufLen = len
  /\ wp = 0 /\ rp = 0 /\ wcnt = 0 /\ rcnt = 0
  /\ life = "new" /\ fault = FALSE
  /\ snap = [t \in Threads |-> Idle]
  /\ known = [t \in Threads |-> 0]
  /\ reply = Reply(0, <<>>)

InitTwo == Constructed(2)
Init    == Constructed(1)

RestBufferPos == wp' = 0 /\ rp' = 0 /\ wcnt' = 0 /\ rcnt' = 0

Quiet == \A t \in Threads : snap[t] = Idle

InitBuffer(size) ==
  /\ ~fault /\ Quiet
  /\ bufLen' = size
  /\ buf' = [i \in 0 .. size - 1 |-> 0]
  /\ RestBufferPos
  /\ life' = "open"
  /\ known' = [t \in Threads |-> 0]
  /\ UNCHANGED <<fault, snap, reply>>

\* m_iBufLen keeps its value.
UnInitBuffer ==
  /\ ~fault /\ Quiet
  /\ buf' = Null
  /\ RestBufferPos
  /\ life' = "closed"
  /\ known' = [t \in Threads |-> 0]
  /\ UNCHANGED <<bufLen, fault, snap, reply>>

\* A thread between the two loads of GetSizeOfDataList does not notice.
ResetBuffer ==
  /\ ~fault
  /\ RestBufferPos
  /\ life' = IF life = "open" THEN "reset" ELSE life
  /\ UNCHANGED <<buf, bufLen, fault, snap, known, reply>>

WriteBuffer(t, s) ==
  /\ ~fault /\ snap[t] = Idle
  /\ IF GetWriteDistance < Len(s)
     THEN /\ reply' = Reply(-1, <<>>)
          /\ UNCHANGED <<store, fault, known>>
     ELSE IF NullCopy(Len(s))
     THEN fault' = TRUE /\ UNCHANGED <<store, known, reply>>
     ELSE /\ wcnt + Len(s) <= MaxCount
          /\ buf' = IF Len(s) = 0 THEN buf ELSE Stored(wp, s)
          /\ wp' = Advance(wp, Len(s))
          /\ wcnt' = wcnt + Len(s)
          /\ known' = [known EXCEPT ![t] = IF Len(s) <= @ THEN @ - Len(s) ELSE 0]
          /\ reply' = Reply(Len(s), <<>>)
          /\ UNCHANGED <<bufLen, rp, rcnt, fault>>
  /\ UNCHANGED <<life, snap>>

\* With bAll the caller takes what there is and its iReadSize is overwritten.
ReadBuffer(t, size, bAll) ==
  /\ ~fault /\ snap[t] = Idle
  /\ LET n == IF bAll THEN GetReadDistance ELSE size IN
     IF GetReadDistance < n
     THEN /\ reply' = Reply(0, <<>>)
          /\ UNCHANGED <<store, fault, known>>
     ELSE IF NullCopy(n)
     THEN fault' = TRUE /\ UNCHANGED <<store, known, reply>>
     ELSE /\ rp' = Advance(rp, n)
          /\ rcnt' = rcnt + n
          /\ known' = [known EXCEPT ![t] = IF n <= @ THEN @ - n ELSE 0]
          /\ reply' = Reply(n, Fetched(rp, n))
          /\ UNCHANGED <<buf, bufLen, wp, wcnt, fault>>
  /\ UNCHANGED <<life, snap>>

\* Mutation: a query that promises one byte more than there is.
CanGetAudioDataOff(t, size) ==
  /\ ~fault /\ snap[t] = Idle
  /\ ~(GetReadDistance < size - 1)
  /\ known' = [known EXCEPT ![t] = size]
  /\ UNCHANGED <<store, life, fault, snap, reply>>

CanGetAudioData(t, size) ==
  /\ ~fault /\ snap[t] = Idle
  /\ ~(GetReadDistance < size)
  /\ known' = [known EXCEPT ![t] = size]
  /\ UNCHANGED <<store, life, fault, snap, reply>>

\* GetSizeOfDataList: two unlocked loads, in an order C++ leaves open.
SizeLoad(t) ==
  /\ ~fault /\ snap[t] = Idle
  /\ \E first \in {"w", "r"} :
       snap' = [snap EXCEPT ![t] = [loaded |-> first,
                                    val |-> IF first = "w" THEN wcnt ELSE rcnt]]
  /\ UNCHANGED <<store, life, fault, known, reply>>

SizeReturn(t) ==
  /\ ~fault /\ snap[t] # Idle
  /\ LET size == IF snap[t].loaded = "w" THEN snap[t].val - rcnt
                                         ELSE wcnt - snap[t].val
     IN known' = [known EXCEPT ![t] = IF t \in Consumers THEN size
                                                         ELSE bufLen - 1 - size]
  /\ snap' = [snap EXCEPT ![t] = Idle]
  /\ UNCHANGED <<store, life, fault, reply>>

Next ==
  \/ \E size \in BufSizes : InitBuffer(size)
  \/ UnInitBuffer
  \/ \E t \in Resetters : ResetBuffer
  \/ \E t \in Producers, s \in Blocks : WriteBuffer(t, s)
  \/ \E t \in Consumers, size \in ReadSizes, bAll \in BOOLEAN : ReadBuffer(t, size, bAll)
  \/ \E t \in Consumers, size \in ReadSizes : CanGetAudioData(t, size)
  \/ \E t \in Threads : SizeLoad(t) \/ SizeReturn(t)

Spec == Init /\ [][Next]_vars

-----------------------------------------------------------------------------

TypeOK ==
  /\ bufLen \in Nat \ {0}
  /\ buf = Null \/ buf \in [0 .. bufLen - 1 -> Bytes]
  /\ wp \in 0 .. bufLen /\ rp \in 0 .. bufLen
  /\ wcnt \in Nat /\ rcnt \in Nat
  /\ life \in {"new", "open", "reset", "closed"} /\ fault \in BOOLEAN
  /\ snap \in [Threads -> [loaded : {"none", "w", "r"}, val : Nat]]
  /\ known \in [Threads -> Int]
  /\ reply.n \in Int /\ reply.data \in Seq(Bytes)

\* The two pointers and the two counters tell the same story: what the
\* counters say is stored is what lies between the pointers, and what is not
\* readable is writable but for the one byte that keeps full and empty apart.
\* It is broken by any wrong wrap in Memcopy or distance (LoopBuffer.cpp:104-157).
PositionsAgree ==
  /\ wcnt - rcnt = GetReadDistance
  /\ GetReadDistance + GetWriteDistance = bufLen - 1

\* A copy goes through a null m_pBuffer only after UnInitBuffer, which frees
\* the buffer and leaves m_iBufLen; a buffer never initialised refuses every
\* transfer because its length is 1 (LoopBuffer.cpp:14, 86-92).
NullCopyOnlyAfterUnInit == fault => life = "closed"

\* What a query answered stays true until the thread's own next transfer, when
\* there is one producer and one consumer and until someone calls ResetBuffer on
\* an open buffer: the other side only ever makes more room or more data, also
\* between the two unlocked loads of GetSizeOfDataList (LoopBuffer.h:29, LoopBuffer.cpp:159-171).
AnswersStayGood ==
  Cardinality(Producers) <= 1 /\ Cardinality(Consumers) <= 1 /\ life # "reset" =>
    /\ \A t \in Consumers : known[t] <= GetReadDistance
    /\ \A t \in Producers : known[t] <= GetWriteDistance

-----------------------------------------------------------------------------
\* CLoopBuffer implements the bounded queue of bytes.

Contents == [i \in 1 .. GetReadDistance |-> Fetched(rp, GetReadDistance)[i]]

Fifo == INSTANCE BoundedFifo WITH
          q <- IF buf = Null THEN <<>> ELSE Contents,
          cap <- bufLen - 1,
          Capacities <- {size - 1 : size \in BufSizes},
          Sizes <- ReadSizes

\* Every call of the buffer is a call of the queue or leaves it alone: bytes
\* come out once, in the order they went in, and none is overwritten unread.
IsBoundedFifo == Fifo!Spec
=============================================================================
