------------------------- MODULE FrameWorkerProofs -------------------------
(***************************************************************************)
(* Proofs about the producer and the workers of FrameWorker, for any       *)
(* frames, workers and number of pictures: one worker at a time, none      *)
(* asleep beside data, every frame in one place, every picture finished    *)
(* once and in its order.                                                  *)
(***************************************************************************)
EXTENDS FrameWorker, FiniteSetTheorems, FunctionTheorems, TLAPS

ListsOK ==
  /\ m_emptyList \in Seq(Frames) /\ m_dataList \in Seq(Frames)
  /\ filling \in Pointers /\ elem \in [Workers -> Pointers]
  /\ unmade \subseteq Frames

TypeOK ==
  /\ m_event \in BOOLEAN /\ signaled \in BOOLEAN /\ raising \in BOOLEAN
  /\ at \in [Workers -> {"loop", "look", "wait", "peeked", "holds"}]
  /\ owner \in {"out", "start", "stop", "stopTimed"}
  /\ live \subseteq given /\ given \subseteq Workers

\* A start finds no thread, and a worker outside callBack is at its beginning.
ThreadsOK ==
  /\ owner = "start" => m_thread = NoThread
  /\ \A w \in Workers \ live : at[w] = "loop"

WorkersInv == TypeOK /\ ThreadsOK /\ OneWorker /\ NoSleepBesideData

IInv == ListsOK /\ WorkersInv

-----------------------------------------------------------------------------

\* Every list operation moves frames and nothing else.
LEMMA ListsKept ==
  ASSUME ListsOK, [Next]_vars
  PROVE  ListsOK'
<1> USE FrameWorkerAssumption DEF Pointers
<1>1. ASSUME NEW p \in Frames, initialize(p) PROVE ListsOK'
  BY <1>1 DEF initialize, List!addOneFree, producerVars, workerVars, ListsOK
<1>2. CASE Take
  BY <1>2 DEF Take, List!pop_front_empty, workerVars, ListsOK
<1>3. CASE Push
  BY <1>3 DEF Push, List!push_back_data, workerVars, ListsOK
<1>4. CASE Fill \/ Raise \/ Owner \/ Join \/ UNCHANGED vars
  BY <1>4 DEF Fill, Raise, Owner, Join, vars, listVars, producerVars, workerVars, ListsOK
<1>5. ASSUME NEW w \in Workers, callBack(w) PROVE ListsOK'
  <2> USE DEF ListsOK, Goes, producerVars
  <2>1. CASE Poll(w) \/ Leave(w) \/ Wake(w)
    BY <2>1 DEF Poll, Leave, Wake, listVars, workerVars
  <2>2. CASE Look(w)
    BY <2>2 DEF Look, List!getHeadDataRef
  <2>3. CASE TakeData(w)
    BY <2>3 DEF TakeData, List!pop_front_data
  <2>4. CASE Finish(w)
    BY <2>4 DEF Finish, List!push_back_empty
  <2>5. CASE PutBack(w)
    BY <2>5 DEF PutBack, List!push_front_data
  <2> QED BY <1>5, <2>1, <2>2, <2>3, <2>4, <2>5 DEF callBack
<1> QED BY <1>1, <1>2, <1>3, <1>4, <1>5 DEF Next, Producer

\* As long as no stop gave up on a worker there is at most one.
LEMMA OneAtATime ==
  ASSUME OneWorker, left = {}, NEW v \in live, NEW w \in live
  PROVE  v = w
BY DEF OneWorker

LEMMA InitIInv == Init => IInv
<1> SUFFICES ASSUME Init PROVE IInv
  OBVIOUS
<1>1. TypeOK
  BY DEF Init, Thread!Init, Event!Init, TypeOK
<1>2. ListsOK
  BY DEF Init, List!Init, ListsOK, Pointers
<1>3. ThreadsOK /\ OneWorker /\ NoSleepBesideData
  BY DEF Init, Thread!Init, ThreadsOK, OneWorker, NoSleepBesideData
<1> QED BY <1>1, <1>2, <1>3 DEF IInv, WorkersInv

\* A frame that is made or taken empty leaves the data alone; a pushed one
\* raises the event before anything else the producer does.
LEMMA ProducerIInv ==
  ASSUME IInv, Producer \/ \E p \in Frames : initialize(p)
  PROVE  WorkersInv'
<1> DEFINE Kept == /\ UNCHANGED <<threadVars, workerVars, m_event>>
                   /\ signaled' \in BOOLEAN /\ raising' \in BOOLEAN
<1>1. Kept
  <2>1. ASSUME NEW p \in Frames, initialize(p) PROVE Kept
    BY <2>1 DEF initialize, eventVars, producerVars, IInv, WorkersInv, TypeOK
  <2>2. CASE Take \/ Fill
    BY <2>2 DEF Take, Fill, eventVars, IInv, WorkersInv, TypeOK
  <2>3. CASE Push
    BY <2>3 DEF Push, eventVars, IInv, WorkersInv, TypeOK
  <2>4. CASE Raise
    BY <2>4 DEF Raise, Event!raiseEvent, IInv, WorkersInv, TypeOK
  <2> QED BY <2>1, <2>2, <2>3, <2>4 DEF Producer
<1>2. \/ m_dataList' = m_dataList /\ (m_event /\ (signaled \/ raising) => signaled' \/ raising')
      \/ raising'
  <2>1. ASSUME NEW p \in Frames, initialize(p)
        PROVE  UNCHANGED <<m_dataList, signaled, raising>>
    BY <2>1 DEF initialize, List!addOneFree, eventVars, producerVars
  <2>2. CASE Take
    BY <2>2 DEF Take, List!pop_front_empty, eventVars
  <2>3. CASE Fill
    BY <2>3 DEF Fill, listVars, eventVars
  <2>4. CASE Push
    BY <2>4 DEF Push
  <2>5. CASE Raise
    BY <2>5 DEF Raise, Event!raiseEvent, listVars
  <2> QED BY <2>1, <2>2, <2>3, <2>4, <2>5 DEF Producer
<1>3. TypeOK' /\ ThreadsOK' /\ OneWorker'
  BY <1>1 DEF IInv, WorkersInv, TypeOK, ThreadsOK, OneWorker, threadVars, workerVars
<1>4. NoSleepBesideData'
  BY <1>1, <1>2 DEF IInv, WorkersInv, NoSleepBesideData, threadVars, workerVars
<1> QED BY <1>3, <1>4 DEF WorkersInv

\* The calls of the owner: only a stop that times out lets go of a thread that
\* is still there, and only when there is none does a start come.
LEMMA OwnerIInv ==
  ASSUME IInv, Owner \/ Join
  PROVE  WorkersInv'
<1>1. UNCHANGED <<m_dataList, m_event, signaled, raising, at, elem>>
  BY DEF Owner, Join, listVars, eventVars, producerVars, workerVars
<1>2. CASE \/ Thread!startThread \/ Thread!CreateFails
           \/ \E place \in {"stop", "stopTimed"} : Thread!stopThread(place)
  BY <1>1, <1>2 DEF Thread!startThread, Thread!CreateFails, Thread!stopThread, IInv, WorkersInv,
     TypeOK, ThreadsOK, OneWorker, NoSleepBesideData
<1>3. ASSUME NEW w \in Workers, Thread!CreateThread(w) PROVE WorkersInv'
  <2>1. /\ m_thread = NoThread /\ m_thread' = w /\ w \in Workers \ given /\ owner' = "out"
        /\ live' = live \cup {w} /\ given' = given \cup {w} /\ left' = left
    BY <1>3 DEF Thread!CreateThread, IInv, WorkersInv, ThreadsOK
  <2>2. at[w] = "loop" /\ NoThread \notin live
    BY <2>1, FrameWorkerAssumption DEF IInv, WorkersInv, TypeOK, ThreadsOK
  <2>3. TypeOK' /\ ThreadsOK' /\ OneWorker'
    BY <1>1, <2>1, <2>2 DEF IInv, WorkersInv, TypeOK, ThreadsOK, OneWorker
  <2>4. NoSleepBesideData'
    BY <1>1, <2>1, <2>2 DEF IInv, WorkersInv, NoSleepBesideData
  <2> QED BY <2>3, <2>4 DEF WorkersInv
<1>4. CASE Thread!StopTimesOut \/ Thread!StopJoins
  BY <1>1, <1>4 DEF Thread!StopTimesOut, Thread!StopJoins, IInv, WorkersInv, TypeOK,
     ThreadsOK, OneWorker, NoSleepBesideData
<1> QED BY <1>2, <1>3, <1>4 DEF Owner, Join

\* A step of a worker: what it takes leaves fewer data, what it puts back it
\* puts back awake, and the event it takes wakes the one there is.
LEMMA callBackIInv ==
  ASSUME IInv, NEW w \in Workers, callBack(w)
  PROVE  WorkersInv'
<1>1. CASE Leave(w)
  BY <1>1 DEF Leave, At, Thread!theThread, listVars, eventVars, producerVars, workerVars,
     IInv, WorkersInv, TypeOK, ThreadsOK, OneWorker, NoSleepBesideData
<1>2. CASE ~Leave(w)
  <2>1. w \in live /\ UNCHANGED <<threadVars, m_event, raising>>
    BY <1>2 DEF callBack, Poll, Look, Wake, TakeData, Finish, PutBack, At, eventVars,
       producerVars, Event!WaitReturnsTrue, Event!WaitReturnsFalse
  <2>2. signaled' \in BOOLEAN
    BY <1>2 DEF callBack, Poll, Look, Wake, TakeData, Finish, PutBack, eventVars,
       Event!WaitReturnsTrue, Event!WaitReturnsFalse, IInv, WorkersInv, TypeOK
  <2>3. \E p \in Pointers, place \in {"loop", "look", "wait", "peeked", "holds"} :
          /\ Goes(w, place, p)
          /\ place = "wait" => m_dataList' = <<>>
    <3>1. CASE Poll(w) \/ Wake(w) \/ Finish(w) \/ PutBack(w)
      BY <3>1 DEF Poll, Wake, Finish, PutBack, Pointers
    <3>2. CASE TakeData(w)
      BY <3>2 DEF TakeData
    <3>3. CASE Look(w)
      <4>1. PICK p \in Pointers : List!getHeadDataRef(p) /\ Goes(w, IF p = nullptr THEN "wait" ELSE "peeked", p)
        BY <3>3 DEF Look
      <4>2. p = nullptr => m_dataList' = <<>>
        BY <4>1, FrameWorkerAssumption DEF List!getHeadDataRef, IInv, ListsOK
      <4> QED BY <4>1, <4>2
    <3> QED BY <1>2, <3>1, <3>2, <3>3 DEF callBack
  <2>4. TypeOK' /\ ThreadsOK' /\ OneWorker'
    BY <2>1, <2>2, <2>3 DEF Goes, threadVars, IInv, WorkersInv, TypeOK, ThreadsOK, OneWorker
  <2>5. NoSleepBesideData'
    <3> SUFFICES ASSUME left' = {}, NEW v \in live', at'[v] = "wait", m_dataList' # <<>>
                 PROVE  FALSE
      BY DEF NoSleepBesideData
    <3>1. v = w
      BY <2>1, OneAtATime DEF IInv, WorkersInv, threadVars
    <3> QED BY <2>3, <3>1 DEF Goes, IInv, WorkersInv, TypeOK
  <2> QED BY <2>4, <2>5 DEF WorkersInv
<1> QED BY <1>1, <1>2

-----------------------------------------------------------------------------

LEMMA Inductive == Spec => []IInv
<1>1. IInv /\ [Next]_vars => IInv'
  <2> SUFFICES ASSUME IInv, [Next]_vars PROVE IInv'
    OBVIOUS
  <2>1. CASE UNCHANGED vars
    BY <2>1, ListsKept DEF vars, listVars, threadVars, eventVars, producerVars, workerVars, IInv,
       WorkersInv, TypeOK, ThreadsOK, OneWorker, NoSleepBesideData
  <2> QED BY <2>1, ListsKept, ProducerIInv, OwnerIInv, callBackIInv DEF Next, IInv
<1> QED BY <1>1, InitIInv, PTL DEF Spec

-----------------------------------------------------------------------------
\* Where the frames are.

OneIf(P) == IF P THEN 1 ELSE 0

LEMMA CountType ==
  ASSUME NEW s \in Seq(Frames), NEW f
  PROVE  Count(s, f) \in Nat /\ IsFiniteSet({i \in DOMAIN s : s[i] = f})
<1>1. DOMAIN s = 1 .. Len(s) /\ IsFiniteSet(1 .. Len(s))
  BY FS_Interval
<1>2. IsFiniteSet({i \in DOMAIN s : s[i] = f})
  BY <1>1, FS_Subset
<1> QED BY <1>2, FS_CardinalityType DEF Count

LEMMA CountAppend ==
  ASSUME NEW s \in Seq(Frames), NEW p \in Frames, NEW f
  PROVE  Count(Append(s, p), f) = Count(s, f) + OneIf(p = f)
<1> DEFINE Of(t) == {i \in DOMAIN t : t[i] = f}
<1>1. IsFiniteSet(Of(s)) /\ Cardinality(Of(s)) = Count(s, f) /\ Count(s, f) \in Nat
  BY CountType DEF Count
<1>2. Cardinality(Of(Append(s, p))) = Count(Append(s, p), f)
  BY DEF Count
<1>3. Len(s) + 1 \notin Of(s)
  OBVIOUS
<1>4. CASE p = f
  <2>1. Of(Append(s, p)) = Of(s) \cup {Len(s) + 1}
    BY <1>4
  <2>2. Cardinality(Of(s) \cup {Len(s) + 1}) = Cardinality(Of(s)) + 1
    BY <1>1, <1>3, FS_AddElement
  <2> QED BY <1>1, <1>2, <1>4, <2>1, <2>2 DEF OneIf
<1>5. CASE p # f
  <2>1. Of(Append(s, p)) = Of(s)
    BY <1>5
  <2>2. OneIf(p = f) = 0
    BY <1>5 DEF OneIf
  <2>3. Count(Append(s, p), f) = Count(s, f)
    BY <1>1, <1>2, <2>1
  <2> QED BY <1>1, <2>2, <2>3
<1> QED BY <1>4, <1>5

\* The places of f behind the first item are those of the tail, one on.
LEMMA CountTail ==
  ASSUME NEW s \in Seq(Frames), s # <<>>, NEW f
  PROVE  Count(s, f) = Count(Tail(s), f) + OneIf(Head(s) = f)
<1> DEFINE Of(t)  == {i \in DOMAIN t : t[i] = f}
           Behind == Of(s) \ {1}
           Move   == [i \in Of(Tail(s)) |-> i + 1]
<1>1. Tail(s) \in Seq(Frames) /\ Len(Tail(s)) = Len(s) - 1 /\ Len(s) \in Nat /\ Len(s) > 0
  OBVIOUS
<1>2. \A i \in 1 .. Len(s) - 1 : Tail(s)[i] = s[i + 1]
  OBVIOUS
<1>3. Of(Tail(s)) = {i \in 1 .. Len(s) - 1 : s[i + 1] = f} /\ Of(s) = {i \in 1 .. Len(s) : s[i] = f}
  BY <1>1, <1>2
<1>4. Move \in Bijection(Of(Tail(s)), Behind)
  <2>1. Move \in [Of(Tail(s)) -> Behind]
    BY <1>1, <1>3
  <2>2. \A i, j \in Of(Tail(s)) : Move[i] = Move[j] => i = j
    BY <1>1, <1>3
  <2>3. ASSUME NEW j \in Behind PROVE \E i \in Of(Tail(s)) : Move[i] = j
    <3>1. j - 1 \in Of(Tail(s)) /\ (j - 1) + 1 = j
      BY <1>1, <1>3
    <3> QED BY <3>1
  <2> QED BY <2>1, <2>2, <2>3, Fun_IsBij
<1>5. IsFiniteSet(Behind) /\ Cardinality(Behind) = Count(Tail(s), f)
  <2>1. IsFiniteSet(Of(Tail(s))) /\ Cardinality(Of(Tail(s))) = Count(Tail(s), f)
    BY <1>1, CountType DEF Count
  <2>2. ExistsBijection(Of(Tail(s)), Behind)
    BY <1>4 DEF ExistsBijection
  <2> QED BY <2>1, <2>2, FS_Bijection
<1>6. /\ Count(s, f) = Cardinality(Of(s))
      /\ Count(s, f) \in Nat /\ Count(Tail(s), f) \in Nat
  BY <1>1, CountType DEF Count
<1>7. CASE Head(s) = f
  <2>1. Of(s) = Behind \cup {1} /\ 1 \notin Behind
    BY <1>1, <1>3, <1>7
  <2>2. Cardinality(Behind \cup {1}) = Cardinality(Behind) + 1
    BY <1>5, <2>1, FS_AddElement
  <2> QED BY <1>5, <1>6, <1>7, <2>1, <2>2 DEF OneIf
<1>8. CASE Head(s) # f
  <2>1. Of(s) = Behind
    BY <1>1, <1>3, <1>8
  <2>2. OneIf(Head(s) = f) = 0
    BY <1>8 DEF OneIf
  <2>3. Count(s, f) = Count(Tail(s), f)
    BY <1>5, <1>6, <2>1
  <2> QED BY <1>6, <2>2, <2>3
<1> QED BY <1>7, <1>8

LEMMA CountFront ==
  ASSUME NEW s \in Seq(Frames), NEW p \in Frames, NEW f
  PROVE  Count(<<p>> \o s, f) = Count(s, f) + OneIf(p = f)
<1>1. /\ <<p>> \o s \in Seq(Frames) /\ <<p>> \o s # <<>>
      /\ Head(<<p>> \o s) = p /\ Tail(<<p>> \o s) = s
  OBVIOUS
<1>2. Count(<<p>> \o s, f) = Count(Tail(<<p>> \o s), f) + OneIf(Head(<<p>> \o s) = f)
  <2>1. \A u \in Seq(Frames) : u # <<>> => Count(u, f) = Count(Tail(u), f) + OneIf(Head(u) = f)
    BY CountTail
  <2> QED BY <1>1, <2>1
<1> QED BY <1>1, <1>2

\* The places of a frame, as FramesHaveOnePlace adds them up.
Places(f) == Count(m_emptyList, f) + Count(m_dataList, f) + Cardinality(Holders(f))
             + OneIf(filling = f) + OneIf(f \in unmade)

PlacesInv == IsFiniteSet(live) /\ FramesHaveOnePlace

LEMMA HoldersFinite ==
  ASSUME IsFiniteSet(live), NEW f
  PROVE  IsFiniteSet(Holders(f)) /\ Cardinality(Holders(f)) \in Nat
<1>1. IsFiniteSet(Holders(f))
  BY FS_Subset DEF Holders
<1> QED BY <1>1, FS_CardinalityType

LEMMA LiveFinite ==
  ASSUME IsFiniteSet(live), [Next]_vars
  PROVE  IsFiniteSet(live')
<1>1. (\E w \in Workers : live' = live \cup {w}) \/ live' \subseteq live
  <2>1. CASE Producer \/ (\E p \in Frames : initialize(p)) \/ UNCHANGED vars
    BY <2>1 DEF Producer, Take, Fill, Push, Raise, initialize, vars, threadVars
  <2>2. CASE Owner \/ Join
    BY <2>2 DEF Owner, Join, Thread!startThread, Thread!CreateThread, Thread!CreateFails,
       Thread!stopThread, Thread!StopTimesOut, Thread!StopJoins
  <2>3. ASSUME NEW w \in Workers, callBack(w) PROVE live' \subseteq live
    BY <2>3 DEF callBack, Poll, Leave, Look, Wake, TakeData, Finish, PutBack,
       Thread!theThread, threadVars
  <2> QED BY <2>1, <2>2, <2>3 DEF Next
<1> QED BY <1>1, FS_AddElement, FS_Subset

\* A worker that goes on leaves the frame it held and holds another, or none.
LEMMA HolderGoes ==
  ASSUME IInv, IsFiniteSet(live), NEW w \in live, NEW place, NEW p, NEW f,
         Goes(w, place, p), live' = live
  PROVE  /\ Cardinality(Holders(f))' \in Nat
         /\ Cardinality(Holders(f))' + OneIf(at[w] = "holds" /\ elem[w] = f)
              = Cardinality(Holders(f)) + OneIf(place = "holds" /\ p = f)
<1> DEFINE Others == Holders(f) \ {w}
<1>1. IsFiniteSet(Holders(f)) /\ Cardinality(Holders(f)) \in Nat
  BY HoldersFinite
<1>2. IsFiniteSet(Others) /\ Cardinality(Others) \in Nat /\ w \notin Others
  BY <1>1, FS_RemoveElement, FS_CardinalityType
<1>3. Cardinality(Holders(f)) = Cardinality(Others) + OneIf(at[w] = "holds" /\ elem[w] = f)
  <2>1. CASE at[w] = "holds" /\ elem[w] = f
    <3>1. Holders(f) = Others \cup {w}
      BY <2>1 DEF Holders
    <3>2. Cardinality(Others \cup {w}) = Cardinality(Others) + 1
      BY <1>2, FS_AddElement
    <3> QED BY <2>1, <3>1, <3>2 DEF OneIf
  <2>2. CASE ~(at[w] = "holds" /\ elem[w] = f)
    <3>1. Cardinality(Holders(f)) = Cardinality(Others) + 0
      <4>1. Holders(f) = Others
        BY <2>2 DEF Holders
      <4> QED BY <1>2, <4>1
    <3> QED BY <2>2, <3>1 DEF OneIf
  <2> QED BY <2>1, <2>2
<1>4. /\ \A v \in live : v # w => at'[v] = at[v] /\ elem'[v] = elem[v]
      /\ at'[w] = place /\ elem'[w] = p
  BY DEF Goes, IInv, WorkersInv, TypeOK, ListsOK
<1>5. Cardinality(Holders(f))' = Cardinality(Others) + OneIf(place = "holds" /\ p = f)
  <2>1. CASE place = "holds" /\ p = f
    <3>1. Holders(f)' = Others \cup {w}
      BY <1>4, <2>1 DEF Holders
    <3>2. Cardinality(Others \cup {w}) = Cardinality(Others) + 1
      BY <1>2, FS_AddElement
    <3> QED BY <2>1, <3>1, <3>2 DEF OneIf
  <2>2. CASE ~(place = "holds" /\ p = f)
    <3>1. Holders(f)' = Others
      BY <1>4, <2>2 DEF Holders
    <3>2. OneIf(place = "holds" /\ p = f) = 0
      BY <2>2 DEF OneIf
    <3> QED BY <1>2, <3>1, <3>2
  <2> QED BY <2>1, <2>2
<1>6. OneIf(at[w] = "holds" /\ elem[w] = f) \in Nat /\ OneIf(place = "holds" /\ p = f) \in Nat
  BY DEF OneIf
<1> QED BY <1>2, <1>3, <1>5, <1>6

LEMMA PlacesTypes ==
  ASSUME IInv, IsFiniteSet(live), NEW f \in Frames
  PROVE  /\ Count(m_emptyList, f) \in Nat /\ Count(m_dataList, f) \in Nat
         /\ Cardinality(Holders(f)) \in Nat
         /\ OneIf(filling = f) \in Nat /\ OneIf(f \in unmade) \in Nat
         /\ OneIf(nullptr = f) = 0
BY FrameWorkerAssumption, CountType, HoldersFinite DEF IInv, ListsOK, OneIf

\* The producer's frame is between the lists while it is filled.
LEMMA ProducerPlaces ==
  ASSUME IInv, IsFiniteSet(live), NEW f \in Frames,
         Producer \/ \E p \in Frames : initialize(p)
  PROVE  Places(f)' = Places(f)
<1>1. Holders(f)' = Holders(f)
  BY DEF Producer, Take, Fill, Push, Raise, initialize, workerVars, threadVars, Holders
<1>2. ASSUME NEW p \in Frames, initialize(p) PROVE Places(f)' = Places(f)
  <2>1. /\ p \in unmade /\ unmade' = unmade \ {p} /\ m_emptyList' = Append(m_emptyList, p)
        /\ UNCHANGED <<m_dataList, filling>>
    BY <1>2 DEF initialize, List!addOneFree, producerVars
  <2>2. Count(m_emptyList', f) = Count(m_emptyList, f) + OneIf(p = f)
    BY <2>1, CountAppend DEF IInv, ListsOK
  <2>3. OneIf(f \in unmade') + OneIf(p = f) = OneIf(f \in unmade)
    BY <2>1 DEF OneIf
  <2>4. OneIf(f \in unmade') \in Nat /\ OneIf(p = f) \in Nat
    BY DEF OneIf
  <2>5. UNCHANGED <<m_dataList, filling>>
    BY <2>1
  <2> QED BY <1>1, <2>2, <2>3, <2>4, <2>5, PlacesTypes DEF Places
<1>3. CASE Take
  <2>1. UNCHANGED <<m_dataList, unmade>>
    BY <1>3 DEF Take, List!pop_front_empty
  <2>2. Count(m_emptyList', f) + OneIf(filling' = f) = Count(m_emptyList, f)
    <3>1. CASE m_emptyList # <<>> /\ filling' = Head(m_emptyList) /\ m_emptyList' = Tail(m_emptyList)
      <4>1. Count(m_emptyList, f) = Count(Tail(m_emptyList), f) + OneIf(Head(m_emptyList) = f)
        BY <3>1, CountTail DEF IInv, ListsOK
      <4> QED BY <3>1, <4>1
    <3>2. CASE filling' = nullptr /\ UNCHANGED m_emptyList
      BY <3>2, PlacesTypes
    <3> QED BY <1>3, <3>1, <3>2 DEF Take, List!pop_front_empty
  <2>3. OneIf(filling' = f) \in Nat /\ Count(m_emptyList', f) \in Nat
    BY <1>3, ListsKept, CountType DEF OneIf, IInv, ListsOK, Next, Producer
  <2>4. OneIf(filling = f) = 0
    BY <1>3, PlacesTypes DEF Take
  <2> QED BY <1>1, <2>1, <2>2, <2>3, <2>4, PlacesTypes DEF Places
<1>4. CASE Fill \/ Raise
  BY <1>1, <1>4 DEF Fill, Raise, listVars, Places
<1>5. CASE Push
  <2>1. /\ filling # nullptr /\ filling' = nullptr /\ m_dataList' = Append(m_dataList, filling)
        /\ UNCHANGED <<m_emptyList, unmade>>
    BY <1>5 DEF Push, List!push_back_data
  <2>2. Count(m_dataList', f) = Count(m_dataList, f) + OneIf(filling = f)
    BY <2>1, CountAppend DEF IInv, ListsOK, Pointers
  <2>3. OneIf(filling' = f) = 0
    BY <2>1, PlacesTypes
  <2> QED BY <1>1, <2>1, <2>2, <2>3, PlacesTypes DEF Places
<1> QED BY <1>2, <1>3, <1>4, <1>5 DEF Producer

\* A frame a worker holds came off the data and goes back to one of the lists.
LEMMA WorkerPlaces ==
  ASSUME IInv, IsFiniteSet(live), NEW f \in Frames, NEW w \in Workers, callBack(w)
  PROVE  Places(f)' = Places(f)
<1>1. UNCHANGED <<filling, unmade>>
  BY DEF callBack, Poll, Leave, Look, Wake, TakeData, Finish, PutBack, producerVars
<1> DEFINE Held == OneIf(at[w] = "holds" /\ elem[w] = f)
<1>2. Held \in Nat
  BY DEF OneIf
<1>3. CASE Leave(w)
  <2>1. Holders(f)' = Holders(f) /\ UNCHANGED listVars
    BY <1>3 DEF Leave, At, Thread!theThread, workerVars, Holders
  <2> QED BY <1>1, <2>1 DEF listVars, Places
<1>4. CASE Poll(w) \/ Look(w) \/ Wake(w)
  <2>1. PICK place, p : /\ Goes(w, place, p) /\ place # "holds" /\ at[w] # "holds"
                        /\ w \in live /\ live' = live /\ UNCHANGED listVars
    BY <1>4 DEF Poll, Look, Wake, At, List!getHeadDataRef, listVars, threadVars
  <2>2. Held = 0 /\ OneIf(place = "holds" /\ p = f) = 0
    BY <2>1 DEF OneIf
  <2>3. /\ Cardinality(Holders(f))' \in Nat
        /\ Cardinality(Holders(f))' + Held = Cardinality(Holders(f)) + OneIf(place = "holds" /\ p = f)
    BY <2>1, HolderGoes
  <2>4. Cardinality(Holders(f))' = Cardinality(Holders(f))
    BY <2>2, <2>3, PlacesTypes
  <2> QED BY <1>1, <2>1, <2>4 DEF listVars, Places
<1>5. CASE TakeData(w)
  <2>1. PICK p \in Pointers : List!pop_front_data(p) /\ Goes(w, "holds", p)
    BY <1>5 DEF TakeData
  <2>2. at[w] = "peeked" /\ w \in live /\ live' = live /\ m_emptyList' = m_emptyList
    BY <1>5, <2>1 DEF TakeData, At, List!pop_front_data, threadVars
  <2>3. Held = 0 /\ OneIf("holds" = "holds" /\ p = f) = OneIf(p = f)
    BY <2>2 DEF OneIf
  <2>4. /\ Cardinality(Holders(f))' \in Nat
        /\ Cardinality(Holders(f))' + Held = Cardinality(Holders(f)) + OneIf("holds" = "holds" /\ p = f)
    BY <2>1, <2>2, HolderGoes
  <2>5. Count(m_dataList', f) + OneIf(p = f) = Count(m_dataList, f)
    <3>1. CASE m_dataList # <<>> /\ p = Head(m_dataList) /\ m_dataList' = Tail(m_dataList)
      <4>1. Count(m_dataList, f) = Count(Tail(m_dataList), f) + OneIf(Head(m_dataList) = f)
        BY <3>1, CountTail DEF IInv, ListsOK
      <4> QED BY <3>1, <4>1
    <3>2. CASE p = nullptr /\ UNCHANGED m_dataList
      BY <3>2, PlacesTypes
    <3> QED BY <2>1, <3>1, <3>2 DEF List!pop_front_data
  <2>6. Count(m_dataList', f) \in Nat /\ OneIf(p = f) \in Nat
    BY <1>5, ListsKept, CountType DEF OneIf, IInv, ListsOK, Next, callBack
  <2>7. Count(m_dataList', f) + Cardinality(Holders(f))' = Count(m_dataList, f) + Cardinality(Holders(f))
    BY <2>3, <2>4, <2>5, <2>6, PlacesTypes
  <2>8. OneIf(f \in unmade) \in Nat /\ OneIf(filling = f) \in Nat /\ Count(m_emptyList, f) \in Nat
    BY PlacesTypes
  <2> QED BY <1>1, <2>2, <2>4, <2>6, <2>7, <2>8, PlacesTypes DEF Places
<1>6. CASE Finish(w) \/ PutBack(w)
  <2>1. Goes(w, "loop", nullptr) /\ at[w] = "holds" /\ w \in live /\ live' = live
    BY <1>6 DEF Finish, PutBack, At, threadVars
  <2>2. Held = OneIf(elem[w] = f) /\ OneIf("loop" = "holds" /\ nullptr = f) = 0
    BY <2>1 DEF OneIf
  <2>3. /\ Cardinality(Holders(f))' \in Nat
        /\ Cardinality(Holders(f))' + Held = Cardinality(Holders(f)) + OneIf("loop" = "holds" /\ nullptr = f)
    BY <2>1, HolderGoes
  <2>4. /\ Count(m_emptyList', f) \in Nat /\ Count(m_dataList', f) \in Nat
        /\ Count(m_emptyList', f) + Count(m_dataList', f)
             = Count(m_emptyList, f) + Count(m_dataList, f) + OneIf(elem[w] = f)
    <3>1. CASE elem[w] = nullptr
      <4>1. UNCHANGED <<m_emptyList, m_dataList>>
        BY <1>6, <3>1 DEF Finish, PutBack, List!push_back_empty, List!push_front_data
      <4> QED BY <3>1, <4>1, PlacesTypes
    <3>2. CASE elem[w] # nullptr
      <4>0. Count(m_emptyList, f) \in Nat /\ Count(m_dataList, f) \in Nat
        BY PlacesTypes
      <4>1. elem[w] \in Frames /\ OneIf(elem[w] = f) \in Nat
        BY <3>2 DEF IInv, ListsOK, Pointers, OneIf
      <4>2. CASE Finish(w)
        <5>1. m_emptyList' = Append(m_emptyList, elem[w]) /\ UNCHANGED m_dataList
          BY <3>2, <4>2 DEF Finish, List!push_back_empty
        <5>2. Count(m_emptyList', f) = Count(m_emptyList, f) + OneIf(elem[w] = f)
          BY <4>1, <5>1, CountAppend DEF IInv, ListsOK
        <5>3. Count(m_dataList', f) = Count(m_dataList, f)
          BY <5>1
        <5> QED BY <4>0, <4>1, <5>2, <5>3
      <4>3. CASE PutBack(w)
        <5>1. m_dataList' = <<elem[w]>> \o m_dataList /\ UNCHANGED m_emptyList
          BY <3>2, <4>3 DEF PutBack, List!push_front_data
        <5>2. Count(m_dataList', f) = Count(m_dataList, f) + OneIf(elem[w] = f)
          BY <4>1, <5>1, CountFront DEF IInv, ListsOK
        <5>3. Count(m_emptyList', f) = Count(m_emptyList, f)
          BY <5>1
        <5> QED BY <4>0, <4>1, <5>2, <5>3
      <4> QED BY <1>6, <4>2, <4>3
    <3> QED BY <3>1, <3>2
  <2>5. Count(m_emptyList', f) + Count(m_dataList', f) + Cardinality(Holders(f))'
          = Count(m_emptyList, f) + Count(m_dataList, f) + Cardinality(Holders(f))
    BY <1>2, <2>2, <2>3, <2>4, PlacesTypes
  <2> QED BY <1>1, <2>3, <2>4, <2>5, PlacesTypes DEF Places
<1> QED BY <1>3, <1>4, <1>5, <1>6 DEF callBack

\* The owner starts workers that hold nothing.
LEMMA OwnerPlaces ==
  ASSUME IInv, IsFiniteSet(live), NEW f \in Frames, Owner \/ Join
  PROVE  Places(f)' = Places(f)
<1>1. UNCHANGED <<m_emptyList, m_dataList, filling, unmade, at, elem>>
  BY DEF Owner, Join, listVars, producerVars, workerVars
<1>2. (\E w \in Workers \ live : live' = live \cup {w}) \/ live' = live
  BY DEF Owner, Join, Thread!startThread, Thread!CreateThread, Thread!CreateFails,
     Thread!stopThread, Thread!StopTimesOut, Thread!StopJoins, IInv, WorkersInv, TypeOK
<1>3. \A w \in Workers \ live : at[w] # "holds"
  BY DEF IInv, WorkersInv, ThreadsOK
<1>4. Holders(f)' = Holders(f)
  BY <1>1, <1>2, <1>3 DEF Holders
<1> QED BY <1>1, <1>4 DEF Places

LEMMA PlacesInductive == Spec => []PlacesInv
<1>1. Init => PlacesInv
  <2> SUFFICES ASSUME Init PROVE PlacesInv
    OBVIOUS
  <2>1. live = {} /\ m_emptyList = <<>> /\ m_dataList = <<>> /\ filling = nullptr /\ unmade = Frames
    BY DEF Init, List!Init, Thread!Init
  <2>2. IsFiniteSet({}) /\ Cardinality({}) = 0
    BY FS_EmptySet
  <2>3. ASSUME NEW f \in Frames PROVE Count(<<>>, f) = 0 /\ Holders(f) = {} /\ nullptr # f
    <3>1. {i \in DOMAIN <<>> : <<>>[i] = f} = {}
      OBVIOUS
    <3> QED BY <2>1, <2>2, <3>1, FrameWorkerAssumption DEF Count, Holders
  <2>4. FramesHaveOnePlace
    <3> SUFFICES ASSUME NEW f \in Frames
                 PROVE  Count(m_emptyList, f) + Count(m_dataList, f) + Cardinality(Holders(f))
                          + (IF filling = f THEN 1 ELSE 0) + (IF f \in unmade THEN 1 ELSE 0) = 1
      BY DEF FramesHaveOnePlace
    <3>1. Count(m_emptyList, f) = 0 /\ Count(m_dataList, f) = 0 /\ Cardinality(Holders(f)) = 0
      BY <2>1, <2>2, <2>3
    <3>2. filling # f /\ f \in unmade
      BY <2>1, <2>3
    <3> QED BY <3>1, <3>2
  <2> QED BY <2>1, <2>2, <2>4 DEF PlacesInv
<1>2. IInv /\ PlacesInv /\ [Next]_vars => PlacesInv'
  <2> SUFFICES ASSUME IInv, PlacesInv, [Next]_vars PROVE PlacesInv'
    OBVIOUS
  <2>1. IsFiniteSet(live) /\ IsFiniteSet(live')
    BY LiveFinite DEF PlacesInv
  <2>2. ASSUME NEW f \in Frames PROVE Places(f)' = Places(f)
    <3>1. CASE UNCHANGED vars
      BY <3>1 DEF vars, listVars, threadVars, producerVars, workerVars, Places, Holders
    <3> QED BY <2>1, <3>1, ProducerPlaces, WorkerPlaces, OwnerPlaces DEF Next
  <2>3. \A f \in Frames : Places(f) = 1
    BY DEF PlacesInv, FramesHaveOnePlace, Places, OneIf
  <2>4. \A f \in Frames : Places(f)' = 1
    BY <2>2, <2>3
  <2>5. FramesHaveOnePlace'
    BY <2>4 DEF FramesHaveOnePlace, Places, OneIf
  <2> QED BY <2>1, <2>5 DEF PlacesInv
<1> QED BY <1>1, <1>2, Inductive, PTL DEF Spec

-----------------------------------------------------------------------------
\* The pictures: which number is in which frame.

\* The frames with a picture that is pushed and not finished with.
InFlight == {f \in Frames : Count(m_dataList, f) > 0 \/ Holders(f) # {}}
Settled  == {f \in Frames : Count(m_emptyList, f) > 0 \/ filling = f \/ f \in unmade}
Numbers  == {picture[f] : f \in InFlight}

PicturesInv ==
  /\ made \in Nat /\ picture \in [Frames -> Nat]
  /\ \A f, g \in InFlight : picture[f] = picture[g] => f = g
  /\ Numbers \cap done = {} /\ Numbers \cup done = 1 .. made

\* As every frame has one place, the frames in flight are those in no other.
LEMMA InFlightIsTheRest == IInv /\ PlacesInv => InFlight = Frames \ Settled
<1> SUFFICES ASSUME IInv, PlacesInv, NEW f \in Frames
             PROVE  f \in InFlight <=> f \notin Settled
  BY DEF InFlight, Settled
<1> DEFINE E == Count(m_emptyList, f)
           D == Count(m_dataList, f)
           H == Cardinality(Holders(f))
           F == OneIf(filling = f)
           U == OneIf(f \in unmade)
<1>1. E \in Nat /\ D \in Nat /\ H \in Nat /\ F \in Nat /\ U \in Nat
  BY PlacesTypes DEF PlacesInv
<1>2. E + D + H + F + U = 1
  BY DEF PlacesInv, FramesHaveOnePlace, OneIf
<1>3. H = 0 <=> Holders(f) = {}
  BY HoldersFinite, FS_EmptySet DEF PlacesInv
<1>4. (F > 0 <=> filling = f) /\ (U > 0 <=> f \in unmade)
  BY DEF OneIf
<1>5. f \in InFlight <=> D > 0 \/ H > 0
  BY <1>1, <1>3 DEF InFlight
<1>6. f \in Settled <=> E > 0 \/ F > 0 \/ U > 0
  BY <1>4 DEF Settled
<1>7. D > 0 \/ H > 0 <=> ~(E > 0 \/ F > 0 \/ U > 0)
  <2> HIDE DEF E, D, H, F, U
  <2> QED BY <1>1, <1>2
<1> QED BY <1>5, <1>6, <1>7

\* What a push and a finish do to the frames in flight, and that nothing else
\* does anything to them.
LEMMA SettledChanges ==
  ASSUME IInv, PlacesInv, [Next]_vars
  PROVE  \/ Push /\ filling \in Settled /\ Settled' = Settled \ {filling}
         \/ \E w \in Workers : Finish(w) /\ elem[w] # nullptr /\ Settled' = Settled \cup {elem[w]}
         \/ Fill /\ Settled' = Settled /\ done' = done
         \/ Settled' = Settled /\ UNCHANGED <<picture, made, done>>
<1> USE FrameWorkerAssumption DEF Pointers
<1>0. nullptr \notin Frames /\ filling \in Frames \cup {nullptr}
  BY DEF IInv, ListsOK
<1>1. ASSUME NEW p \in Frames, initialize(p)
      PROVE  Settled' = Settled /\ UNCHANGED <<picture, made, done>>
  <2>1. /\ p \in unmade /\ unmade' = unmade \ {p} /\ m_emptyList' = Append(m_emptyList, p)
        /\ UNCHANGED <<filling, picture, made, done>>
    BY <1>1 DEF initialize, List!addOneFree, producerVars, workerVars
  <2>2. ASSUME NEW f \in Frames
        PROVE  Count(m_emptyList', f) > 0 <=> Count(m_emptyList, f) > 0 \/ f = p
    <3>1. Count(m_emptyList', f) = Count(m_emptyList, f) + OneIf(p = f)
      BY <2>1, CountAppend DEF IInv, ListsOK
    <3>2. Count(m_emptyList, f) \in Nat
      BY CountType DEF IInv, ListsOK
    <3> QED BY <3>1, <3>2 DEF OneIf
  <2> QED BY <2>1, <2>2 DEF Settled
<1>2. ASSUME Take PROVE Settled' = Settled /\ UNCHANGED <<picture, made, done>>
  <2>1. UNCHANGED <<unmade, picture, made, done>> /\ filling = nullptr
    BY <1>2 DEF Take, workerVars
  <2>2. ASSUME NEW f \in Frames
        PROVE  Count(m_emptyList, f) > 0 <=> Count(m_emptyList', f) > 0 \/ filling' = f
    <3>1. CASE m_emptyList # <<>> /\ filling' = Head(m_emptyList) /\ m_emptyList' = Tail(m_emptyList)
      <4>1. Count(m_emptyList, f) = Count(Tail(m_emptyList), f) + OneIf(Head(m_emptyList) = f)
        BY <3>1, CountTail DEF IInv, ListsOK
      <4>2. Count(Tail(m_emptyList), f) \in Nat
        <5>1. Tail(m_emptyList) \in Seq(Frames)
          BY <3>1 DEF IInv, ListsOK
        <5> QED BY <5>1, CountType
      <4> QED BY <3>1, <4>1, <4>2 DEF OneIf
    <3>2. CASE filling' = nullptr /\ UNCHANGED m_emptyList
      BY <3>2
    <3> QED BY <1>2, <3>1, <3>2 DEF Take, List!pop_front_empty
  <2> QED BY <1>0, <2>1, <2>2 DEF Settled
<1>3. ASSUME Push PROVE filling \in Settled /\ Settled' = Settled \ {filling}
  <2>1. /\ filling \in Frames /\ filling' = nullptr
        /\ UNCHANGED <<m_emptyList, unmade>>
    BY <1>0, <1>3 DEF Push, List!push_back_data
  <2>2. Count(m_emptyList, filling) = 0 /\ filling \notin unmade
    <3> DEFINE E == Count(m_emptyList, filling)
               D == Count(m_dataList, filling)
               H == Cardinality(Holders(filling))
               U == OneIf(filling \in unmade)
    <3>1. E \in Nat /\ D \in Nat /\ H \in Nat /\ U \in Nat
      BY <2>1, PlacesTypes DEF PlacesInv
    <3>2. E + D + H + 1 + U = 1
      BY <2>1 DEF PlacesInv, FramesHaveOnePlace, OneIf
    <3>3. E = 0 /\ U = 0
      <4> HIDE DEF E, D, H, U
      <4> QED BY <3>1, <3>2
    <3> QED BY <3>3 DEF OneIf
  <2> QED BY <2>1, <2>2 DEF Settled
<1>4. ASSUME Fill PROVE Settled' = Settled /\ done' = done
  BY <1>4 DEF Fill, listVars, workerVars, Settled
<1>5. ASSUME Raise \/ Owner \/ Join \/ UNCHANGED vars
      PROVE  Settled' = Settled /\ UNCHANGED <<picture, made, done>>
  BY <1>5 DEF Raise, Owner, Join, vars, listVars, producerVars, workerVars, Settled
<1>6. ASSUME NEW w \in Workers, callBack(w)
      PROVE  \/ Finish(w) /\ elem[w] # nullptr /\ Settled' = Settled \cup {elem[w]}
             \/ Settled' = Settled /\ UNCHANGED <<picture, made, done>>
  <2>1. UNCHANGED <<filling, unmade, picture, made>>
    BY <1>6 DEF callBack, Poll, Leave, Look, Wake, TakeData, Finish, PutBack, producerVars
  <2>2. CASE ~Finish(w)
    <3>1. UNCHANGED <<m_emptyList, done>>
      BY <1>6, <2>2 DEF callBack, Poll, Leave, Look, Wake, TakeData, PutBack, listVars, workerVars,
         List!getHeadDataRef, List!pop_front_data, List!push_front_data
    <3> QED BY <2>1, <3>1 DEF Settled
  <2>3. CASE Finish(w) /\ elem[w] = nullptr
    BY <2>1, <2>3 DEF Finish, List!push_back_empty, Settled
  <2>4. CASE Finish(w) /\ elem[w] # nullptr
    <3>1. elem[w] \in Frames /\ m_emptyList' = Append(m_emptyList, elem[w])
      BY <2>4 DEF Finish, List!push_back_empty, IInv, ListsOK
    <3>2. ASSUME NEW f \in Frames
          PROVE  Count(m_emptyList', f) > 0 <=> Count(m_emptyList, f) > 0 \/ f = elem[w]
      <4>1. Count(m_emptyList', f) = Count(m_emptyList, f) + OneIf(elem[w] = f)
        BY <3>1, CountAppend DEF IInv, ListsOK
      <4>2. Count(m_emptyList, f) \in Nat
        BY CountType DEF IInv, ListsOK
      <4> QED BY <4>1, <4>2 DEF OneIf
    <3> QED BY <2>1, <2>4, <3>1, <3>2 DEF Settled
  <2> QED BY <2>2, <2>3, <2>4
<1> QED BY <1>1, <1>2, <1>3, <1>4, <1>5, <1>6 DEF Next, Producer

\* A push gives a number of its own and a finish takes one away, so no number
\* is in two frames or both waits and is done.
LEMMA PicturesStep ==
  ASSUME IInv, PlacesInv, PicturesInv, [Next]_vars, (IInv /\ PlacesInv)'
  PROVE  PicturesInv'
<1>0. InFlight = Frames \ Settled /\ InFlight' = Frames \ Settled'
  <2>1. InFlight = Frames \ Settled
    BY InFlightIsTheRest
  <2>2. (IInv /\ PlacesInv => InFlight = Frames \ Settled)'
    BY InFlightIsTheRest, PTL
  <2> QED BY <2>1, <2>2
<1>1. CASE Push /\ filling \in Settled /\ Settled' = Settled \ {filling}
  <2>1. /\ picture[filling] = made + 1 /\ made' = made + 1 /\ UNCHANGED <<picture, done>>
        /\ filling \in Frames
    BY <1>1 DEF Push, workerVars, Settled
  <2>2. InFlight' = InFlight \cup {filling} /\ filling \notin InFlight
    BY <1>0, <1>1, <2>1
  <2>3. made + 1 \notin Numbers \cup done /\ 1 .. made + 1 = 1 .. made \cup {made + 1}
    BY DEF PicturesInv
  <2>4. Numbers' = Numbers \cup {made + 1}
    BY <2>1, <2>2 DEF Numbers
  <2>5. \A f \in InFlight : picture[f] # made + 1
    BY <2>3 DEF Numbers
  <2>6. \A f, g \in InFlight' : picture'[f] = picture'[g] => f = g
    BY <2>1, <2>2, <2>5 DEF PicturesInv
  <2>7. Numbers' \cap done' = {} /\ Numbers' \cup done' = 1 .. made'
    BY <2>1, <2>3, <2>4 DEF PicturesInv
  <2> QED BY <2>1, <2>6, <2>7 DEF PicturesInv
<1>2. ASSUME NEW w \in Workers, Finish(w), elem[w] # nullptr, Settled' = Settled \cup {elem[w]}
      PROVE  PicturesInv'
  <2>1. /\ done' = done \cup {picture[elem[w]]} /\ UNCHANGED <<picture, made>>
        /\ w \in live /\ at[w] = "holds" /\ elem[w] \in Frames
    BY <1>2 DEF Finish, At, producerVars, IInv, ListsOK, Pointers
  <2>2. elem[w] \in InFlight
    BY <2>1 DEF InFlight, Holders
  <2>3. InFlight' = InFlight \ {elem[w]}
    BY <1>0, <1>2
  <2>4. Numbers' = Numbers \ {picture[elem[w]]} /\ picture[elem[w]] \in Numbers
    BY <2>1, <2>2, <2>3 DEF Numbers, PicturesInv
  <2>5. \A f, g \in InFlight' : picture'[f] = picture'[g] => f = g
    BY <2>1, <2>3 DEF PicturesInv
  <2> QED BY <2>1, <2>4, <2>5 DEF PicturesInv
<1>3. CASE Fill /\ Settled' = Settled /\ done' = done
  <2>1. /\ filling # nullptr /\ picture' = [picture EXCEPT ![filling] = made + 1] /\ made' = made
    BY <1>3 DEF Fill
  <2>2. filling \in Settled
    BY <2>1 DEF IInv, ListsOK, Pointers, Settled
  <2>3. InFlight' = InFlight /\ \A f \in InFlight : picture'[f] = picture[f]
    BY <1>0, <1>3, <2>1, <2>2 DEF PicturesInv
  <2>4. Numbers' = Numbers
    BY <2>3 DEF Numbers
  <2>5. picture' \in [Frames -> Nat]
    <3>1. made + 1 \in Nat /\ picture \in [Frames -> Nat]
      BY DEF PicturesInv
    <3> QED BY <2>1, <3>1
  <2> QED BY <1>3, <2>1, <2>3, <2>4, <2>5 DEF PicturesInv
<1>4. CASE Settled' = Settled /\ UNCHANGED <<picture, made, done>>
  BY <1>0, <1>4 DEF PicturesInv, Numbers
<1> QED BY <1>1, <1>2, <1>3, <1>4, SettledChanges

LEMMA PicturesInductive == Spec => []PicturesInv
<1>1. Init => PicturesInv
  <2> SUFFICES ASSUME Init PROVE PicturesInv
    OBVIOUS
  <2>1. m_dataList = <<>> /\ live = {} /\ made = 0 /\ done = {} /\ picture = [f \in Frames |-> 0]
    BY DEF Init, List!Init, Thread!Init
  <2>2. ASSUME NEW f \in Frames PROVE ~(Count(<<>>, f) > 0) /\ Holders(f) = {}
    <3>1. {i \in DOMAIN <<>> : <<>>[i] = f} = {}
      OBVIOUS
    <3> QED BY <2>1, <3>1, FS_EmptySet DEF Count, Holders
  <2>3. InFlight = {}
    BY <2>1, <2>2 DEF InFlight
  <2> QED BY <2>1, <2>3 DEF PicturesInv, Numbers
<1>2. IInv /\ PlacesInv /\ PicturesInv /\ [Next]_vars /\ (IInv /\ PlacesInv)' => PicturesInv'
  BY PicturesStep
<1> QED BY <1>1, <1>2, Inductive, PlacesInductive, PTL DEF Spec

\* There are as many numbers as frames in flight: each has one of its own.
LEMMA EachHasItsNumber ==
  ASSUME IInv, PlacesInv, PicturesInv
  PROVE  EachPictureOnce
<1>1. IsFiniteSet(InFlight)
  <2> DEFINE Listed == {m_dataList[i] : i \in DOMAIN m_dataList}
             Held   == {elem[w] : w \in live}
  <2>1. DOMAIN m_dataList = 1 .. Len(m_dataList) /\ Len(m_dataList) \in Nat
    BY DEF IInv, ListsOK
  <2>2. IsFiniteSet(DOMAIN m_dataList) /\ IsFiniteSet(live)
    BY <2>1, FS_Interval DEF PlacesInv
  <2>3. IsFiniteSet(Listed)
    <3>1. [i \in DOMAIN m_dataList |-> m_dataList[i]] \in Surjection(DOMAIN m_dataList, Listed)
      BY Fun_IsSurj
    <3> QED BY <2>2, <3>1, FS_Surjection
  <2>4. IsFiniteSet(Held)
    <3>1. [w \in live |-> elem[w]] \in Surjection(live, Held)
      BY Fun_IsSurj
    <3> QED BY <2>2, <3>1, FS_Surjection
  <2>5. ASSUME NEW f \in InFlight PROVE f \in Listed \cup Held
    <3>1. CASE Count(m_dataList, f) > 0
      <4>1. Count(m_dataList, f) # 0
        BY <3>1, CountType DEF IInv, ListsOK
      <4>2. {i \in DOMAIN m_dataList : m_dataList[i] = f} # {}
        BY <4>1, FS_EmptySet DEF Count
      <4> QED BY <4>2
    <3>2. CASE Holders(f) # {}
      BY <3>2 DEF Holders
    <3> QED BY <3>1, <3>2 DEF InFlight
  <2> QED BY <2>3, <2>4, <2>5, FS_Union, FS_Subset
<1> DEFINE number == [f \in InFlight |-> picture[f]]
<1>2. number \in Bijection(InFlight, Numbers)
  <2>1. number \in [InFlight -> Numbers]
    BY DEF Numbers
  <2>2. \A f, g \in InFlight : number[f] = number[g] => f = g
    BY DEF PicturesInv
  <2>3. \A n \in Numbers : \E f \in InFlight : number[f] = n
    BY DEF Numbers
  <2> QED BY <2>1, <2>2, <2>3, Fun_IsBij
<1>3. Cardinality(Numbers) = Cardinality(InFlight)
  BY <1>1, <1>2, FS_Bijection DEF ExistsBijection
<1> QED BY <1>3 DEF EachPictureOnce, PicturesInv, Numbers, InFlight

-----------------------------------------------------------------------------
\* Their order, as long as no stop gave up on a worker.

Held == {w \in live : at[w] = "holds" /\ elem[w] # nullptr}

OrderInv ==
  left = {} =>
    \E n \in Nat : /\ done = 1 .. n /\ made = n + Len(Waiting)
                   /\ \A i \in DOMAIN Waiting : picture[Waiting[i]] = n + i

PeekInv ==
  left = {} => \A w \in live : at[w] = "peeked" => m_dataList # <<>> /\ elem[w] = Head(m_dataList)

\* With one worker at most, Waiting is the frame it holds before the data.
WaitingShape ==
  /\ Held = {} => Waiting = m_dataList
  /\ \A w \in live : Held = {w} => Waiting = <<elem[w]>> \o m_dataList
  /\ Held # {} => \E w \in live : Held = {w}
  /\ Waiting \in Seq(Frames)

LEMMA WaitingHasShape == IInv /\ left = {} => WaitingShape
<1> SUFFICES ASSUME IInv, left = {} PROVE WaitingShape
  OBVIOUS
<1>1. m_dataList \in Seq(Frames)
  BY DEF IInv, ListsOK
<1>2. Held = {} => Waiting = m_dataList
  <2>1. Held = {} => Waiting = <<>> \o m_dataList
    BY DEF Waiting, Held
  <2> QED BY <1>1, <2>1
<1>3. ASSUME NEW w \in live, Held = {w} PROVE Waiting = <<elem[w]>> \o m_dataList
  BY <1>3 DEF Waiting, Held
<1>4. ASSUME NEW w \in Held PROVE w \in live /\ Held = {w}
  BY OneAtATime DEF IInv, WorkersInv, Held
<1>5. \A w \in Held : elem[w] \in Frames
  BY DEF Held, IInv, WorkersInv, TypeOK, ListsOK, Pointers
<1>6. Waiting \in Seq(Frames)
  <2>1. CASE Held = {}
    BY <1>1, <1>2, <2>1
  <2>2. CASE Held # {}
    <3>1. PICK w \in live : Held = {w}
      BY <1>4, <2>2
    <3>2. Waiting = <<elem[w]>> \o m_dataList /\ elem[w] \in Frames
      BY <1>3, <1>5, <3>1
    <3> QED BY <1>1, <3>2
  <2> QED BY <2>1, <2>2
<1> QED BY <1>2, <1>3, <1>4, <1>6 DEF WaitingShape

LEMMA WaitingInFlight ==
  ASSUME IInv, left = {}, NEW i \in DOMAIN Waiting
  PROVE  Waiting[i] \in InFlight
<1>1. WaitingShape
  BY WaitingHasShape
<1>2. ASSUME NEW j \in DOMAIN m_dataList PROVE m_dataList[j] \in InFlight
  <2> DEFINE f == m_dataList[j]
             Of == {k \in DOMAIN m_dataList : m_dataList[k] = f}
  <2>1. f \in Frames
    BY DEF IInv, ListsOK
  <2>2. IsFiniteSet(Of) /\ Count(m_dataList, f) \in Nat
    BY CountType DEF IInv, ListsOK
  <2>3. Cardinality(Of) # 0
    BY <2>2, FS_EmptySet
  <2>4. Count(m_dataList, f) = Cardinality(Of)
    BY DEF Count
  <2>5. Count(m_dataList, f) > 0
    <3> HIDE DEF f, Of
    <3> QED BY <2>2, <2>3, <2>4
  <2> QED BY <2>1, <2>5 DEF InFlight
<1>3. CASE Held = {}
  BY <1>1, <1>2, <1>3 DEF WaitingShape
<1>4. CASE Held # {}
  <2>1. PICK w \in live : Held = {w}
    BY <1>1, <1>4 DEF WaitingShape
  <2>2. Waiting = <<elem[w]>> \o m_dataList /\ m_dataList \in Seq(Frames)
    BY <1>1, <2>1 DEF WaitingShape, IInv, ListsOK
  <2>3. elem[w] \in InFlight
    <3>1. w \in Held
      BY <2>1
    <3>2. w \in live /\ at[w] = "holds" /\ elem[w] \in Frames
      BY <3>1 DEF Held, IInv, WorkersInv, TypeOK, ListsOK, Pointers
    <3> QED BY <3>2 DEF InFlight, Holders
  <2>4. CASE i = 1
    <3>1. Waiting[i] = elem[w]
      BY <2>2, <2>4
    <3> QED BY <2>3, <3>1
  <2>5. CASE i # 1
    <3>1. i - 1 \in DOMAIN m_dataList /\ Waiting[i] = m_dataList[i - 1]
      BY <2>2, <2>5
    <3> QED BY <1>2, <3>1
  <2> QED BY <2>4, <2>5
<1> QED BY <1>3, <1>4

\* A push adds a frame at the end, a finish takes the first one away; to take
\* a frame from the data and to put it back changes nothing.
LEMMA WaitingChanges ==
  ASSUME IInv, IInv', PeekInv, left = {}, left' = {}, [Next]_vars
  PROVE  \/ Push /\ Waiting' = Append(Waiting, filling)
         \/ \E w \in Workers : /\ Finish(w) /\ elem[w] \in Frames
                               /\ Waiting = <<elem[w]>> \o Waiting'
         \/ Fill /\ Waiting' = Waiting /\ UNCHANGED <<made, done>>
         \/ Waiting' = Waiting /\ UNCHANGED <<picture, made, done>>
<1>0. /\ WaitingShape /\ WaitingShape'
      /\ m_dataList \in Seq(Frames) /\ m_dataList' \in Seq(Frames)
      /\ nullptr \notin Frames
  <2>1. WaitingShape
    BY WaitingHasShape
  <2>2. (IInv /\ left = {} => WaitingShape)'
    BY WaitingHasShape, PTL
  <2> QED BY <2>1, <2>2, FrameWorkerAssumption DEF IInv, ListsOK
<1>1. ASSUME UNCHANGED <<m_dataList, live, at, elem>> PROVE Waiting' = Waiting
  BY <1>1 DEF Waiting
<1>2. ASSUME \/ Take \/ Raise \/ UNCHANGED vars \/ \E p \in Frames : initialize(p)
      PROVE  Waiting' = Waiting /\ UNCHANGED <<picture, made, done>>
  BY <1>1, <1>2 DEF Take, Raise, vars, initialize, List!addOneFree, List!pop_front_empty,
     listVars, threadVars, producerVars, workerVars
<1>3. ASSUME Fill PROVE Waiting' = Waiting /\ UNCHANGED <<made, done>>
  BY <1>1, <1>3 DEF Fill, listVars, threadVars, workerVars
<1>4. ASSUME Push PROVE Waiting' = Append(Waiting, filling)
  <2>1. /\ filling \in Frames /\ m_dataList' = Append(m_dataList, filling)
        /\ UNCHANGED <<live, at, elem>>
    BY <1>4 DEF Push, List!push_back_data, threadVars, workerVars, IInv, ListsOK, Pointers
  <2>2. Held' = Held
    BY <2>1 DEF Held
  <2>3. CASE Held = {}
    BY <1>0, <2>1, <2>2, <2>3 DEF WaitingShape
  <2>4. CASE Held # {}
    <3>1. PICK w \in live : Held = {w}
      BY <1>0, <2>4 DEF WaitingShape
    <3>2. /\ Waiting = <<elem[w]>> \o m_dataList /\ Waiting' = <<elem[w]>> \o m_dataList'
          /\ elem[w] \in Frames
      <4>1. w \in Held /\ Held' = {w} /\ w \in live'
        BY <2>1, <2>2, <3>1
      <4>2. elem[w] \in Frames
        BY <4>1 DEF Held, IInv, WorkersInv, TypeOK, ListsOK, Pointers
      <4>3. Waiting = <<elem[w]>> \o m_dataList
        BY <1>0, <3>1 DEF WaitingShape
      <4>4. Waiting' = <<elem'[w]>> \o m_dataList'
        BY <1>0, <4>1 DEF WaitingShape
      <4> QED BY <2>1, <4>2, <4>3, <4>4
    <3>3. \A e \in Frames, f \in Frames, s \in Seq(Frames) :
            <<e>> \o Append(s, f) = Append(<<e>> \o s, f)
      OBVIOUS
    <3> QED BY <1>0, <2>1, <3>2, <3>3
  <2> QED BY <2>3, <2>4
<1>5. ASSUME Owner \/ Join PROVE Waiting' = Waiting /\ UNCHANGED <<picture, made, done>>
  <2>1. UNCHANGED <<m_dataList, at, elem, picture, made, done>>
    BY <1>5 DEF Owner, Join, listVars, producerVars, workerVars
  <2>2. (\E w \in Workers \ live : live' = live \cup {w}) \/ live' = live
    BY <1>5 DEF Owner, Join, Thread!startThread, Thread!CreateThread, Thread!CreateFails,
       Thread!stopThread, Thread!StopTimesOut, Thread!StopJoins, IInv, WorkersInv, TypeOK
  <2>3. Held' = Held
    BY <2>1, <2>2 DEF Held, IInv, WorkersInv, ThreadsOK
  <2>4. CASE Held = {}
    BY <1>0, <2>1, <2>3, <2>4 DEF WaitingShape
  <2>5. CASE Held # {}
    <3>1. PICK w \in live : Held = {w}
      BY <1>0, <2>5 DEF WaitingShape
    <3>2. w \in live'
      BY <2>2
    <3>3. Waiting = <<elem[w]>> \o m_dataList /\ Waiting' = <<elem'[w]>> \o m_dataList'
      BY <1>0, <2>3, <3>1, <3>2 DEF WaitingShape
    <3> QED BY <2>1, <3>3
  <2> QED BY <2>1, <2>4, <2>5
<1>6. ASSUME NEW w \in Workers, callBack(w)
      PROVE  \/ Finish(w) /\ elem[w] \in Frames /\ Waiting = <<elem[w]>> \o Waiting'
             \/ Waiting' = Waiting /\ UNCHANGED <<picture, made, done>>
  <2>1. w \in live /\ \A v \in live : v = w
    BY <1>6, OneAtATime DEF callBack, Poll, Leave, Look, Wake, TakeData, Finish, PutBack, At,
       IInv, WorkersInv
  <2>2. UNCHANGED <<picture, made>>
    BY <1>6 DEF callBack, Poll, Leave, Look, Wake, TakeData, Finish, PutBack, producerVars
  <2>3. Held = IF at[w] = "holds" /\ elem[w] # nullptr THEN {w} ELSE {}
    BY <2>1 DEF Held
  <2>4. CASE Leave(w)
    <3>1. Held' = {} /\ Held = {} /\ UNCHANGED <<m_dataList, done>>
      BY <2>1, <2>4 DEF Leave, At, Thread!theThread, Held, listVars, workerVars
    <3> QED BY <1>0, <2>2, <3>1 DEF WaitingShape
  <2>5. ASSUME ~Leave(w), NEW place, NEW p, Goes(w, place, p)
        PROVE  /\ w \in live' /\ elem'[w] = p
               /\ Held' = IF place = "holds" /\ p # nullptr THEN {w} ELSE {}
    <3>1. live' = live
      BY <1>6, <2>5 DEF callBack, Poll, Look, Wake, TakeData, Finish, PutBack, threadVars
    <3>2. at'[w] = place /\ elem'[w] = p
      BY <2>5 DEF Goes, IInv, WorkersInv, TypeOK, ListsOK
    <3> QED BY <2>1, <3>1, <3>2 DEF Held
  <2>6. CASE Poll(w) \/ Look(w) \/ Wake(w)
    <3>1. PICK place, p : Goes(w, place, p) /\ place # "holds"
      BY <2>6 DEF Poll, Look, Wake
    <3>2. ~Leave(w) /\ at[w] # "holds" /\ UNCHANGED <<m_dataList, done>>
      BY <2>6 DEF Poll, Look, Wake, Leave, At, Thread!theThread, Thread!isRunning, List!getHeadDataRef,
         listVars, threadVars
    <3>3. Held = {} /\ Held' = {}
      BY <2>3, <2>5, <3>1, <3>2
    <3> QED BY <1>0, <2>2, <3>2, <3>3 DEF WaitingShape
  <2>7. CASE TakeData(w)
    <3>1. PICK p \in Pointers : List!pop_front_data(p) /\ Goes(w, "holds", p)
      BY <2>7 DEF TakeData
    <3>2. ~Leave(w) /\ at[w] = "peeked" /\ UNCHANGED <<done>>
      BY <2>7 DEF TakeData, Leave, At
    <3>3. Held = {} /\ Waiting = m_dataList
      BY <1>0, <2>3, <3>2 DEF WaitingShape
    <3>4. m_dataList # <<>> /\ p = Head(m_dataList) /\ m_dataList' = Tail(m_dataList) /\ p \in Frames
      BY <1>0, <2>1, <3>1, <3>2 DEF List!pop_front_data, PeekInv
    <3>5. Held' = {w} /\ w \in live' /\ elem'[w] = p
      BY <1>0, <2>5, <3>1, <3>2, <3>4
    <3>6. Waiting' = <<p>> \o m_dataList'
      BY <1>0, <3>5 DEF WaitingShape
    <3>7. <<Head(m_dataList)>> \o Tail(m_dataList) = m_dataList
      BY <1>0, <3>4
    <3> QED BY <2>2, <3>2, <3>3, <3>4, <3>6, <3>7
  <2>8. CASE Finish(w) \/ PutBack(w)
    <3>1. Goes(w, "loop", nullptr) /\ at[w] = "holds" /\ ~Leave(w)
      BY <2>8 DEF Finish, PutBack, Leave, At
    <3>2. Held' = {} /\ Waiting' = m_dataList'
      BY <1>0, <2>5, <3>1 DEF WaitingShape
    <3>3. CASE elem[w] = nullptr
      <4>1. m_dataList' = m_dataList /\ done' = done
        BY <2>8, <3>3 DEF Finish, PutBack, List!push_back_empty, List!push_front_data
      <4> QED BY <1>0, <2>2, <2>3, <3>2, <3>3, <4>1 DEF WaitingShape
    <3>4. CASE elem[w] # nullptr
      <4>1. elem[w] \in Frames /\ Held = {w} /\ Waiting = <<elem[w]>> \o m_dataList
        BY <1>0, <2>1, <2>3, <3>1, <3>4 DEF WaitingShape, IInv, ListsOK, Pointers
      <4>2. CASE Finish(w)
        <5>1. m_dataList' = m_dataList
          BY <4>2 DEF Finish, List!push_back_empty
        <5> QED BY <3>2, <4>1, <4>2, <5>1
      <4>3. CASE PutBack(w)
        <5>1. m_dataList' = <<elem[w]>> \o m_dataList /\ done' = done
          BY <3>4, <4>3 DEF PutBack, List!push_front_data
        <5> QED BY <2>2, <3>2, <4>1, <5>1
      <4> QED BY <2>8, <4>2, <4>3
    <3> QED BY <3>3, <3>4
  <2> QED BY <1>6, <2>4, <2>6, <2>7, <2>8 DEF callBack
<1> QED BY <1>2, <1>3, <1>4, <1>5, <1>6 DEF Next, Producer

LEMMA OrderStep ==
  ASSUME IInv, PlacesInv, PicturesInv, OrderInv, PeekInv, [Next]_vars, IInv'
  PROVE  OrderInv'
<1> SUFFICES ASSUME left' = {}
             PROVE  \E n \in Nat : /\ done' = 1 .. n /\ made' = n + Len(Waiting')
                                   /\ \A i \in DOMAIN Waiting' : picture'[Waiting'[i]] = n + i
  BY DEF OrderInv
<1>1. left = {}
  <2>1. left \subseteq left'
    <3>1. CASE Producer \/ (\E p \in Frames : initialize(p)) \/ UNCHANGED vars
      BY <3>1 DEF Producer, Take, Fill, Push, Raise, initialize, vars, threadVars
    <3>2. CASE Owner \/ Join
      BY <3>2 DEF Owner, Join, Thread!startThread, Thread!CreateThread, Thread!CreateFails,
         Thread!stopThread, Thread!StopTimesOut, Thread!StopJoins
    <3>3. ASSUME NEW w \in Workers, callBack(w) PROVE left' = left
      BY <3>3 DEF callBack, Poll, Leave, Look, Wake, TakeData, Finish, PutBack,
         Thread!theThread, threadVars
    <3> QED BY <3>1, <3>2, <3>3 DEF Next
  <2> QED BY <2>1
<1>2. Waiting \in Seq(Frames) /\ Waiting' \in Seq(Frames)
  <2>1. (IInv /\ left = {} => WaitingShape)'
    BY WaitingHasShape, PTL
  <2> QED BY <1>1, <2>1, WaitingHasShape DEF WaitingShape
<1>3. PICK n \in Nat : /\ done = 1 .. n /\ made = n + Len(Waiting)
                       /\ \A i \in DOMAIN Waiting : picture[Waiting[i]] = n + i
  BY <1>1 DEF OrderInv
<1>4. CASE Push /\ Waiting' = Append(Waiting, filling)
  <2>1. /\ picture[filling] = made + 1 /\ made' = made + 1 /\ UNCHANGED <<picture, done>>
        /\ filling \in Frames
    BY <1>4 DEF Push, workerVars, IInv, ListsOK, Pointers
  <2>2. Len(Waiting') = Len(Waiting) + 1 /\ made' = n + Len(Waiting')
    BY <1>2, <1>3, <1>4, <2>1
  <2>3. ASSUME NEW i \in DOMAIN Waiting' PROVE picture'[Waiting'[i]] = n + i
    <3>1. CASE i \in DOMAIN Waiting
      <4>1. Waiting'[i] = Waiting[i]
        BY <1>2, <1>4, <3>1
      <4> QED BY <1>3, <2>1, <3>1, <4>1
    <3>2. CASE i \notin DOMAIN Waiting
      <4>1. Waiting'[i] = filling /\ i = Len(Waiting) + 1
        BY <1>2, <1>4, <2>1, <3>2
      <4> QED BY <1>2, <1>3, <2>1, <4>1
    <3> QED BY <3>1, <3>2
  <2> QED BY <1>3, <2>1, <2>2, <2>3
<1>5. ASSUME NEW w \in Workers, Finish(w), elem[w] \in Frames, Waiting = <<elem[w]>> \o Waiting'
      PROVE  \E m \in Nat : /\ done' = 1 .. m /\ made' = m + Len(Waiting')
                            /\ \A i \in DOMAIN Waiting' : picture'[Waiting'[i]] = m + i
  <2>1. done' = done \cup {picture[elem[w]]} /\ UNCHANGED <<picture, made>>
    BY <1>5, FrameWorkerAssumption DEF Finish, producerVars
  <2>2. /\ Len(Waiting) = Len(Waiting') + 1 /\ 1 \in DOMAIN Waiting /\ Waiting[1] = elem[w]
        /\ \A i \in DOMAIN Waiting' : i + 1 \in DOMAIN Waiting /\ Waiting[i + 1] = Waiting'[i]
    BY <1>2, <1>5
  <2>3. picture[elem[w]] = n + 1
    BY <1>3, <2>2
  <2>4. done' = 1 .. n + 1
    BY <1>3, <2>1, <2>3
  <2>5. made' = (n + 1) + Len(Waiting')
    <3>1. Len(Waiting') \in Nat
      BY <1>2
    <3> QED BY <1>3, <2>1, <2>2, <3>1
  <2>6. ASSUME NEW i \in DOMAIN Waiting' PROVE picture'[Waiting'[i]] = (n + 1) + i
    <3>1. picture[Waiting[i + 1]] = n + (i + 1) /\ i \in Nat
      BY <1>2, <1>3, <2>2
    <3> QED BY <2>1, <2>2, <3>1
  <2> QED BY <2>4, <2>5, <2>6
<1>6. CASE Fill /\ Waiting' = Waiting /\ UNCHANGED <<made, done>>
  <2>1. filling # nullptr /\ picture' = [picture EXCEPT ![filling] = made + 1]
    BY <1>6 DEF Fill
  <2>2. filling \notin InFlight
    <3>1. filling \in Settled
      BY <2>1 DEF IInv, ListsOK, Pointers, Settled
    <3> QED BY <3>1, InFlightIsTheRest
  <2>3. ASSUME NEW i \in DOMAIN Waiting PROVE picture'[Waiting[i]] = n + i
    <3>1. Waiting[i] # filling /\ Waiting[i] \in Frames
      BY <1>1, <1>2, <2>2, WaitingInFlight
    <3>2. picture'[Waiting[i]] = picture[Waiting[i]]
      BY <2>1, <3>1 DEF PicturesInv
    <3> QED BY <1>3, <3>2
  <2> QED BY <1>3, <1>6, <2>3
<1>7. CASE Waiting' = Waiting /\ UNCHANGED <<picture, made, done>>
  BY <1>3, <1>7
<1> QED BY <1>1, <1>4, <1>5, <1>6, <1>7, WaitingChanges

\* Only the worker itself takes from the data, and a push comes behind.
LEMMA PeekStep ==
  ASSUME IInv, PeekInv, [Next]_vars, IInv'
  PROVE  PeekInv'
<1> SUFFICES ASSUME left' = {}, NEW v \in live', at'[v] = "peeked"
             PROVE  m_dataList' # <<>> /\ elem'[v] = Head(m_dataList')
  BY DEF PeekInv
<1> DEFINE Kept(w) == /\ left = {} /\ w \in live /\ at[w] = at'[w] /\ elem[w] = elem'[w]
                      /\ (m_dataList' = m_dataList \/ \E f \in Frames : m_dataList' = Append(m_dataList, f))
<1>1. ASSUME Kept(v) PROVE m_dataList' # <<>> /\ elem'[v] = Head(m_dataList')
  <2>1. m_dataList # <<>> /\ elem[v] = Head(m_dataList) /\ m_dataList \in Seq(Frames)
    BY <1>1 DEF PeekInv, IInv, ListsOK
  <2>2. \A s \in Seq(Frames), f \in Frames :
          s # <<>> => Append(s, f) # <<>> /\ Head(Append(s, f)) = Head(s)
    OBVIOUS
  <2> QED BY <1>1, <2>1, <2>2
<1>2. CASE Producer \/ (\E p \in Frames : initialize(p)) \/ UNCHANGED vars
  <2>1. UNCHANGED <<live, left, at, elem>>
    BY <1>2 DEF Producer, Take, Fill, Push, Raise, initialize, vars, threadVars, workerVars
  <2>2. m_dataList' = m_dataList \/ \E f \in Frames : m_dataList' = Append(m_dataList, f)
    <3>1. CASE Push
      BY <3>1 DEF Push, List!push_back_data, IInv, ListsOK, Pointers
    <3>2. CASE ~Push
      BY <1>2, <3>2 DEF Producer, Take, Fill, Raise, initialize, List!addOneFree,
         List!pop_front_empty, vars, listVars
    <3> QED BY <3>1, <3>2
  <2> QED BY <1>1, <2>1, <2>2
<1>3. CASE Owner \/ Join
  <2>1. UNCHANGED <<m_dataList, at, elem>>
    BY <1>3 DEF Owner, Join, listVars, workerVars
  <2>2. left \subseteq left' /\ (live' = live \/ \E w \in Workers \ live : live' = live \cup {w})
    BY <1>3 DEF Owner, Join, Thread!startThread, Thread!CreateThread, Thread!CreateFails,
       Thread!stopThread, Thread!StopTimesOut, Thread!StopJoins, IInv, WorkersInv, TypeOK
  <2>3. v \in live
    BY <2>1, <2>2 DEF IInv, WorkersInv, ThreadsOK
  <2> QED BY <1>1, <2>1, <2>2, <2>3
<1>4. ASSUME NEW w \in Workers, callBack(w)
      PROVE  m_dataList' # <<>> /\ elem'[v] = Head(m_dataList')
  <2>1. left = {} /\ live' \subseteq live /\ w \in live
    BY <1>4 DEF callBack, Poll, Leave, Look, Wake, TakeData, Finish, PutBack, At,
       Thread!theThread, threadVars
  <2>2. v = w
    BY <2>1, OneAtATime DEF IInv, WorkersInv
  <2>3. at'[w] = "peeked"
    BY <2>2
  <2>4. ~Leave(w)
    BY <2>2 DEF Leave, Thread!theThread
  <2>5. ASSUME NEW place, NEW p, Goes(w, place, p)
        PROVE  place = "peeked" /\ elem'[w] = p
    BY <2>3, <2>5 DEF Goes, IInv, WorkersInv, TypeOK, ListsOK
  <2>6. Look(w)
    BY <1>4, <2>4, <2>5 DEF callBack, Poll, Wake, TakeData, Finish, PutBack
  <2>7. PICK p \in Pointers : List!getHeadDataRef(p) /\ Goes(w, IF p = nullptr THEN "wait" ELSE "peeked", p)
    BY <2>6 DEF Look
  <2>8. p # nullptr /\ elem'[w] = p
    BY <2>5, <2>7
  <2> QED BY <2>2, <2>7, <2>8 DEF List!getHeadDataRef
<1> QED BY <1>2, <1>3, <1>4 DEF Next

LEMMA OrderInductive == Spec => [](OrderInv /\ PeekInv)
<1>1. Init => OrderInv /\ PeekInv
  <2> SUFFICES ASSUME Init PROVE OrderInv /\ PeekInv
    OBVIOUS
  <2>1. m_dataList = <<>> /\ live = {} /\ made = 0 /\ done = {}
    BY DEF Init, List!Init, Thread!Init
  <2>2. Waiting = <<>>
    BY <2>1 DEF Waiting
  <2>3. done = 1 .. 0 /\ made = 0 + Len(Waiting) /\ \A i \in DOMAIN Waiting : picture[Waiting[i]] = 0 + i
    BY <2>1, <2>2
  <2> QED BY <2>1, <2>3 DEF OrderInv, PeekInv
<1>2. IInv /\ PlacesInv /\ PicturesInv /\ OrderInv /\ PeekInv /\ [Next]_vars /\ IInv'
        => (OrderInv /\ PeekInv)'
  BY OrderStep, PeekStep
<1> QED BY <1>1, <1>2, Inductive, PlacesInductive, PicturesInductive, PTL DEF Spec

LEMMA FirstDone ==
  ASSUME NEW n \in Nat
  PROVE  Cardinality(1 .. n) = n
BY FS_Interval

-----------------------------------------------------------------------------

\* However many workers a stop left behind, no frame is in two places or in
\* none, for any number of frames and workers (FrameList.h:42-108).
THEOREM FramesAlwaysHaveOnePlace == Spec => []FramesHaveOnePlace
BY PlacesInductive, PTL DEF PlacesInv

\* No picture is lost, finished twice or, while no stop gives up, finished out
\* of order, for any number of pictures, starts and stops (FrameList.h:57-100,
\* easyThread.cpp:15-38).
THEOREM AlwaysInOrder == Spec => []PicturesInOrder
<1>1. IInv /\ PlacesInv /\ PicturesInv /\ OrderInv => PicturesInOrder
  <2> SUFFICES ASSUME IInv, PlacesInv, PicturesInv, OrderInv PROVE PicturesInOrder
    OBVIOUS
  <2>1. EachPictureOnce
    BY EachHasItsNumber
  <2>2. ASSUME left = {}
        PROVE  LET n == Cardinality(done)
               IN  /\ done = 1 .. n /\ made = n + Len(Waiting)
                   /\ \A i \in DOMAIN Waiting : picture[Waiting[i]] = n + i
    BY <2>2, FirstDone DEF OrderInv
  <2> QED BY <2>1, <2>2 DEF PicturesInOrder
<1> QED BY <1>1, Inductive, PlacesInductive, PicturesInductive, OrderInductive, PTL

\* What getHeadDataRef showed is what the next pop_front_data gives, with the
\* number that is next, while no stop gives up (FrameList.h:57-84).
THEOREM AlwaysPeekedIsNext == Spec => []PeekedIsNext
<1>1. IInv /\ OrderInv /\ PeekInv => PeekedIsNext
  <2> SUFFICES ASSUME IInv, OrderInv, PeekInv, left = {}, NEW w \in live, at[w] = "peeked"
               PROVE  m_dataList # <<>> /\ elem[w] = Head(m_dataList)
                      /\ picture[elem[w]] = Cardinality(done) + 1
    BY DEF PeekedIsNext
  <2>1. m_dataList # <<>> /\ elem[w] = Head(m_dataList) /\ m_dataList \in Seq(Frames)
    BY DEF PeekInv, IInv, ListsOK
  <2>2. Held = {}
    BY OneAtATime DEF Held, IInv, WorkersInv
  <2>3. Waiting = m_dataList
    BY <2>2, WaitingHasShape DEF WaitingShape
  <2>4. PICK n \in Nat : done = 1 .. n /\ \A i \in DOMAIN Waiting : picture[Waiting[i]] = n + i
    BY DEF OrderInv
  <2>5. 1 \in DOMAIN m_dataList /\ m_dataList[1] = Head(m_dataList)
    BY <2>1
  <2>6. picture[elem[w]] = n + 1
    BY <2>1, <2>3, <2>4, <2>5
  <2>7. Cardinality(done) = n
    BY <2>4, FirstDone
  <2> QED BY <2>1, <2>6, <2>7
<1> QED BY <1>1, Inductive, OrderInductive, PTL

\* Whatever the owner does and however long stops take, a worker that no stop
\* gave up on is the only one (easyThread.cpp:15-38).
THEOREM AlwaysOneWorker == Spec => []OneWorker
BY Inductive, PTL DEF IInv, WorkersInv

\* With an event and as long as no stop gives up, no worker sleeps beside data
\* for ever, for any number of frames and pictures (eventClock.cpp:20-31).
THEOREM NeverSleepsBesideData == Spec => []NoSleepBesideData
BY Inductive, PTL DEF IInv, WorkersInv
=============================================================================
