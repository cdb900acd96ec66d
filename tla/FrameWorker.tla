---------------------------- MODULE FrameWorker ----------------------------
(***************************************************************************)
(* FrameList, EasyThread and EventClock together: a producer fills empty   *)
(* frames and raises the event, a worker of an EasyThread looks at the     *)
(* head of the data, takes it and gives it back empty, or puts it back as  *)
(* data, and sleeps when there is none.                                    *)
(*                                                                         *)
(* The three classes are in the repository, their callers are not: the     *)
(* steps of the producer and of callBack are the calls these classes are   *)
(* for, each a step of its own.                                            *)
(***************************************************************************)
EXTENDS Integers, Sequences, FiniteSets

CONSTANTS Frames, nullptr, Workers, NoThread,
          MaxPictures  \* bound on the pictures produced

ASSUME FrameWorkerAssumption ==
  nullptr \notin Frames /\ NoThread \notin Workers /\ MaxPictures \in Nat

VARIABLES
  m_emptyList, m_dataList,                                  \* FrameList
  m_exitRequested, m_thread, owner, live, given, left,      \* EasyThread
  m_event, signaled,                                        \* EventClock
  unmade,   \* the frames initialize has not made yet
  picture,  \* per frame: the number of the picture in it
  made,     \* how many pictures were pushed
  done,     \* history: the numbers of the pictures the workers finished with
  filling,  \* the producer's frame
  raising,  \* the producer is between the push and the raise
  at,       \* per worker: its place in callBack
  elem      \* per worker: the frame it looks at or holds

List   == INSTANCE FrameList
Thread == INSTANCE EasyThread
Event  == INSTANCE EventClock

listVars   == <<m_emptyList, m_dataList>>
threadVars == <<m_exitRequested, m_thread, owner, live, given, left>>
eventVars  == <<m_event, signaled>>
producerVars == <<picture, made, filling, raising>>
workerVars   == <<done, at, elem>>
vars == <<listVars, threadVars, eventVars, unmade, producerVars, workerVars>>

Pointers == Frames \cup {nullptr}

Init ==
  /\ List!Init /\ Thread!Init /\ Event!Init
  /\ unmade = Frames
  /\ picture = [f \in Frames |-> 0] /\ made = 0 /\ done = {}
  /\ filling = nullptr /\ raising = FALSE
  /\ at = [w \in Workers |-> "loop"] /\ elem = [w \in Workers |-> nullptr]

\* initialize makes one frame after the other, each under the lock of its own.
initialize(p) ==
  /\ p \in unmade
  /\ unmade' = unmade \ {p}
  /\ List!addOneFree(p)
  /\ UNCHANGED <<threadVars, eventVars, producerVars, workerVars>>

-----------------------------------------------------------------------------

Take ==
  /\ filling = nullptr /\ ~raising /\ made < MaxPictures
  /\ \E p \in Pointers : List!pop_front_empty(p) /\ filling' = p
  /\ UNCHANGED <<threadVars, eventVars, unmade, picture, made, raising, workerVars>>

Fill ==
  /\ filling # nullptr /\ picture[filling] # made + 1
  /\ picture' = [picture EXCEPT ![filling] = made + 1]
  /\ UNCHANGED <<listVars, threadVars, eventVars, unmade, made, filling, raising, workerVars>>

Push ==
  /\ filling # nullptr /\ picture[filling] = made + 1
  /\ List!push_back_data(filling)
  /\ made' = made + 1 /\ filling' = nullptr /\ raising' = TRUE
  /\ UNCHANGED <<threadVars, eventVars, unmade, picture, workerVars>>

Raise ==
  /\ raising /\ Event!raiseEvent
  /\ raising' = FALSE
  /\ UNCHANGED <<listVars, threadVars, unmade, picture, made, filling, workerVars>>

Producer == Take \/ Fill \/ Push \/ Raise

-----------------------------------------------------------------------------

Owner ==
  /\ \/ Thread!startThread \/ Thread!CreateFails
     \/ \E w \in Workers : Thread!CreateThread(w)
     \/ \E place \in {"stop", "stopTimed"} : Thread!stopThread(place)
     \/ Thread!StopTimesOut
  /\ UNCHANGED <<listVars, eventVars, unmade, producerVars, workerVars>>

Join ==
  /\ Thread!StopJoins
  /\ UNCHANGED <<listVars, eventVars, unmade, producerVars, workerVars>>

-----------------------------------------------------------------------------

At(w, place) == w \in live /\ at[w] = place
Goes(w, place, p) == at' = [at EXCEPT ![w] = place] /\ elem' = [elem EXCEPT ![w] = p]

Poll(w) ==
  /\ At(w, "loop") /\ Thread!isRunning
  /\ Goes(w, "look", nullptr)
  /\ UNCHANGED <<listVars, threadVars, eventVars, unmade, producerVars, done>>

Leave(w) ==
  /\ At(w, "loop") /\ ~Thread!isRunning
  /\ Thread!theThread(w)
  /\ UNCHANGED <<listVars, eventVars, unmade, producerVars, workerVars>>

Look(w) ==
  /\ At(w, "look")
  /\ \E p \in Pointers :
       List!getHeadDataRef(p) /\ Goes(w, IF p = nullptr THEN "wait" ELSE "peeked", p)
  /\ UNCHANGED <<threadVars, eventVars, unmade, producerVars, done>>

Wake(w) ==
  /\ At(w, "wait") /\ (Event!WaitReturnsTrue \/ Event!WaitReturnsFalse)
  /\ Goes(w, "loop", nullptr)
  /\ UNCHANGED <<listVars, threadVars, unmade, producerVars, done>>

TakeData(w) ==
  /\ At(w, "peeked")
  /\ \E p \in Pointers : List!pop_front_data(p) /\ Goes(w, "holds", p)
  /\ UNCHANGED <<threadVars, eventVars, unmade, producerVars, done>>

Finish(w) ==
  /\ At(w, "holds")
  /\ List!push_back_empty(elem[w])
  /\ done' = IF elem[w] = nullptr THEN done ELSE done \cup {picture[elem[w]]}
  /\ Goes(w, "loop", nullptr)
  /\ UNCHANGED <<threadVars, eventVars, unmade, producerVars>>

PutBack(w) ==
  /\ At(w, "holds")
  /\ List!push_front_data(elem[w])
  /\ Goes(w, "loop", nullptr)
  /\ UNCHANGED <<threadVars, eventVars, unmade, producerVars, done>>

callBack(w) ==
  Poll(w) \/ Leave(w) \/ Look(w) \/ Wake(w) \/ TakeData(w) \/ Finish(w) \/ PutBack(w)

Next ==
  \/ Producer \/ Owner \/ Join
  \/ \E p \in Frames : initialize(p)
  \/ \E w \in Workers : callBack(w)

\* A worker goes on, and its wait ends by itself; a stop whose thread ended
\* returns.  No timeout of a stop is assumed to pass.
Fairness == WF_vars(Join) /\ \A w \in Workers : WF_vars(callBack(w))

Spec == Init /\ [][Next]_vars /\ Fairness

-----------------------------------------------------------------------------

Holders(f) == {w \in live : at[w] = "holds" /\ elem[w] = f}
Count(s, f) == Cardinality({i \in DOMAIN s : s[i] = f})

\* Every frame is in one place: not made, empty, data, with the producer or
\* with one worker, however many workers a stop left (FrameList.h:42-108).
FramesHaveOnePlace ==
  \A f \in Frames :
    Count(m_emptyList, f) + Count(m_dataList, f) + Cardinality(Holders(f))
      + (IF filling = f THEN 1 ELSE 0) + (IF f \in unmade THEN 1 ELSE 0) = 1

\* Every picture pushed is finished with or waits, not both and not twice.
EachPictureOnce ==
  LET waiting == {f \in Frames : Count(m_dataList, f) > 0 \/ Holders(f) # {}}
      numbers == {picture[f] : f \in waiting}
  IN  /\ numbers \cap done = {} /\ numbers \cup done = 1 .. made
      /\ Cardinality(numbers) = Cardinality(waiting)

\* The pictures not finished with: the one a worker holds, then the data.
Waiting ==
  LET held == {w \in live : at[w] = "holds" /\ elem[w] # nullptr}
  IN  (IF held = {} THEN <<>> ELSE <<elem[CHOOSE w \in held : TRUE]>>) \o m_dataList

\* No picture is lost or finished twice, also with the workers a stop left and
\* while frames are put back; and as long as no stop gave up on a worker they
\* are finished in the order they were pushed, none left out, over any number
\* of stops and starts (FrameList.h:57-100, easyThread.cpp:15-38).
PicturesInOrder ==
  /\ EachPictureOnce
  /\ left = {} =>
       LET n == Cardinality(done)
       IN  /\ done = 1 .. n /\ made = n + Len(Waiting)
           /\ \A i \in DOMAIN Waiting : picture[Waiting[i]] = n + i

\* The frame getHeadDataRef showed is the one pop_front_data then gives, with
\* its picture, as long as no stop gave up on a worker (FrameList.h:57-84).
PeekedIsNext ==
  left = {} => \A w \in live : at[w] = "peeked" =>
    m_dataList # <<>> /\ elem[w] = Head(m_dataList) /\ picture[elem[w]] = Cardinality(done) + 1

\* A worker that no stop gave up on is the one of m_thread: stopThread returned
\* for all the others after they had ended (easyThread.cpp:15-38).
OneWorker == live \ left \subseteq {m_thread}

\* A worker that sleeps beside data is woken: the event is set or will be, if
\* there is one, as long as no stop gave up on a worker (eventClock.cpp:20-31).
NoSleepBesideData ==
  m_event /\ left = {} =>
    \A w \in live : at[w] = "wait" /\ m_dataList # <<>> => signaled \/ raising

\* A stop without timeout returns (easyThread.cpp:29-38, eventClock.h default wait).
StopReturns == owner = "stop" ~> owner = "out"
=============================================================================
