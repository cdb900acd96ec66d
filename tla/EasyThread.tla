----------------------------- MODULE EasyThread -----------------------------
(***************************************************************************)
(* EasyThread (Lib.Base/easyThread.cpp): one owner starts and stops, the   *)
(* worker asks isRunning now and then.  stopThread forgets the worker when *)
(* its timeout passes, and startThread resets the flag that worker asks    *)
(* for.  A start is two steps, as is a stop: the flag, then the thread.    *)
(*                                                                         *)
(* The owner, whose code is not in the repository, starts only while it    *)
(* has no thread.                                                          *)
(***************************************************************************)
CONSTANTS Workers,  \* the threads CreateThread may give, each once
          NoThread

VARIABLES
  m_exitRequested,
  m_thread,  \* the handle, or NoThread for nullptr
  owner,     \* where the owner is: in no call, in start, in a stop with or without timeout
  live,      \* the workers inside callBack
  given,     \* history: the workers there ever were
  left       \* history: the workers a stop gave up on

Init ==
  /\ m_exitRequested = FALSE /\ m_thread = NoThread
  /\ owner = "out"
  /\ live = {} /\ given = {} /\ left = {}

startThread ==
  /\ owner = "out" /\ m_thread = NoThread /\ given # Workers
  /\ m_exitRequested' = FALSE
  /\ owner' = "start"
  /\ UNCHANGED <<m_thread, live, given, left>>

\* CreateThread and ResumeThread, and what is left of startThread when the
\* former fails.
CreateThread(w) ==
  /\ owner = "start" /\ w \in Workers \ given
  /\ m_thread' = w
  /\ live' = live \cup {w} /\ given' = given \cup {w}
  /\ owner' = "out"
  /\ UNCHANGED <<m_exitRequested, left>>

CreateFails ==
  /\ owner = "start"
  /\ owner' = "out"
  /\ UNCHANGED <<m_exitRequested, m_thread, live, given, left>>

\* Mutations: the flag is not set; the thread is not waited for.
stopThreadSilent(place) ==
  /\ owner = "out"
  /\ owner' = IF m_thread = NoThread THEN "out" ELSE place
  /\ UNCHANGED <<m_exitRequested, m_thread, live, given, left>>

stopThreadNoWait(place) ==
  /\ owner = "out"
  /\ m_exitRequested' = TRUE
  /\ m_thread' = NoThread
  /\ UNCHANGED <<owner, live, given, left>>

\* place tells a stop with a timeout from one without.
stopThread(place) ==
  /\ owner = "out"
  /\ m_exitRequested' = TRUE
  /\ owner' = IF m_thread = NoThread THEN "out" ELSE place
  /\ UNCHANGED <<m_thread, live, given, left>>

\* WaitForMultipleObjects returns, as the thread ended or the time passed.
StopJoins ==
  /\ owner \in {"stop", "stopTimed"} /\ m_thread \notin live
  /\ m_thread' = NoThread /\ owner' = "out"
  /\ UNCHANGED <<m_exitRequested, live, given, left>>

StopTimesOut ==
  /\ owner = "stopTimed" /\ m_thread \in live
  /\ left' = left \cup {m_thread}
  /\ m_thread' = NoThread /\ owner' = "out"
  /\ UNCHANGED <<m_exitRequested, live, given>>

isRunning == ~m_exitRequested

\* theThread returns when callBack does.
theThread(w) ==
  /\ w \in live
  /\ live' = live \ {w}
  /\ UNCHANGED <<m_exitRequested, m_thread, owner, given, left>>
=============================================================================
