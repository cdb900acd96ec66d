----------------------------- MODULE EventClock -----------------------------
(***************************************************************************)
(* EventClock (Lib.Base/eventClock.cpp): an event of Windows that a wait   *)
(* it satisfies resets.  Raises that nobody waits for coalesce into one.   *)
(***************************************************************************)
VARIABLES
  m_event,   \* whether CreateEvent gave a handle
  signaled   \* the state of the event behind it

Init == m_event \in BOOLEAN /\ signaled = FALSE

\* Mutation: the test of the handle the wrong way round.
raiseEventUnset == signaled' = (signaled \/ ~m_event) /\ UNCHANGED m_event

raiseEvent == signaled' = (signaled \/ m_event) /\ UNCHANGED m_event

\* waitEvent returns true, or false after its time or without a handle.
WaitReturnsTrue == m_event /\ signaled /\ signaled' = FALSE /\ UNCHANGED m_event
WaitReturnsFalse == ~(m_event /\ signaled) /\ UNCHANGED <<m_event, signaled>>
=============================================================================
