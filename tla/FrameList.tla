----------------------------- MODULE FrameList -----------------------------
(***************************************************************************)
(* FrameList<T> (Lib.Base/FrameList.h): frames without a picture and       *)
(* frames with one, a list and a lock for each.  Every member takes one of *)
(* the two locks from its first to its last access and so is one step.     *)
(* elem is the pointer a member returns through its reference argument.    *)
(***************************************************************************)
EXTENDS Sequences

CONSTANTS Frames, nullptr

VARIABLES m_emptyList, m_dataList

Init == m_emptyList = <<>> /\ m_dataList = <<>>

addOneFree(p) ==
  m_emptyList' = Append(m_emptyList, p) /\ UNCHANGED m_dataList

\* Mutation: the frame stays in the list.
pop_front_emptyPeek(elem) ==
  /\ elem = IF m_emptyList = <<>> THEN nullptr ELSE Head(m_emptyList)
  /\ UNCHANGED <<m_emptyList, m_dataList>>

pop_front_empty(elem) ==
  /\ \/ m_emptyList # <<>> /\ elem = Head(m_emptyList) /\ m_emptyList' = Tail(m_emptyList)
     \/ m_emptyList = <<>> /\ elem = nullptr /\ UNCHANGED m_emptyList
  /\ UNCHANGED m_dataList

pop_front_data(elem) ==
  /\ \/ m_dataList # <<>> /\ elem = Head(m_dataList) /\ m_dataList' = Tail(m_dataList)
     \/ m_dataList = <<>> /\ elem = nullptr /\ UNCHANGED m_dataList
  /\ UNCHANGED m_emptyList

\* Mutation: the last frame instead of the first.
getHeadDataRefLast(elem) ==
  /\ elem = IF m_dataList = <<>> THEN nullptr ELSE m_dataList[Len(m_dataList)]
  /\ UNCHANGED <<m_emptyList, m_dataList>>

getHeadDataRef(elem) ==
  /\ elem = IF m_dataList = <<>> THEN nullptr ELSE Head(m_dataList)
  /\ UNCHANGED <<m_emptyList, m_dataList>>

push_back_data(elem) ==
  /\ m_dataList' = IF elem = nullptr THEN m_dataList ELSE Append(m_dataList, elem)
  /\ UNCHANGED m_emptyList

\* Mutation: what is put back goes behind what waits.
push_front_dataLast(elem) ==
  /\ m_dataList' = IF elem = nullptr THEN m_dataList ELSE Append(m_dataList, elem)
  /\ UNCHANGED m_emptyList

push_front_data(elem) ==
  /\ m_dataList' = IF elem = nullptr THEN m_dataList ELSE <<elem>> \o m_dataList
  /\ UNCHANGED m_emptyList

push_back_empty(elem) ==
  /\ m_emptyList' = IF elem = nullptr THEN m_emptyList ELSE Append(m_emptyList, elem)
  /\ UNCHANGED m_dataList
=============================================================================
