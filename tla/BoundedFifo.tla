---------------------------- MODULE BoundedFifo ----------------------------
(***************************************************************************)
(* What CLoopBuffer promises to its callers: a first-in first-out queue of *)
(* bytes that holds at most cap of them.  A write that does not fit and a  *)
(* read that asks for too much are refused whole and change nothing.       *)
(* reply is what the last call gave back to its caller.                    *)
(***************************************************************************)
EXTENDS Integers, Sequences

CONSTANTS Bytes,      \* the byte values
          Capacities, \* the capacities a queue is opened with
          Blocks,     \* the blocks of bytes a caller writes
          Sizes       \* the numbers of bytes a caller asks for

VARIABLES q, cap, reply

fifoVars == <<q, cap, reply>>

Reply(n, data) == [n |-> n, data |-> data]

Init == q = <<>> /\ cap = 0 /\ reply = Reply(0, <<>>)

Open(c) == q' = <<>> /\ cap' = c /\ UNCHANGED reply

Clear == q' = <<>> /\ UNCHANGED <<cap, reply>>

Put(s) ==
  /\ Len(q) + Len(s) <= cap
  /\ q' = q \o s
  /\ reply' = Reply(Len(s), <<>>)
  /\ UNCHANGED cap

RefusePut(s) ==
  /\ Len(q) + Len(s) > cap
  /\ reply' = Reply(-1, <<>>)
  /\ UNCHANGED <<q, cap>>

Get(n) ==
  /\ n <= Len(q)
  /\ q' = SubSeq(q, n + 1, Len(q))
  /\ reply' = Reply(n, SubSeq(q, 1, n))
  /\ UNCHANGED cap

RefuseGet(n) ==
  /\ n > Len(q)
  /\ reply' = Reply(0, <<>>)
  /\ UNCHANGED <<q, cap>>

Next ==
  \/ \E c \in Capacities : Open(c)
  \/ Clear
  \/ \E s \in Blocks : Put(s) \/ RefusePut(s)
  \/ \E n \in Sizes : RefuseGet(n)
  \/ \E n \in 0..Len(q) : Get(n)

Spec == Init /\ [][Next]_fifoVars
=============================================================================
