------------------------------ MODULE FifoLock ------------------------------
(***************************************************************************)
(* sncast_lock of the two servers, a tokio::sync::Mutex: the tasks that     *)
(* asked for it in the order in which they asked, its holder first.         *)
(***************************************************************************)
EXTENDS Integers, Sequences

Queued(queue, r) == \E i \in 1..Len(queue) : queue[i] = r

HoldsLock(queue, r) == queue # <<>> /\ Head(queue) = r

(* Dropping a lock guard, or a future that waits for one, leaves the queue. *)
Leaving(queue, r) ==
    IF Queued(queue, r)
    THEN LET p == CHOOSE i \in 1..Len(queue) : queue[i] = r
         IN  [i \in 1..(Len(queue) - 1) |-> IF i < p THEN queue[i] ELSE queue[i + 1]]
    ELSE queue

(* A task asks once. *)
Unrepeated(queue) ==
    \A i, j \in 1..Len(queue) : queue[i] = queue[j] => i = j
=============================================================================
