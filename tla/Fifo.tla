-------------------------------- MODULE Fifo --------------------------------
(***************************************************************************)
(* What a channel promises: one queue, in order, nothing lost, nothing     *)
(* twice.  A receive waits while the queue is empty and the channel open;  *)
(* on a closed channel it drains the queue and then yields nothing.        *)
(***************************************************************************)
EXTENDS Naturals, Sequences

CONSTANTS Messages, Receivers, Nothing

VARIABLES
    queue, closed,
    receiving,  \* the receivers that are inside a receive
    got         \* got[r]: what r's receives have returned, in order

vars == <<queue, closed, receiving, got>>

Init ==
    /\ queue = <<>> /\ closed = FALSE
    /\ receiving = {}
    /\ got = [r \in Receivers |-> <<>>]

Send(m) ==
    /\ ~closed
    /\ queue' = Append(queue, m)
    /\ UNCHANGED <<closed, receiving, got>>

Call(r) ==
    /\ r \notin receiving
    /\ receiving' = receiving \cup {r}
    /\ UNCHANGED <<queue, closed, got>>

Return(r) ==
    /\ r \in receiving
    /\ receiving' = receiving \ {r}
    /\ \/ /\ queue # <<>>
          /\ got' = [got EXCEPT ![r] = Append(@, Head(queue))]
          /\ queue' = Tail(queue)
       \/ /\ queue = <<>> /\ closed
          /\ got' = [got EXCEPT ![r] = Append(@, Nothing)]
          /\ UNCHANGED queue
    /\ UNCHANGED closed

Close == closed' = TRUE /\ UNCHANGED <<queue, receiving, got>>

Next ==
    \/ \E m \in Messages : Send(m)
    \/ \E r \in Receivers : Call(r) \/ Return(r)
    \/ Close

\* A receive that could return does.
Spec == Init /\ [][Next]_vars /\ \A r \in Receivers : WF_vars(Return(r))
=============================================================================
