------------------------------ MODULE Channel ------------------------------
(***************************************************************************)
(* One channel of src/runtime/threading/threading_runtime.cpp: a queue, a  *)
(* flag, a mutex and a condition variable on which only receivers wait.    *)
(* Each section under the mutex is an action; the notification that        *)
(* follows it, outside the mutex, is another, and so is the deletion.      *)
(*                                                                         *)
(* The program around it: senders send MaxSends messages each and end,     *)
(* receivers receive, and the owner, a receiver, closes the channel when   *)
(* it likes and destroys it when it has joined every other thread. That is *)
(* assumed of the program, not shown: the code does not ask for it, and a  *)
(* thread still inside a channel that is deleted uses freed memory, which  *)
(* has no outcome to model.                                                *)
(***************************************************************************)
EXTENDS Naturals, Sequences, FiniteSets

CONSTANTS
    Senders, Receivers, Owner,
    Nothing,   \* the 0.0 a receive yields on a closed, empty channel
    MaxSends,  \* messages of each sender
    MaxRecvs   \* receives of each receiver

Threads == Senders \cup Receivers
Messages == Senders \X (1 .. MaxSends)

ASSUME ThreadsAssumption == /\ Senders \cap Receivers = {}
                            /\ IsFiniteSet(Threads)
                            /\ Owner \in Receivers
                            /\ Nothing \notin Messages
ASSUME BoundsAssumption == MaxSends \in Nat /\ MaxRecvs \in Nat

VARIABLES
    queue, closed,
    alive,  \* FALSE once the Channel object is deleted
    pc,
    sent,   \* how many messages each sender has offered
    got     \* got[r]: what r's receives have returned, in order

vars == <<queue, closed, alive, pc, sent, got>>

Init ==
    /\ queue = <<>> /\ closed = FALSE /\ alive = TRUE
    /\ pc = [th \in Threads |-> "idle"]
    /\ sent = [s \in Senders |-> 0]
    /\ got = [r \in Receivers |-> <<>>]

Goto(th, l) == pc' = [pc EXCEPT ![th] = l]
Asleep == {r \in Receivers : pc[r] = "asleep"}
\* Mutant: whoever is not busy is sent to its receive.
NotifyAnyone(th, l) ==
    pc' = [x \in Threads |-> IF x = th THEN l
                             ELSE IF pc[x] \in {"asleep", "idle"} THEN "recv" ELSE pc[x]]

\* cv.notify_all: every sleeper re-evaluates its predicate.
NotifyAll(th, l) ==
    pc' = [x \in Threads |-> IF x = th THEN l
                             ELSE IF x \in Asleep THEN "recv" ELSE pc[x]]

----------------------------------------------------------------------------
\* Mutant: the notification is skipped when the queue was not empty.
PushNotifyFirst(s) ==
    /\ pc[s] = "idle"
    /\ sent[s] < MaxSends
    /\ sent' = [sent EXCEPT ![s] = @ + 1]
    /\ IF closed
         THEN UNCHANGED <<queue, pc>>
         ELSE /\ queue' = Append(queue, <<s, sent[s] + 1>>)
              /\ Goto(s, IF queue = <<>> THEN "notify" ELSE "idle")
    /\ UNCHANGED <<closed, alive, got>>

\* flux_chan_send: push, or return when the channel is closed.
Push(s) ==
    /\ pc[s] = "idle"
    /\ sent[s] < MaxSends
    /\ sent' = [sent EXCEPT ![s] = @ + 1]
    /\ IF closed
         THEN UNCHANGED <<queue, pc>>
         ELSE /\ queue' = Append(queue, <<s, sent[s] + 1>>)
              /\ Goto(s, "notify")
    /\ UNCHANGED <<closed, alive, got>>

\* cv.notify_one: one sleeper, if there is one, re-evaluates its predicate.
NotifyOne(s) ==
    /\ pc[s] = "notify"
    /\ IF Asleep = {}
         THEN Goto(s, "idle")
         ELSE \E r \in Asleep : pc' = [pc EXCEPT ![s] = "idle", ![r] = "recv"]
    /\ UNCHANGED <<queue, closed, alive, sent, got>>

\* A sender has sent all it has.
End(s) ==
    /\ pc[s] = "idle"
    /\ sent[s] = MaxSends
    /\ Goto(s, "ended")
    /\ UNCHANGED <<queue, closed, alive, sent, got>>

----------------------------------------------------------------------------
RecvCall(r) ==
    /\ pc[r] = "idle"
    /\ alive
    /\ Len(got[r]) < MaxRecvs
    /\ Goto(r, "recv")
    /\ UNCHANGED <<queue, closed, alive, sent, got>>

\* Mutant: a closed channel is not drained.
RecvStepClosedFirst(r) ==
    /\ pc[r] = "recv"
    /\ IF queue = <<>> /\ ~closed
         THEN Goto(r, "asleep") /\ UNCHANGED <<queue, got>>
         ELSE /\ Goto(r, "idle")
              /\ got' = [got EXCEPT ![r] = Append(@, IF closed THEN Nothing ELSE Head(queue))]
              /\ queue' = IF closed THEN queue ELSE Tail(queue)
    /\ UNCHANGED <<closed, alive, sent>>

\* The wait's predicate, then the pop, under one lock.
RecvStep(r) ==
    /\ pc[r] = "recv"
    /\ IF queue = <<>> /\ ~closed
         THEN Goto(r, "asleep") /\ UNCHANGED <<queue, got>>
         ELSE /\ Goto(r, "idle")
              /\ got' = [got EXCEPT ![r] = Append(@, IF queue = <<>> THEN Nothing ELSE Head(queue))]
              /\ queue' = IF queue = <<>> THEN queue ELSE Tail(queue)
    /\ UNCHANGED <<closed, alive, sent>>

----------------------------------------------------------------------------
\* flux_chan_close sets the flag ...
CloseMark ==
    /\ pc[Owner] = "idle"
    /\ alive /\ ~closed
    /\ closed' = TRUE
    /\ Goto(Owner, "close")
    /\ UNCHANGED <<queue, alive, sent, got>>

\* Mutant: one sleeper is woken, as by a send.
CloseNotifyOne ==
    /\ pc[Owner] = "close"
    /\ IF Asleep = {}
         THEN Goto(Owner, "idle")
         ELSE \E r \in Asleep : pc' = [pc EXCEPT ![Owner] = "idle", ![r] = "recv"]
    /\ UNCHANGED <<queue, closed, alive, sent, got>>

\* ... and wakes everyone.
CloseNotify ==
    /\ pc[Owner] = "close"
    /\ NotifyAll(Owner, "idle")
    /\ UNCHANGED <<queue, closed, alive, sent, got>>

\* The program has joined every other thread.
MayDestroy ==
    /\ \A s \in Senders : pc[s] = "ended"
    /\ \A r \in Receivers \ {Owner} : pc[r] = "idle" /\ Len(got[r]) = MaxRecvs

\* flux_chan_destroy: as close, then delete.
DestroyMark ==
    /\ pc[Owner] = "idle"
    /\ alive
    /\ MayDestroy
    /\ closed' = TRUE
    /\ Goto(Owner, "destroy")
    /\ UNCHANGED <<queue, alive, sent, got>>

DestroyNotify ==
    /\ pc[Owner] = "destroy"
    /\ NotifyAll(Owner, "delete")
    /\ UNCHANGED <<queue, closed, alive, sent, got>>

Delete ==
    /\ pc[Owner] = "delete"
    /\ alive' = FALSE
    /\ Goto(Owner, "idle")
    /\ UNCHANGED <<queue, closed, sent, got>>

OwnerStep == CloseNotify \/ DestroyNotify \/ Delete

Next ==
    \/ \E s \in Senders : Push(s) \/ NotifyOne(s) \/ End(s)
    \/ \E r \in Receivers : RecvCall(r) \/ RecvStep(r)
    \/ CloseMark \/ DestroyMark \/ OwnerStep

\* A thread inside a channel operation goes on; nobody has to start one.
Fairness ==
    /\ \A s \in Senders : WF_vars(NotifyOne(s))
    /\ \A r \in Receivers : WF_vars(RecvStep(r))
    /\ WF_vars(OwnerStep)

Spec == Init /\ [][Next]_vars /\ Fairness
----------------------------------------------------------------------------
TypeOK ==
    /\ queue \in Seq(Messages)
    /\ closed \in BOOLEAN /\ alive \in BOOLEAN
    /\ pc \in [Threads -> {"idle", "notify", "ended", "recv", "asleep", "close", "destroy", "delete"}]
    /\ \A s \in Senders : pc[s] \in {"idle", "notify", "ended"}
    /\ \A r \in Receivers : pc[r] \in {"idle", "recv", "asleep", "close", "destroy", "delete"}
    /\ \A r \in Receivers \ {Owner} : pc[r] \in {"idle", "recv", "asleep"}
    /\ sent \in [Senders -> 0 .. MaxSends]
    /\ got \in [Receivers -> Seq(Messages \cup {Nothing})]

(* A channel is a queue: messages come out once, in the order in which they *)
(* went in, a closed channel is drained before a receive yields nothing,    *)
(* and a receive that can return does: neither notify_one nor the           *)
(* notification outside the mutex loses a wake-up.                          *)
Abstract == INSTANCE Fifo WITH receiving <- {r \in Receivers : pc[r] \in {"recv", "asleep"}}
ImplementsFifo == Abstract!Spec

(* While a receiver sleeps, the messages in the queue are no more than the  *)
(* receivers that are awake to take them and the notifications still owed.  *)
NoMessageUnannounced ==
    Asleep # {} =>
        Len(queue) <= Cardinality({r \in Receivers : pc[r] = "recv"})
                      + Cardinality({s \in Senders : pc[s] = "notify"})

\* Messages of one sender are numbered as it sends them.
Before(m, n) == m[1] = n[1] => m[2] < n[2]
Arrived(m) == \E r \in Receivers : \E k \in 1 .. Len(got[r]) : got[r][k] = m
InQueue(m) == \E k \in 1 .. Len(queue) : queue[k] = m

\* No message is received twice, by one receiver or by two.
ReceivedOnce ==
    \A r, q \in Receivers : \A k \in 1 .. Len(got[r]), l \in 1 .. Len(got[q]) :
        got[r][k] = got[q][l] /\ got[r][k] # Nothing => r = q /\ k = l

\* Each receiver gets the messages of one sender in the order they were sent.
ReceivedInOrder ==
    \A r \in Receivers : \A k, l \in 1 .. Len(got[r]) :
        k < l /\ Nothing \notin {got[r][k], got[r][l]} => Before(got[r][k], got[r][l])

\* What a sender offered has arrived or is in the queue, but for what it offered
\* after the channel was closed.
NothingLost ==
    \A s \in Senders, n \in 1 .. MaxSends :
        n <= sent[s] =>
            \/ Arrived(<<s, n>>) \/ InQueue(<<s, n>>)
            \/ closed /\ \A m \in n .. MaxSends : ~Arrived(<<s, m>>) /\ ~InQueue(<<s, m>>)

\* A receive yields nothing only when all that was sent has been received.
DrainedFirst ==
    \A r \in Receivers : \A k \in 1 .. Len(got[r]) : got[r][k] = Nothing => closed /\ queue = <<>>

(* What a program whose senders and receivers share a channel may count on: *)
(* every message sent before the close is received exactly once, each       *)
(* receiver gets one sender's messages in order, and nothing is yielded     *)
(* before the channel is closed and drained.                                *)
Delivery == ReceivedOnce /\ ReceivedInOrder /\ NothingLost /\ DrainedFirst

(* Nobody sleeps past the end of the channel: while a receiver sleeps on a  *)
(* closed channel, flux_chan_close, which sets the flag in one step and     *)
(* notifies in another, is still on its way to wake it, however the close   *)
(* falls among the sends and the receives of the others.                    *)
SleepersAreWoken ==
    Asleep # {} /\ closed => pc[Owner] \in {"close", "destroy"}
----------------------------------------------------------------------------
(* The inductive invariant behind Delivery: the queue holds what was sent    *)
(* last, in order.                                                           *)
QueueInOrder == \A k, l \in 1 .. Len(queue) : k < l => Before(queue[k], queue[l])

QueueIsLater ==
    \A r \in Receivers : \A k \in 1 .. Len(got[r]), l \in 1 .. Len(queue) :
        got[r][k] # Nothing => Before(got[r][k], queue[l])

OnlySent == \A m \in Messages : Arrived(m) \/ InQueue(m) => m[2] <= sent[m[1]]

DeliveryInv == Delivery /\ QueueInOrder /\ QueueIsLater /\ OnlySent
=============================================================================
