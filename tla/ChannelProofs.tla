---------------------------- MODULE ChannelProofs ----------------------------
(***************************************************************************)
(* Proofs about Channel, for any finite sets of senders and receivers and  *)
(* any numbers of messages and receives. NoMessageUnannounced is inductive *)
(* as it stands, given the types: what one side of its inequality loses    *)
(* the other does. So is SleepersAreWoken.                                 *)
(*                                                                         *)
(* Delivery, that no message is lost or doubled and none overtakes another *)
(* of its sender, is inductive with DeliveryInv: a sender's messages that  *)
(* have been received, those in the queue and those not sent yet come in   *)
(* this order.                                                             *)
(***************************************************************************)
EXTENDS Channel, FiniteSetTheorems, SequenceTheorems, TLAPS

Awake == {r \in Receivers : pc[r] = "recv"}
Notifying == {s \in Senders : pc[s] = "notify"}

\* The two sets the property counts are finite, before a step and after it.
LEMMA FiniteParts ==
    /\ IsFiniteSet(Awake) /\ Cardinality(Awake) \in Nat
    /\ IsFiniteSet(Notifying) /\ Cardinality(Notifying) \in Nat
<1>1. IsFiniteSet(Threads) /\ Awake \subseteq Threads /\ Notifying \subseteq Threads
  BY ThreadsAssumption DEF Threads, Awake, Notifying
<1> QED
  BY <1>1, FS_Subset, FS_CardinalityType

LEMMA FinitePartsNext ==
    /\ IsFiniteSet(Awake') /\ Cardinality(Awake') \in Nat
    /\ IsFiniteSet(Notifying') /\ Cardinality(Notifying') \in Nat
<1>1. IsFiniteSet(Threads) /\ Awake' \subseteq Threads /\ Notifying' \subseteq Threads
  BY ThreadsAssumption DEF Threads, Awake, Notifying
<1> QED
  BY <1>1, FS_Subset, FS_CardinalityType
----------------------------------------------------------------------------
\* What TypeOK says of the threads.
PcOK ==
    /\ pc \in [Threads -> {"idle", "notify", "ended", "recv", "asleep", "close", "destroy", "delete"}]
    /\ \A s \in Senders : pc[s] \in {"idle", "notify", "ended"}
    /\ \A r \in Receivers : pc[r] \in {"idle", "recv", "asleep", "close", "destroy", "delete"}
    /\ \A r \in Receivers \ {Owner} : pc[r] \in {"idle", "recv", "asleep"}

LEMMA SenderMoves ==
    ASSUME PcOK, NEW s \in Senders, NEW l \in {"idle", "notify", "ended"},
           pc' = [pc EXCEPT ![s] = l]
    PROVE  PcOK'
<1>1. s \in Threads /\ s \notin Receivers
  BY ThreadsAssumption DEF Threads
<1> QED
  BY <1>1 DEF PcOK

LEMMA ReceiverMoves ==
    ASSUME PcOK, NEW r \in Receivers,
           NEW l \in {"idle", "recv", "asleep", "close", "destroy", "delete"},
           r = Owner \/ l \in {"idle", "recv", "asleep"},
           pc' = [pc EXCEPT ![r] = l]
    PROVE  PcOK'
<1>1. r \in Threads /\ r \notin Senders
  BY ThreadsAssumption DEF Threads
<1> QED
  BY <1>1 DEF PcOK

LEMMA TypeParts ==
    TypeOK <=> /\ PcOK
               /\ queue \in Seq(Messages)
               /\ closed \in BOOLEAN /\ alive \in BOOLEAN
               /\ sent \in [Senders -> 0 .. MaxSends]
               /\ got \in [Receivers -> Seq(Messages \cup {Nothing})]
  BY DEF TypeOK, PcOK

LEMMA InitType == Init => TypeOK
<1> SUFFICES ASSUME Init PROVE TypeOK
  OBVIOUS
<1>1. PcOK
  BY DEF Init, PcOK, Threads
<1>2. queue \in Seq(Messages) /\ got \in [Receivers -> Seq(Messages \cup {Nothing})]
  BY DEF Init
<1>3. sent \in [Senders -> 0 .. MaxSends]
  BY BoundsAssumption DEF Init
<1> QED
  BY <1>1, <1>2, <1>3, TypeParts DEF Init

LEMMA PushType == ASSUME TypeOK, NEW s \in Senders, Push(s) PROVE TypeOK'
<1>1. s \in Threads /\ s \notin Receivers /\ sent[s] + 1 \in 1 .. MaxSends
  BY ThreadsAssumption, BoundsAssumption DEF TypeOK, Push, Threads
<1>2. <<s, sent[s] + 1>> \in Messages
  BY <1>1 DEF Messages
<1>3. queue' \in Seq(Messages)
  <2>1. queue \in Seq(Messages)
    BY DEF TypeOK
  <2>2. Append(queue, <<s, sent[s] + 1>>) \in Seq(Messages)
    BY <1>2, <2>1
  <2> QED
    BY <2>1, <2>2 DEF Push
<1>4. sent' \in [Senders -> 0 .. MaxSends]
  BY <1>1, BoundsAssumption DEF TypeOK, Push
<1>5. pc' = pc \/ pc' = [pc EXCEPT ![s] = "notify"]
  BY DEF Push, Goto
<1>6. pc' = pc => PcOK'
  BY TypeParts DEF PcOK
<1>7. PcOK'
  BY <1>5, <1>6, SenderMoves, TypeParts
<1>8. closed' = closed /\ alive' = alive /\ got' = got
  BY DEF Push
<1> QED
  BY <1>3, <1>4, <1>7, <1>8 DEF TypeOK, PcOK

LEMMA RecvStepType == ASSUME TypeOK, NEW r \in Receivers, RecvStep(r) PROVE TypeOK'
<1>1. r \in Threads /\ r \notin Senders
  BY ThreadsAssumption DEF Threads
<1>2. pc' = [pc EXCEPT ![r] = "asleep"] \/ pc' = [pc EXCEPT ![r] = "idle"]
  BY DEF RecvStep, Goto
<1>3. queue' \in Seq(Messages)
  <2>1. queue \in Seq(Messages)
    BY DEF TypeOK
  <2>2. queue # <<>> => Tail(queue) \in Seq(Messages)
    BY <2>1, HeadTailProperties
  <2>3. queue' = queue \/ (queue # <<>> /\ queue' = Tail(queue))
    BY DEF RecvStep
  <2> QED
    BY <2>1, <2>2, <2>3
<1>4. got' \in [Receivers -> Seq(Messages \cup {Nothing})]
  <2>1. queue # <<>> => Head(queue) \in Messages
    BY HeadTailProperties DEF TypeOK
  <2> DEFINE v == IF queue = <<>> THEN Nothing ELSE Head(queue)
  <2>2. v \in Messages \cup {Nothing}
    BY <2>1
  <2>3. got' = got \/ got' = [got EXCEPT ![r] = Append(@, v)]
    BY DEF RecvStep
  <2> HIDE DEF v
  <2>4. got[r] \in Seq(Messages \cup {Nothing})
    BY DEF TypeOK
  <2>5. Append(got[r], v) \in Seq(Messages \cup {Nothing})
    BY <2>2, <2>4
  <2> QED
    BY <2>3, <2>5 DEF TypeOK
<1>5. PcOK'
  BY <1>2, ReceiverMoves, TypeParts
<1>6. closed' = closed /\ alive' = alive /\ sent' = sent
  BY DEF RecvStep
<1> QED
  BY <1>3, <1>4, <1>5, <1>6 DEF TypeOK, PcOK

LEMMA NotifyAllType ==
    ASSUME TypeOK, NEW l \in {"idle", "delete"}, NotifyAll(Owner, l),
           UNCHANGED <<queue, closed, alive, sent, got>>
    PROVE  TypeOK'
<1>1. Owner \in Receivers /\ Owner \in Threads /\ Owner \notin Senders
  BY ThreadsAssumption DEF Threads
<1>2. \A x \in Threads : pc'[x] = IF x = Owner THEN l
                                   ELSE IF x \in Receivers /\ pc[x] = "asleep" THEN "recv" ELSE pc[x]
  BY DEF NotifyAll, Asleep
<1>3. pc' \in [Threads -> {"idle", "notify", "ended", "recv", "asleep", "close", "destroy", "delete"}]
  BY <1>1, <1>2 DEF NotifyAll, TypeOK
<1>4. Senders \subseteq Threads /\ Receivers \subseteq Threads
  BY DEF Threads
<1> QED
  BY <1>1, <1>2, <1>3, <1>4, ThreadsAssumption DEF TypeOK

LEMMA NextType == TypeOK /\ [Next]_vars => TypeOK'
<1> SUFFICES ASSUME TypeOK, [Next]_vars PROVE TypeOK'
  OBVIOUS
<1>0. Owner \in Receivers /\ Owner \in Threads /\ Owner \notin Senders
  BY ThreadsAssumption DEF Threads
<1>1. ASSUME NEW s \in Senders, Push(s) PROVE TypeOK'
  BY <1>1, PushType
<1>2. ASSUME NEW s \in Senders, NotifyOne(s) PROVE TypeOK'
  <2>1. s \in Threads /\ s \notin Receivers
    BY ThreadsAssumption DEF Threads
  <2>2. CASE Asleep = {}
    <3>1. pc' = [pc EXCEPT ![s] = "idle"]
      BY <1>2, <2>2 DEF NotifyOne, Goto
    <3>2. PcOK'
      BY <3>1, SenderMoves, TypeParts
    <3> QED
      BY <1>2, <3>2 DEF TypeOK, PcOK, NotifyOne
  <2>3. ASSUME NEW r \in Asleep, pc' = [pc EXCEPT ![s] = "idle", ![r] = "recv"] PROVE TypeOK'
    <3>1. r \in Receivers /\ r \in Threads /\ r \notin Senders /\ pc[r] = "asleep"
      BY <2>3, ThreadsAssumption DEF Asleep, Threads
    <3>2. PcOK'
      <4>1. PcOK
        BY TypeParts
      <4>2. Senders \subseteq Threads /\ Receivers \subseteq Threads
        BY DEF Threads
      <4>3. \A x \in Threads : pc'[x] = IF x = r THEN "recv" ELSE IF x = s THEN "idle" ELSE pc[x]
        BY <2>1, <2>3, <3>1, <4>1 DEF PcOK
      <4>4. pc' \in [Threads -> {"idle", "notify", "ended", "recv", "asleep", "close", "destroy", "delete"}]
        BY <2>3, <4>1 DEF PcOK
      <4> QED
        BY <2>1, <3>1, <4>1, <4>2, <4>3, <4>4 DEF PcOK
    <3> QED
      BY <1>2, <3>2 DEF TypeOK, PcOK, NotifyOne
  <2> QED
    BY <1>2, <2>2, <2>3 DEF NotifyOne
<1>3. ASSUME NEW s \in Senders, End(s) PROVE TypeOK'
  <2>1. s \in Threads /\ s \notin Receivers
    BY ThreadsAssumption DEF Threads
  <2> QED
    BY <1>3, <2>1 DEF TypeOK, End, Goto
<1>4. ASSUME NEW r \in Receivers, RecvCall(r) PROVE TypeOK'
  <2>1. r \in Threads /\ r \notin Senders
    BY ThreadsAssumption DEF Threads
  <2> QED
    BY <1>4, <2>1 DEF TypeOK, RecvCall, Goto
<1>5. ASSUME NEW r \in Receivers, RecvStep(r) PROVE TypeOK'
  BY <1>5, RecvStepType
<1>6. CASE CloseMark
  BY <1>0, <1>6 DEF TypeOK, CloseMark, Goto
<1>7. CASE DestroyMark
  BY <1>0, <1>7 DEF TypeOK, DestroyMark, Goto
<1>8. CASE CloseNotify
  BY <1>8, NotifyAllType DEF CloseNotify
<1>9. CASE DestroyNotify
  BY <1>9, NotifyAllType DEF DestroyNotify
<1>10. CASE Delete
  <2>1. pc' = [pc EXCEPT ![Owner] = "idle"]
    BY <1>10 DEF Delete, Goto
  <2>2. PcOK'
    BY <1>0, <2>1, ReceiverMoves, TypeParts
  <2> QED
    BY <1>10, <2>2 DEF TypeOK, PcOK, Delete
<1>11. CASE UNCHANGED vars
  BY <1>11 DEF TypeOK, vars
<1> QED
  BY <1>1, <1>2, <1>3, <1>4, <1>5, <1>6, <1>7, <1>8, <1>9, <1>10, <1>11 DEF Next, OwnerStep

(* Every variable of a channel and of its threads keeps its type.           *)
THEOREM TypeCorrect == Spec => []TypeOK
  BY InitType, NextType, PTL DEF Spec
----------------------------------------------------------------------------
\* The steps in which neither a thread nor the queue changes as far as the
\* property can tell.
LEMMA SameParts ==
    ASSUME NoMessageUnannounced, Awake' = Awake, Notifying' = Notifying, Asleep' = Asleep,
           queue' = queue
    PROVE  NoMessageUnannounced'
  BY DEF NoMessageUnannounced, Awake, Notifying

LEMMA NoSleepers == ASSUME Asleep' = {} PROVE NoMessageUnannounced'
  BY DEF NoMessageUnannounced

LEMMA PushAnnounced ==
    ASSUME TypeOK, NoMessageUnannounced, NEW s \in Senders, Push(s) PROVE NoMessageUnannounced'
<1>1. s \in Threads /\ s \notin Receivers /\ Receivers \subseteq Threads /\ Senders \subseteq Threads
  BY ThreadsAssumption DEF Threads
<1>2. CASE closed
  BY <1>2, SameParts DEF Push, Awake, Notifying, Asleep
<1>3. CASE ~closed
  <2>1. /\ queue' = Append(queue, <<s, sent[s] + 1>>)
        /\ pc' = [pc EXCEPT ![s] = "notify"] /\ pc[s] = "idle"
    BY <1>3 DEF Push, Goto
  <2>2. Awake' = Awake /\ Asleep' = Asleep
    BY <1>1, <2>1 DEF Awake, Asleep, TypeOK
  <2>3. Notifying' = Notifying \cup {s} /\ s \notin Notifying
    BY <1>1, <2>1 DEF Notifying, TypeOK
  <2>4. Cardinality(Notifying') = Cardinality(Notifying) + 1
    BY <2>3, FiniteParts, FS_AddElement
  <2>5. Len(queue') = Len(queue) + 1 /\ Len(queue) \in Nat
    BY <2>1 DEF TypeOK
  <2>6. Asleep # {} => Len(queue) <= Cardinality(Awake) + Cardinality(Notifying)
    BY DEF NoMessageUnannounced, Awake, Notifying
  <2>7. Asleep' # {} => Len(queue') <= Cardinality(Awake') + Cardinality(Notifying')
    BY <2>2, <2>4, <2>5, <2>6, FiniteParts
  <2> QED
    BY <2>7 DEF NoMessageUnannounced, Awake, Notifying
<1> QED
  BY <1>2, <1>3

LEMMA NotifyOneAnnounced ==
    ASSUME TypeOK, NoMessageUnannounced, NEW s \in Senders, NotifyOne(s) PROVE NoMessageUnannounced'
<1>1. s \in Threads /\ s \notin Receivers /\ Receivers \subseteq Threads /\ Senders \subseteq Threads
  BY ThreadsAssumption DEF Threads
<1>2. CASE Asleep = {}
  <2>1. Asleep' = {}
    BY <1>1, <1>2 DEF NotifyOne, Goto, Asleep, TypeOK
  <2> QED
    BY <2>1, NoSleepers
<1>3. CASE Asleep # {}
  <2>1. PICK r \in Asleep : pc' = [pc EXCEPT ![s] = "idle", ![r] = "recv"]
    BY <1>3 DEF NotifyOne
  <2>2. r \in Receivers /\ r \notin Senders /\ r \in Threads /\ pc[r] = "asleep" /\ r # s /\ pc[s] = "notify"
    BY <1>1, ThreadsAssumption DEF Asleep, NotifyOne, Threads
  <2>3. Awake' = Awake \cup {r} /\ r \notin Awake
    BY <1>1, <2>1, <2>2 DEF Awake, TypeOK
  <2>4. Notifying' = Notifying \ {s} /\ s \in Notifying
    BY <1>1, <2>1, <2>2 DEF Notifying, TypeOK
  <2>5. Cardinality(Awake') = Cardinality(Awake) + 1
    BY <2>3, FiniteParts, FS_AddElement
  <2>6. Cardinality(Notifying') = Cardinality(Notifying) - 1
    BY <2>4, FiniteParts, FS_RemoveElement
  <2>7. Len(queue) <= Cardinality(Awake) + Cardinality(Notifying)
    BY <1>3 DEF NoMessageUnannounced, Awake, Notifying
  <2>8. queue' = queue
    BY DEF NotifyOne
  <2>9. Len(queue') <= Cardinality(Awake') + Cardinality(Notifying')
    BY <2>5, <2>6, <2>7, <2>8, FiniteParts
  <2> QED
    BY <2>9 DEF NoMessageUnannounced, Awake, Notifying
<1> QED
  BY <1>2, <1>3

LEMMA RecvCallAnnounced ==
    ASSUME TypeOK, NoMessageUnannounced, NEW r \in Receivers, RecvCall(r) PROVE NoMessageUnannounced'
<1>1. r \in Threads /\ r \notin Senders /\ Receivers \subseteq Threads /\ Senders \subseteq Threads
  BY ThreadsAssumption DEF Threads
<1>2. pc' = [pc EXCEPT ![r] = "recv"] /\ pc[r] = "idle" /\ queue' = queue
  BY DEF RecvCall, Goto
<1>3. Awake' = Awake \cup {r} /\ r \notin Awake
  BY <1>1, <1>2 DEF Awake, TypeOK
<1>4. Notifying' = Notifying /\ Asleep' = Asleep
  BY <1>1, <1>2 DEF Notifying, Asleep, TypeOK
<1>5. Cardinality(Awake') = Cardinality(Awake) + 1
  BY <1>3, FiniteParts, FS_AddElement
<1>6. Asleep # {} => Len(queue) <= Cardinality(Awake) + Cardinality(Notifying)
  BY DEF NoMessageUnannounced, Awake, Notifying
<1>7. Len(queue) \in Nat
  BY DEF TypeOK
<1>8. Asleep' # {} => Len(queue') <= Cardinality(Awake') + Cardinality(Notifying')
  BY <1>2, <1>4, <1>5, <1>6, <1>7, FiniteParts
<1> QED
  BY <1>8 DEF NoMessageUnannounced, Awake, Notifying

LEMMA RecvStepAnnounced ==
    ASSUME TypeOK, NoMessageUnannounced, NEW r \in Receivers, RecvStep(r) PROVE NoMessageUnannounced'
<1>1. r \in Threads /\ r \notin Senders /\ Receivers \subseteq Threads /\ Senders \subseteq Threads
  BY ThreadsAssumption DEF Threads
<1>2. CASE queue = <<>>
  <2>1. Len(queue') = 0
    BY <1>2 DEF RecvStep
  <2>2. Len(queue') <= Cardinality(Awake') + Cardinality(Notifying')
    BY <2>1, FinitePartsNext
  <2> QED
    BY <2>2 DEF NoMessageUnannounced, Awake, Notifying
<1>3. CASE queue # <<>>
  <2>1. pc' = [pc EXCEPT ![r] = "idle"] /\ pc[r] = "recv" /\ queue' = Tail(queue)
    BY <1>3 DEF RecvStep, Goto
  <2>2. Awake' = Awake \ {r} /\ r \in Awake
    BY <1>1, <2>1 DEF Awake, TypeOK
  <2>3. Notifying' = Notifying /\ Asleep' = Asleep
    BY <1>1, <2>1 DEF Notifying, Asleep, TypeOK
  <2>4. Cardinality(Awake') = Cardinality(Awake) - 1
    BY <2>2, FiniteParts, FS_RemoveElement
  <2>5. Len(queue') = Len(queue) - 1 /\ Len(queue) \in Nat
    BY <1>3, <2>1, HeadTailProperties, LenProperties DEF TypeOK
  <2>6. Asleep # {} => Len(queue) <= Cardinality(Awake) + Cardinality(Notifying)
    BY DEF NoMessageUnannounced, Awake, Notifying
  <2>7. Asleep' # {} => Len(queue') <= Cardinality(Awake') + Cardinality(Notifying')
    BY <2>3, <2>4, <2>5, <2>6, FiniteParts
  <2> QED
    BY <2>7 DEF NoMessageUnannounced, Awake, Notifying
<1> QED
  BY <1>2, <1>3

LEMMA NextAnnounced == TypeOK /\ NoMessageUnannounced /\ [Next]_vars => NoMessageUnannounced'
<1> SUFFICES ASSUME TypeOK, NoMessageUnannounced, [Next]_vars PROVE NoMessageUnannounced'
  OBVIOUS
<1>0. Owner \in Receivers /\ Owner \in Threads /\ Owner \notin Senders
        /\ Receivers \subseteq Threads /\ Senders \subseteq Threads
  BY ThreadsAssumption DEF Threads
<1>1. ASSUME NEW s \in Senders, End(s) PROVE NoMessageUnannounced'
  <2>1. s \in Threads /\ s \notin Receivers
    BY ThreadsAssumption DEF Threads
  <2>2. Awake' = Awake /\ Notifying' = Notifying /\ Asleep' = Asleep /\ queue' = queue
    BY <1>0, <1>1, <2>1 DEF End, Goto, TypeOK, Awake, Notifying, Asleep
  <2> QED
    BY <2>2, SameParts
<1>2. ASSUME NEW l \in {"close", "destroy", "idle"}, pc' = [pc EXCEPT ![Owner] = l],
             pc[Owner] \in {"idle", "delete"}, queue' = queue
      PROVE  NoMessageUnannounced'
  <2>1. Awake' = Awake /\ Notifying' = Notifying /\ Asleep' = Asleep /\ queue' = queue
    BY <1>0, <1>2 DEF TypeOK, Awake, Notifying, Asleep
  <2> QED
    BY <2>1, SameParts
<1>3. CASE CloseMark
  BY <1>2, <1>3 DEF CloseMark, Goto
<1>4. CASE DestroyMark
  BY <1>2, <1>4 DEF DestroyMark, Goto
<1>5. CASE Delete
  BY <1>2, <1>5 DEF Delete, Goto
<1>6. ASSUME NEW l \in {"idle", "delete"}, NotifyAll(Owner, l) PROVE NoMessageUnannounced'
  <2>1. Asleep' = {}
    BY <1>0, <1>6 DEF NotifyAll, Asleep
  <2> QED
    BY <2>1, NoSleepers
<1>7. CASE CloseNotify \/ DestroyNotify
  BY <1>6, <1>7 DEF CloseNotify, DestroyNotify
<1>8. CASE UNCHANGED vars
  BY <1>8, SameParts DEF vars, Awake, Notifying, Asleep
<1> QED
  BY <1>1, <1>3, <1>4, <1>5, <1>7, <1>8, PushAnnounced, NotifyOneAnnounced, RecvCallAnnounced,
     RecvStepAnnounced DEF Next, OwnerStep

(* No wake-up is lost: while a receiver sleeps, somebody is awake, or about *)
(* to be woken, for each message in the queue.                              *)
THEOREM Announced == Spec => []NoMessageUnannounced
<1>1. Init => TypeOK /\ NoMessageUnannounced
  <2>1. Init => Asleep = {}
    BY DEF Init, Asleep, Threads
  <2> QED
    BY <2>1, InitType DEF NoMessageUnannounced
<1> QED
  BY <1>1, NextType, NextAnnounced, PTL DEF Spec
----------------------------------------------------------------------------
Receiving == {r \in Receivers : pc[r] \in {"recv", "asleep"}}

LEMMA InitMaps == Init => Abstract!Init
  BY DEF Init, Abstract!Init, Threads

LEMMA NextMaps == TypeOK /\ [Next]_vars => [Abstract!Next]_Abstract!vars
<1> SUFFICES ASSUME TypeOK, [Next]_vars PROVE [Abstract!Next]_Abstract!vars
  OBVIOUS
<1>0. Owner \in Receivers /\ Owner \in Threads /\ Receivers \subseteq Threads /\ Senders \subseteq Threads
        /\ Senders \cap Receivers = {}
  BY ThreadsAssumption DEF Threads
<1>1. ASSUME Receiving' = Receiving, UNCHANGED <<queue, closed, got>> PROVE UNCHANGED Abstract!vars
  BY <1>1 DEF Abstract!vars, Receiving
<1>2. ASSUME NEW s \in Senders, NEW l, pc' = [pc EXCEPT ![s] = l] PROVE Receiving' = Receiving
  BY <1>0, <1>2 DEF Receiving, TypeOK
<1>3. ASSUME NEW l \in {"idle", "close", "destroy"}, pc' = [pc EXCEPT ![Owner] = l],
             pc[Owner] \notin {"recv", "asleep"}
      PROVE  Receiving' = Receiving
  BY <1>0, <1>3 DEF Receiving, TypeOK
<1>4. ASSUME NEW s \in Senders, Push(s) PROVE [Abstract!Next]_Abstract!vars
  <2>1. Receiving' = Receiving
    <3>1. pc' = pc \/ pc' = [pc EXCEPT ![s] = "notify"]
      BY <1>4 DEF Push, Goto
    <3> QED
      BY <1>2, <3>1 DEF Receiving
  <2>2. CASE closed
    BY <1>1, <1>4, <2>1, <2>2 DEF Push
  <2>3. CASE ~closed
    <3>1. sent[s] + 1 \in 1 .. MaxSends
      BY <1>4, BoundsAssumption DEF Push, TypeOK
    <3>2. <<s, sent[s] + 1>> \in Messages
      BY <3>1 DEF Messages
    <3>3. Abstract!Send(<<s, sent[s] + 1>>)
      BY <1>4, <2>1, <2>3 DEF Abstract!Send, Push, Receiving
    <3> QED
      BY <3>2, <3>3 DEF Abstract!Next
  <2> QED
    BY <2>2, <2>3
<1>5. ASSUME NEW s \in Senders, NotifyOne(s) PROVE [Abstract!Next]_Abstract!vars
  <2>1. Receiving' = Receiving
    <3>1. CASE Asleep = {}
      BY <1>2, <1>5, <3>1 DEF NotifyOne, Goto
    <3>2. CASE Asleep # {}
      <4>1. PICK r \in Asleep : pc' = [pc EXCEPT ![s] = "idle", ![r] = "recv"]
        BY <1>5, <3>2 DEF NotifyOne
      <4>2. r \in Receivers /\ r \in Receiving /\ s \notin Receivers
        BY <1>0 DEF Asleep, Receiving
      <4>3. \A x \in Receivers : pc'[x] = IF x = r THEN "recv" ELSE pc[x]
        BY <1>0, <4>1, <4>2 DEF TypeOK
      <4> QED
        BY <4>2, <4>3 DEF Receiving
    <3> QED
      BY <3>1, <3>2
  <2> QED
    BY <1>1, <1>5, <2>1 DEF NotifyOne
<1>6. ASSUME NEW s \in Senders, End(s) PROVE [Abstract!Next]_Abstract!vars
  BY <1>1, <1>2, <1>6 DEF End, Goto
<1>7. ASSUME NEW r \in Receivers, RecvCall(r) PROVE [Abstract!Next]_Abstract!vars
  <2>1. pc' = [pc EXCEPT ![r] = "recv"] /\ pc[r] = "idle"
    BY <1>7 DEF RecvCall, Goto
  <2>2. Receiving' = Receiving \cup {r} /\ r \notin Receiving
    BY <1>0, <2>1 DEF Receiving, TypeOK
  <2>3. Abstract!Call(r)
    BY <1>7, <2>2 DEF Abstract!Call, RecvCall, Receiving
  <2> QED
    BY <2>3 DEF Abstract!Next
<1>8. ASSUME NEW r \in Receivers, RecvStep(r) PROVE [Abstract!Next]_Abstract!vars
  <2>1. CASE queue = <<>> /\ ~closed
    <3>1. pc' = [pc EXCEPT ![r] = "asleep"] /\ pc[r] = "recv"
      BY <1>8, <2>1 DEF RecvStep, Goto
    <3>2. Receiving' = Receiving
      BY <1>0, <3>1 DEF Receiving, TypeOK
    <3> QED
      BY <1>1, <1>8, <2>1, <3>2 DEF RecvStep
  <2>2. CASE ~(queue = <<>> /\ ~closed)
    <3>1. pc' = [pc EXCEPT ![r] = "idle"] /\ pc[r] = "recv"
      BY <1>8, <2>2 DEF RecvStep, Goto
    <3>2. Receiving' = Receiving \ {r} /\ r \in Receiving
      BY <1>0, <3>1 DEF Receiving, TypeOK
    <3>3. CASE queue = <<>>
      <4>1. got' = [got EXCEPT ![r] = Append(@, Nothing)] /\ queue' = queue /\ closed' = closed /\ closed
        BY <1>8, <2>2, <3>3 DEF RecvStep
      <4>2. Abstract!Return(r)
        BY <3>2, <3>3, <4>1 DEF Abstract!Return, Receiving
      <4> QED
        BY <4>2 DEF Abstract!Next
    <3>4. CASE queue # <<>>
      <4>1. got' = [got EXCEPT ![r] = Append(@, Head(queue))] /\ queue' = Tail(queue) /\ closed' = closed
        BY <1>8, <2>2, <3>4 DEF RecvStep
      <4>2. Abstract!Return(r)
        BY <3>2, <3>4, <4>1 DEF Abstract!Return, Receiving
      <4> QED
        BY <4>2 DEF Abstract!Next
    <3> QED
      BY <3>3, <3>4
  <2> QED
    BY <2>1, <2>2
<1>9. CASE CloseMark \/ DestroyMark
  <2>1. Receiving' = Receiving
    BY <1>3, <1>9 DEF CloseMark, DestroyMark, Goto
  <2>2. Abstract!Close
    BY <1>9, <2>1 DEF Abstract!Close, CloseMark, DestroyMark, Receiving
  <2> QED
    BY <2>2 DEF Abstract!Next
<1>10. CASE CloseNotify \/ DestroyNotify
  <2>1. pc[Owner] \notin {"recv", "asleep"} /\ pc'[Owner] \notin {"recv", "asleep"}
    BY <1>0, <1>10 DEF CloseNotify, DestroyNotify, NotifyAll
  <2>2. \A r \in Receivers \ {Owner} : pc'[r] = IF pc[r] = "asleep" THEN "recv" ELSE pc[r]
    BY <1>0, <1>10 DEF CloseNotify, DestroyNotify, NotifyAll, Asleep
  <2>3. Receiving' = Receiving
    BY <2>1, <2>2 DEF Receiving
  <2> QED
    BY <1>1, <1>10, <2>3 DEF CloseNotify, DestroyNotify
<1>11. CASE Delete
  BY <1>1, <1>3, <1>11 DEF Delete, Goto
<1>12. CASE UNCHANGED vars
  BY <1>1, <1>12 DEF vars, Receiving
<1> QED
  BY <1>4, <1>5, <1>6, <1>7, <1>8, <1>9, <1>10, <1>11, <1>12 DEF Next, OwnerStep

(* A channel implements the abstract queue, its progress apart: every step  *)
(* of a thread inside it is a send, a call, a return or a close of the      *)
(* queue, or changes nothing of it.                                         *)
THEOREM RefinesFifo == Spec => Abstract!Init /\ [][Abstract!Next]_Abstract!vars
  BY InitMaps, NextMaps, InitType, NextType, PTL DEF Spec

----------------------------------------------------------------------------
(* Delivery *)

LEMMA AppendAt ==
    ASSUME NEW S, NEW q \in Seq(S), NEW x \in S
    PROVE  /\ Append(q, x) \in Seq(S) /\ Len(Append(q, x)) = Len(q) + 1 /\ Len(q) \in Nat
           /\ \A k \in 1 .. Len(q) : Append(q, x)[k] = q[k]
           /\ Append(q, x)[Len(q) + 1] = x
BY AppendProperties

LEMMA TailAt ==
    ASSUME NEW S, NEW q \in Seq(S), q # <<>>
    PROVE  /\ Tail(q) \in Seq(S) /\ Len(Tail(q)) = Len(q) - 1 /\ Len(q) \in Nat \ {0}
           /\ \A k \in 1 .. Len(q) - 1 : Tail(q)[k] = q[k + 1]
           /\ Head(q) = q[1] /\ Head(q) \in S
BY HeadTailProperties, EmptySeq

\* Steps that neither send nor receive.
LEMMA QuietDelivery ==
    ASSUME DeliveryInv, UNCHANGED <<queue, got, sent>>, closed => closed' PROVE DeliveryInv'
<1> USE DEF DeliveryInv, Delivery, Before
<1>1. ReceivedOnce' /\ ReceivedInOrder' /\ QueueInOrder' /\ QueueIsLater' /\ DrainedFirst'
  BY DEF ReceivedOnce, ReceivedInOrder, QueueInOrder, QueueIsLater, DrainedFirst
<1>2. \A m : (Arrived(m)' <=> Arrived(m)) /\ (InQueue(m)' <=> InQueue(m))
  BY DEF Arrived, InQueue
<1>3. OnlySent'
  BY <1>2 DEF OnlySent
<1>4. NothingLost'
  BY <1>2 DEF NothingLost
<1> QED
  BY <1>1, <1>3, <1>4

\* A send on a closed channel: what was offered is dropped, and so is all that
\* the sender offers after it.
LEMMA DropDelivery ==
    ASSUME TypeOK, DeliveryInv, NEW s \in Senders, Push(s), closed PROVE DeliveryInv'
<1>0. /\ sent[s] \in Nat /\ sent' = [sent EXCEPT ![s] = sent[s] + 1]
      /\ UNCHANGED <<queue, got, closed>>
      /\ \A u \in Senders : sent[u] \in Nat /\ sent'[u] = IF u = s THEN sent[s] + 1 ELSE sent[u]
  BY BoundsAssumption DEF Push, TypeOK
<1> USE DEF DeliveryInv, Delivery, Before
<1>1. ReceivedOnce' /\ ReceivedInOrder' /\ QueueInOrder' /\ QueueIsLater' /\ DrainedFirst'
  BY <1>0 DEF ReceivedOnce, ReceivedInOrder, QueueInOrder, QueueIsLater, DrainedFirst
<1>2. \A m : (Arrived(m)' <=> Arrived(m)) /\ (InQueue(m)' <=> InQueue(m))
  BY <1>0 DEF Arrived, InQueue
<1>3. OnlySent'
  <2> SUFFICES ASSUME NEW m \in Messages, Arrived(m) \/ InQueue(m) PROVE m[2] <= sent'[m[1]]
    BY <1>2 DEF OnlySent
  <2>1. m[1] \in Senders /\ m[2] \in Nat /\ m[2] <= sent[m[1]]
    BY BoundsAssumption DEF OnlySent, Messages
  <2> QED
    BY <1>0, <2>1
<1>4. NothingLost'
  <2> SUFFICES ASSUME NEW u \in Senders, NEW n \in 1 .. MaxSends, n <= sent'[u],
                      ~(Arrived(<<u, n>>) \/ InQueue(<<u, n>>))
               PROVE  \A m \in n .. MaxSends : ~Arrived(<<u, m>>) /\ ~InQueue(<<u, m>>)
    BY <1>0, <1>2 DEF NothingLost
  <2>1. CASE n <= sent[u]
    BY <2>1 DEF NothingLost
  <2>2. CASE ~(n <= sent[u])
    <3> SUFFICES ASSUME NEW m \in n .. MaxSends PROVE ~Arrived(<<u, m>>) /\ ~InQueue(<<u, m>>)
      OBVIOUS
    <3>1. <<u, m>> \in Messages /\ m > sent[u]
      BY <1>0, <2>2, BoundsAssumption DEF Messages
    <3> QED
      BY <1>0, <3>1, BoundsAssumption DEF OnlySent
  <2> QED
    BY <2>1, <2>2
<1> QED
  BY <1>1, <1>3, <1>4

\* A send: the new message is the sender's last, and the last in the queue.
LEMMA PushDelivery ==
    ASSUME TypeOK, DeliveryInv, NEW s \in Senders, Push(s), ~closed PROVE DeliveryInv'
<1> DEFINE x == <<s, sent[s] + 1>>
<1>0. /\ sent[s] \in Nat /\ sent[s] + 1 \in 1 .. MaxSends /\ x \in Messages
      /\ queue \in Seq(Messages) /\ queue' = Append(queue, x)
      /\ UNCHANGED <<got, closed>>
      /\ \A u \in Senders : sent[u] \in Nat /\ sent'[u] = IF u = s THEN sent[s] + 1 ELSE sent[u]
  BY BoundsAssumption DEF Push, TypeOK, Messages
<1>1. /\ Len(queue') = Len(queue) + 1 /\ Len(queue) \in Nat
      /\ \A k \in 1 .. Len(queue) : queue'[k] = queue[k]
      /\ queue'[Len(queue) + 1] = x
  BY <1>0, AppendAt
<1>2. \A r \in Receivers : got[r] \in Seq(Messages \cup {Nothing})
  BY DEF TypeOK
<1>3. \A m : /\ Arrived(m)' <=> Arrived(m)
             /\ InQueue(m)' <=> InQueue(m) \/ m = x
  <2> TAKE m
  <2>1. Arrived(m)' <=> Arrived(m)
    BY <1>0 DEF Arrived
  <2>2. InQueue(m)' <=> InQueue(m) \/ m = x
    <3> HIDE DEF x
    <3> QED
      BY <1>1 DEF InQueue
  <2> QED
    BY <2>1, <2>2
\* Every message there is comes before the new one.
<1>4. \A m \in Messages : Arrived(m) \/ InQueue(m) => Before(m, x)
  <2> SUFFICES ASSUME NEW m \in Messages, Arrived(m) \/ InQueue(m), m[1] = s PROVE m[2] < sent[s] + 1
    BY DEF Before
  <2>1. m[2] \in Nat /\ m[2] <= sent[s]
    BY BoundsAssumption DEF DeliveryInv, OnlySent, Messages
  <2> QED
    BY <1>0, <2>1
<1>5. \A k \in 1 .. Len(queue) : queue[k] \in Messages /\ InQueue(queue[k])
  BY <1>0 DEF InQueue
<1>6. \A r \in Receivers : \A k \in 1 .. Len(got[r]) :
         got[r][k] # Nothing => got[r][k] \in Messages /\ Arrived(got[r][k])
  BY <1>2 DEF Arrived
<1> HIDE DEF x
<1>a. got' = got
  BY <1>0
<1>7. ReceivedOnce' /\ ReceivedInOrder'
  BY <1>a DEF DeliveryInv, Delivery, ReceivedOnce, ReceivedInOrder, Before
<1>8. QueueInOrder'
  <2> SUFFICES ASSUME NEW k \in 1 .. Len(queue'), NEW l \in 1 .. Len(queue'), k < l
               PROVE  Before(queue'[k], queue'[l])
    BY DEF QueueInOrder, Before
  <2>1. k \in 1 .. Len(queue)
    BY <1>1
  <2>2. CASE l \in 1 .. Len(queue)
    BY <1>1, <2>1, <2>2 DEF DeliveryInv, QueueInOrder
  <2>3. CASE l = Len(queue) + 1
    BY <1>1, <1>4, <1>5, <2>1, <2>3
  <2> QED
    BY <1>1, <2>2, <2>3
<1>9. QueueIsLater'
  <2> SUFFICES ASSUME NEW r \in Receivers, NEW k \in 1 .. Len(got[r]), NEW l \in 1 .. Len(queue'),
                      got[r][k] # Nothing
               PROVE  Before(got[r][k], queue'[l])
    BY <1>0 DEF QueueIsLater, Before
  <2>1. CASE l \in 1 .. Len(queue)
    BY <1>1, <2>1 DEF DeliveryInv, QueueIsLater
  <2>2. CASE l = Len(queue) + 1
    BY <1>1, <1>4, <1>6, <2>2
  <2> QED
    BY <1>1, <2>1, <2>2
<1>10. OnlySent'
  <2> SUFFICES ASSUME NEW m \in Messages, Arrived(m) \/ InQueue(m) \/ m = x PROVE m[2] <= sent'[m[1]]
    BY <1>3 DEF OnlySent
  <2>1. CASE m = x
    BY <1>0, <2>1 DEF x
  <2>2. CASE Arrived(m) \/ InQueue(m)
    <3>1. m[1] \in Senders /\ m[2] \in Nat /\ m[2] <= sent[m[1]]
      BY <2>2, BoundsAssumption DEF DeliveryInv, OnlySent, Messages
    <3> QED
      BY <1>0, <3>1
  <2> QED
    BY <2>1, <2>2
<1>11. NothingLost'
  <2> SUFFICES ASSUME NEW u \in Senders, NEW n \in 1 .. MaxSends, n <= sent'[u]
               PROVE  Arrived(<<u, n>>)' \/ InQueue(<<u, n>>)'
    BY DEF NothingLost
  <2>1. CASE n <= sent[u]
    BY <1>3, <2>1 DEF DeliveryInv, Delivery, NothingLost
  <2>2. CASE ~(n <= sent[u])
    <3>1. <<u, n>> = x
      BY <1>0, <2>2 DEF x
    <3> QED
      BY <1>3, <3>1
  <2> QED
    BY <2>1, <2>2
<1>12. DrainedFirst'
  BY <1>0 DEF DeliveryInv, Delivery, DrainedFirst
<1> QED
  BY <1>7, <1>8, <1>9, <1>10, <1>11, <1>12 DEF DeliveryInv, Delivery

\* A receive on a channel that is closed and empty.
LEMMA NothingDelivery ==
    ASSUME TypeOK, DeliveryInv, NEW r \in Receivers, RecvStep(r), queue = <<>>, closed
    PROVE  DeliveryInv'
<1>0. /\ got[r] \in Seq(Messages \cup {Nothing}) /\ got' = [got EXCEPT ![r] = Append(got[r], Nothing)]
      /\ UNCHANGED <<queue, closed, sent>>
      /\ \A q \in Receivers : q # r => got'[q] = got[q]
      /\ got'[r] = Append(got[r], Nothing)
  BY DEF RecvStep, TypeOK
<1>1. /\ Len(got'[r]) = Len(got[r]) + 1 /\ Len(got[r]) \in Nat
      /\ \A k \in 1 .. Len(got[r]) : got'[r][k] = got[r][k]
      /\ got'[r][Len(got[r]) + 1] = Nothing
  BY <1>0, AppendAt
\* Messages received are where they were.
<1>2. ASSUME NEW q \in Receivers, NEW k \in 1 .. Len(got'[q]), got'[q][k] # Nothing
      PROVE  k \in 1 .. Len(got[q]) /\ got'[q][k] = got[q][k]
  BY <1>0, <1>1, <1>2
<1>3. \A m : m # Nothing => (Arrived(m)' <=> Arrived(m))
  <2> TAKE m
  <2> SUFFICES ASSUME m # Nothing PROVE Arrived(m)' <=> Arrived(m)
    OBVIOUS
  <2>1. ASSUME Arrived(m)' PROVE Arrived(m)
    BY <1>2, <2>1 DEF Arrived
  <2>2. ASSUME Arrived(m) PROVE Arrived(m)'
    <3>1. PICK q \in Receivers, k \in Nat : k \in 1 .. Len(got[q]) /\ got[q][k] = m
      BY <2>2 DEF Arrived
    <3>2. k \in 1 .. Len(got'[q]) /\ got'[q][k] = m
      BY <1>0, <1>1, <3>1
    <3> QED
      BY <3>2 DEF Arrived
  <2> QED
    BY <2>1, <2>2
<1>4. \A m : InQueue(m)' <=> InQueue(m)
  BY <1>0 DEF InQueue
<1>5. \A s, n : <<s, n>> \in Messages => <<s, n>> # Nothing
  BY ThreadsAssumption
<1>6. ReceivedOnce'
  <2> SUFFICES ASSUME NEW a \in Receivers, NEW b \in Receivers,
                      NEW k \in 1 .. Len(got'[a]), NEW l \in 1 .. Len(got'[b]),
                      got'[a][k] = got'[b][l], got'[a][k] # Nothing
               PROVE  a = b /\ k = l
    BY DEF ReceivedOnce
  <2>1. /\ k \in 1 .. Len(got[a]) /\ got'[a][k] = got[a][k]
        /\ l \in 1 .. Len(got[b]) /\ got'[b][l] = got[b][l]
    BY <1>2
  <2>2. got[a][k] = got[b][l] /\ got[a][k] # Nothing
    BY <2>1
  <2>3. ReceivedOnce
    BY DEF DeliveryInv, Delivery
  <2> QED
    BY <2>1, <2>2, <2>3 DEF ReceivedOnce
<1>7. ReceivedInOrder'
  <2> SUFFICES ASSUME NEW a \in Receivers, NEW k \in 1 .. Len(got'[a]), NEW l \in 1 .. Len(got'[a]),
                      k < l, got'[a][k] # Nothing, got'[a][l] # Nothing
               PROVE  Before(got'[a][k], got'[a][l])
    BY DEF ReceivedInOrder, Before
  <2>1. /\ k \in 1 .. Len(got[a]) /\ got'[a][k] = got[a][k]
        /\ l \in 1 .. Len(got[a]) /\ got'[a][l] = got[a][l]
    BY <1>2
  <2> QED
    BY <2>1 DEF DeliveryInv, Delivery, ReceivedInOrder
<1>8. QueueInOrder' /\ QueueIsLater'
  <2>1. Len(queue) = 0 /\ queue' = queue
    BY <1>0
  <2> QED
    BY <2>1 DEF QueueInOrder, QueueIsLater
<1>9. OnlySent'
  BY <1>0, <1>3, <1>4, ThreadsAssumption DEF DeliveryInv, OnlySent
<1>10. NothingLost'
  <2>1. \A s \in Senders, n \in 1 .. MaxSends : <<s, n>> # Nothing
    BY <1>5 DEF Messages
  <2> SUFFICES ASSUME NEW s \in Senders, NEW n \in 1 .. MaxSends, n <= sent[s],
                      ~(Arrived(<<s, n>>) \/ InQueue(<<s, n>>))
               PROVE  \A m \in n .. MaxSends : ~Arrived(<<s, m>>)' /\ ~InQueue(<<s, m>>)'
    BY <1>0, <1>3, <1>4, <2>1 DEF NothingLost
  <2>2. \A m \in n .. MaxSends : ~Arrived(<<s, m>>) /\ ~InQueue(<<s, m>>)
    BY DEF DeliveryInv, Delivery, NothingLost
  <2> QED
    BY <1>3, <1>4, <2>1, <2>2, BoundsAssumption
<1>11. DrainedFirst'
  BY <1>0 DEF DrainedFirst
<1> QED
  BY <1>6, <1>7, <1>8, <1>9, <1>10, <1>11 DEF DeliveryInv, Delivery

\* A receive takes the head of the queue, which comes after all its sender's
\* messages that have arrived and before those that are left.
LEMMA TakeDelivery ==
    ASSUME TypeOK, DeliveryInv, NEW r \in Receivers, RecvStep(r), queue # <<>>
    PROVE  DeliveryInv'
<1>0. /\ queue \in Seq(Messages) /\ queue' = Tail(queue) /\ UNCHANGED <<closed, sent>>
      /\ got[r] \in Seq(Messages \cup {Nothing}) /\ got'[r] = Append(got[r], Head(queue))
      /\ \A q \in Receivers : q # r => got'[q] = got[q]
  BY DEF RecvStep, TypeOK
<1>1. PICK h : h = Head(queue)
  OBVIOUS
<1>2. /\ Len(queue') = Len(queue) - 1 /\ Len(queue) \in Nat \ {0}
      /\ \A k \in 1 .. Len(queue) - 1 : queue'[k] = queue[k + 1]
      /\ h = queue[1] /\ h \in Messages
  BY <1>0, <1>1, TailAt
<1>3. /\ Len(got'[r]) = Len(got[r]) + 1 /\ Len(got[r]) \in Nat
      /\ \A k \in 1 .. Len(got[r]) : got'[r][k] = got[r][k]
      /\ got'[r][Len(got[r]) + 1] = h
  BY <1>0, <1>1, <1>2, AppendAt
<1>a. h # Nothing
  BY <1>2, ThreadsAssumption
\* What is received now was received before, or is h.
<1>4. ASSUME NEW q \in Receivers, NEW k \in 1 .. Len(got'[q])
      PROVE  \/ k \in 1 .. Len(got[q]) /\ got'[q][k] = got[q][k]
             \/ q = r /\ k = Len(got[r]) + 1 /\ got'[q][k] = h
  <2>1. CASE q # r
    BY <1>0, <2>1
  <2>2. CASE q = r
    <3>1. k \in 1 .. Len(got[r]) \/ k = Len(got[r]) + 1
      BY <1>3, <2>2
    <3> QED
      BY <1>3, <2>2, <3>1
  <2> QED
    BY <2>1, <2>2
<1>5. \A q \in Receivers : \A k \in 1 .. Len(got[q]) :
          /\ got[q][k] # h
          /\ got[q][k] # Nothing => Before(got[q][k], h)
  <2> SUFFICES ASSUME NEW q \in Receivers, NEW k \in 1 .. Len(got[q])
               PROVE  got[q][k] # h /\ (got[q][k] # Nothing => Before(got[q][k], h))
    OBVIOUS
  <2>1. got[q][k] # Nothing => Before(got[q][k], h)
    BY <1>2 DEF DeliveryInv, QueueIsLater
  <2>2. ~Before(h, h)
    BY <1>2, BoundsAssumption DEF Before, Messages
  <2> QED
    BY <1>a, <2>1, <2>2
<1>6. \A m : Arrived(m)' <=> Arrived(m) \/ m = h
  <2> TAKE m
  <2>1. ASSUME Arrived(m)' PROVE Arrived(m) \/ m = h
    BY <1>4, <2>1 DEF Arrived
  <2>2. ASSUME Arrived(m) PROVE Arrived(m)'
    <3>1. PICK q \in Receivers, k \in Nat : k \in 1 .. Len(got[q]) /\ got[q][k] = m
      BY <2>2 DEF Arrived
    <3>2. k \in 1 .. Len(got'[q]) /\ got'[q][k] = m
      <4>1. CASE q # r
        BY <1>0, <3>1, <4>1
      <4>2. CASE q = r
        <5>1. k \in 1 .. Len(got[r]) /\ got[r][k] = m
          BY <3>1, <4>2
        <5>2. k \in 1 .. Len(got'[r]) /\ got'[r][k] = got[r][k]
          BY <1>3, <5>1
        <5> QED
          BY <4>2, <5>1, <5>2
      <4> QED
        BY <4>1, <4>2
    <3> QED
      BY <3>2 DEF Arrived
  <2>3. ASSUME m = h PROVE Arrived(m)'
    <3>1. Len(got[r]) + 1 \in 1 .. Len(got'[r])
      BY <1>3
    <3> QED
      BY <1>3, <2>3, <3>1 DEF Arrived
  <2> QED
    BY <2>1, <2>2, <2>3
<1>7. \A m : (InQueue(m) <=> InQueue(m)' \/ m = h)
  <2> TAKE m
  <2>1. ASSUME InQueue(m) PROVE InQueue(m)' \/ m = h
    <3>1. PICK k \in 1 .. Len(queue) : queue[k] = m
      BY <2>1 DEF InQueue
    <3>2. CASE k = 1
      BY <1>2, <3>1, <3>2
    <3>3. CASE k # 1
      <4>1. k - 1 \in 1 .. Len(queue') /\ queue'[k - 1] = m
        BY <1>2, <3>1, <3>3
      <4> QED
        BY <4>1 DEF InQueue
    <3> QED
      BY <3>2, <3>3
  <2>2. ASSUME InQueue(m)' PROVE InQueue(m)
    <3>1. PICK k \in 1 .. Len(queue') : queue'[k] = m
      BY <2>2 DEF InQueue
    <3>2. k + 1 \in 1 .. Len(queue) /\ queue[k + 1] = m
      BY <1>2, <3>1
    <3> QED
      BY <3>2 DEF InQueue
  <2>3. ASSUME m = h PROVE InQueue(m)
    <3>1. 1 \in 1 .. Len(queue)
      BY <1>2
    <3> QED
      BY <1>2, <2>3, <3>1 DEF InQueue
  <2> QED
    BY <2>1, <2>2, <2>3
<1>8. ReceivedOnce'
  <2> SUFFICES ASSUME NEW a \in Receivers, NEW b \in Receivers,
                      NEW k \in 1 .. Len(got'[a]), NEW l \in 1 .. Len(got'[b]),
                      got'[a][k] = got'[b][l], got'[a][k] # Nothing
               PROVE  a = b /\ k = l
    BY DEF ReceivedOnce
  <2>1. CASE k \in 1 .. Len(got[a]) /\ got'[a][k] = got[a][k]
    <3>1. got[a][k] # h
      BY <1>5, <2>1
    <3>2. l \in 1 .. Len(got[b]) /\ got'[b][l] = got[b][l]
      BY <1>4, <2>1, <3>1
    <3>3. got[a][k] = got[b][l] /\ got[a][k] # Nothing
      BY <2>1, <3>2
    <3>4. ReceivedOnce
      BY DEF DeliveryInv, Delivery
    <3> QED
      BY <2>1, <3>2, <3>3, <3>4 DEF ReceivedOnce
  <2>2. CASE a = r /\ k = Len(got[r]) + 1 /\ got'[a][k] = h
    BY <1>4, <1>5, <2>2
  <2> QED
    BY <1>4, <2>1, <2>2
<1>9. ReceivedInOrder'
  <2> SUFFICES ASSUME NEW a \in Receivers, NEW k \in 1 .. Len(got'[a]), NEW l \in 1 .. Len(got'[a]),
                      k < l, got'[a][k] # Nothing, got'[a][l] # Nothing
               PROVE  Before(got'[a][k], got'[a][l])
    BY DEF ReceivedInOrder, Before
  <2>0. a = r => l <= Len(got[r]) + 1
    BY <1>3
  <2>a. k \in 1 .. Len(got[a])
    BY <1>0, <1>3, <2>0
  <2>1. k \in 1 .. Len(got[a]) /\ got'[a][k] = got[a][k]
    BY <1>0, <1>3, <2>a
  <2>2. CASE l \in 1 .. Len(got[a]) /\ got'[a][l] = got[a][l]
    BY <2>1, <2>2 DEF DeliveryInv, Delivery, ReceivedInOrder
  <2>3. CASE got'[a][l] = h
    BY <1>5, <2>1, <2>3
  <2> QED
    BY <1>4, <2>2, <2>3
<1>10. QueueInOrder'
  <2> SUFFICES ASSUME NEW k \in 1 .. Len(queue'), NEW l \in 1 .. Len(queue'), k < l
               PROVE  Before(queue'[k], queue'[l])
    BY DEF QueueInOrder, Before
  <2>1. /\ k + 1 \in 1 .. Len(queue) /\ l + 1 \in 1 .. Len(queue) /\ k + 1 < l + 1
        /\ queue'[k] = queue[k + 1] /\ queue'[l] = queue[l + 1]
    BY <1>2
  <2> QED
    BY <2>1 DEF DeliveryInv, QueueInOrder
<1>11. QueueIsLater'
  <2> SUFFICES ASSUME NEW a \in Receivers, NEW k \in 1 .. Len(got'[a]), NEW l \in 1 .. Len(queue'),
                      got'[a][k] # Nothing
               PROVE  Before(got'[a][k], queue'[l])
    BY DEF QueueIsLater, Before
  <2>1. l + 1 \in 1 .. Len(queue) /\ queue'[l] = queue[l + 1] /\ 1 \in 1 .. Len(queue) /\ 1 < l + 1
    BY <1>2
  <2>2. CASE k \in 1 .. Len(got[a]) /\ got'[a][k] = got[a][k]
    BY <2>1, <2>2 DEF DeliveryInv, QueueIsLater
  <2>3. CASE got'[a][k] = h
    BY <1>2, <2>1, <2>3 DEF DeliveryInv, QueueInOrder
  <2> QED
    BY <1>4, <2>2, <2>3
<1>12. OnlySent'
  BY <1>0, <1>6, <1>7 DEF DeliveryInv, OnlySent
<1>13. NothingLost'
  <2> SUFFICES ASSUME NEW s \in Senders, NEW n \in 1 .. MaxSends, n <= sent[s],
                      ~(Arrived(<<s, n>>)' \/ InQueue(<<s, n>>)')
               PROVE  closed /\ \A m \in n .. MaxSends : ~Arrived(<<s, m>>)' /\ ~InQueue(<<s, m>>)'
    BY <1>0 DEF NothingLost
  <2>1. ~(Arrived(<<s, n>>) \/ InQueue(<<s, n>>))
    BY <1>6, <1>7
  <2>2. closed /\ \A m \in n .. MaxSends : ~Arrived(<<s, m>>) /\ ~InQueue(<<s, m>>)
    BY <2>1 DEF DeliveryInv, Delivery, NothingLost
  <2> QED
    BY <1>6, <1>7, <2>2
<1>14. DrainedFirst'
  <2> SUFFICES ASSUME NEW q \in Receivers, NEW k \in 1 .. Len(got'[q]), got'[q][k] = Nothing PROVE FALSE
    BY DEF DrainedFirst
  <2>1. k \in 1 .. Len(got[q]) /\ got[q][k] = Nothing
    BY <1>4, <1>a
  <2> QED
    BY <2>1 DEF DeliveryInv, Delivery, DrainedFirst
<1> QED
  BY <1>8, <1>9, <1>10, <1>11, <1>12, <1>13, <1>14 DEF DeliveryInv, Delivery

LEMMA InitDelivery == Init => DeliveryInv
<1> SUFFICES ASSUME Init PROVE DeliveryInv
  OBVIOUS
<1>1. /\ queue = <<>> /\ Len(queue) = 0
      /\ \A r \in Receivers : Len(got[r]) = 0
      /\ \A s \in Senders : sent[s] = 0
  BY DEF Init
<1>2. ReceivedOnce /\ ReceivedInOrder /\ DrainedFirst /\ QueueInOrder /\ QueueIsLater
  BY <1>1 DEF ReceivedOnce, ReceivedInOrder, DrainedFirst, QueueInOrder, QueueIsLater
<1>3. OnlySent
  BY <1>1 DEF OnlySent, Arrived, InQueue
<1>4. NothingLost
  BY <1>1 DEF NothingLost
<1> QED
  BY <1>2, <1>3, <1>4 DEF DeliveryInv, Delivery

(* Every message sent before the close is received exactly once, in the      *)
(* order of its sender at each receiver, for any numbers of senders,         *)
(* receivers and messages; and nothing is yielded before the channel is      *)
(* closed and drained.                                                       *)
THEOREM Delivers == Spec => []Delivery
<1>1. TypeOK /\ DeliveryInv /\ [Next]_vars => DeliveryInv'
  <2> SUFFICES ASSUME TypeOK, DeliveryInv, [Next]_vars PROVE DeliveryInv'
    OBVIOUS
  <2>1. ASSUME NEW s \in Senders, Push(s) PROVE DeliveryInv'
    BY <2>1, DropDelivery, PushDelivery
  <2>2. ASSUME NEW r \in Receivers, RecvStep(r) PROVE DeliveryInv'
    <3>1. CASE queue = <<>> /\ ~closed
      <4>1. UNCHANGED <<queue, got, sent, closed>>
        BY <2>2, <3>1 DEF RecvStep
      <4> QED
        BY <4>1, QuietDelivery
    <3> QED
      BY <2>2, <3>1, NothingDelivery, TakeDelivery
  <2>3. CASE CloseMark \/ DestroyMark
    BY <2>3, QuietDelivery DEF CloseMark, DestroyMark
  <2>4. ASSUME NEW s \in Senders, NotifyOne(s) \/ End(s) PROVE DeliveryInv'
    BY <2>4, QuietDelivery DEF NotifyOne, End
  <2>5. ASSUME NEW r \in Receivers, RecvCall(r) PROVE DeliveryInv'
    BY <2>5, QuietDelivery DEF RecvCall
  <2>6. CASE OwnerStep \/ UNCHANGED vars
    BY <2>6, QuietDelivery DEF OwnerStep, CloseNotify, DestroyNotify, Delete, vars
  <2> QED
    BY <2>1, <2>2, <2>3, <2>4, <2>5, <2>6 DEF Next
<1>2. DeliveryInv => Delivery
  BY DEF DeliveryInv
<1> QED
  BY <1>1, <1>2, InitDelivery, TypeCorrect, PTL DEF Spec

LEMMA NextClosed == TypeOK /\ SleepersAreWoken /\ [Next]_vars => SleepersAreWoken'
<1> SUFFICES ASSUME TypeOK, SleepersAreWoken, [Next]_vars PROVE SleepersAreWoken'
  OBVIOUS
<1>0. /\ Owner \in Threads /\ Owner \in Receivers /\ Owner \notin Senders
      /\ pc \in [Threads -> {"idle", "notify", "ended", "recv", "asleep", "close", "destroy", "delete"}]
      /\ \A r \in Receivers : r \in Threads /\ r \notin Senders
      /\ \A s \in Senders : s \in Threads /\ s \notin Receivers
  BY ThreadsAssumption DEF Threads, TypeOK
<1> USE <1>0 DEF SleepersAreWoken, Asleep, Goto
<1>1. ASSUME NEW s \in Senders, Push(s) \/ End(s) PROVE SleepersAreWoken'
  BY <1>1 DEF Push, End
<1>2. ASSUME NEW s \in Senders, NotifyOne(s) PROVE SleepersAreWoken'
  <2>1. CASE Asleep = {}
    BY <1>2, <2>1 DEF NotifyOne
  <2>2. ASSUME NEW q \in Asleep, pc' = [pc EXCEPT ![s] = "idle", ![q] = "recv"] PROVE SleepersAreWoken'
    <3>1. q # Owner \/ ~closed
      BY <2>2
    <3>2. closed' = closed /\ pc'[Owner] = IF q = Owner THEN "recv" ELSE pc[Owner]
      BY <1>2, <2>2 DEF NotifyOne
    <3> QED
      BY <3>1, <3>2, <2>2
  <2> QED
    BY <1>2, <2>1, <2>2 DEF NotifyOne
<1>3. ASSUME NEW r \in Receivers, RecvCall(r) PROVE SleepersAreWoken'
  BY <1>3 DEF RecvCall
<1>4. ASSUME NEW r \in Receivers, RecvStep(r) PROVE SleepersAreWoken'
  BY <1>4 DEF RecvStep
<1>5. CASE CloseMark \/ DestroyMark
  BY <1>5 DEF CloseMark, DestroyMark
<1>6. CASE CloseNotify \/ DestroyNotify
  BY <1>6 DEF CloseNotify, DestroyNotify, NotifyAll
<1>7. CASE Delete \/ UNCHANGED vars
  BY <1>7 DEF Delete, vars
<1> QED
  BY <1>1, <1>2, <1>3, <1>4, <1>5, <1>6, <1>7 DEF Next, OwnerStep

(* No receiver is left asleep past the end of the channel, for any number   *)
(* of them: a closed channel has sleepers only until flux_chan_close or     *)
(* flux_chan_destroy has notified them.                                     *)
THEOREM Woken == Spec => []SleepersAreWoken
<1>1. Init => SleepersAreWoken
  BY DEF Init, SleepersAreWoken
<1> QED
  BY <1>1, NextClosed, TypeCorrect, PTL DEF Spec

=============================================================================
