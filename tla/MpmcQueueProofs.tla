--------------------------- MODULE MpmcQueueProofs ---------------------------
(***************************************************************************)
(* Proofs about MpmcQueue: its types, the inductive invariant IInv for     *)
(* every ring of two slots or more, and what follows from it.              *)
(***************************************************************************)
EXTENDS MpmcQueue, SequenceTheorems, FiniteSetTheorems, TLAPS

-----------------------------------------------------------------------------
(* Positions and slots.                                                    *)

(* Every position has a slot of the ring (mpmc_queue.c:205). *)
LEMMA SlotType == ASSUME NEW k \in Nat PROVE Slot(k) \in Slots
  BY CapAssumption DEF Slot, Slots

(* A position is a number of whole laps and its slot. *)
LEMMA SlotDivision ==
  ASSUME NEW k \in Nat
  PROVE  /\ k \div Cap \in Nat
         /\ Slot(k) \in 0 .. (Cap - 1)
         /\ k = Cap * (k \div Cap) + Slot(k)
  BY CapAssumption DEF Slot

(* Two positions less than a lap apart that share a slot are equal. *)
LEMMA SlotInjective ==
  ASSUME NEW a \in Nat, NEW b \in Nat, a <= b, b < a + Cap, Slot(a) = Slot(b)
  PROVE  a = b
<1> DEFINE qa == a \div Cap
           qb == b \div Cap
<1>1. /\ qa \in Nat /\ qb \in Nat
      /\ Slot(a) \in 0 .. (Cap - 1)
      /\ a = Cap * qa + Slot(a) /\ b = Cap * qb + Slot(b)
  BY SlotDivision
<1> HIDE DEF qa, qb
<1>2. b - a = Cap * (qb - qa)
  BY <1>1, CapAssumption
<1>3. CASE qb <= qa
  <2>1. Cap * (qb - qa) <= 0  BY <1>1, <1>3, CapAssumption
  <2> QED  BY <2>1, <1>2
<1>4. CASE qb > qa
  <2>1. qb - qa >= 1  BY <1>1, <1>4
  <2>2. Cap * (qb - qa) >= Cap  BY <2>1, <1>1, CapAssumption
  <2> QED  BY <2>2, <1>2, CapAssumption
<1> QED  BY <1>1, <1>3, <1>4

(* A lap later a position uses the same slot again. *)
LEMMA SlotNextLap == ASSUME NEW k \in Nat PROVE Slot(k + Cap) = Slot(k)
<1> DEFINE j == k + Cap
           q == k \div Cap
           r == j \div Cap
           s == Slot(k)
           u == Slot(j)
<1>1. j \in Nat /\ j = k + Cap  BY CapAssumption
<1>2. /\ q \in Nat /\ r \in Nat
      /\ s \in 0 .. (Cap - 1) /\ u \in 0 .. (Cap - 1)
      /\ k = Cap * q + s /\ j = Cap * r + u
  BY <1>1, SlotDivision
<1> HIDE DEF j, q, r, s, u
<1>3. Cap * (r - q - 1) = s - u
  <2>1. \A c, x, y \in Int : c * (x - y - 1) = c * x - c * y - c
    OBVIOUS
  <2>2. Cap * (r - q - 1) = Cap * r - Cap * q - Cap
    BY <2>1, <1>2, CapAssumption
  <2> QED  BY <2>2, <1>1, <1>2, CapAssumption
<1>4. CASE r - q - 1 >= 1
  <2>1. Cap * (r - q - 1) >= Cap  BY <1>2, <1>4, CapAssumption
  <2> QED  BY <2>1, <1>2, <1>3, CapAssumption
<1>5. CASE r - q - 1 <= -1
  <2>1. Cap * (r - q - 1) <= -Cap  BY <1>2, <1>5, CapAssumption
  <2> QED  BY <2>1, <1>2, <1>3, CapAssumption
<1>6. CASE r - q - 1 = 0
  BY <1>2, <1>3, <1>6, CapAssumption DEF s, u, j
<1> QED  BY <1>2, <1>4, <1>5, <1>6

-----------------------------------------------------------------------------
(* Types.                                                                  *)

LEMMA TypeInit == Init => TypeOK
  BY CapAssumption DEF Init, TypeOK, Slots, Labels

(* Every atomic operation of a producer keeps the types. *)
LEMMA TypeProducerStep ==
  ASSUME TypeOK, NEW p \in Producers, EnqueueCall(p) \/ EnqueueStep(p)
  PROVE  TypeOK'
<1> USE CapAssumption DEF TypeOK, Goto, LoadPos, Threads, Labels
<1>1. CASE EnqueueCall(p)  BY <1>1 DEF EnqueueCall
<1>2. CASE EnqueueSeesFree(p)  BY <1>2 DEF EnqueueSeesFree
<1>3. CASE EnqueueSeesFull(p)  BY <1>3 DEF EnqueueSeesFull
<1>4. CASE EnqueueSeesTaken(p)  BY <1>4 DEF EnqueueSeesTaken
<1>5. CASE EnqueueReload(p)  BY <1>5 DEF EnqueueReload
<1>6. CASE EnqueueCasWins(p)  BY <1>6 DEF EnqueueCasWins
<1>7. CASE CasFails(p, enqueue_pos)  BY <1>7 DEF CasFails
<1>8. CASE EnqueueWrite(p)
  <2>1. buf[p] \in Payload \cup {Nil} /\ Slot(pos[p]) \in Slots  BY SlotType
  <2> QED  BY <2>1, <1>8 DEF EnqueueWrite
<1>9. CASE EnqueueCommit(p)
  <2>1. ReadySeq(pos[p]) \in Nat  BY DEF ReadySeq
  <2> QED  BY <2>1, <1>9 DEF EnqueueCommit
<1> QED  BY <1>1, <1>2, <1>3, <1>4, <1>5, <1>6, <1>7, <1>8, <1>9 DEF EnqueueStep

(* Every atomic operation of a consumer keeps the types. *)
LEMMA TypeConsumerStep ==
  ASSUME TypeOK, NEW c \in Consumers, DequeueCall(c) \/ DequeueStep(c)
  PROVE  TypeOK'
<1> USE CapAssumption DEF TypeOK, Goto, LoadPos, Threads, Labels
<1>1. CASE DequeueCall(c)  BY <1>1 DEF DequeueCall
<1>2. CASE DequeueSeesReady(c)  BY <1>2 DEF DequeueSeesReady
<1>3. CASE DequeueSeesEmpty(c)  BY <1>3 DEF DequeueSeesEmpty
<1>4. CASE DequeueSeesTaken(c)  BY <1>4 DEF DequeueSeesTaken
<1>5. CASE DequeueReload(c)  BY <1>5 DEF DequeueReload
<1>6. CASE DequeueCasWins(c)  BY <1>6 DEF DequeueCasWins
<1>7. CASE CasFails(c, dequeue_pos)  BY <1>7 DEF CasFails
<1>8. CASE DequeueRead(c)
  <2>1. data[Slot(pos[c])] \in Payload \cup {Nil}  BY SlotType
  <2> QED  BY <2>1, <1>8 DEF DequeueRead
<1>9. CASE DequeueCommit(c)
  <2>1. FreeSeq(pos[c]) \in Nat  BY DEF FreeSeq
  <2> QED  BY <2>1, <1>9 DEF DequeueCommit
<1> QED  BY <1>1, <1>2, <1>3, <1>4, <1>5, <1>6, <1>7, <1>8, <1>9 DEF DequeueStep

LEMMA TypeStep == TypeOK /\ [Next]_vars => TypeOK'
<1> SUFFICES ASSUME TypeOK, [Next]_vars PROVE TypeOK'
  OBVIOUS
<1>1. CASE UNCHANGED vars  BY <1>1 DEF vars, TypeOK
<1>2. CASE Next  BY <1>2, TypeProducerStep, TypeConsumerStep DEF Next
<1> QED  BY <1>1, <1>2

(* The ring's variables keep their types, for every capacity and any       *)
(* number of threads.                                                      *)
THEOREM TypeCorrect == Spec => []TypeOK
  BY TypeInit, TypeStep, PTL DEF Spec

-----------------------------------------------------------------------------
(* Steps that change neither the ring's counters and sequence numbers nor  *)
(* who owns which position: only what threads believe has to be shown.     *)

LEMMA SameOwners ==
  ASSUME IInv, TypeOK',
         UNCHANGED <<enqueue_pos, dequeue_pos, seq>>,
         \A p \in Producers : Reserved(p)' <=> Reserved(p),
         \A c \in Consumers : Claimed(c)' <=> Claimed(c),
         \A t \in Threads : Owns(t) => pos'[t] = pos[t],
         ProducerViews', ConsumerViews'
  PROVE  IInv'
<1>1. /\ \A p \in Producers : Reserved(p) => pos'[p] = pos[p]
      /\ \A c \in Consumers : Claimed(c) => pos'[c] = pos[c]
  BY DEF Owns, Threads
<1>2. Window'  BY DEF IInv, Window
<1>3. ProducersHold'  BY <1>1 DEF IInv, ProducersHold
<1>4. ConsumersHold'  BY <1>1 DEF IInv, ConsumersHold
<1>5. DistinctPositions'  BY <1>1 DEF IInv, DistinctPositions
<1>6. QueuedSlots'  BY <1>1 DEF IInv, QueuedSlots
<1>7. FreeSlots'  BY <1>1 DEF IInv, FreeSlots
<1> QED  BY <1>2, <1>3, <1>4, <1>5, <1>6, <1>7 DEF IInv

(* A producer reads a counter or a sequence number, gives up, or fills the *)
(* slot it owns.                                                           *)
LEMMA ProducerQuietStep ==
  ASSUME IInv, TypeOK', NEW p \in Producers,
         \/ EnqueueCall(p)
         \/ EnqueueSeesFree(p) \/ EnqueueSeesFull(p) \/ EnqueueSeesTaken(p)
         \/ EnqueueReload(p) \/ CasFails(p, enqueue_pos)
         \/ EnqueueWrite(p)
  PROVE  IInv'
<1> USE DEF Goto, LoadPos
<1>1. /\ pc \in [Threads -> Labels] /\ pos \in [Threads -> Nat]
      /\ enqueue_pos \in Nat /\ dequeue_pos \in Nat
      /\ p \in Threads /\ Consumers \subseteq Threads /\ Producers \subseteq Threads
      /\ p \notin Consumers
  BY RolesAssumption DEF IInv, TypeOK, Threads
<1>2. /\ UNCHANGED <<enqueue_pos, dequeue_pos, seq>>
      /\ \A t \in Threads : t # p => pc'[t] = pc[t] /\ pos'[t] = pos[t]
  BY <1>1 DEF EnqueueCall, EnqueueSeesFree, EnqueueSeesFull, EnqueueSeesTaken,
              EnqueueReload, CasFails, EnqueueWrite
<1>3. /\ Reserved(p)' <=> Reserved(p)
      /\ Reserved(p) => pos'[p] = pos[p]
  BY <1>1 DEF EnqueueCall, EnqueueSeesFree, EnqueueSeesFull, EnqueueSeesTaken,
              EnqueueReload, CasFails, EnqueueWrite, Reserved
<1>4. \A q \in Producers : Reserved(q)' <=> Reserved(q)
  BY <1>1, <1>2, <1>3 DEF Reserved
<1>5. \A c \in Consumers : Claimed(c)' <=> Claimed(c)
  BY <1>1, <1>2 DEF Claimed
<1>6. \A t \in Threads : Owns(t) => pos'[t] = pos[t]
  BY <1>1, <1>2, <1>3 DEF Owns
<1>7. Looking(p)' =>
        /\ pos'[p] <= enqueue_pos
        /\ pos'[p] < enqueue_pos => pos'[p] <= seq[Slot(pos'[p])]
        /\ pc'[p] = "cas" /\ pos'[p] = enqueue_pos => seq[Slot(pos'[p])] = pos'[p]
  BY <1>1 DEF IInv, ProducerViews, Looking,
              EnqueueCall, EnqueueSeesFree, EnqueueSeesFull, EnqueueSeesTaken,
              EnqueueReload, CasFails, EnqueueWrite
<1>8. ProducerViews'
  BY <1>1, <1>2, <1>7 DEF IInv, ProducerViews, Looking
<1>9. ConsumerViews'
  BY <1>1, <1>2 DEF IInv, ConsumerViews, Looking
<1> HIDE DEF Goto, LoadPos
<1> QED  BY <1>2, <1>4, <1>5, <1>6, <1>8, <1>9, SameOwners

(* A consumer reads a counter or a sequence number, gives up, or copies    *)
(* out of the slot it owns.                                                *)
LEMMA ConsumerQuietStep ==
  ASSUME IInv, TypeOK', NEW c \in Consumers,
         \/ DequeueCall(c)
         \/ DequeueSeesReady(c) \/ DequeueSeesEmpty(c) \/ DequeueSeesTaken(c)
         \/ DequeueReload(c) \/ CasFails(c, dequeue_pos)
         \/ DequeueRead(c)
  PROVE  IInv'
<1> USE DEF Goto, LoadPos
<1>1. /\ pc \in [Threads -> Labels] /\ pos \in [Threads -> Nat]
      /\ enqueue_pos \in Nat /\ dequeue_pos \in Nat
      /\ c \in Threads /\ Consumers \subseteq Threads /\ Producers \subseteq Threads
      /\ c \notin Producers
  BY RolesAssumption DEF IInv, TypeOK, Threads
<1>2. /\ UNCHANGED <<enqueue_pos, dequeue_pos, seq>>
      /\ \A t \in Threads : t # c => pc'[t] = pc[t] /\ pos'[t] = pos[t]
  BY <1>1 DEF DequeueCall, DequeueSeesReady, DequeueSeesEmpty, DequeueSeesTaken,
              DequeueReload, CasFails, DequeueRead
<1>3. /\ Claimed(c)' <=> Claimed(c)
      /\ Claimed(c) => pos'[c] = pos[c]
  BY <1>1 DEF DequeueCall, DequeueSeesReady, DequeueSeesEmpty, DequeueSeesTaken,
              DequeueReload, CasFails, DequeueRead, Claimed
<1>4. \A d \in Consumers : Claimed(d)' <=> Claimed(d)
  BY <1>1, <1>2, <1>3 DEF Claimed
<1>5. \A p \in Producers : Reserved(p)' <=> Reserved(p)
  BY <1>1, <1>2 DEF Reserved
<1>6. \A t \in Threads : Owns(t) => pos'[t] = pos[t]
  BY <1>1, <1>2, <1>3 DEF Owns
<1>7. Looking(c)' =>
        /\ pos'[c] <= dequeue_pos
        /\ pos'[c] < dequeue_pos => pos'[c] + 1 <= seq[Slot(pos'[c])]
        /\ pc'[c] = "cas" /\ pos'[c] = dequeue_pos => seq[Slot(pos'[c])] = pos'[c] + 1
  BY <1>1 DEF IInv, ConsumerViews, Looking,
              DequeueCall, DequeueSeesReady, DequeueSeesEmpty, DequeueSeesTaken,
              DequeueReload, CasFails, DequeueRead
<1>8. ConsumerViews'
  BY <1>1, <1>2, <1>7 DEF IInv, ConsumerViews, Looking
<1>9. ProducerViews'
  BY <1>1, <1>2 DEF IInv, ProducerViews, Looking
<1> HIDE DEF Goto, LoadPos
<1> QED  BY <1>2, <1>4, <1>5, <1>6, <1>8, <1>9, SameOwners

-----------------------------------------------------------------------------
(* Steps that change who owns which position.                              *)

(* A producer advances enqueue_pos and so reserves a slot.  With one slot  *)
(* this fails: the sequence number that says "committed" for position k    *)
(* is the one that says "free" for position k + Cap.                       *)
LEMMA EnqueueCasWinsStep ==
  ASSUME Cap # 1, IInv, TypeOK', NEW p \in Producers, EnqueueCasWins(p)
  PROVE  IInv'
<1> DEFINE e == enqueue_pos
<1>1. /\ pc \in [Threads -> Labels] /\ pos \in [Threads -> Nat]
      /\ e \in Nat /\ dequeue_pos \in Nat
      /\ seq \in [Slots -> Nat]
      /\ p \in Threads /\ Consumers \subseteq Threads /\ Producers \subseteq Threads
      /\ p \notin Consumers
  BY RolesAssumption DEF IInv, TypeOK, Threads
<1>2. /\ pc[p] = "cas" /\ pos[p] = e /\ enqueue_pos' = e + 1
      /\ pc'[p] = "write"
      /\ UNCHANGED <<dequeue_pos, seq, pos>>
      /\ \A t \in Threads : t # p => pc'[t] = pc[t]
  BY <1>1 DEF EnqueueCasWins, Goto
<1>3. /\ Reserved(p)' /\ ~Reserved(p)
      /\ \A q \in Producers : q # p => (Reserved(q)' <=> Reserved(q))
      /\ \A c \in Consumers : Claimed(c)' <=> Claimed(c)
  BY <1>1, <1>2 DEF Reserved, Claimed
<1>4. seq[Slot(e)] = e
  BY <1>1, <1>2 DEF IInv, ProducerViews, Looking
<1>5. dequeue_pos <= e /\ e < dequeue_pos + Cap
  <2>1. dequeue_pos <= e /\ e <= dequeue_pos + Cap  BY DEF IInv, Window
  <2>2. ASSUME e = dequeue_pos + Cap PROVE FALSE
    <3>1. Slot(e) = Slot(dequeue_pos)  BY <1>1, <2>2, SlotNextLap
    <3>2. dequeue_pos \in dequeue_pos .. (e - 1)
      BY <1>1, <2>2, CapAssumption
    <3>3. seq[Slot(dequeue_pos)] \in {dequeue_pos, dequeue_pos + 1}
      BY <3>2 DEF IInv, QueuedSlots
    <3> QED  BY <1>1, <1>4, <2>2, <3>1, <3>3, CapAssumption
  <2> QED  BY <1>1, <2>1, <2>2, CapAssumption
<1>6. \A c \in Consumers : Claimed(c) => e < pos[c] + Cap
  <2> SUFFICES ASSUME NEW c \in Consumers, Claimed(c), e = pos[c] + Cap
               PROVE  FALSE
    BY <1>1, CapAssumption DEF IInv, ConsumersHold
  <2>1. pos[c] \in Nat /\ seq[Slot(pos[c])] = pos[c] + 1
    BY <1>1 DEF IInv, ConsumersHold
  <2>2. Slot(e) = Slot(pos[c])  BY <2>1, SlotNextLap
  <2> QED  BY <1>4, <2>1, <2>2, CapAssumption
<1>7. Window'  BY <1>1, <1>2, <1>5, CapAssumption DEF Window
<1>8. ProducersHold'
  BY <1>1, <1>2, <1>3, <1>4, <1>5 DEF IInv, ProducersHold
<1>9. ConsumersHold'
  BY <1>1, <1>2, <1>3, <1>6, CapAssumption DEF IInv, ConsumersHold
<1>10. DistinctPositions'
  BY <1>1, <1>2, <1>3 DEF IInv, DistinctPositions, ProducersHold
<1>11. QueuedSlots'
  <2> SUFFICES ASSUME NEW k \in dequeue_pos .. e
               PROVE  \/ seq[Slot(k)] = k + 1
                      \/ /\ seq[Slot(k)] = k
                         /\ \E q \in Producers : Reserved(q)' /\ pos[q] = k
    BY <1>1, <1>2 DEF QueuedSlots
  <2>1. CASE k = e  BY <1>2, <1>3, <1>4, <2>1
  <2>2. CASE k # e
    <3>1. k \in dequeue_pos .. (e - 1)  BY <1>1, <2>2
    <3> QED  BY <1>3, <3>1 DEF IInv, QueuedSlots
  <2> QED  BY <2>1, <2>2
<1>12. FreeSlots'
  BY <1>1, <1>2, <1>3, CapAssumption DEF IInv, FreeSlots
<1>13. ProducerViews'
  BY <1>1, <1>2, <1>4 DEF IInv, ProducerViews, Looking
<1>14. ConsumerViews'
  BY <1>1, <1>2 DEF IInv, ConsumerViews, Looking
<1> QED
  BY <1>7, <1>8, <1>9, <1>10, <1>11, <1>12, <1>13, <1>14 DEF IInv

(* A producer commits the slot it owns: no other thread's slot changes. *)
LEMMA EnqueueCommitStep ==
  ASSUME Cap # 1, IInv, TypeOK', NEW p \in Producers, EnqueueCommit(p)
  PROVE  IInv'
<1> DEFINE k0 == pos[p]
<1>1. /\ pc \in [Threads -> Labels] /\ pos \in [Threads -> Nat]
      /\ enqueue_pos \in Nat /\ dequeue_pos \in Nat
      /\ seq \in [Slots -> Nat]
      /\ p \in Threads /\ Consumers \subseteq Threads /\ Producers \subseteq Threads
      /\ p \notin Consumers
  BY RolesAssumption DEF IInv, TypeOK, Threads
<1>2. /\ pc[p] = "commit" /\ pc'[p] = "idle"
      /\ UNCHANGED <<enqueue_pos, dequeue_pos, pos>>
      /\ \A t \in Threads : t # p => pc'[t] = pc[t]
  BY <1>1 DEF EnqueueCommit, Goto
<1>3. /\ Reserved(p) /\ ~Reserved(p)'
      /\ \A q \in Producers : q # p => (Reserved(q)' <=> Reserved(q))
      /\ \A c \in Consumers : Claimed(c)' <=> Claimed(c)
  BY <1>1, <1>2 DEF Reserved, Claimed
<1>4. /\ k0 \in Nat /\ dequeue_pos <= k0 /\ k0 < enqueue_pos
      /\ enqueue_pos <= dequeue_pos + Cap
      /\ seq[Slot(k0)] = k0
  BY <1>1, <1>3 DEF IInv, ProducersHold, Window
<1>5. /\ seq'[Slot(k0)] = k0 + 1
      /\ \A i \in Slots : i # Slot(k0) => seq'[i] = seq[i]
  BY <1>1, <1>4, SlotType DEF EnqueueCommit, ReadySeq
<1>6. \A k \in Nat : \/ k < k0 /\ k0 < k + Cap
                     \/ k0 < k /\ k < k0 + Cap
                     => seq'[Slot(k)] = seq[Slot(k)]
  <2> SUFFICES ASSUME NEW k \in Nat,
                      \/ k < k0 /\ k0 < k + Cap
                      \/ k0 < k /\ k < k0 + Cap
               PROVE  Slot(k) # Slot(k0)
    BY <1>5, SlotType
  <2> QED  BY <1>4, SlotInjective
<1> HIDE DEF k0
<1>7. Window'  BY <1>2 DEF IInv, Window
<1>8. ProducersHold'
  <2> SUFFICES ASSUME NEW q \in Producers, Reserved(q)'
               PROVE  /\ dequeue_pos <= pos[q] /\ pos[q] < enqueue_pos
                      /\ seq'[Slot(pos[q])] = pos[q]
    BY <1>2 DEF ProducersHold
  <2>1. q # p /\ Reserved(q)  BY <1>3
  <2>2. /\ pos[q] \in Nat /\ dequeue_pos <= pos[q] /\ pos[q] < enqueue_pos
        /\ seq[Slot(pos[q])] = pos[q]
    BY <1>1, <2>1 DEF IInv, ProducersHold
  <2>3. pos[q] # k0  BY <1>3, <2>1 DEF IInv, DistinctPositions, k0
  <2> QED  BY <1>1, <1>4, <1>6, <2>2, <2>3, CapAssumption
<1>9. ConsumersHold'
  <2> SUFFICES ASSUME NEW c \in Consumers, Claimed(c)
               PROVE  /\ pos[c] < dequeue_pos /\ enqueue_pos <= pos[c] + Cap
                      /\ seq'[Slot(pos[c])] = pos[c] + 1
    BY <1>2, <1>3 DEF ConsumersHold
  <2>1. /\ pos[c] \in Nat /\ pos[c] < dequeue_pos /\ enqueue_pos <= pos[c] + Cap
        /\ seq[Slot(pos[c])] = pos[c] + 1
    BY <1>1 DEF IInv, ConsumersHold
  <2> QED  BY <1>1, <1>4, <1>6, <2>1, CapAssumption
<1>10. DistinctPositions'
  BY <1>2, <1>3 DEF IInv, DistinctPositions
<1>11. QueuedSlots'
  <2> SUFFICES ASSUME NEW k \in dequeue_pos .. (enqueue_pos - 1)
               PROVE  \/ seq'[Slot(k)] = k + 1
                      \/ /\ seq'[Slot(k)] = k
                         /\ \E q \in Producers : Reserved(q)' /\ pos[q] = k
    BY <1>2 DEF QueuedSlots
  <2>1. CASE k = k0  BY <1>5, <2>1
  <2>2. CASE k # k0
    <3>1. seq'[Slot(k)] = seq[Slot(k)]
      BY <1>1, <1>4, <1>6, <2>2, CapAssumption
    <3>2. \A q \in Producers : Reserved(q) /\ pos[q] = k => Reserved(q)'
      BY <1>3, <2>2 DEF k0
    <3> QED  BY <3>1, <3>2 DEF IInv, QueuedSlots
  <2> QED  BY <2>1, <2>2
<1>12. FreeSlots'
  <2> SUFFICES ASSUME NEW k \in enqueue_pos .. (dequeue_pos + Cap - 1)
               PROVE  seq'[Slot(k)] = seq[Slot(k)]
    BY <1>2, <1>3 DEF IInv, FreeSlots
  <2> QED  BY <1>1, <1>4, <1>6, CapAssumption
<1>13. ProducerViews'
  <2> SUFFICES ASSUME NEW q \in Producers, Looking(q)'
               PROVE  /\ pos[q] <= enqueue_pos
                      /\ pos[q] < enqueue_pos => pos[q] <= seq'[Slot(pos[q])]
                      /\ pc'[q] = "cas" /\ pos[q] = enqueue_pos
                            => seq'[Slot(pos[q])] = pos[q]
    BY <1>2 DEF ProducerViews
  <2>1. pc'[q] = pc[q] /\ Looking(q)  BY <1>1, <1>2 DEF Looking
  <2>2. pos[q] \in Nat /\ Slot(pos[q]) \in Slots  BY <1>1, SlotType
  <2>3. CASE Slot(pos[q]) = Slot(k0)
    BY <1>1, <1>4, <1>5, <2>1, <2>2, <2>3 DEF IInv, ProducerViews
  <2>4. CASE Slot(pos[q]) # Slot(k0)
    BY <1>1, <1>5, <2>1, <2>2, <2>4 DEF IInv, ProducerViews
  <2> QED  BY <2>3, <2>4
<1>14. ConsumerViews'
  <2> SUFFICES ASSUME NEW c \in Consumers, Looking(c)'
               PROVE  /\ pos[c] <= dequeue_pos
                      /\ pos[c] < dequeue_pos => pos[c] + 1 <= seq'[Slot(pos[c])]
                      /\ pc'[c] = "cas" /\ pos[c] = dequeue_pos
                            => seq'[Slot(pos[c])] = pos[c] + 1
    BY <1>2 DEF ConsumerViews
  <2>1. pc'[c] = pc[c] /\ Looking(c)  BY <1>1, <1>2 DEF Looking
  <2>2. pos[c] \in Nat /\ Slot(pos[c]) \in Slots  BY <1>1, SlotType
  <2>3. CASE Slot(pos[c]) = Slot(k0)
    <3>1. ASSUME pos[c] = dequeue_pos PROVE pos[c] = k0
      <4>1. pos[c] <= k0 /\ k0 < pos[c] + Cap
        BY <1>1, <1>4, <3>1, CapAssumption
      <4> QED  BY <1>4, <2>2, <2>3, <4>1, SlotInjective
    <3>2. /\ pos[c] <= dequeue_pos
          /\ pos[c] < dequeue_pos => pos[c] + 1 <= seq[Slot(pos[c])]
          /\ pc[c] = "cas" /\ pos[c] = dequeue_pos => seq[Slot(pos[c])] = pos[c] + 1
      BY <2>1 DEF IInv, ConsumerViews
    <3>3. ~(pc[c] = "cas" /\ pos[c] = dequeue_pos)
      BY <1>4, <2>3, <3>1, <3>2
    <3> QED  BY <1>1, <1>4, <1>5, <2>1, <2>2, <2>3, <3>2, <3>3
  <2>4. CASE Slot(pos[c]) # Slot(k0)
    BY <1>1, <1>5, <2>1, <2>2, <2>4 DEF IInv, ConsumerViews
  <2> QED  BY <2>3, <2>4
<1> QED
  BY <1>7, <1>8, <1>9, <1>10, <1>11, <1>12, <1>13, <1>14 DEF IInv

(* A consumer advances dequeue_pos and so claims the oldest entry. *)
LEMMA DequeueCasWinsStep ==
  ASSUME Cap # 1, IInv, TypeOK', NEW c \in Consumers, DequeueCasWins(c)
  PROVE  IInv'
<1> DEFINE d == dequeue_pos
<1>1. /\ pc \in [Threads -> Labels] /\ pos \in [Threads -> Nat]
      /\ enqueue_pos \in Nat /\ d \in Nat
      /\ seq \in [Slots -> Nat]
      /\ c \in Threads /\ Consumers \subseteq Threads /\ Producers \subseteq Threads
      /\ c \notin Producers
  BY RolesAssumption DEF IInv, TypeOK, Threads
<1>2. /\ pc[c] = "cas" /\ pos[c] = d /\ dequeue_pos' = d + 1
      /\ pc'[c] = "read"
      /\ UNCHANGED <<enqueue_pos, seq, pos>>
      /\ \A t \in Threads : t # c => pc'[t] = pc[t]
  BY <1>1 DEF DequeueCasWins, Goto
<1>3. /\ Claimed(c)' /\ ~Claimed(c)
      /\ \A b \in Consumers : b # c => (Claimed(b)' <=> Claimed(b))
      /\ \A p \in Producers : Reserved(p)' <=> Reserved(p)
  BY <1>1, <1>2 DEF Reserved, Claimed
<1>4. seq[Slot(d)] = d + 1
  BY <1>1, <1>2 DEF IInv, ConsumerViews, Looking
<1>5. d < enqueue_pos /\ enqueue_pos <= d + Cap
  <2>1. d <= enqueue_pos /\ enqueue_pos <= d + Cap  BY DEF IInv, Window
  <2>2. ASSUME d = enqueue_pos PROVE FALSE
    <3>1. d \in enqueue_pos .. (d + Cap - 1)  BY <1>1, <2>2, CapAssumption
    <3>2. seq[Slot(d)] \in {d, d - Cap + 1}  BY <3>1 DEF IInv, FreeSlots
    <3> QED  BY <1>1, <1>4, <3>2, CapAssumption
  <2> QED  BY <1>1, <2>1, <2>2
<1>6. \A p \in Producers : Reserved(p) => d < pos[p]
  BY <1>1, <1>4 DEF IInv, ProducersHold
<1>7. Window'  BY <1>1, <1>2, <1>5, CapAssumption DEF Window
<1>8. ProducersHold'
  BY <1>1, <1>2, <1>3, <1>6 DEF IInv, ProducersHold
<1>9. ConsumersHold'
  BY <1>1, <1>2, <1>3, <1>4, <1>5, CapAssumption DEF IInv, ConsumersHold
<1>10. DistinctPositions'
  BY <1>1, <1>2, <1>3 DEF IInv, DistinctPositions, ConsumersHold
<1>11. QueuedSlots'
  BY <1>1, <1>2, <1>3 DEF IInv, QueuedSlots
<1>12. FreeSlots'
  <2> SUFFICES ASSUME NEW k \in enqueue_pos .. (d + Cap)
               PROVE  \/ seq[Slot(k)] = k
                      \/ /\ seq[Slot(k)] = k - Cap + 1
                         /\ \E b \in Consumers : Claimed(b)' /\ pos[b] + Cap = k
    BY <1>1, <1>2, CapAssumption DEF FreeSlots
  <2>1. CASE k = d + Cap
    <3>1. Slot(k) = Slot(d)  BY <1>1, <2>1, SlotNextLap
    <3> QED  BY <1>1, <1>2, <1>3, <1>4, <2>1, <3>1, CapAssumption
  <2>2. CASE k # d + Cap
    <3>1. k \in enqueue_pos .. (d + Cap - 1)  BY <1>1, <2>2, CapAssumption
    <3> QED  BY <1>3, <3>1 DEF IInv, FreeSlots
  <2> QED  BY <2>1, <2>2
<1>13. ProducerViews'
  BY <1>1, <1>2 DEF IInv, ProducerViews, Looking
<1>14. ConsumerViews'
  BY <1>1, <1>2, <1>4 DEF IInv, ConsumerViews, Looking
<1> QED
  BY <1>7, <1>8, <1>9, <1>10, <1>11, <1>12, <1>13, <1>14 DEF IInv

(* A consumer gives the slot it owns to the next lap. *)
LEMMA DequeueCommitStep ==
  ASSUME Cap # 1, IInv, TypeOK', NEW c \in Consumers, DequeueCommit(c)
  PROVE  IInv'
<1> DEFINE k0 == pos[c]
<1>1. /\ pc \in [Threads -> Labels] /\ pos \in [Threads -> Nat]
      /\ enqueue_pos \in Nat /\ dequeue_pos \in Nat
      /\ seq \in [Slots -> Nat]
      /\ c \in Threads /\ Consumers \subseteq Threads /\ Producers \subseteq Threads
      /\ c \notin Producers
  BY RolesAssumption DEF IInv, TypeOK, Threads
<1>2. /\ pc[c] = "commit" /\ pc'[c] = "idle"
      /\ UNCHANGED <<enqueue_pos, dequeue_pos, pos>>
      /\ \A t \in Threads : t # c => pc'[t] = pc[t]
  BY <1>1 DEF DequeueCommit, Goto
<1>3. /\ Claimed(c) /\ ~Claimed(c)'
      /\ \A b \in Consumers : b # c => (Claimed(b)' <=> Claimed(b))
      /\ \A p \in Producers : Reserved(p)' <=> Reserved(p)
  BY <1>1, <1>2 DEF Reserved, Claimed
<1>4. /\ k0 \in Nat /\ k0 < dequeue_pos /\ enqueue_pos <= k0 + Cap
      /\ dequeue_pos <= enqueue_pos
      /\ seq[Slot(k0)] = k0 + 1
  BY <1>1, <1>3 DEF IInv, ConsumersHold, Window
<1>5. /\ seq'[Slot(k0)] = k0 + Cap
      /\ \A i \in Slots : i # Slot(k0) => seq'[i] = seq[i]
  BY <1>1, <1>4, SlotType DEF DequeueCommit, FreeSeq
<1>6. \A k \in Nat : \/ k < k0 /\ k0 < k + Cap
                     \/ k0 < k /\ k < k0 + Cap
                     => seq'[Slot(k)] = seq[Slot(k)]
  <2> SUFFICES ASSUME NEW k \in Nat,
                      \/ k < k0 /\ k0 < k + Cap
                      \/ k0 < k /\ k < k0 + Cap
               PROVE  Slot(k) # Slot(k0)
    BY <1>5, SlotType
  <2> QED  BY <1>4, SlotInjective
<1> HIDE DEF k0
<1>7. Window'  BY <1>2 DEF IInv, Window
<1>8. ProducersHold'
  <2> SUFFICES ASSUME NEW q \in Producers, Reserved(q)
               PROVE  /\ dequeue_pos <= pos[q] /\ pos[q] < enqueue_pos
                      /\ seq'[Slot(pos[q])] = pos[q]
    BY <1>2, <1>3 DEF ProducersHold
  <2>1. /\ pos[q] \in Nat /\ dequeue_pos <= pos[q] /\ pos[q] < enqueue_pos
        /\ seq[Slot(pos[q])] = pos[q]
    BY <1>1 DEF IInv, ProducersHold
  <2> QED  BY <1>1, <1>4, <1>6, <2>1, CapAssumption
<1>9. ConsumersHold'
  <2> SUFFICES ASSUME NEW b \in Consumers, Claimed(b)'
               PROVE  /\ pos[b] < dequeue_pos /\ enqueue_pos <= pos[b] + Cap
                      /\ seq'[Slot(pos[b])] = pos[b] + 1
    BY <1>2 DEF ConsumersHold
  <2>1. b # c /\ Claimed(b)  BY <1>3
  <2>2. /\ pos[b] \in Nat /\ pos[b] < dequeue_pos /\ enqueue_pos <= pos[b] + Cap
        /\ seq[Slot(pos[b])] = pos[b] + 1
    BY <1>1, <2>1 DEF IInv, ConsumersHold
  <2>3. pos[b] # k0  BY <1>3, <2>1 DEF IInv, DistinctPositions, k0
  <2> QED  BY <1>1, <1>4, <1>6, <2>2, <2>3, CapAssumption
<1>10. DistinctPositions'
  BY <1>2, <1>3 DEF IInv, DistinctPositions
<1>11. QueuedSlots'
  <2> SUFFICES ASSUME NEW k \in dequeue_pos .. (enqueue_pos - 1)
               PROVE  seq'[Slot(k)] = seq[Slot(k)]
    BY <1>2, <1>3 DEF IInv, QueuedSlots
  <2> QED  BY <1>1, <1>4, <1>6, CapAssumption
<1>12. FreeSlots'
  <2> SUFFICES ASSUME NEW k \in enqueue_pos .. (dequeue_pos + Cap - 1)
               PROVE  \/ seq'[Slot(k)] = k
                      \/ /\ seq'[Slot(k)] = k - Cap + 1
                         /\ \E b \in Consumers : Claimed(b)' /\ pos[b] + Cap = k
    BY <1>2 DEF FreeSlots
  <2>1. CASE k = k0 + Cap
    <3>1. Slot(k) = Slot(k0)  BY <1>4, <2>1, SlotNextLap
    <3> QED  BY <1>5, <2>1, <3>1
  <2>2. CASE k # k0 + Cap
    <3>1. /\ k \in Nat /\ k0 + Cap \in Nat
          /\ \/ k < k0 + Cap /\ k0 + Cap < k + Cap
             \/ k0 + Cap < k /\ k < k0 + Cap + Cap
      BY <1>1, <1>4, <2>2, CapAssumption
    <3>2. Slot(k) # Slot(k0 + Cap)  BY <3>1, SlotInjective
    <3>3. Slot(k) # Slot(k0)  BY <1>4, <3>2, SlotNextLap
    <3>4. seq'[Slot(k)] = seq[Slot(k)]  BY <1>5, <3>1, <3>3, SlotType
    <3>5. \A b \in Consumers : Claimed(b) /\ pos[b] + Cap = k => Claimed(b)'
      BY <1>3, <2>2 DEF k0
    <3> QED  BY <3>4, <3>5 DEF IInv, FreeSlots
  <2> QED  BY <2>1, <2>2
<1>13. ProducerViews'
  <2> SUFFICES ASSUME NEW q \in Producers, Looking(q)'
               PROVE  /\ pos[q] <= enqueue_pos
                      /\ pos[q] < enqueue_pos => pos[q] <= seq'[Slot(pos[q])]
                      /\ pc'[q] = "cas" /\ pos[q] = enqueue_pos
                            => seq'[Slot(pos[q])] = pos[q]
    BY <1>2 DEF ProducerViews
  <2>1. pc'[q] = pc[q] /\ Looking(q)  BY <1>1, <1>2 DEF Looking
  <2>2. pos[q] \in Nat /\ Slot(pos[q]) \in Slots  BY <1>1, SlotType
  <2>3. /\ pos[q] <= enqueue_pos
        /\ pos[q] < enqueue_pos => pos[q] <= seq[Slot(pos[q])]
        /\ pc[q] = "cas" /\ pos[q] = enqueue_pos => seq[Slot(pos[q])] = pos[q]
    BY <2>1 DEF IInv, ProducerViews
  <2>4. CASE Slot(pos[q]) = Slot(k0)
    <3>1. Slot(k0 + 1) # Slot(k0)
      BY <1>4, SlotInjective, CapAssumption
    <3>2. ~(pc[q] = "cas" /\ pos[q] = enqueue_pos)
      BY <1>4, <2>3, <2>4, <3>1
    <3> QED  BY <1>1, <1>4, <1>5, <2>1, <2>2, <2>3, <2>4, <3>2, CapAssumption
  <2>5. CASE Slot(pos[q]) # Slot(k0)
    BY <1>5, <2>1, <2>2, <2>3, <2>5
  <2> QED  BY <2>4, <2>5
<1>14. ConsumerViews'
  <2> SUFFICES ASSUME NEW b \in Consumers, Looking(b)'
               PROVE  /\ pos[b] <= dequeue_pos
                      /\ pos[b] < dequeue_pos => pos[b] + 1 <= seq'[Slot(pos[b])]
                      /\ pc'[b] = "cas" /\ pos[b] = dequeue_pos
                            => seq'[Slot(pos[b])] = pos[b] + 1
    BY <1>2 DEF ConsumerViews
  <2>1. pc'[b] = pc[b] /\ Looking(b)  BY <1>1, <1>2 DEF Looking
  <2>2. pos[b] \in Nat /\ Slot(pos[b]) \in Slots  BY <1>1, SlotType
  <2>3. /\ pos[b] <= dequeue_pos
        /\ pos[b] < dequeue_pos => pos[b] + 1 <= seq[Slot(pos[b])]
        /\ pc[b] = "cas" /\ pos[b] = dequeue_pos => seq[Slot(pos[b])] = pos[b] + 1
    BY <2>1 DEF IInv, ConsumerViews
  <2>4. CASE Slot(pos[b]) = Slot(k0)
    <3>1. ~(pc[b] = "cas" /\ pos[b] = dequeue_pos)
      BY <1>1, <1>4, <2>3, <2>4
    <3> QED  BY <1>1, <1>4, <1>5, <2>1, <2>2, <2>3, <2>4, <3>1, CapAssumption
  <2>5. CASE Slot(pos[b]) # Slot(k0)
    BY <1>5, <2>1, <2>2, <2>3, <2>5
  <2> QED  BY <2>4, <2>5
<1> QED
  BY <1>7, <1>8, <1>9, <1>10, <1>11, <1>12, <1>13, <1>14 DEF IInv

-----------------------------------------------------------------------------
(* The invariant and what follows from it.                                 *)

LEMMA IInvInit == Init => IInv
<1> SUFFICES ASSUME Init PROVE IInv
  OBVIOUS
<1>1. TypeOK  BY TypeInit
<1>2. \A k \in 0 .. (Cap - 1) : Slot(k) = k
  <2> SUFFICES ASSUME NEW k \in 0 .. (Cap - 1) PROVE Slot(k) = k
    OBVIOUS
  <2>1. k = k % Cap  BY CapAssumption
  <2> QED  BY <2>1 DEF Slot
<1>3. \A t \in Threads : pc[t] = "idle"
  BY DEF Init
<1>4. /\ \A p \in Producers : ~Reserved(p) /\ ~Looking(p)
      /\ \A c \in Consumers : ~Claimed(c) /\ ~Looking(c)
  BY <1>3 DEF Threads, Reserved, Claimed, Looking
<1>5. FreeSlots  BY <1>2, CapAssumption DEF Init, FreeSlots, Slots
<1>6. Window /\ QueuedSlots  BY CapAssumption DEF Init, Window, QueuedSlots
<1> QED
  BY <1>1, <1>4, <1>5, <1>6 DEF IInv, ProducersHold, ConsumersHold,
     DistinctPositions, ProducerViews, ConsumerViews

LEMMA IInvStep == ASSUME Cap # 1 PROVE IInv /\ [Next]_vars => IInv'
<1> SUFFICES ASSUME IInv, [Next]_vars PROVE IInv'
  OBVIOUS
<1>1. TypeOK'  BY TypeStep DEF IInv
<1>2. ASSUME NEW p \in Producers, EnqueueCall(p) \/ EnqueueStep(p) PROVE IInv'
  BY <1>1, <1>2, ProducerQuietStep, EnqueueCasWinsStep, EnqueueCommitStep
     DEF EnqueueStep
<1>3. ASSUME NEW c \in Consumers, DequeueCall(c) \/ DequeueStep(c) PROVE IInv'
  BY <1>1, <1>3, ConsumerQuietStep, DequeueCasWinsStep, DequeueCommitStep
     DEF DequeueStep
<1>4. CASE UNCHANGED vars
  BY <1>4 DEF vars, IInv, TypeOK, Window, ProducersHold, ConsumersHold,
     DistinctPositions, QueuedSlots, FreeSlots, ProducerViews, ConsumerViews,
     Reserved, Claimed, Looking
<1> QED  BY <1>2, <1>3, <1>4 DEF Next

(* On a ring of two slots or more, every belief a thread acts on holds in  *)
(* every interleaving of any number of threads (mpmc_queue.c:200-280).     *)
THEOREM Invariance == ASSUME Cap # 1 PROVE Spec => []IInv
  BY IInvInit, IInvStep, PTL DEF Spec

LEMMA IInvSlotExclusive == IInv => SlotExclusive
<1> SUFFICES ASSUME IInv, NEW t \in Threads, NEW u \in Threads,
                    Owns(t), Owns(u), Slot(pos[t]) = Slot(pos[u])
             PROVE  t = u
  BY DEF SlotExclusive
<1>1. /\ pos[t] \in Nat /\ pos[u] \in Nat
      /\ enqueue_pos \in Nat /\ dequeue_pos \in Nat
      /\ dequeue_pos <= enqueue_pos /\ enqueue_pos <= dequeue_pos + Cap
  BY DEF IInv, TypeOK, Window
<1>2. \A p \in Producers : Reserved(p) =>
        dequeue_pos <= pos[p] /\ pos[p] < enqueue_pos
  BY DEF IInv, ProducersHold
<1>3. \A c \in Consumers : Claimed(c) =>
        pos[c] < dequeue_pos /\ enqueue_pos <= pos[c] + Cap
  BY DEF IInv, ConsumersHold
<1>4. pos[t] = pos[u]
  <2>1. pos[t] < pos[u] + Cap /\ pos[u] < pos[t] + Cap
    BY <1>1, <1>2, <1>3, CapAssumption DEF Owns
  <2> QED  BY <1>1, <2>1, SlotInjective
<1> QED  BY <1>1, <1>2, <1>3, <1>4 DEF Owns, IInv, DistinctPositions

(* No two threads are ever inside one slot, whatever the number of threads *)
(* and slots: the copies of mpmc_queue.c:130 and :153 never race.          *)
THEOREM SlotsExclusive == ASSUME Cap # 1 PROVE Spec => []SlotExclusive
  BY Invariance, IInvSlotExclusive, PTL

LEMMA IInvSlotPhases == IInv => SlotPhases
<1> SUFFICES ASSUME IInv PROVE SlotPhases
  OBVIOUS
<1>1. /\ enqueue_pos \in Nat /\ dequeue_pos \in Nat
      /\ dequeue_pos <= enqueue_pos /\ enqueue_pos <= dequeue_pos + Cap
      /\ \A t \in Threads : pos[t] \in Nat
  BY DEF IInv, TypeOK, Window
<1>2. ASSUME NEW k \in dequeue_pos .. (enqueue_pos - 1)
      PROVE  seq[Slot(k)] = IF \E p \in Producers : Reserved(p) /\ pos[p] = k
                            THEN k ELSE ReadySeq(k)
  BY DEF IInv, QueuedSlots, ProducersHold, ReadySeq
<1>3. ASSUME NEW k \in enqueue_pos .. (dequeue_pos + Cap - 1)
      PROVE  seq[Slot(k)] = IF \E c \in Consumers : Claimed(c) /\ pos[c] = k - Cap
                            THEN ReadySeq(k - Cap) ELSE k
  <2>1. k \in Int  BY <1>1, CapAssumption
  <2>2. CASE \E c \in Consumers : Claimed(c) /\ pos[c] = k - Cap
    <3>1. PICK c \in Consumers : Claimed(c) /\ pos[c] = k - Cap  BY <2>2
    <3>2. pos[c] \in Nat /\ seq[Slot(pos[c])] = pos[c] + 1
      BY <1>1, <3>1 DEF IInv, ConsumersHold, Threads
    <3>3. Slot(pos[c] + Cap) = Slot(pos[c])  BY <3>2, SlotNextLap
    <3>4. pos[c] + Cap = k  BY <2>1, <3>1, CapAssumption
    <3> QED  BY <2>2, <3>1, <3>2, <3>3, <3>4 DEF ReadySeq
  <2>3. CASE ~ \E c \in Consumers : Claimed(c) /\ pos[c] = k - Cap
    <3>1. \A c \in Consumers : Claimed(c) => pos[c] + Cap # k
      BY <1>1, <2>1, <2>3, CapAssumption DEF Threads
    <3> QED  BY <2>3, <3>1 DEF IInv, FreeSlots
  <2> QED  BY <2>2, <2>3
<1> QED  BY <1>1, <1>2, <1>3 DEF SlotPhases

(* The sequence number of every slot tells exactly which position it is    *)
(* for and whether that position is free, reserved, committed or claimed.  *)
THEOREM PhasesHold == ASSUME Cap # 1 PROVE Spec => []SlotPhases
  BY Invariance, IInvSlotPhases, PTL

(* A ring of two slots or more never holds more entries than slots.        *)
THEOREM NoOverfill == ASSUME Cap # 1 PROVE Spec => []NeverOverfull
<1>1. IInv => NeverOverfull
  BY CapAssumption DEF IInv, TypeOK, Window, NeverOverfull
<1> QED  BY <1>1, Invariance, PTL

-----------------------------------------------------------------------------
(* Refusals.                                                               *)

(* The slot of a queued position is not free for the position a lap later. *)
LEMMA QueuedNotFree ==
  ASSUME IInv, Cap # 1,
         NEW k \in Nat, dequeue_pos + Cap <= k, k < enqueue_pos + Cap
  PROVE  seq[Slot(k)] # k
<1> DEFINE j == k - Cap
<1>1. dequeue_pos \in Nat /\ enqueue_pos \in Nat  BY DEF IInv, TypeOK
<1>2. j \in Nat /\ j \in dequeue_pos .. (enqueue_pos - 1) /\ k = j + Cap
  BY <1>1, CapAssumption
<1>3. seq[Slot(j)] = j \/ seq[Slot(j)] = j + 1
  BY <1>2 DEF IInv, QueuedSlots
<1>4. Slot(k) = Slot(j)  BY <1>2, SlotNextLap
<1> HIDE DEF j
<1> QED  BY <1>2, <1>3, <1>4, CapAssumption

(* Nor is the slot a consumer has claimed. *)
LEMMA ClaimedNotFree ==
  ASSUME IInv, Cap # 1, NEW c \in Consumers, Claimed(c)
  PROVE  seq[Slot(pos[c] + Cap)] # pos[c] + Cap
<1>1. pos[c] \in Nat  BY DEF IInv, TypeOK, Threads
<1>2. seq[Slot(pos[c])] = pos[c] + 1  BY DEF IInv, ConsumersHold
<1>3. Slot(pos[c] + Cap) = Slot(pos[c])  BY <1>1, SlotNextLap
<1> QED  BY <1>1, <1>2, <1>3, CapAssumption

(* A producer is refused at the slot of enqueue_pos, because its entry of   *)
(* the lap before is queued or with a consumer.                            *)
LEMMA RefusedSlot ==
  ASSUME IInv, NEW p \in Producers, EnqueueSeesFull(p)
  PROVE  \/ dequeue_pos + Cap <= enqueue_pos
         \/ \E c \in Consumers : Claimed(c) /\ pos[c] + Cap = enqueue_pos
<1>1. /\ pc[p] = "seq" /\ seq[Slot(pos[p])] < pos[p] /\ pos[p] \in Nat
      /\ enqueue_pos \in Nat /\ dequeue_pos \in Nat
      /\ seq[Slot(pos[p])] \in Nat
  BY SlotType DEF IInv, TypeOK, EnqueueSeesFull, Threads
<1>2. pos[p] = enqueue_pos
  BY <1>1 DEF IInv, ProducerViews, Looking
<1>3. CASE enqueue_pos < dequeue_pos + Cap
  <2>1. enqueue_pos \in enqueue_pos .. (dequeue_pos + Cap - 1)
    BY <1>1, <1>3, CapAssumption
  <2> QED  BY <1>1, <1>2, <2>1 DEF IInv, FreeSlots
<1> QED  BY <1>1, <1>3, CapAssumption

(* No slot is free when that entry is queued, or with the consumer that     *)
(* claimed last.                                                           *)
LEMMA NoneFree ==
  ASSUME IInv, Cap # 1,
         \/ dequeue_pos + Cap <= enqueue_pos
         \/ \E c \in Consumers : /\ Claimed(c) /\ pos[c] + Cap = enqueue_pos
                                 /\ dequeue_pos <= pos[c] + 1
  PROVE  NoFreeSlot
<1> SUFFICES ASSUME NEW k \in enqueue_pos .. (enqueue_pos + Cap - 1)
             PROVE  seq[Slot(k)] # k
  BY DEF NoFreeSlot
<1>1. /\ enqueue_pos \in Nat /\ dequeue_pos \in Nat
      /\ \A c \in Consumers : pos[c] \in Nat
  BY DEF IInv, TypeOK, Threads
<1>2. k \in Nat /\ enqueue_pos <= k /\ k < enqueue_pos + Cap
  BY <1>1, CapAssumption
<1>3. CASE dequeue_pos + Cap <= k
  BY <1>2, <1>3, QueuedNotFree
<1>4. CASE k < dequeue_pos + Cap
  <2>1. PICK c \in Consumers : /\ Claimed(c) /\ pos[c] + Cap = enqueue_pos
                               /\ dequeue_pos <= pos[c] + 1
    BY <1>1, <1>2, <1>4, CapAssumption
  <2>2. k = pos[c] + Cap
    BY <1>1, <1>2, <1>4, <2>1, CapAssumption
  <2> QED  BY <2>1, <2>2, ClaimedNotFree
<1> QED  BY <1>1, <1>2, <1>3, <1>4, CapAssumption

LEMMA RefusedDequeue ==
  ASSUME IInv, NEW c \in Consumers, DequeueSeesEmpty(c)
  PROVE  NoReadyEntry
<1>1. /\ pc[c] = "seq" /\ seq[Slot(pos[c])] < pos[c] + 1 /\ pos[c] \in Nat
      /\ enqueue_pos \in Nat /\ dequeue_pos \in Nat
      /\ dequeue_pos <= enqueue_pos
      /\ seq[Slot(pos[c])] \in Nat
  BY SlotType DEF IInv, TypeOK, Window, DequeueSeesEmpty, Threads
<1>2. pos[c] = dequeue_pos
  BY <1>1 DEF IInv, ConsumerViews, Looking
<1>3. CASE dequeue_pos # enqueue_pos
  <2>1. dequeue_pos \in dequeue_pos .. (enqueue_pos - 1)
    BY <1>1, <1>3
  <2> QED  BY <1>1, <1>2, <2>1 DEF IInv, QueuedSlots, NoReadyEntry
<1> QED  BY <1>3 DEF NoReadyEntry

(* The only step that ends a call at its sequence-number test is the one   *)
(* that returns false.                                                     *)
LEMMA RefusingSteps ==
  ASSUME TypeOK, Next, NEW t \in Threads, pc[t] = "seq", pc'[t] = "idle"
  PROVE  \/ t \in Producers /\ EnqueueSeesFull(t)
         \/ t \in Consumers /\ DequeueSeesEmpty(t)
<1> USE DEF Goto, LoadPos
<1>1. pc \in [Threads -> Labels] /\ Producers \subseteq Threads /\ Consumers \subseteq Threads
  BY DEF TypeOK, Threads
<1>2. ASSUME NEW p \in Producers, EnqueueCall(p) \/ EnqueueStep(p)
      PROVE  p = t /\ EnqueueSeesFull(t)
  BY <1>1, <1>2 DEF EnqueueStep, EnqueueCall, EnqueueSeesFree, EnqueueSeesFull,
     EnqueueSeesTaken, EnqueueReload, EnqueueCasWins, CasFails, EnqueueWrite,
     EnqueueCommit
<1>3. ASSUME NEW c \in Consumers, DequeueCall(c) \/ DequeueStep(c)
      PROVE  c = t /\ DequeueSeesEmpty(t)
  BY <1>1, <1>3 DEF DequeueStep, DequeueCall, DequeueSeesReady, DequeueSeesEmpty,
     DequeueSeesTaken, DequeueReload, DequeueCasWins, CasFails, DequeueRead,
     DequeueCommit
<1> QED  BY <1>2, <1>3 DEF Next

(* With any number of consumers, an enqueue is refused only when no slot   *)
(* is free at that very moment, although the counter it read may be stale, *)
(* or when the consumer of the slot whose turn it is was overtaken by      *)
(* another (mpmc_queue.c:221-223).                                         *)
THEOREM RefusedWhenFullOrOvertaken ==
  ASSUME Cap # 1 PROVE Spec => FullOrOvertakenWhenRefused
<1>1. IInv /\ [Next]_vars =>
        [\A p \in Producers : Refused(p) => NoFreeSlot \/ Overtaken]_vars
  <2> SUFFICES ASSUME IInv, Next, NEW p \in Producers, Refused(p)
               PROVE  NoFreeSlot \/ Overtaken
    OBVIOUS
  <2>1. p \in Threads /\ p \notin Consumers /\ TypeOK
    BY RolesAssumption DEF Threads, IInv
  <2>2. EnqueueSeesFull(p)
    BY <2>1, RefusingSteps DEF Refused
  <2>3. CASE dequeue_pos + Cap <= enqueue_pos
    BY <2>3, NoneFree
  <2>4. CASE \E c \in Consumers : Claimed(c) /\ pos[c] + Cap = enqueue_pos
    <3>1. PICK c \in Consumers : Claimed(c) /\ pos[c] + Cap = enqueue_pos  BY <2>4
    <3>2. pos[c] \in Nat /\ dequeue_pos \in Nat  BY DEF IInv, TypeOK, Threads
    <3>3. CASE pos[c] + 1 < dequeue_pos  BY <3>1, <3>3 DEF Overtaken
    <3>4. CASE dequeue_pos <= pos[c] + 1  BY <3>1, <3>4, NoneFree
    <3> QED  BY <3>2, <3>3, <3>4
  <2> QED  BY <2>2, <2>3, <2>4, RefusedSlot
<1> QED  BY <1>1, Invariance, PTL DEF Spec, FullOrOvertakenWhenRefused

(* Nobody has overtaken consumer c. *)
ClaimedLast(c) == Claimed(c) => dequeue_pos = pos[c] + 1

LEMMA ClaimedLastStep ==
  ASSUME NEW c, Consumers = {c}
  PROVE  TypeOK /\ ClaimedLast(c) /\ [Next]_vars => ClaimedLast(c)'
<1> SUFFICES ASSUME TypeOK, ClaimedLast(c), [Next]_vars PROVE ClaimedLast(c)'
  OBVIOUS
<1> USE DEF Goto, LoadPos, ClaimedLast, Claimed
<1>1. /\ c \in Threads /\ c \notin Producers /\ Producers \subseteq Threads
      /\ pc \in [Threads -> Labels] /\ pos \in [Threads -> Nat]
  BY RolesAssumption DEF TypeOK, Threads
<1>2. CASE UNCHANGED vars  BY <1>2 DEF vars
<1>3. ASSUME NEW p \in Producers, EnqueueCall(p) \/ EnqueueStep(p)
      PROVE  ClaimedLast(c)'
  <2>1. p # c  BY <1>1
  <2>2. dequeue_pos' = dequeue_pos /\ pc'[c] = pc[c] /\ pos'[c] = pos[c]
    BY <1>1, <1>3, <2>1 DEF EnqueueStep, EnqueueCall, EnqueueSeesFree, EnqueueSeesFull,
       EnqueueSeesTaken, EnqueueReload, EnqueueCasWins, CasFails, EnqueueWrite,
       EnqueueCommit
  <2> QED  BY <2>2
<1>4. CASE DequeueCall(c) \/ DequeueStep(c)
  BY <1>1, <1>4 DEF DequeueStep, DequeueCall, DequeueSeesReady, DequeueSeesEmpty,
     DequeueSeesTaken, DequeueReload, DequeueCasWins, CasFails, DequeueRead,
     DequeueCommit
<1> QED  BY <1>2, <1>3, <1>4 DEF Next

(* With one consumer, as in the logger, nobody can be overtaken: an         *)
(* enqueue is refused only when no slot is free, which is what             *)
(* mpmc_queue.c:198 says.                                                  *)
THEOREM RefusedOnlyWhenFull ==
  ASSUME Cap # 1, NEW c, Consumers = {c}
  PROVE  Spec => FullWhenRefused
<1>1. Init => ClaimedLast(c)
  BY DEF Init, ClaimedLast, Claimed, Threads
<1>2. IInv => TypeOK
  BY DEF IInv
<1>3. IInv /\ ClaimedLast(c) /\ [Next]_vars =>
        [\A p \in Producers : Refused(p) => NoFreeSlot]_vars
  <2> SUFFICES ASSUME IInv, ClaimedLast(c), Next, NEW p \in Producers, Refused(p)
               PROVE  NoFreeSlot
    OBVIOUS
  <2>1. p \in Threads /\ p \notin Consumers /\ TypeOK
    BY RolesAssumption DEF Threads, IInv
  <2>2. EnqueueSeesFull(p)
    BY <2>1, RefusingSteps DEF Refused
  <2>3. Claimed(c) => dequeue_pos <= pos[c] + 1
    BY <2>1 DEF ClaimedLast, TypeOK, Threads
  <2> QED  BY <2>2, <2>3, RefusedSlot, NoneFree
<1> QED  BY <1>1, <1>2, <1>3, ClaimedLastStep, Invariance, PTL DEF Spec, FullWhenRefused

(* A dequeue is refused only when the queue is empty or its oldest         *)
(* position is reserved and not yet committed (mpmc_queue.c:273-275).      *)
THEOREM RefusedOnlyWhenEmpty == ASSUME Cap # 1 PROVE Spec => EmptyWhenRefused
<1>1. IInv /\ [Next]_vars =>
        [\A c \in Consumers : Refused(c) => NoReadyEntry]_vars
  <2> SUFFICES ASSUME IInv, Next, NEW c \in Consumers, Refused(c)
               PROVE  NoReadyEntry
    OBVIOUS
  <2>1. c \in Threads /\ c \notin Producers /\ TypeOK
    BY RolesAssumption DEF Threads, IInv
  <2> QED  BY <2>1, RefusingSteps, RefusedDequeue DEF Refused
<1> QED  BY <1>1, Invariance, PTL DEF Spec, EmptyWhenRefused

-----------------------------------------------------------------------------
(* What the slots carry.                                                   *)

(* The slot a producer owns is nobody else's, and no other queued          *)
(* position uses it.                                                       *)
LEMMA ProducerAlone ==
  ASSUME IInv, NEW p \in Producers, Reserved(p)
  PROVE  /\ pos[p] \in dequeue_pos .. (enqueue_pos - 1)
         /\ \A q \in Producers : Reserved(q) /\ q # p => Slot(pos[q]) # Slot(pos[p])
         /\ \A c \in Consumers : Claimed(c) => Slot(pos[c]) # Slot(pos[p])
         /\ \A k \in dequeue_pos .. (enqueue_pos - 1) :
               k # pos[p] => Slot(k) # Slot(pos[p])
<1>1. /\ enqueue_pos \in Nat /\ dequeue_pos \in Nat /\ enqueue_pos <= dequeue_pos + Cap
      /\ pos[p] \in Nat /\ dequeue_pos <= pos[p] /\ pos[p] < enqueue_pos
  BY DEF IInv, TypeOK, Window, ProducersHold, Threads
<1>2. SlotExclusive /\ Producers \cap Consumers = {}
  BY IInvSlotExclusive, RolesAssumption
<1>3. /\ \A q \in Producers : Reserved(q) /\ q # p => Slot(pos[q]) # Slot(pos[p])
      /\ \A c \in Consumers : Claimed(c) => Slot(pos[c]) # Slot(pos[p])
  BY <1>2 DEF SlotExclusive, Owns, Threads
<1>4. ASSUME NEW k \in dequeue_pos .. (enqueue_pos - 1), k # pos[p]
      PROVE  Slot(k) # Slot(pos[p])
  <2>1. k \in Nat /\ k < pos[p] + Cap /\ pos[p] < k + Cap
    BY <1>1, CapAssumption
  <2> QED  BY <1>1, <1>4, <2>1, SlotInjective
<1> QED  BY <1>1, <1>3, <1>4

(* No queued position uses the slot a consumer has claimed. *)
LEMMA ConsumerAlone ==
  ASSUME IInv, NEW c \in Consumers, Claimed(c)
  PROVE  /\ \A d \in Consumers : Claimed(d) /\ d # c => Slot(pos[d]) # Slot(pos[c])
         /\ \A k \in dequeue_pos .. (enqueue_pos - 1) : Slot(k) # Slot(pos[c])
<1>1. /\ enqueue_pos \in Nat /\ dequeue_pos \in Nat
      /\ pos[c] \in Nat /\ pos[c] < dequeue_pos /\ enqueue_pos <= pos[c] + Cap
  BY DEF IInv, TypeOK, Window, ConsumersHold, Threads
<1>2. \A d \in Consumers : Claimed(d) /\ d # c => Slot(pos[d]) # Slot(pos[c])
  BY IInvSlotExclusive, RolesAssumption DEF SlotExclusive, Owns, Threads
<1>3. ASSUME NEW k \in dequeue_pos .. (enqueue_pos - 1)
      PROVE  Slot(k) # Slot(pos[c])
  <2>1. k \in Nat /\ pos[c] <= k /\ k < pos[c] + Cap /\ k # pos[c]
    BY <1>1, CapAssumption
  <2> QED  BY <1>1, <2>1, SlotInjective
<1> QED  BY <1>2, <1>3

(* A consumer that wins its compare-and-swap takes the oldest position of   *)
(* a queue that is not empty, and that position is committed.              *)
LEMMA HeadCommitted ==
  ASSUME IInv, NEW c \in Consumers, DequeueCasWins(c)
  PROVE  /\ pos[c] = dequeue_pos /\ dequeue_pos < enqueue_pos
         /\ seq[Slot(dequeue_pos)] = dequeue_pos + 1
<1>1. /\ enqueue_pos \in Nat /\ dequeue_pos \in Nat /\ dequeue_pos <= enqueue_pos
      /\ pc[c] = "cas" /\ pos[c] = dequeue_pos
  BY DEF IInv, TypeOK, Window, DequeueCasWins
<1>2. seq[Slot(dequeue_pos)] = dequeue_pos + 1
  BY <1>1 DEF IInv, ConsumerViews, Looking
<1>3. ASSUME dequeue_pos = enqueue_pos PROVE FALSE
  <2>1. dequeue_pos \in enqueue_pos .. (dequeue_pos + Cap - 1)
    BY <1>1, <1>3, CapAssumption
  <2>2. seq[Slot(dequeue_pos)] \in {dequeue_pos, dequeue_pos - Cap + 1}
    BY <2>1 DEF IInv, FreeSlots
  <2> QED  BY <1>1, <1>2, <2>2, CapAssumption
<1> QED  BY <1>1, <1>2, <1>3

(* No producer reads or writes a slot it does not own. *)
LEMMA EntriesProducerStep ==
  ASSUME IInv, EntriesKept, NEW p \in Producers, EnqueueCall(p) \/ EnqueueStep(p)
  PROVE  EntriesKept'
<1> USE DEF Goto, LoadPos
<1>1. /\ pc \in [Threads -> Labels] /\ pos \in [Threads -> Nat]
      /\ buf \in [Threads -> Payload \cup {Nil}]
      /\ data \in [Slots -> Payload \cup {Nil}] /\ seq \in [Slots -> Nat]
      /\ enqueue_pos \in Nat /\ dequeue_pos \in Nat
      /\ p \in Threads /\ Consumers \subseteq Threads /\ Producers \subseteq Threads
      /\ p \notin Consumers
  BY RolesAssumption DEF IInv, TypeOK, Threads
<1>2. /\ dequeue_pos' = dequeue_pos
      /\ \A t \in Threads : t # p => /\ pc'[t] = pc[t] /\ pos'[t] = pos[t]
                                     /\ buf'[t] = buf[t]
      /\ pc'[p] # "idle" => buf'[p] \in Payload
  BY <1>1 DEF EntriesKept, EnqueueStep, EnqueueCall, EnqueueSeesFree, EnqueueSeesFull,
     EnqueueSeesTaken, EnqueueReload, EnqueueCasWins, CasFails, EnqueueWrite, EnqueueCommit
<1>3. \A q \in Producers : pc'[q] # "idle" => buf'[q] \in Payload
  BY <1>1, <1>2 DEF EntriesKept
<1>4. \A c \in Consumers : Claimed(c)' = Claimed(c) /\ pos'[c] = pos[c]
  BY <1>1, <1>2 DEF Claimed
<1>5. CASE EnqueueWrite(p)
  <2>1. /\ pc[p] = "write" /\ pos' = pos /\ buf' = buf /\ seq' = seq
        /\ enqueue_pos' = enqueue_pos
        /\ data'[Slot(pos[p])] = buf[p]
        /\ \A i \in Slots : i # Slot(pos[p]) => data'[i] = data[i]
    BY <1>1, <1>5, SlotType DEF EnqueueWrite
  <2>2. Reserved(p)  BY <2>1 DEF Reserved
  <2>3. \A q \in Producers : pc'[q] = "commit" => data'[Slot(pos'[q])] = buf'[q]
    <3> SUFFICES ASSUME NEW q \in Producers, pc'[q] = "commit", q # p
                 PROVE  data'[Slot(pos[q])] = buf[q]
      BY <2>1
    <3>1. pc[q] = "commit" /\ Reserved(q)  BY <1>1, <1>2 DEF Reserved
    <3>2. Slot(pos[q]) # Slot(pos[p]) /\ Slot(pos[q]) \in Slots
      BY <1>1, <2>2, <3>1, ProducerAlone, SlotType
    <3> QED  BY <2>1, <3>1, <3>2 DEF EntriesKept
  <2>4. ASSUME NEW k \in dequeue_pos .. (enqueue_pos - 1), seq[Slot(k)] = ReadySeq(k)
        PROVE  data'[Slot(k)] \in Payload
    <3>1. seq[Slot(pos[p])] = pos[p]  BY <2>2 DEF IInv, ProducersHold
    <3>2. k # pos[p]  BY <1>1, <2>4, <3>1 DEF ReadySeq
    <3>3. Slot(k) # Slot(pos[p]) /\ Slot(k) \in Slots
      BY <1>1, <2>2, <3>2, ProducerAlone, SlotType
    <3> QED  BY <2>1, <2>4, <3>3 DEF EntriesKept
  <2>5. \A c \in Consumers : Claimed(c) => data'[Slot(pos[c])] \in Payload
    BY <1>1, <2>1, <2>2, ProducerAlone, SlotType DEF EntriesKept
  <2> QED  BY <1>2, <1>3, <1>4, <2>1, <2>3, <2>4, <2>5 DEF EntriesKept
<1>6. CASE EnqueueCommit(p)
  <2>1. /\ pc[p] = "commit" /\ pc'[p] = "idle" /\ pos' = pos /\ buf' = buf /\ data' = data
        /\ enqueue_pos' = enqueue_pos
        /\ \A i \in Slots : i # Slot(pos[p]) => seq'[i] = seq[i]
    BY <1>1, <1>6, SlotType DEF EnqueueCommit
  <2>2. Reserved(p)  BY <2>1 DEF Reserved
  <2>3. \A q \in Producers : pc'[q] = "commit" => data'[Slot(pos'[q])] = buf'[q]
    BY <1>1, <1>2, <2>1 DEF EntriesKept
  <2>4. ASSUME NEW k \in dequeue_pos .. (enqueue_pos - 1), seq'[Slot(k)] = ReadySeq(k)
        PROVE  data'[Slot(k)] \in Payload
    <3>1. CASE k = pos[p]  BY <2>1, <3>1 DEF EntriesKept
    <3>2. CASE k # pos[p]
      <4>1. Slot(k) # Slot(pos[p]) /\ Slot(k) \in Slots
        BY <1>1, <2>2, <3>2, ProducerAlone, SlotType
      <4> QED  BY <2>1, <2>4, <4>1 DEF EntriesKept
    <3> QED  BY <3>1, <3>2
  <2> QED  BY <1>2, <1>3, <1>4, <2>1, <2>3, <2>4 DEF EntriesKept
<1>7. CASE EnqueueCasWins(p)
  <2>1. /\ pc[p] = "cas" /\ pc'[p] = "write" /\ pos' = pos /\ buf' = buf /\ data' = data
        /\ seq' = seq /\ pos[p] = enqueue_pos /\ enqueue_pos' = enqueue_pos + 1
    BY <1>1, <1>7 DEF EnqueueCasWins
  <2>2. seq[Slot(enqueue_pos)] = enqueue_pos
    BY <2>1 DEF IInv, ProducerViews, Looking
  <2>3. \A q \in Producers : pc'[q] = "commit" => data'[Slot(pos'[q])] = buf'[q]
    BY <1>1, <1>2, <2>1 DEF EntriesKept
  <2>4. ASSUME NEW k \in dequeue_pos .. enqueue_pos, seq[Slot(k)] = ReadySeq(k)
        PROVE  data[Slot(k)] \in Payload
    <3>1. k # enqueue_pos  BY <1>1, <2>2, <2>4 DEF ReadySeq
    <3>2. k \in dequeue_pos .. (enqueue_pos - 1)  BY <1>1, <3>1
    <3> QED  BY <2>4, <3>2 DEF EntriesKept
  <2>5. dequeue_pos' .. (enqueue_pos' - 1) = dequeue_pos .. enqueue_pos
    BY <1>1, <1>2, <2>1
  <2> QED  BY <1>3, <1>4, <2>1, <2>3, <2>4, <2>5 DEF EntriesKept
<1>8. CASE ~EnqueueWrite(p) /\ ~EnqueueCommit(p) /\ ~EnqueueCasWins(p)
  <2>1. /\ enqueue_pos' = enqueue_pos /\ seq' = seq /\ data' = data
        /\ pc'[p] # "commit"
    BY <1>1, <1>8 DEF EnqueueStep, EnqueueCall, EnqueueSeesFree, EnqueueSeesFull,
       EnqueueSeesTaken, EnqueueReload, CasFails
  <2>2. \A q \in Producers : pc'[q] = "commit" => data'[Slot(pos'[q])] = buf'[q]
    BY <1>1, <1>2, <2>1 DEF EntriesKept
  <2> QED  BY <1>2, <1>3, <1>4, <2>1, <2>2 DEF EntriesKept
<1> QED  BY <1>5, <1>6, <1>7, <1>8

(* Giving a slot back changes no queued entry. *)
LEMMA EntriesConsumerStep ==
  ASSUME IInv, EntriesKept, NEW c \in Consumers, DequeueCall(c) \/ DequeueStep(c)
  PROVE  EntriesKept'
<1> USE DEF Goto, LoadPos
<1>1. /\ pc \in [Threads -> Labels] /\ pos \in [Threads -> Nat]
      /\ buf \in [Threads -> Payload \cup {Nil}]
      /\ data \in [Slots -> Payload \cup {Nil}] /\ seq \in [Slots -> Nat]
      /\ enqueue_pos \in Nat /\ dequeue_pos \in Nat
      /\ c \in Threads /\ Consumers \subseteq Threads /\ Producers \subseteq Threads
      /\ c \notin Producers
  BY RolesAssumption DEF IInv, TypeOK, Threads
<1>2. /\ enqueue_pos' = enqueue_pos /\ data' = data
      /\ \A t \in Threads : t # c => /\ pc'[t] = pc[t] /\ pos'[t] = pos[t]
                                     /\ buf'[t] = buf[t]
  BY <1>1 DEF DequeueStep, DequeueCall, DequeueSeesReady, DequeueSeesEmpty,
     DequeueSeesTaken, DequeueReload, DequeueCasWins, CasFails, DequeueRead, DequeueCommit
<1>3. /\ \A p \in Producers : pc'[p] # "idle" => buf'[p] \in Payload
      /\ \A p \in Producers : pc'[p] = "commit" => data'[Slot(pos'[p])] = buf'[p]
  BY <1>1, <1>2 DEF EntriesKept
<1>4. \A d \in Consumers : d # c => Claimed(d)' = Claimed(d) /\ pos'[d] = pos[d]
  BY <1>1, <1>2 DEF Claimed
<1>5. CASE DequeueCasWins(c)
  <2>1. pos' = pos /\ seq' = seq /\ dequeue_pos' = dequeue_pos + 1
    BY <1>5, HeadCommitted DEF DequeueCasWins
  <2>2. dequeue_pos \in dequeue_pos .. (enqueue_pos - 1)
    BY <1>1, <1>5, HeadCommitted
  <2>3. data[Slot(pos[c])] \in Payload
    BY <1>5, <2>2, HeadCommitted DEF EntriesKept, ReadySeq
  <2>4. \A k \in dequeue_pos' .. (enqueue_pos' - 1) : k \in dequeue_pos .. (enqueue_pos - 1)
    BY <1>1, <1>2, <2>1
  <2> QED  BY <1>2, <1>3, <1>4, <2>1, <2>3, <2>4 DEF EntriesKept
<1>6. CASE DequeueCommit(c)
  <2>1. /\ Claimed(c) /\ ~Claimed(c)' /\ pos' = pos /\ dequeue_pos' = dequeue_pos
        /\ \A i \in Slots : i # Slot(pos[c]) => seq'[i] = seq[i]
    BY <1>1, <1>6, SlotType DEF DequeueCommit, Claimed
  <2>2. ASSUME NEW k \in dequeue_pos .. (enqueue_pos - 1)
        PROVE  seq'[Slot(k)] = seq[Slot(k)]
    BY <1>1, <2>1, ConsumerAlone, SlotType
  <2> QED  BY <1>2, <1>3, <1>4, <2>1, <2>2 DEF EntriesKept
<1>7. CASE ~DequeueCasWins(c) /\ ~DequeueCommit(c)
  <2>1. /\ seq' = seq /\ dequeue_pos' = dequeue_pos
        /\ Claimed(c)' => Claimed(c) /\ pos'[c] = pos[c]
    BY <1>1, <1>7 DEF DequeueStep, DequeueCall, DequeueSeesReady, DequeueSeesEmpty,
       DequeueSeesTaken, DequeueReload, CasFails, DequeueRead, Claimed
  <2> QED  BY <1>2, <1>3, <1>4, <2>1 DEF EntriesKept
<1> QED  BY <1>5, <1>6, <1>7

LEMMA EntriesStep == IInv /\ EntriesKept /\ [Next]_vars => EntriesKept'
<1> SUFFICES ASSUME IInv, EntriesKept, [Next]_vars PROVE EntriesKept'
  OBVIOUS
<1>1. CASE UNCHANGED vars  BY <1>1 DEF vars, EntriesKept, Claimed
<1>2. CASE Next  BY <1>2, EntriesProducerStep, EntriesConsumerStep DEF Next
<1> QED  BY <1>1, <1>2

LEMMA EntriesInit == Init => EntriesKept
<1> SUFFICES ASSUME Init PROVE EntriesKept
  OBVIOUS
<1>1. \A t \in Threads : pc[t] = "idle"  BY DEF Init
<1>2. dequeue_pos .. (enqueue_pos - 1) = {}  BY DEF Init
<1> QED  BY <1>1, <1>2 DEF EntriesKept, Claimed, Threads

(* A consumer only ever copies out what the producer of its position was   *)
(* given (mpmc_queue.c:126-133,150-155).                                   *)
THEOREM EntriesFilled == ASSUME Cap # 1 PROVE Spec => []EntriesKept
  BY Invariance, EntriesInit, EntriesStep, PTL DEF Spec

-----------------------------------------------------------------------------
(* The ring implements the abstract queue.  TicketAt reads a position as a  *)
(* ticket; it is known once the slot's phase is.                           *)

LEMMA TicketCommitted ==
  ASSUME NEW k \in Nat, seq[Slot(k)] = k + 1
  PROVE  TicketAt(k) = data[Slot(k)]
  BY DEF TicketAt, ReadySeq

ReservedTickets == \A p \in Producers : Reserved(p) => TicketAt(pos[p]) = p

LEMMA TicketReserved == IInv => ReservedTickets
<1> SUFFICES ASSUME IInv, NEW p \in Producers, Reserved(p) PROVE TicketAt(pos[p]) = p
  BY DEF ReservedTickets
<1>1. pos[p] \in Nat /\ seq[Slot(pos[p])] = pos[p]
  BY DEF IInv, TypeOK, ProducersHold, Threads
<1>2. \A q \in Producers : Reserved(q) /\ pos[q] = pos[p] => q = p
  BY DEF IInv, DistinctPositions
<1>3. (CHOOSE q \in Producers : Reserved(q) /\ pos[q] = pos[p]) = p
  BY <1>2
<1> QED  BY <1>1, <1>3 DEF TicketAt, ReadySeq

(* A queued position is an entry or the producer that reserved it. *)
LEMMA TicketKinds ==
  ASSUME IInv, EntriesKept, NEW k \in dequeue_pos .. (enqueue_pos - 1)
  PROVE  \/ /\ seq[Slot(k)] = k + 1 /\ TicketAt(k) = data[Slot(k)]
            /\ TicketAt(k) \in Payload
         \/ \E p \in Producers : Reserved(p) /\ pos[p] = k /\ TicketAt(k) = p
<1>1. k \in Nat  BY DEF IInv, TypeOK
<1>2. CASE seq[Slot(k)] = k + 1
  BY <1>1, <1>2, TicketCommitted DEF EntriesKept, ReadySeq
<1>3. CASE seq[Slot(k)] # k + 1
  BY <1>3, TicketReserved DEF IInv, QueuedSlots, ReservedTickets
<1> QED  BY <1>2, <1>3

(* A position that stays committed, or stays reserved by the same          *)
(* producer, stays the same ticket.                                        *)
LEMMA TicketKept ==
  ASSUME IInv, IInv', NEW k \in Nat,
         \/ /\ seq[Slot(k)] = k + 1 /\ seq'[Slot(k)] = k + 1
            /\ data'[Slot(k)] = data[Slot(k)]
         \/ \E p \in Producers : Reserved(p) /\ pos[p] = k /\ Reserved(p)' /\ pos'[p] = k
  PROVE  TicketAt(k)' = TicketAt(k)
<1>1. CASE /\ seq[Slot(k)] = k + 1 /\ seq'[Slot(k)] = k + 1
           /\ data'[Slot(k)] = data[Slot(k)]
  BY <1>1 DEF TicketAt, ReadySeq
<1>2. ASSUME NEW p \in Producers, Reserved(p), pos[p] = k, Reserved(p)', pos'[p] = k
      PROVE  TicketAt(k)' = TicketAt(k)
  <2>1. TicketAt(pos[p]) = p  BY <1>2, TicketReserved DEF ReservedTickets
  <2>2. ReservedTickets'  BY TicketReserved, PTL
  <2>3. TicketAt(pos[p])' = p  BY <1>2, <2>2 DEF ReservedTickets
  <2>4. TicketAt(pos[p])' = TicketAt(k)'
    BY <1>2 DEF TicketAt
  <2> QED  BY <1>2, <2>1, <2>3, <2>4
<1> QED  BY <1>1, <1>2

(* The queue of tickets is one ticket per position. *)
TicketsTyped ==
    /\ Tickets \in Seq(Producers \cup Payload)
    /\ Len(Tickets) = enqueue_pos - dequeue_pos
    /\ \A i \in 1 .. Len(Tickets) : Tickets[i] = TicketAt(dequeue_pos + i - 1)

LEMMA TicketsType == IInv /\ EntriesKept => TicketsTyped
<1> SUFFICES ASSUME IInv, EntriesKept PROVE TicketsTyped
  OBVIOUS
<1> DEFINE n == enqueue_pos - dequeue_pos
<1>1. n \in Nat /\ enqueue_pos \in Nat /\ dequeue_pos \in Nat
  BY DEF IInv, TypeOK, Window
<1>2. \A i \in 1 .. n : TicketAt(dequeue_pos + i - 1) \in Producers \cup Payload
  <2> TAKE i \in 1 .. n
  <2>1. dequeue_pos + i - 1 \in dequeue_pos .. (enqueue_pos - 1)  BY <1>1
  <2> QED  BY <2>1, TicketKinds
<1>3. Tickets \in [1 .. n -> Producers \cup Payload]
  BY <1>2 DEF Tickets
<1>4. Tickets \in Seq(Producers \cup Payload) /\ Len(Tickets) = n
  BY <1>1, <1>3
<1> QED  BY <1>4 DEF TicketsTyped, Tickets

LEMMA TicketsSame ==
  ASSUME UNCHANGED <<enqueue_pos, dequeue_pos>>, IInv,
         \A k \in dequeue_pos .. (enqueue_pos - 1) : TicketAt(k)' = TicketAt(k)
  PROVE  Tickets' = Tickets
<1> DEFINE n == enqueue_pos - dequeue_pos
<1>1. n \in Int /\ enqueue_pos \in Int /\ dequeue_pos \in Int  BY DEF IInv, TypeOK
<1>2. ASSUME NEW i \in 1 .. n
      PROVE  TicketAt(dequeue_pos + i - 1)' = TicketAt(dequeue_pos + i - 1)
  <2>1. dequeue_pos + i - 1 \in dequeue_pos .. (enqueue_pos - 1)  BY <1>1
  <2> QED  BY <2>1
<1> QED  BY <1>2 DEF Tickets

QueueSame == UNCHANGED <<Tickets, Held, Out>>

(* A producer that reads, gives up or copies changes no ticket; the copy    *)
(* goes to a slot whose position is still the producer.                    *)
LEMMA ProducerOnQueue ==
  ASSUME IInv, IInv', EntriesKept, NEW p \in Producers,
         EnqueueCall(p) \/ EnqueueStep(p), ~EnqueueCasWins(p), ~EnqueueCommit(p)
  PROVE  QueueSame
<1> USE DEF Goto, LoadPos
<1>1. /\ pc \in [Threads -> Labels] /\ pos \in [Threads -> Nat]
      /\ buf \in [Threads -> Payload \cup {Nil}]
      /\ data \in [Slots -> Payload \cup {Nil}]
      /\ enqueue_pos \in Nat /\ dequeue_pos \in Nat
      /\ p \in Threads /\ Consumers \subseteq Threads /\ Producers \subseteq Threads
      /\ p \notin Consumers
  BY RolesAssumption DEF IInv, TypeOK, Threads
<1>2. /\ UNCHANGED <<enqueue_pos, dequeue_pos, seq>>
      /\ \A t \in Threads : t # p => /\ pc'[t] = pc[t] /\ pos'[t] = pos[t]
                                     /\ buf'[t] = buf[t]
      /\ Reserved(p) => Reserved(p)' /\ pos'[p] = pos[p]
  BY <1>1 DEF EnqueueStep, EnqueueCall, EnqueueSeesFree, EnqueueSeesFull,
     EnqueueSeesTaken, EnqueueReload, CasFails, EnqueueWrite, Reserved
<1>3. \/ data' = data
      \/ /\ Reserved(p)
         /\ \A i \in Slots : i # Slot(pos[p]) => data'[i] = data[i]
  BY <1>1 DEF EnqueueStep, EnqueueCall, EnqueueSeesFree, EnqueueSeesFull,
     EnqueueSeesTaken, EnqueueReload, CasFails, EnqueueWrite, Reserved
<1>4. ASSUME NEW k \in dequeue_pos .. (enqueue_pos - 1)
      PROVE  TicketAt(k)' = TicketAt(k)
  <2>1. k \in Nat  BY <1>1
  <2>2. seq[Slot(k)] = k + 1 => data'[Slot(k)] = data[Slot(k)]
    <3>1. ASSUME Reserved(p), seq[Slot(k)] = k + 1 PROVE Slot(k) # Slot(pos[p])
      <4>1. seq[Slot(pos[p])] = pos[p]  BY <3>1 DEF IInv, ProducersHold
      <4>2. k # pos[p]  BY <2>1, <3>1, <4>1
      <4> QED  BY <3>1, <4>2, ProducerAlone
    <3> QED  BY <1>3, <2>1, <3>1, SlotType
  <2>3. \A q \in Producers : Reserved(q) /\ pos[q] = k => Reserved(q)' /\ pos'[q] = k
    BY <1>1, <1>2 DEF Reserved
  <2> QED  BY <1>2, <2>1, <2>2, <2>3, TicketKept DEF IInv, QueuedSlots
<1>5. Tickets' = Tickets  BY <1>2, <1>4, TicketsSame
<1>6. ASSUME NEW c \in Consumers
      PROVE  /\ Claimed(c)' = Claimed(c) /\ pos'[c] = pos[c] /\ buf'[c] = buf[c]
             /\ Claimed(c) => data'[Slot(pos[c])] = data[Slot(pos[c])]
  <2>1. Claimed(c)' = Claimed(c) /\ pos'[c] = pos[c] /\ buf'[c] = buf[c]
    BY <1>1, <1>2 DEF Claimed
  <2>2. Reserved(p) /\ Claimed(c) => Slot(pos[c]) # Slot(pos[p])
    BY ProducerAlone
  <2> QED  BY <1>1, <1>3, <2>1, <2>2, SlotType
<1>7. Held' = Held /\ Out' = Out  BY <1>6 DEF Held, Out
<1> QED  BY <1>5, <1>7 DEF QueueSame

(* A commit turns the producer's ticket into its entry. *)
LEMMA CommitOnQueue ==
  ASSUME IInv, IInv', EntriesKept, NEW p \in Producers, EnqueueCommit(p)
  PROVE  Abstract!Commit(p, buf[p]) /\ buf[p] \in Payload
<1> USE DEF Goto
<1> DEFINE k0 == pos[p]
           j == k0 - dequeue_pos + 1
<1>1. /\ pc \in [Threads -> Labels] /\ pos \in [Threads -> Nat]
      /\ seq \in [Slots -> Nat]
      /\ enqueue_pos \in Nat /\ dequeue_pos \in Nat
      /\ p \in Threads /\ Consumers \subseteq Threads /\ Producers \subseteq Threads
      /\ p \notin Consumers
  BY RolesAssumption DEF IInv, TypeOK, Threads
<1>2. /\ pc[p] = "commit" /\ Reserved(p)
      /\ UNCHANGED <<enqueue_pos, dequeue_pos, data, pos, buf>>
      /\ \A t \in Threads : t # p => pc'[t] = pc[t]
      /\ seq'[Slot(k0)] = k0 + 1
      /\ \A i \in Slots : i # Slot(k0) => seq'[i] = seq[i]
  BY <1>1, SlotType DEF EnqueueCommit, ReadySeq, Reserved
<1>3. data[Slot(k0)] = buf[p] /\ buf[p] \in Payload
  BY <1>2 DEF EntriesKept
<1>4. k0 \in dequeue_pos .. (enqueue_pos - 1) /\ TicketAt(k0) = p
  BY <1>2, ProducerAlone, TicketReserved DEF ReservedTickets
<1>5. TicketAt(k0)' = buf[p] /\ k0' = k0
  <2>1. TicketAt(k0)' = data'[Slot(k0)]  BY <1>2 DEF TicketAt, ReadySeq
  <2>2. k0' = k0  BY <1>2
  <2> QED  BY <1>2, <1>3, <2>1, <2>2
<1>6. ASSUME NEW k \in dequeue_pos .. (enqueue_pos - 1), k # k0
      PROVE  TicketAt(k)' = TicketAt(k)
  <2>1. k \in Nat /\ Slot(k) \in Slots /\ Slot(k) # Slot(k0)
    BY <1>1, <1>2, <1>6, ProducerAlone, SlotType
  <2>2. \A q \in Producers : Reserved(q) /\ pos[q] = k => Reserved(q)' /\ pos'[q] = k
    BY <1>1, <1>2, <1>6 DEF Reserved
  <2> QED  BY <1>2, <2>1, <2>2, TicketKept DEF IInv, QueuedSlots
<1> HIDE DEF k0
<1>7. /\ j \in 1 .. Len(Tickets) /\ Tickets[j] = p /\ dequeue_pos + j - 1 = k0
      /\ Tickets = [i \in 1 .. (enqueue_pos - dequeue_pos) |-> TicketAt(dequeue_pos + i - 1)]
      /\ Len(Tickets) = enqueue_pos - dequeue_pos
  <2>1. j \in 1 .. (enqueue_pos - dequeue_pos) /\ dequeue_pos + j - 1 = k0
    BY <1>1, <1>4
  <2>2. Len(Tickets) = enqueue_pos - dequeue_pos  BY TicketsType DEF TicketsTyped
  <2> QED  BY <1>4, <2>1, <2>2 DEF Tickets
<1> HIDE DEF j
<1>8. ASSUME NEW i \in 1 .. (enqueue_pos - dequeue_pos)
      PROVE  TicketAt(dequeue_pos + i - 1)' =
               IF i = j THEN buf[p] ELSE TicketAt(dequeue_pos + i - 1)
  <2>1. CASE i = j
    BY <1>2, <1>5, <1>7, <2>1
  <2>2. CASE i # j
    <3>1. dequeue_pos + i - 1 \in dequeue_pos .. (enqueue_pos - 1)  BY <1>1
    <3>2. j \in Int  BY <1>1, <1>7
    <3>3. dequeue_pos + i - 1 # k0  BY <1>1, <1>7, <2>2, <3>2
    <3> QED  BY <1>2, <1>6, <2>2, <3>1, <3>3
  <2> QED  BY <2>1, <2>2
<1>9. Tickets' = [Tickets EXCEPT ![j] = buf[p]]
  BY <1>2, <1>7, <1>8 DEF Tickets
<1>10. Held' = Held /\ Out' = Out
  BY <1>1, <1>2 DEF Held, Out, Claimed
<1> QED  BY <1>3, <1>7, <1>9, <1>10 DEF Abstract!Commit

(* Consumers that hold a claimed entry occupy positions of the last lap. *)
LEMMA HoldersFit ==
  ASSUME IInv, EntriesKept,
         NEW lo \in Int, \A c \in Consumers : Claimed(c) => lo <= pos[c]
  PROVE  /\ Cardinality(Abstract!Holders) \in Nat
         /\ Cardinality(Abstract!Holders) <=
               IF lo > dequeue_pos - 1 THEN 0 ELSE dequeue_pos - lo
<1> DEFINE H == {c \in Consumers : Claimed(c)}
           I == lo .. (dequeue_pos - 1)
           f == [c \in H |-> pos[c]]
<1>1. Nil \notin Payload  BY RolesAssumption
<1>2. Abstract!Holders = H
  BY <1>1 DEF Abstract!Holders, Held, EntriesKept
<1>3. \A c \in H : pos[c] \in I
  BY DEF IInv, ConsumersHold, TypeOK, Threads
<1>4. \A c, d \in H : f[c] = f[d] => c = d
  BY DEF IInv, DistinctPositions
<1>5. f \in Injection(H, I)
  BY <1>3, <1>4 DEF Injection, IsInjective
<1>6. dequeue_pos - 1 \in Int /\ dequeue_pos \in Int  BY DEF IInv, TypeOK
<1>7. /\ IsFiniteSet(I)
      /\ Cardinality(I) = IF lo > dequeue_pos - 1 THEN 0 ELSE dequeue_pos - 1 - lo + 1
  BY <1>6, FS_Interval
<1> HIDE DEF H, I, f
<1>8. IsFiniteSet(H) /\ Cardinality(H) <= Cardinality(I)
  BY <1>5, <1>7, FS_Injection
<1>9. Cardinality(H) \in Nat  BY <1>8, FS_CardinalityType
<1> QED  BY <1>2, <1>6, <1>7, <1>8, <1>9

(* A producer that wins its compare-and-swap reserves the next position,   *)
(* for which there is a free slot.                                         *)
LEMMA ReserveOnQueue ==
  ASSUME Cap # 1, IInv, IInv', EntriesKept, EntriesKept',
         NEW p \in Producers, EnqueueCasWins(p)
  PROVE  Abstract!Reserve(p)
<1> USE DEF Goto
<1> DEFINE n == enqueue_pos - dequeue_pos
           S == Producers \cup Payload
<1>1. /\ pc \in [Threads -> Labels] /\ pos \in [Threads -> Nat]
      /\ enqueue_pos \in Nat /\ dequeue_pos \in Nat /\ n \in Nat
      /\ p \in Threads /\ Consumers \subseteq Threads /\ Producers \subseteq Threads
      /\ p \notin Consumers /\ p \notin Payload
  BY RolesAssumption DEF IInv, TypeOK, Threads, Window
<1>2. /\ pc[p] = "cas" /\ ~Reserved(p) /\ Reserved(p)'
      /\ pos[p] = enqueue_pos /\ enqueue_pos' = enqueue_pos + 1
      /\ UNCHANGED <<dequeue_pos, seq, data, pos, buf>>
      /\ \A t \in Threads : t # p => pc'[t] = pc[t]
  BY <1>1 DEF EnqueueCasWins, Reserved
<1>3. \A c \in Consumers : Claimed(c)' = Claimed(c)
  BY <1>1, <1>2 DEF Claimed
<1>4. TicketsTyped /\ TicketsTyped'
  BY TicketsType, PTL
<1>5. ASSUME NEW k \in dequeue_pos .. (enqueue_pos - 1)
      PROVE  TicketAt(k)' = TicketAt(k) /\ TicketAt(k) # p
  <2>1. k \in Nat  BY <1>1
  <2>2. \A q \in Producers : Reserved(q) /\ pos[q] = k => Reserved(q)' /\ pos'[q] = k
    BY <1>1, <1>2 DEF Reserved
  <2>3. TicketAt(k)' = TicketAt(k)
    BY <1>2, <2>1, <2>2, TicketKept DEF IInv, QueuedSlots
  <2>4. TicketAt(k) # p  BY <1>1, <1>2, TicketKinds
  <2> QED  BY <2>3, <2>4
<1>7. \A k \in Nat : k = enqueue_pos => TicketAt(k)' = p
  <2>1. ReservedTickets'  BY TicketReserved, PTL
  <2>2. TicketAt(pos[p])' = p  BY <1>2, <2>1 DEF ReservedTickets
  <2> QED  BY <1>2, <2>2
<1>8. Tickets' = Append(Tickets, p)
  <2>1. Tickets \in Seq(S) /\ Len(Tickets) = n  BY <1>4 DEF TicketsTyped
  <2>2. Tickets' \in Seq(S) /\ Len(Tickets') = n + 1
    BY <1>1, <1>2, <1>4 DEF TicketsTyped
  <2>3. /\ Append(Tickets, p) \in Seq(S) /\ Len(Append(Tickets, p)) = n + 1
        /\ \A i \in 1 .. n : Append(Tickets, p)[i] = Tickets[i]
        /\ Append(Tickets, p)[n + 1] = p
    BY <2>1, AppendProperties
  <2>4. ASSUME NEW i \in 1 .. n + 1 PROVE Tickets'[i] = Append(Tickets, p)[i]
    <3>1. \A k : k = dequeue_pos + i - 1 => Tickets'[i] = TicketAt(k)'
      BY <1>2, <1>4, <2>2 DEF TicketsTyped
    <3>2. CASE i = n + 1
      <4>1. dequeue_pos + i - 1 = enqueue_pos  BY <1>1, <3>2
      <4>2. Tickets'[i] = p  BY <1>1, <1>7, <3>1, <4>1
      <4> QED  BY <2>3, <3>2, <4>2
    <3>3. CASE i # n + 1
      <4>1. i \in 1 .. n /\ dequeue_pos + i - 1 \in dequeue_pos .. (enqueue_pos - 1)
        BY <1>1, <3>3
      <4>2. Tickets[i] = TicketAt(dequeue_pos + i - 1)
        BY <1>4, <2>1, <4>1 DEF TicketsTyped
      <4>3. \A k \in dequeue_pos .. (enqueue_pos - 1) : TicketAt(k)' = TicketAt(k)
        BY <1>5
      <4> QED  BY <2>3, <3>1, <4>1, <4>2, <4>3
    <3> QED  BY <3>2, <3>3
  <2> HIDE DEF n, S
  <2> QED  BY <2>1, <2>2, <2>3, <2>4, SeqEqual
<1>9. \A i \in 1 .. Len(Tickets) : Tickets[i] # p
  <2> SUFFICES ASSUME NEW i \in 1 .. Len(Tickets) PROVE Tickets[i] # p
    OBVIOUS
  <2>1. Len(Tickets) = n /\ Tickets[i] = TicketAt(dequeue_pos + i - 1)
    BY <1>4 DEF TicketsTyped
  <2>2. dequeue_pos + i - 1 \in dequeue_pos .. (enqueue_pos - 1)  BY <1>1, <2>1
  <2> QED  BY <1>5, <2>1, <2>2
<1>10. Abstract!Occupied < Cap
  <2> DEFINE lo == enqueue_pos + 1 - Cap
             h == Cardinality(Abstract!Holders)
  <2>1. lo \in Int  BY <1>1, CapAssumption
  <2>2. \A c \in Consumers : Claimed(c) => lo <= pos[c]
    <3> SUFFICES ASSUME NEW c \in Consumers, Claimed(c) PROVE lo <= pos[c]
      OBVIOUS
    <3>1. enqueue_pos' <= pos'[c] + Cap  BY <1>3 DEF IInv, ConsumersHold
    <3> QED  BY <1>1, <1>2, <3>1, CapAssumption
  <2> HIDE DEF lo
  <2>3. h \in Nat /\ h <= IF lo > dequeue_pos - 1 THEN 0 ELSE dequeue_pos - lo
    BY <2>1, <2>2, HoldersFit
  <2>4. Len(Tickets) = n  BY <1>4 DEF TicketsTyped
  <2>5. enqueue_pos + 1 <= dequeue_pos + Cap  BY <1>2 DEF IInv, Window
  <2> HIDE DEF h
  <2>6. n + h < Cap
    BY <1>1, <2>1, <2>3, <2>5, CapAssumption DEF lo
  <2>7. Abstract!Cardinality(Abstract!Holders) = Cardinality(Abstract!Holders)
    BY DEF Abstract!Cardinality, Cardinality
  <2> QED  BY <2>4, <2>6, <2>7 DEF Abstract!Occupied, h
<1>11. Held' = Held /\ Out' = Out
  BY <1>2, <1>3 DEF Held, Out
<1> QED  BY <1>8, <1>9, <1>10, <1>11 DEF Abstract!Reserve

(* A consumer that wins its compare-and-swap claims the oldest ticket. *)
LEMMA ClaimOnQueue ==
  ASSUME IInv, IInv', EntriesKept, EntriesKept',
         NEW c \in Consumers, DequeueCasWins(c)
  PROVE  Abstract!Claim(c)
<1> USE DEF Goto
<1> DEFINE n == enqueue_pos - dequeue_pos
           S == Producers \cup Payload
<1>1. /\ pc \in [Threads -> Labels] /\ pos \in [Threads -> Nat]
      /\ enqueue_pos \in Nat /\ dequeue_pos \in Nat
      /\ c \in Threads /\ Consumers \subseteq Threads /\ Producers \subseteq Threads
      /\ c \notin Producers
  BY RolesAssumption DEF IInv, TypeOK, Threads
<1>2. /\ pc[c] = "cas" /\ ~Claimed(c) /\ Claimed(c)'
      /\ pos[c] = dequeue_pos /\ dequeue_pos' = dequeue_pos + 1
      /\ UNCHANGED <<enqueue_pos, seq, data, pos, buf>>
      /\ \A t \in Threads : t # c => pc'[t] = pc[t]
  BY <1>1 DEF DequeueCasWins, Claimed
<1>3. dequeue_pos < enqueue_pos /\ seq[Slot(dequeue_pos)] = dequeue_pos + 1
  BY HeadCommitted
<1>4. /\ \A p \in Producers : Reserved(p)' = Reserved(p)
      /\ \A d \in Consumers : d # c => Claimed(d)' = Claimed(d)
  BY <1>1, <1>2 DEF Reserved, Claimed
<1>5. n \in Nat /\ n >= 1 /\ TicketsTyped /\ TicketsTyped'
  <2>1. n \in Nat /\ n >= 1  BY <1>1, <1>3
  <2>2. TicketsTyped /\ TicketsTyped'  BY TicketsType, PTL
  <2> QED  BY <2>1, <2>2
<1>6. ASSUME NEW k \in (dequeue_pos + 1) .. (enqueue_pos - 1)
      PROVE  TicketAt(k)' = TicketAt(k)
  <2>1. k \in Nat /\ k \in dequeue_pos .. (enqueue_pos - 1)  BY <1>1
  <2> QED  BY <1>2, <1>4, <2>1, TicketKept DEF IInv, QueuedSlots
<1>7. /\ Tickets \in Seq(S) /\ Len(Tickets) = n /\ Tickets # <<>>
      /\ Head(Tickets) = TicketAt(dequeue_pos)
  <2>1. Tickets \in Seq(S) /\ Len(Tickets) = n /\ Tickets[1] = TicketAt(dequeue_pos + 1 - 1)
    BY <1>5 DEF TicketsTyped
  <2>2. dequeue_pos + 1 - 1 = dequeue_pos  BY <1>1
  <2> HIDE DEF n, S
  <2> QED  BY <1>5, <2>1, <2>2
<1>8. Head(Tickets) = data[Slot(dequeue_pos)] /\ Head(Tickets) \in Payload
  <2>1. dequeue_pos \in dequeue_pos .. (enqueue_pos - 1)  BY <1>1, <1>3
  <2> QED  BY <1>1, <1>3, <1>7, <2>1, TicketCommitted DEF EntriesKept, ReadySeq
<1>9. Tickets' = Tail(Tickets)
  <2>1. Tickets' \in Seq(S) /\ Len(Tickets') = n - 1
    BY <1>1, <1>2, <1>5 DEF TicketsTyped
  <2>2. /\ Tail(Tickets) \in Seq(S) /\ Len(Tail(Tickets)) = n - 1
        /\ \A i \in 1 .. (n - 1) : Tail(Tickets)[i] = Tickets[i + 1]
    <3> HIDE DEF n, S
    <3> QED  BY <1>7, HeadTailProperties
  <2>3. ASSUME NEW i \in 1 .. (n - 1) PROVE Tickets'[i] = Tail(Tickets)[i]
    <3>1. \A k : k = dequeue_pos + i => Tickets'[i] = TicketAt(k)'
      <4>1. Tickets'[i] = TicketAt(dequeue_pos + i - 1)'
        BY <1>5, <2>1 DEF TicketsTyped
      <4>2. dequeue_pos' + i - 1 = dequeue_pos + i  BY <1>1, <1>2
      <4> QED  BY <4>1, <4>2
    <3>2. i + 1 \in 1 .. n /\ dequeue_pos + (i + 1) - 1 = dequeue_pos + i
      BY <1>1
    <3>3. Tickets[i + 1] = TicketAt(dequeue_pos + i)
      BY <1>5, <1>7, <3>2 DEF TicketsTyped
    <3>4. dequeue_pos + i \in (dequeue_pos + 1) .. (enqueue_pos - 1)  BY <1>1
    <3>5. \A k \in (dequeue_pos + 1) .. (enqueue_pos - 1) : TicketAt(k)' = TicketAt(k)
      BY <1>6
    <3> QED  BY <2>2, <3>1, <3>3, <3>4, <3>5
  <2> HIDE DEF n, S
  <2> QED  BY <2>1, <2>2, <2>3, SeqEqual
<1>10. Held[c] = Nil /\ Held' = [Held EXCEPT ![c] = Head(Tickets)]
  BY <1>2, <1>4, <1>8 DEF Held
<1>11. Out' = Out  BY <1>2 DEF Out
<1> QED  BY <1>7, <1>8, <1>9, <1>10, <1>11 DEF Abstract!Claim, Abstract!Ready

(* Between claims, a consumer copies its entry out, gives its slot back, or *)
(* does nothing the queue knows of.                                        *)
LEMMA ConsumerOnQueue ==
  ASSUME IInv, IInv', EntriesKept, NEW c \in Consumers,
         DequeueCall(c) \/ DequeueStep(c), ~DequeueCasWins(c)
  PROVE  QueueSame \/ Abstract!Read(c) \/ Abstract!GiveBack(c)
<1> USE DEF Goto, LoadPos
<1>1. /\ pc \in [Threads -> Labels] /\ pos \in [Threads -> Nat]
      /\ buf \in [Threads -> Payload \cup {Nil}]
      /\ seq \in [Slots -> Nat]
      /\ enqueue_pos \in Nat /\ dequeue_pos \in Nat
      /\ c \in Threads /\ Consumers \subseteq Threads /\ Producers \subseteq Threads
      /\ c \notin Producers
  BY RolesAssumption DEF IInv, TypeOK, Threads
<1>2. /\ UNCHANGED <<enqueue_pos, dequeue_pos, data>>
      /\ \A t \in Threads : t # c => /\ pc'[t] = pc[t] /\ pos'[t] = pos[t]
                                     /\ buf'[t] = buf[t]
  BY <1>1 DEF DequeueStep, DequeueCall, DequeueSeesReady, DequeueSeesEmpty,
     DequeueSeesTaken, DequeueReload, CasFails, DequeueRead, DequeueCommit
<1>3. /\ \A p \in Producers : Reserved(p)' = Reserved(p) /\ pos'[p] = pos[p]
      /\ \A d \in Consumers : d # c => Claimed(d)' = Claimed(d) /\ pos'[d] = pos[d]
                                       /\ buf'[d] = buf[d]
  BY <1>1, <1>2 DEF Reserved, Claimed
<1>4. \/ seq' = seq
      \/ Claimed(c) /\ \A i \in Slots : i # Slot(pos[c]) => seq'[i] = seq[i]
  BY <1>1 DEF DequeueStep, DequeueCall, DequeueSeesReady, DequeueSeesEmpty,
     DequeueSeesTaken, DequeueReload, CasFails, DequeueRead, DequeueCommit, Claimed
<1>5. Tickets' = Tickets
  <2> SUFFICES ASSUME NEW k \in dequeue_pos .. (enqueue_pos - 1)
               PROVE  TicketAt(k)' = TicketAt(k)
    BY <1>2, TicketsSame
  <2>1. k \in Nat /\ seq'[Slot(k)] = seq[Slot(k)]
    BY <1>1, <1>4, ConsumerAlone, SlotType
  <2> QED  BY <1>2, <1>3, <2>1, TicketKept DEF IInv, QueuedSlots
<1>6. CASE DequeueRead(c)
  <2>1. Claimed(c) /\ Claimed(c)' /\ pos' = pos /\ buf'[c] = data[Slot(pos[c])]
    BY <1>1, <1>6 DEF DequeueRead, Claimed
  <2>2. Held' = Held  BY <1>2, <1>3, <2>1 DEF Held
  <2>3. Held[c] = data[Slot(pos[c])] /\ Held[c] # Nil
    BY <2>1, RolesAssumption DEF Held, EntriesKept
  <2>4. Out' = [Out EXCEPT ![c] = Held[c]]
    BY <1>3, <2>1, <2>3 DEF Out
  <2> QED  BY <1>5, <2>2, <2>3, <2>4 DEF Abstract!Read
<1>7. CASE DequeueCommit(c)
  <2>1. Claimed(c) /\ ~Claimed(c)' /\ buf' = buf
    BY <1>1, <1>7 DEF DequeueCommit, Claimed
  <2>2. Held[c] # Nil  BY <2>1, RolesAssumption DEF Held, EntriesKept
  <2>3. Held' = [Held EXCEPT ![c] = Nil]  BY <1>2, <1>3, <2>1 DEF Held
  <2>4. Out' = Out  BY <2>1 DEF Out
  <2> QED  BY <1>5, <2>2, <2>3, <2>4 DEF Abstract!GiveBack
<1>8. CASE ~DequeueRead(c) /\ ~DequeueCommit(c)
  <2>1. ~Claimed(c) /\ ~Claimed(c)' /\ buf' = buf
    BY <1>1, <1>8 DEF DequeueStep, DequeueCall, DequeueSeesReady, DequeueSeesEmpty,
       DequeueSeesTaken, DequeueReload, CasFails, Claimed
  <2>2. Held' = Held /\ Out' = Out  BY <1>2, <1>3, <2>1 DEF Held, Out
  <2> QED  BY <1>5, <2>2 DEF QueueSame
<1> QED  BY <1>6, <1>7, <1>8

(* A ring of two slots or more is a bounded first-in first-out queue, for   *)
(* any number of threads: nothing is lost, doubled or reordered, and who    *)
(* claims a position gets its entry (mpmc_queue.c:111-280).                *)
THEOREM QueueImplemented == ASSUME Cap # 1 PROVE Spec => ImplementsTicketQueue
<1>1. Init => Abstract!Init
  <2> SUFFICES ASSUME Init PROVE Abstract!Init
    OBVIOUS
  <2>1. enqueue_pos - dequeue_pos = 0  BY DEF Init
  <2>2. \A c \in Consumers : ~Claimed(c) /\ buf[c] = Nil
    BY DEF Init, Claimed, Threads
  <2>3. Tickets = <<>>  BY <2>1 DEF Tickets
  <2> QED  BY <2>2, <2>3 DEF Abstract!Init, Held, Out
<1>2. IInv /\ IInv' /\ EntriesKept /\ EntriesKept' /\ [Next]_vars
        => [Abstract!Next]_(Abstract!ticketVars)
  <2> SUFFICES ASSUME IInv, IInv', EntriesKept, EntriesKept', [Next]_vars
               PROVE  [Abstract!Next]_(Abstract!ticketVars)
    OBVIOUS
  <2>1. QueueSame => UNCHANGED Abstract!ticketVars
    BY DEF QueueSame, Abstract!ticketVars
  <2>2. CASE UNCHANGED vars
    BY <2>1, <2>2 DEF vars, QueueSame, Tickets, Held, Out, TicketAt, Reserved, Claimed
  <2>3. ASSUME NEW p \in Producers, EnqueueCall(p) \/ EnqueueStep(p)
        PROVE  [Abstract!Next]_(Abstract!ticketVars)
    <3>1. CASE EnqueueCasWins(p)  BY <3>1, ReserveOnQueue DEF Abstract!Next
    <3>2. CASE EnqueueCommit(p)  BY <3>2, CommitOnQueue DEF Abstract!Next
    <3> QED  BY <2>1, <2>3, <3>1, <3>2, ProducerOnQueue
  <2>4. ASSUME NEW c \in Consumers, DequeueCall(c) \/ DequeueStep(c)
        PROVE  [Abstract!Next]_(Abstract!ticketVars)
    <3>1. CASE DequeueCasWins(c)  BY <3>1, ClaimOnQueue DEF Abstract!Next
    <3> QED  BY <2>1, <2>4, <3>1, ConsumerOnQueue DEF Abstract!Next
  <2> QED  BY <2>2, <2>3, <2>4 DEF Next
<1> QED
  BY <1>1, <1>2, Invariance, EntriesFilled, PTL
     DEF Spec, ImplementsTicketQueue, Abstract!Spec

=============================================================================
