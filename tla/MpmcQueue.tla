------------------------------ MODULE MpmcQueue ------------------------------
(***************************************************************************)
(* The lock-free multi-producer multi-consumer ring of                     *)
(* common/src/utils/mpmc_queue.c, one action per atomic operation.         *)
(*                                                                         *)
(* Slot i carries a sequence number seq[i].  For position k, which uses    *)
(* slot k & slot_mask, seq = k says "free for the producer of k" and       *)
(* seq = k + 1 says "committed, for the consumer of k"; the consumer gives *)
(* the slot to position k + Cap.  A call reads a position counter, then    *)
(* the slot's sequence number, then tries to advance the counter by a      *)
(* compare-and-swap: everything read before the swap may be stale by then. *)
(*                                                                         *)
(* create_mpmc_queue accepts a power of two only, for which                *)
(* k & slot_mask = k % Cap.  Counters are size_t; they are naturals here,  *)
(* and MaxPos bounds the positions a behaviour uses far below the wrap.    *)
(***************************************************************************)
EXTENDS Integers, Sequences, FiniteSets

CONSTANTS
    Producers,  \* threads calling enqueue_mpmc or reserve_enqueue_mpmc
    Consumers,  \* threads calling dequeue_mpmc or reserve_dequeue_mpmc
    Payload,    \* what a slot may carry
    Nil,        \* the zeroed content of a slot or a buffer
    Cap,        \* the cap argument of create_mpmc_queue
    MaxPos      \* bound: no enqueue call starts once enqueue_pos reaches MaxPos

ASSUME CapAssumption == Cap \in Nat \ {0}
ASSUME MaxPosAssumption == MaxPos \in Nat
ASSUME RolesAssumption ==
    /\ Producers \cap Consumers = {}
    /\ Producers \cap Payload = {}
    /\ Nil \notin Payload \cup Producers

VARIABLES
    enqueue_pos,  \* q->enqueue_pos
    dequeue_pos,  \* q->dequeue_pos
    seq,          \* the sequence number at the start of each slot
    data,         \* the payload of each slot
    pc,           \* where each thread stands in its call
    pos,          \* the local pos of each thread; res->pos once reserved
    buf           \* a producer's argument; the buffer a consumer copied to

vars == <<enqueue_pos, dequeue_pos, seq, data, pc, pos, buf>>

Threads == Producers \cup Consumers
Slots == 0 .. (Cap - 1)

(* q->slots + (pos & q->slot_mask) * q->slot_stride *)
Slot(k) == k % Cap

Init ==
    /\ enqueue_pos = 0
    /\ dequeue_pos = 0
    /\ seq  = [i \in Slots |-> i]
    /\ data = [i \in Slots |-> Nil]
    /\ pc   = [t \in Threads |-> "idle"]
    /\ pos  = [t \in Threads |-> 0]
    /\ buf  = [t \in Threads |-> Nil]

-----------------------------------------------------------------------------
(* What commit_enqueue_mpmc and commit_dequeue_mpmc store: the slot of k    *)
(* holds the entry of k; the slot of k is free for the next lap.           *)

\* Mutant: the consumer frees the slot one position short of a lap.
FreeSeqShort(k) == k + Cap - 1

\* Mutant: the commit stores the position itself.
ReadySeqUnchanged(k) == k

ReadySeq(k) == k + 1
FreeSeq(k) == k + Cap

Goto(t, label) == pc' = [pc EXCEPT ![t] = label]

(* The counter load that starts a call, and the reload after a lost race.  *)
LoadPos(t, counter) ==
    /\ pos' = [pos EXCEPT ![t] = counter]
    /\ Goto(t, "seq")

(* A compare-exchange that fails stores the counter's value in pos; the    *)
(* weak form may fail although the counter still equals pos.               *)
CasFails(t, counter) ==
    /\ pc[t] = "cas"
    /\ LoadPos(t, counter)
    /\ UNCHANGED <<enqueue_pos, dequeue_pos, seq, data, buf>>

-----------------------------------------------------------------------------
(* Producers: reserve_enqueue_slot_internal, the copy, commit_enqueue_mpmc. *)

EnqueueCall(p) ==
    /\ pc[p] = "idle"
    /\ enqueue_pos < MaxPos
    /\ \E v \in Payload : buf' = [buf EXCEPT ![p] = v]
    /\ LoadPos(p, enqueue_pos)
    /\ UNCHANGED <<enqueue_pos, dequeue_pos, seq, data>>

(* diff == 0: the slot is free, try to take the position. *)
EnqueueSeesFree(p) ==
    /\ pc[p] = "seq"
    /\ seq[Slot(pos[p])] = pos[p]
    /\ Goto(p, "cas")
    /\ UNCHANGED <<enqueue_pos, dequeue_pos, seq, data, pos, buf>>

\* Mutant: a slot that is taken is reported as a full queue.
EnqueueSeesFullOrTaken(p) ==
    /\ pc[p] = "seq"
    /\ seq[Slot(pos[p])] # pos[p]
    /\ Goto(p, "idle")
    /\ UNCHANGED <<enqueue_pos, dequeue_pos, seq, data, pos, buf>>

(* diff < 0: the slot still belongs to the previous lap, return false. *)
EnqueueSeesFull(p) ==
    /\ pc[p] = "seq"
    /\ seq[Slot(pos[p])] < pos[p]
    /\ Goto(p, "idle")
    /\ UNCHANGED <<enqueue_pos, dequeue_pos, seq, data, pos, buf>>

(* diff > 0: another producer took the position, load the counter again. *)
EnqueueSeesTaken(p) ==
    /\ pc[p] = "seq"
    /\ seq[Slot(pos[p])] > pos[p]
    /\ Goto(p, "reload")
    /\ UNCHANGED <<enqueue_pos, dequeue_pos, seq, data, pos, buf>>

\* Mutant: the retry keeps the stale position.
EnqueueReloadStale(p) ==
    /\ pc[p] = "reload"
    /\ LoadPos(p, pos[p])
    /\ UNCHANGED <<enqueue_pos, dequeue_pos, seq, data, buf>>

EnqueueReload(p) ==
    /\ pc[p] = "reload"
    /\ LoadPos(p, enqueue_pos)
    /\ UNCHANGED <<enqueue_pos, dequeue_pos, seq, data, buf>>

\* Mutants: the counter is stored without comparing it to pos; the slot is
\* committed by the reservation, before the entry is copied.
EnqueueCasWinsBlind(p) ==
    /\ pc[p] = "cas"
    /\ enqueue_pos' = pos[p] + 1
    /\ Goto(p, "write")
    /\ UNCHANGED <<dequeue_pos, seq, data, pos, buf>>

EnqueueCasWinsCommitted(p) ==
    /\ pc[p] = "cas"
    /\ enqueue_pos = pos[p]
    /\ enqueue_pos' = pos[p] + 1
    /\ seq' = [seq EXCEPT ![Slot(pos[p])] = ReadySeq(pos[p])]
    /\ Goto(p, "write")
    /\ UNCHANGED <<dequeue_pos, data, pos, buf>>

EnqueueCasWins(p) ==
    /\ pc[p] = "cas"
    /\ enqueue_pos = pos[p]
    /\ enqueue_pos' = pos[p] + 1
    /\ Goto(p, "write")
    /\ UNCHANGED <<dequeue_pos, seq, data, pos, buf>>

(* The memcpy, or the caller's writes between reserve and commit. *)
EnqueueWrite(p) ==
    /\ pc[p] = "write"
    /\ data' = [data EXCEPT ![Slot(pos[p])] = buf[p]]
    /\ Goto(p, "commit")
    /\ UNCHANGED <<enqueue_pos, dequeue_pos, seq, pos, buf>>

EnqueueCommit(p) ==
    /\ pc[p] = "commit"
    /\ seq' = [seq EXCEPT ![Slot(pos[p])] = ReadySeq(pos[p])]
    /\ Goto(p, "idle")
    /\ UNCHANGED <<enqueue_pos, dequeue_pos, data, pos, buf>>

-----------------------------------------------------------------------------
(* Consumers: reserve_dequeue_slot_internal, the copy, commit_dequeue_mpmc. *)

DequeueCall(c) ==
    /\ pc[c] = "idle"
    /\ LoadPos(c, dequeue_pos)
    /\ UNCHANGED <<enqueue_pos, dequeue_pos, seq, data, buf>>

DequeueSeesReady(c) ==
    /\ pc[c] = "seq"
    /\ seq[Slot(pos[c])] = pos[c] + 1
    /\ Goto(c, "cas")
    /\ UNCHANGED <<enqueue_pos, dequeue_pos, seq, data, pos, buf>>

\* Mutant: a position another consumer took is reported as an empty queue.
DequeueSeesEmptyOrTaken(c) ==
    /\ pc[c] = "seq"
    /\ seq[Slot(pos[c])] # pos[c] + 1
    /\ Goto(c, "idle")
    /\ UNCHANGED <<enqueue_pos, dequeue_pos, seq, data, pos, buf>>

(* diff < 0: the entry of this position is not committed, return false. *)
DequeueSeesEmpty(c) ==
    /\ pc[c] = "seq"
    /\ seq[Slot(pos[c])] < pos[c] + 1
    /\ Goto(c, "idle")
    /\ UNCHANGED <<enqueue_pos, dequeue_pos, seq, data, pos, buf>>

DequeueSeesTaken(c) ==
    /\ pc[c] = "seq"
    /\ seq[Slot(pos[c])] > pos[c] + 1
    /\ Goto(c, "reload")
    /\ UNCHANGED <<enqueue_pos, dequeue_pos, seq, data, pos, buf>>

DequeueReload(c) ==
    /\ pc[c] = "reload"
    /\ LoadPos(c, dequeue_pos)
    /\ UNCHANGED <<enqueue_pos, dequeue_pos, seq, data, buf>>

\* Mutant: the slot is given back before the entry is copied out.
DequeueCasWinsFreed(c) ==
    /\ pc[c] = "cas"
    /\ dequeue_pos = pos[c]
    /\ dequeue_pos' = pos[c] + 1
    /\ seq' = [seq EXCEPT ![Slot(pos[c])] = FreeSeq(pos[c])]
    /\ Goto(c, "read")
    /\ UNCHANGED <<enqueue_pos, data, pos, buf>>

DequeueCasWins(c) ==
    /\ pc[c] = "cas"
    /\ dequeue_pos = pos[c]
    /\ dequeue_pos' = pos[c] + 1
    /\ Goto(c, "read")
    /\ UNCHANGED <<enqueue_pos, seq, data, pos, buf>>

DequeueRead(c) ==
    /\ pc[c] = "read"
    /\ buf' = [buf EXCEPT ![c] = data[Slot(pos[c])]]
    /\ Goto(c, "commit")
    /\ UNCHANGED <<enqueue_pos, dequeue_pos, seq, data, pos>>

DequeueCommit(c) ==
    /\ pc[c] = "commit"
    /\ seq' = [seq EXCEPT ![Slot(pos[c])] = FreeSeq(pos[c])]
    /\ Goto(c, "idle")
    /\ UNCHANGED <<enqueue_pos, dequeue_pos, data, pos, buf>>

-----------------------------------------------------------------------------
(* The steps a thread takes once it is inside a call. *)
EnqueueStep(p) ==
    \/ EnqueueSeesFree(p) \/ EnqueueSeesFull(p) \/ EnqueueSeesTaken(p)
    \/ EnqueueReload(p)
    \/ EnqueueCasWins(p) \/ CasFails(p, enqueue_pos)
    \/ EnqueueWrite(p) \/ EnqueueCommit(p)

DequeueStep(c) ==
    \/ DequeueSeesReady(c) \/ DequeueSeesEmpty(c) \/ DequeueSeesTaken(c)
    \/ DequeueReload(c)
    \/ DequeueCasWins(c) \/ CasFails(c, dequeue_pos)
    \/ DequeueRead(c) \/ DequeueCommit(c)

Next ==
    \/ \E p \in Producers : EnqueueCall(p) \/ EnqueueStep(p)
    \/ \E c \in Consumers : DequeueCall(c) \/ DequeueStep(c)

Spec == Init /\ [][Next]_vars

(* A thread inside a call keeps running, and a compare-and-swap that could *)
(* succeed again and again does not fail spuriously for ever.  Nothing     *)
(* obliges a producer to make another call; consumers keep polling.        *)
Fairness ==
    /\ \A p \in Producers : /\ WF_vars(EnqueueStep(p))
                            /\ SF_vars(EnqueueCasWins(p))
    /\ \A c \in Consumers : /\ WF_vars(DequeueCall(c) \/ DequeueStep(c))
                            /\ SF_vars(DequeueCasWins(c))

FairSpec == Spec /\ Fairness

-----------------------------------------------------------------------------
(* Properties. *)

Labels == {"idle", "seq", "reload", "cas", "write", "read", "commit"}

(* The variables keep their types: positions are never negative.           *)
TypeOK ==
    /\ enqueue_pos \in Nat
    /\ dequeue_pos \in Nat
    /\ seq  \in [Slots -> Nat]
    /\ data \in [Slots -> Payload \cup {Nil}]
    /\ pc   \in [Threads -> Labels]
    /\ pos  \in [Threads -> Nat]
    /\ buf  \in [Threads -> Payload \cup {Nil}]

(* Between a successful compare-and-swap and its commit a thread owns the  *)
(* slot of its position.                                                   *)
Reserved(p) == pc[p] \in {"write", "commit"}
Claimed(c)  == pc[c] \in {"read", "commit"}
Owns(t) == (t \in Producers /\ Reserved(t)) \/ (t \in Consumers /\ Claimed(t))

(* No two threads are ever inside the same slot: the memcpy of a producer  *)
(* never overlaps another thread's use of the slot (mpmc_queue.c:130,153   *)
(* and the in-place accesses of reserve/commit users).                     *)
SlotExclusive ==
    \A t, u \in Threads :
        Owns(t) /\ Owns(u) /\ Slot(pos[t]) = Slot(pos[u]) => t = u

(* The phase of every slot, position by position.  The Cap positions from  *)
(* dequeue_pos on use all the slots once: those below enqueue_pos are      *)
(* reserved (sequence k) or committed (k + 1), those from enqueue_pos on   *)
(* are free (k) or still claimed by the consumer of the previous lap.      *)
SlotPhases ==
    /\ dequeue_pos <= enqueue_pos
    /\ enqueue_pos <= dequeue_pos + Cap
    /\ \A k \in dequeue_pos .. (enqueue_pos - 1) :
          seq[Slot(k)] = IF \E p \in Producers : Reserved(p) /\ pos[p] = k
                         THEN k ELSE ReadySeq(k)
    /\ \A k \in enqueue_pos .. (dequeue_pos + Cap - 1) :
          seq[Slot(k)] = IF \E c \in Consumers : Claimed(c) /\ pos[c] = k - Cap
                         THEN ReadySeq(k - Cap) ELSE k

(* No slot is free: none shows the position it is to be used for next.      *)
NoFreeSlot ==
    \A k \in enqueue_pos .. (enqueue_pos + Cap - 1) : seq[Slot(k)] # k

(* The slot of enqueue_pos is with a consumer, and another consumer has     *)
(* claimed a later position in the meantime.                               *)
Overtaken ==
    \E c \in Consumers :
        Claimed(c) /\ pos[c] + Cap = enqueue_pos /\ pos[c] + 1 < dequeue_pos

NoReadyEntry ==
    \/ dequeue_pos = enqueue_pos
    \/ \E p \in Producers : Reserved(p) /\ pos[p] = dequeue_pos

Refused(t) == pc[t] = "seq" /\ pc'[t] = "idle"

(* An enqueue that returns false found the queue full at that moment       *)
(* (mpmc_queue.c:198), however old the position it read.  The code keeps   *)
(* this with one consumer only; it is a theorem there, see README.         *)
FullWhenRefused == [][\A p \in Producers : Refused(p) => NoFreeSlot]_vars

(* With any number of consumers, an enqueue that returns false found the   *)
(* queue full, or the slot whose turn it is with a consumer that another   *)
(* one has overtaken: mpmc_queue.c:221-223 looks at that slot only, and    *)
(* refuses although the later consumer may have given its slot back.       *)
FullOrOvertakenWhenRefused ==
    [][\A p \in Producers : Refused(p) => NoFreeSlot \/ Overtaken]_vars

(* A dequeue that returns false found nothing to take at that moment: the  *)
(* queue was empty, or its oldest position was reserved but uncommitted,    *)
(* whatever waits behind it (mpmc_queue.c:245).                            *)
EmptyWhenRefused == [][\A c \in Consumers : Refused(c) => NoReadyEntry]_vars

(* The queue implements the abstract first-in first-out queue: nothing is  *)
(* lost, duplicated or reordered, and a consumer copies out the entry of   *)
(* the position it claimed.                                                *)
TicketAt(k) ==
    IF seq[Slot(k)] = ReadySeq(k)
    THEN data[Slot(k)]
    ELSE CHOOSE p \in Producers : Reserved(p) /\ pos[p] = k

Tickets == [i \in 1 .. (enqueue_pos - dequeue_pos) |-> TicketAt(dequeue_pos + i - 1)]
Held == [c \in Consumers |-> IF Claimed(c) THEN data[Slot(pos[c])] ELSE Nil]
Out == [c \in Consumers |-> buf[c]]

Abstract == INSTANCE TicketQueue WITH tickets <- Tickets, held <- Held, out <- Out

ImplementsTicketQueue == Abstract!Spec

(* A queue of Cap slots never accepts an entry while Cap entries wait in   *)
(* it: mpmc_queue.h:131 has a full queue return false at once.  The code   *)
(* keeps this for every cap it accepts except 1 (see README).              *)
NeverOverfull == enqueue_pos - dequeue_pos <= Cap

(* A call always returns: its loop only repeats when another call made     *)
(* progress in between.                                                    *)
CallsReturn == \A t \in Threads : pc[t] # "idle" ~> pc[t] = "idle"

(* Every reserved position is eventually consumed, in turn.                *)
EveryPositionConsumed ==
    \A k \in 0 .. MaxPos : enqueue_pos > k ~> dequeue_pos > k

-----------------------------------------------------------------------------
(* The inductive invariant behind the safety properties, for Cap # 1.      *)

(* At most Cap positions are ahead of the consumers. *)
Window == dequeue_pos <= enqueue_pos /\ enqueue_pos <= dequeue_pos + Cap

(* A producer owns a position inside the queue, marked reserved. *)
ProducersHold ==
    \A p \in Producers : Reserved(p) =>
        /\ dequeue_pos <= pos[p] /\ pos[p] < enqueue_pos
        /\ seq[Slot(pos[p])] = pos[p]

(* A consumer owns a position behind the queue, less than a lap away from   *)
(* the producers, still marked committed.                                  *)
ConsumersHold ==
    \A c \in Consumers : Claimed(c) =>
        /\ pos[c] < dequeue_pos /\ enqueue_pos <= pos[c] + Cap
        /\ seq[Slot(pos[c])] = pos[c] + 1

DistinctPositions ==
    /\ \A p, q \in Producers : Reserved(p) /\ Reserved(q) /\ pos[p] = pos[q] => p = q
    /\ \A c, d \in Consumers : Claimed(c) /\ Claimed(d) /\ pos[c] = pos[d] => c = d

QueuedSlots ==
    \A k \in dequeue_pos .. (enqueue_pos - 1) :
        \/ seq[Slot(k)] = k + 1
        \/ seq[Slot(k)] = k /\ \E p \in Producers : Reserved(p) /\ pos[p] = k

FreeSlots ==
    \A k \in enqueue_pos .. (dequeue_pos + Cap - 1) :
        \/ seq[Slot(k)] = k
        \/ /\ seq[Slot(k)] = k - Cap + 1
           /\ \E c \in Consumers : Claimed(c) /\ pos[c] + Cap = k

(* What a thread that holds no slot may still believe: its position is one *)
(* the counter had; if the counter has moved on, the slot has too; and a    *)
(* slot seen free or committed stays so until the counter moves.           *)
Looking(t) == pc[t] \in {"seq", "reload", "cas"}

ProducerViews ==
    \A p \in Producers : Looking(p) =>
        /\ pos[p] <= enqueue_pos
        /\ pos[p] < enqueue_pos => pos[p] <= seq[Slot(pos[p])]
        /\ pc[p] = "cas" /\ pos[p] = enqueue_pos => seq[Slot(pos[p])] = pos[p]

ConsumerViews ==
    \A c \in Consumers : Looking(c) =>
        /\ pos[c] <= dequeue_pos
        /\ pos[c] < dequeue_pos => pos[c] + 1 <= seq[Slot(pos[c])]
        /\ pc[c] = "cas" /\ pos[c] = dequeue_pos => seq[Slot(pos[c])] = pos[c] + 1

(* Everything a call relies on between its reads and its writes, for every *)
(* interleaving of the calls of mpmc_queue.c:200-280.                      *)
IInv ==
    /\ TypeOK
    /\ Window
    /\ ProducersHold /\ ConsumersHold /\ DistinctPositions
    /\ QueuedSlots /\ FreeSlots
    /\ ProducerViews /\ ConsumerViews

(* A slot carries what its producer was given from the end of the copy to  *)
(* the end of the read: no consumer ever copies out a slot that was not     *)
(* filled for its position (mpmc_queue.c:126-134,149-157).                  *)
EntriesKept ==
    /\ \A p \in Producers : pc[p] # "idle" => buf[p] \in Payload
    /\ \A p \in Producers : pc[p] = "commit" => data[Slot(pos[p])] = buf[p]
    /\ \A k \in dequeue_pos .. (enqueue_pos - 1) :
          seq[Slot(k)] = ReadySeq(k) => data[Slot(k)] \in Payload
    /\ \A c \in Consumers : Claimed(c) => data[Slot(pos[c])] \in Payload

=============================================================================
