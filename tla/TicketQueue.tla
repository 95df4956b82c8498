----------------------------- MODULE TicketQueue -----------------------------
(***************************************************************************)
(* What the users of common/src/utils/mpmc_queue.c may rely on: a bounded  *)
(* first-in first-out queue whose order is fixed when a slot is reserved,  *)
(* not when it is committed.                                               *)
(*                                                                         *)
(* `tickets` holds one element per reserved position, oldest first.  A     *)
(* position whose producer has not committed yet is that producer; once    *)
(* committed it is the entry.  A consumer may only claim the oldest        *)
(* position, and only once it is committed, so an uncommitted position     *)
(* holds back every later one.  A claimed entry keeps occupying its slot   *)
(* until the consumer gives the slot back.                                 *)
(***************************************************************************)
EXTENDS Naturals, Sequences, FiniteSets

CONSTANTS
    Producers,  \* threads inside enqueue_mpmc or reserve_enqueue_mpmc
    Consumers,  \* threads inside dequeue_mpmc or reserve_dequeue_mpmc
    Payload,    \* what a slot may carry
    Nil,        \* no entry
    Cap         \* number of slots

VARIABLES
    tickets,    \* reserved positions, oldest first
    held,       \* held[c]: the entry c has claimed and not given back
    out         \* out[c]: the entry c copied out last

ticketVars == <<tickets, held, out>>

TypeOK ==
    /\ tickets \in Seq(Producers \cup Payload)
    /\ held \in [Consumers -> Payload \cup {Nil}]
    /\ out  \in [Consumers -> Payload \cup {Nil}]

Init ==
    /\ tickets = <<>>
    /\ held = [c \in Consumers |-> Nil]
    /\ out  = [c \in Consumers |-> Nil]

Holders == {c \in Consumers : held[c] # Nil}

(* Slots in use: reserved or committed positions and claimed entries. *)
Occupied == Len(tickets) + Cardinality(Holders)

Reserve(p) ==
    /\ \A i \in 1 .. Len(tickets) : tickets[i] # p
    /\ Occupied < Cap
    /\ tickets' = Append(tickets, p)
    /\ UNCHANGED <<held, out>>

Commit(p, v) ==
    \E i \in 1 .. Len(tickets) :
        /\ tickets[i] = p
        /\ tickets' = [tickets EXCEPT ![i] = v]
        /\ UNCHANGED <<held, out>>

(* The oldest position holds an entry that may be claimed. *)
Ready == tickets # <<>> /\ Head(tickets) \in Payload

Claim(c) ==
    /\ held[c] = Nil
    /\ Ready
    /\ held' = [held EXCEPT ![c] = Head(tickets)]
    /\ tickets' = Tail(tickets)
    /\ UNCHANGED out

Read(c) ==
    /\ held[c] # Nil
    /\ out' = [out EXCEPT ![c] = held[c]]
    /\ UNCHANGED <<tickets, held>>

GiveBack(c) ==
    /\ held[c] # Nil
    /\ held' = [held EXCEPT ![c] = Nil]
    /\ UNCHANGED <<tickets, out>>

Next ==
    \/ \E p \in Producers : Reserve(p) \/ \E v \in Payload : Commit(p, v)
    \/ \E c \in Consumers : Claim(c) \/ Read(c) \/ GiveBack(c)

Spec == Init /\ [][Next]_ticketVars

=============================================================================
