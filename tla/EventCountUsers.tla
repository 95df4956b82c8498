--------------------------- MODULE EventCountUsers ---------------------------
(***************************************************************************)
(* The event count under its most general use in this code: posters make  *)
(* an item available and then call ec_notify or ec_notify_all; takers try  *)
(* to take one, prepare to wait, try again, and cancel or wait             *)
(* (logger.c:218-238, config.c:146-156).                                   *)
(***************************************************************************)
EXTENDS EventCount

CONSTANTS
    Posters,
    Takers,
    MaxPosts    \* bound on the items ever posted

ASSUME UsersAssumption ==
    /\ Posters \cap Takers = {}
    /\ EcThreads = Posters \cup Takers
    /\ MaxPosts \in Nat

VARIABLES
    items,   \* items available now
    posted,  \* items posted so far
    step     \* where each thread stands in its own loop

vars == <<items, posted, step, ecVars>>

Init ==
    /\ EcInit
    /\ items = 0
    /\ posted = 0
    /\ step = [t \in EcThreads |-> "ready"]

StepTo(t, label) == step' = [step EXCEPT ![t] = label]

Post(p) ==
    /\ step[p] = "ready" /\ at[p] = "out"
    /\ posted < MaxPosts
    /\ posted' = posted + 1
    /\ items' = items + 1
    /\ StepTo(p, "notify")
    /\ UNCHANGED ecVars

Notify(p) ==
    /\ step[p] = "notify"
    /\ EcNotify(p) \/ EcNotifyAll(p)
    /\ StepTo(p, "ready")
    /\ UNCHANGED <<items, posted>>

TryTake(t) ==
    /\ step[t] = "ready" /\ at[t] = "out"
    /\ IF items > 0
       THEN items' = items - 1 /\ UNCHANGED step
       ELSE StepTo(t, "prepare") /\ UNCHANGED items
    /\ UNCHANGED <<posted, ecVars>>

Prepare(t) ==
    /\ step[t] = "prepare"
    /\ EcPrepareWait(t)
    /\ StepTo(t, "again")
    /\ UNCHANGED <<items, posted>>

TryAgain(t) ==
    /\ step[t] = "again"
    /\ IF items > 0
       THEN items' = items - 1 /\ StepTo(t, "cancel")
       ELSE StepTo(t, "wait") /\ UNCHANGED items
    /\ UNCHANGED <<posted, ecVars>>

Cancel(t) ==
    /\ step[t] = "cancel"
    /\ EcCancelWait(t)
    /\ StepTo(t, "ready")
    /\ UNCHANGED <<items, posted>>

Wait(t) ==
    /\ step[t] = "wait"
    /\ EcWait(t)
    /\ StepTo(t, "ready")
    /\ UNCHANGED <<items, posted>>

Inside(t) == EcStep(t) /\ UNCHANGED <<items, posted, step>>
Signal(t) == Interrupted(t) /\ UNCHANGED <<items, posted, step>>

TakerStep(t) == \/ TryTake(t) \/ Prepare(t) \/ TryAgain(t)
                \/ Cancel(t) \/ Wait(t) \/ Inside(t)
PosterStep(p) == Notify(p) \/ Inside(p)

Next ==
    \/ \E p \in Posters : Post(p) \/ PosterStep(p)
    \/ \E t \in Takers : TakerStep(t) \/ Signal(t)

Spec == Init /\ [][Next]_vars

(* A thread that is not asleep runs on; nothing obliges anyone to post or  *)
(* a signal to arrive.                                                     *)
Fairness == /\ \A p \in Posters : WF_vars(PosterStep(p))
            /\ \A t \in Takers : WF_vars(TakerStep(t))
FairSpec == Spec /\ Fairness

-----------------------------------------------------------------------------
Steps == {"ready", "notify", "prepare", "again", "cancel", "wait"}

TypeOK ==
    /\ EcTypeOK
    /\ items \in 0 .. posted
    /\ posted \in 0 .. MaxPosts
    /\ step \in [EcThreads -> Steps]

(* No lost wakeup: while an item is available, a taker is awake or a       *)
(* poster is still about to notify.  It needs every part of the protocol:  *)
(* counting before the second try, the epoch compared again by FUTEX_WAIT, *)
(* and the wake after the advance.                                         *)
NoLostWakeup ==
    items > 0 => \/ \E t \in Takers : at[t] # "asleep"
                 \/ \E p \in Posters : step[p] = "notify" \/ at[p] # "out"

-----------------------------------------------------------------------------
(* What makes NoLostWakeup inductive, as long as no epoch repeats.         *)

(* Every item posted has advanced the epoch or is about to. *)
Notifying == {p \in Posters : step[p] = "notify"}
EpochsPosted == Epoch + Cardinality(Notifying) = posted

(* Posters never wait; a taker that is to try again or to wait is counted. *)
PostersNeverWait ==
    \A p \in Posters : /\ step[p] \in {"ready", "notify"}
                       /\ at[p] \in {"out", "wake1", "wakeAll"}
TakersPrepared ==
    \A t \in Takers : step[t] \in {"again", "wait"} => at[t] = "prepared"

(* No key is ahead of the epoch. *)
KeysPast == \A t \in EcThreads : key[t] <= Epoch

(* Who waits with the key of this epoch saw no item, or the poster of the  *)
(* item will advance the epoch.                                            *)
Committed(t) == step[t] = "wait" \/ at[t] \in {"check", "futex", "asleep"}
FreshWaitersSawNone ==
    \A t \in Takers :
        Committed(t) /\ key[t] = Epoch => items = 0 \/ Notifying # {}

(* Takers all asleep: a wake is on its way, or one has slept since the     *)
(* last advance.                                                           *)
SomeoneFresh ==
    \/ \E p \in Posters : at[p] # "out"
    \/ \E t \in Takers : at[t] # "asleep" \/ key[t] = Epoch

IInv == /\ TypeOK
        /\ WaitersCounted
        /\ EpochsPosted
        /\ PostersNeverWait
        /\ TakersPrepared
        /\ KeysPast
        /\ FreshWaitersSawNone
        /\ SomeoneFresh

-----------------------------------------------------------------------------
(* One notify for every item is enough for any number of takers: the       *)
(* items are all taken in the end.                                         *)
AllTaken == []<>(items = 0)

=============================================================================
