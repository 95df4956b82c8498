----------------------------- MODULE EventCount ------------------------------
(***************************************************************************)
(* The event count of common/src/utils/event_count.c: the condition        *)
(* variable with which a thread waits for a condition that others make     *)
(* true without a lock.  This module has its state and one action per      *)
(* atomic operation or system call; the modules of its users say when a    *)
(* thread starts a call.                                                   *)
(*                                                                         *)
(* val is the one 64-bit word: epoch * WaiterMod + waiter count.  All      *)
(* arithmetic on it wraps at EpochMod * WaiterMod (both 2^32 in the code), *)
(* so a count that went below zero would borrow from the epoch.            *)
(***************************************************************************)
EXTENDS Integers, FiniteSets

CONSTANTS
    EcThreads,  \* every thread that uses the event count
    EpochMod,   \* number of epochs before they repeat
    WaiterMod   \* number of values of the waiter count

ASSUME EcAssumption ==
    /\ EpochMod \in Nat \ {0, 1}
    /\ WaiterMod \in Nat \ {0, 1}
    /\ IsFiniteSet(EcThreads) /\ Cardinality(EcThreads) < WaiterMod

VARIABLES
    val,  \* ec->val
    at,   \* where each thread stands in a call of the event count
    key   \* the ec_key_t of a thread in a wait; 0 when it has none

ecVars == <<val, at, key>>

\* "out"       not in the event count
\* "prepared"  between ec_prepare_wait and ec_wait or ec_cancel_wait
\* "check"     in ec_wait, about to load the epoch
\* "futex"     in ec_wait, about to call FUTEX_WAIT
\* "asleep"    in FUTEX_WAIT
\* "leaving"   in ec_wait, about to take back its waiter count
\* "wake1", "wakeAll"  in a notify, about to call FUTEX_WAKE
EcLabels == {"out", "prepared", "check", "futex", "asleep", "leaving",
             "wake1", "wakeAll"}

Epoch == val \div WaiterMod
WaiterCount == val % WaiterMod
Sleepers == {t \in EcThreads : at[t] = "asleep"}

AddToVal(n) == val' = (val + n) % (EpochMod * WaiterMod)
SubWaiter == EpochMod * WaiterMod - 1   \* (uint64_t)-1
EcGoto(t, label) == at' = [at EXCEPT ![t] = label]

EcInit ==
    /\ val = 0
    /\ at  = [t \in EcThreads |-> "out"]
    /\ key = [t \in EcThreads |-> 0]

-----------------------------------------------------------------------------
(* ec_notify and ec_notify_all: the fetch_add, then the wake if anyone was  *)
(* counted as a waiter before it.                                          *)
\* Mutant: the epoch is not advanced.
EcAdvanceNoEpoch(t, wake) ==
    /\ at[t] = "out"
    /\ EcGoto(t, IF WaiterCount > 0 THEN wake ELSE "out")
    /\ UNCHANGED <<val, key>>

EcAdvance(t, wake) ==
    /\ at[t] = "out"
    /\ AddToVal(WaiterMod)
    /\ EcGoto(t, IF WaiterCount > 0 THEN wake ELSE "out")
    /\ UNCHANGED key

EcNotify(t)    == EcAdvance(t, "wake1")
EcNotifyAll(t) == EcAdvance(t, "wakeAll")

(* FUTEX_WAKE: wakes one sleeper, if there is one, or all of them. *)
FutexWake(t) ==
    \/ /\ at[t] = "wake1"
       /\ IF Sleepers = {}
          THEN EcGoto(t, "out")
          ELSE \E s \in Sleepers : at' = [at EXCEPT ![t] = "out", ![s] = "check"]
       /\ UNCHANGED <<val, key>>
    \/ /\ at[t] = "wakeAll"
       /\ at' = [u \in EcThreads |-> IF u = t THEN "out"
                                     ELSE IF u \in Sleepers THEN "check"
                                     ELSE at[u]]
       /\ UNCHANGED <<val, key>>

-----------------------------------------------------------------------------
EcPrepareWait(t) ==
    /\ at[t] = "out"
    /\ AddToVal(1)
    /\ key' = [key EXCEPT ![t] = Epoch]
    /\ EcGoto(t, "prepared")

\* Mutant: the waiter stays counted.
EndWaitCounted(t) ==
    /\ EcGoto(t, "out")
    /\ key' = [key EXCEPT ![t] = 0]
    /\ UNCHANGED val

(* The waiter takes back its count; its key is not used any more. *)
EndWait(t) ==
    /\ AddToVal(SubWaiter)
    /\ EcGoto(t, "out")
    /\ key' = [key EXCEPT ![t] = 0]

EcCancelWait(t) ==
    /\ at[t] = "prepared"
    /\ EndWait(t)

(* ec_wait is entered; its loop follows. *)
EcWait(t) ==
    /\ at[t] = "prepared"
    /\ EcGoto(t, "check")
    /\ UNCHANGED <<val, key>>

CheckEpoch(t) ==
    /\ at[t] = "check"
    /\ EcGoto(t, IF Epoch = key[t] THEN "futex" ELSE "leaving")
    /\ UNCHANGED <<val, key>>

(* FUTEX_WAIT compares the epoch again and sleeps in one step. *)
\* Mutant: the thread sleeps without comparing.
FutexWaitBlind(t) ==
    /\ at[t] = "futex"
    /\ EcGoto(t, "asleep")
    /\ UNCHANGED <<val, key>>

FutexWait(t) ==
    /\ at[t] = "futex"
    /\ EcGoto(t, IF Epoch = key[t] THEN "asleep" ELSE "check")
    /\ UNCHANGED <<val, key>>

(* A signal ends FUTEX_WAIT early. *)
Interrupted(t) ==
    /\ at[t] = "asleep"
    /\ EcGoto(t, "check")
    /\ UNCHANGED <<val, key>>

LeaveWait(t) ==
    /\ at[t] = "leaving"
    /\ EndWait(t)

(* The steps of t inside a call of the event count. *)
EcStep(t) ==
    \/ FutexWake(t)
    \/ CheckEpoch(t) \/ FutexWait(t) \/ LeaveWait(t)

-----------------------------------------------------------------------------
EcTypeOK ==
    /\ val \in 0 .. (EpochMod * WaiterMod - 1)
    /\ at \in [EcThreads -> EcLabels]
    /\ key \in [EcThreads -> 0 .. (EpochMod - 1)]

(* The waiter count is the number of threads between ec_prepare_wait and   *)
(* the decrement that ends their wait, so it never borrows from the epoch  *)
(* and a notify that skips FUTEX_WAKE skips nobody.                        *)
Waiting == {t \in EcThreads : at[t] \in {"prepared", "check", "futex", "asleep", "leaving"}}

WaitersCounted == WaiterCount = Cardinality(Waiting)

=============================================================================
