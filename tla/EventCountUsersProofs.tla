------------------------ MODULE EventCountUsersProofs ------------------------
(***************************************************************************)
(* Proofs about EventCountUsers: the waiter count is exact and no wakeup   *)
(* is lost, for any number of posters and takers.  The second needs a      *)
(* taker, and fewer items than epochs: with as many notifies as epochs     *)
(* between a taker's key and its sleep, the key would be current again.    *)
(***************************************************************************)
EXTENDS EventCountUsers, EventCountProofs

LEMMA Roles ==
  /\ \A p \in Posters : p \in EcThreads /\ p \notin Takers
  /\ \A t \in Takers : t \in EcThreads /\ t \notin Posters
  /\ \A t \in EcThreads : t \in Posters \/ t \in Takers
  BY UsersAssumption

(* What a step of the users is to the event count. *)
LEMMA StepOfEventCount ==
  ASSUME [Next]_vars
  PROVE  \/ \E t \in EcThreads : \/ EcNotify(t) \/ EcNotifyAll(t)
                                 \/ EcPrepareWait(t) \/ EcCancelWait(t) \/ EcWait(t)
                                 \/ EcStep(t) \/ Interrupted(t)
         \/ UNCHANGED ecVars
<1>1. CASE UNCHANGED vars  BY <1>1 DEF vars
<1>2. CASE \E p \in Posters : Post(p) \/ PosterStep(p)
  BY <1>2, Roles DEF Post, PosterStep, Notify, Inside
<1>3. CASE \E t \in Takers : TakerStep(t) \/ Signal(t)
  BY <1>3, Roles DEF TakerStep, TryTake, Prepare, TryAgain, Cancel, Wait, Inside, Signal
<1> QED  BY <1>1, <1>2, <1>3 DEF Next

LEMMA TypeStep == TypeOK /\ [Next]_vars => TypeOK'
<1> SUFFICES ASSUME TypeOK, [Next]_vars PROVE TypeOK'
  OBVIOUS
<1> DEFINE Kept == /\ items' \in 0 .. posted' /\ posted' \in 0 .. MaxPosts
                   /\ step' \in [EcThreads -> Steps]
<1>1. EcTypeOK'
  <2>1. UNCHANGED ecVars => EcTypeOK'  BY DEF TypeOK, ecVars, EcTypeOK
  <2> QED  BY <2>1, StepOfEventCount, EcTypeStep DEF TypeOK
<1>2. Kept
  <2> USE UsersAssumption DEF TypeOK, StepTo, Steps
  <2>1. CASE UNCHANGED vars  BY <2>1 DEF vars
  <2>2. ASSUME NEW p \in Posters, Post(p) \/ PosterStep(p)  PROVE Kept
    BY <2>2 DEF Post, PosterStep, Notify, Inside
  <2>3. ASSUME NEW t \in Takers, TakerStep(t) \/ Signal(t)  PROVE Kept
    BY <2>3 DEF TakerStep, TryTake, Prepare, TryAgain, Cancel, Wait, Inside, Signal
  <2> QED  BY <2>1, <2>2, <2>3 DEF Next
<1> QED  BY <1>1, <1>2 DEF TypeOK

LEMMA CountStep == TypeOK /\ WaitersCounted /\ [Next]_vars => WaitersCounted'
<1> SUFFICES ASSUME TypeOK, WaitersCounted, [Next]_vars PROVE WaitersCounted'
  OBVIOUS
<1>1. CASE UNCHANGED ecVars
  BY <1>1 DEF ecVars, WaitersCounted, WaiterCount, Waiting
<1> QED  BY <1>1, StepOfEventCount, WaitersStep DEF TypeOK
-----------------------------------------------------------------------------
LEMMA PostersFinite == IsFiniteSet(Posters)
<1>1. Posters \in SUBSET EcThreads  BY UsersAssumption
<1> QED  BY <1>1, EcAssumption, FS_Subset

LEMMA NotifyingFinite ==
  IsFiniteSet(Notifying) /\ Cardinality(Notifying) \in Nat
<1>1. Notifying \in SUBSET Posters  BY DEF Notifying
<1> QED  BY <1>1, PostersFinite, FS_Subset, FS_CardinalityType

(* The rest of the invariant, step by step; Fresh gathers what a step may  *)
(* break besides the types and the two counts.                             *)
Fresh == /\ PostersNeverWait
         /\ TakersPrepared
         /\ KeysPast
         /\ FreshWaitersSawNone
         /\ SomeoneFresh

LEMMA InitHolds ==
  ASSUME Takers # {}
  PROVE  Init => IInv
<1> SUFFICES ASSUME Init PROVE IInv
  OBVIOUS
<1>1. TypeOK  BY EcTypeInit, UsersAssumption DEF Init, TypeOK, Steps
<1>2. WaitersCounted  BY WaitersInit DEF Init
<1>3. Epoch = 0
  <2>1. \A d \in Nat \ {0} : 0 \div d = 0
    OBVIOUS
  <2> QED  BY <2>1, EcAssumption DEF Init, EcInit, Epoch
<1>4. EpochsPosted
  <2>1. Notifying = {}  BY Roles DEF Init, Notifying
  <2> QED  BY <2>1, <1>3, FS_EmptySet DEF Init, EpochsPosted
<1>5. Fresh
  BY <1>3, Roles DEF Init, EcInit, Fresh, PostersNeverWait, TakersPrepared, KeysPast,
                     FreshWaitersSawNone, Committed, SomeoneFresh
<1> QED  BY <1>1, <1>2, <1>4, <1>5 DEF IInv, Fresh

LEMMA PostKeeps ==
  ASSUME IInv, NEW p \in Posters, Post(p)
  PROVE  EpochsPosted' /\ Fresh'
<1>1. p \in EcThreads /\ step[p] = "ready" /\ UNCHANGED ecVars
      /\ step' = [step EXCEPT ![p] = "notify"] /\ posted' = posted + 1
  BY Roles DEF Post, StepTo
<1>2. Epoch' = Epoch  BY <1>1 DEF ecVars, Epoch
<1>3. Notifying' = Notifying \cup {p} /\ p \notin Notifying
  BY <1>1, Roles DEF Notifying, IInv, TypeOK
<1>4. EpochsPosted'
  <2>1. IsFiniteSet(Notifying) /\ Cardinality(Notifying) \in Nat
    BY NotifyingFinite
  <2>2. Cardinality(Notifying') = Cardinality(Notifying) + 1
    BY <1>3, <2>1, FS_AddElement
  <2>3. Epoch \in Int  BY Halves DEF IInv, TypeOK
  <2> QED  BY <1>1, <1>2, <2>1, <2>2, <2>3 DEF EpochsPosted, IInv
<1>5. Fresh'
  BY <1>1, <1>2, <1>3, Roles
     DEF ecVars, IInv, TypeOK, Fresh, PostersNeverWait, TakersPrepared, KeysPast,
         FreshWaitersSawNone, Committed, SomeoneFresh
<1> QED  BY <1>4, <1>5

LEMMA NotifyKeeps ==
  ASSUME MaxPosts < EpochMod, Takers # {}, IInv, NEW p \in Posters, Notify(p)
  PROVE  EpochsPosted' /\ Fresh'
<1>1. /\ p \in EcThreads /\ step[p] = "notify" /\ step' = [step EXCEPT ![p] = "ready"]
      /\ UNCHANGED <<items, posted>>
  BY Roles DEF Notify, StepTo
<1>2. PICK wake \in {"wake1", "wakeAll"} : EcAdvance(p, wake)
  BY DEF Notify, EcNotify, EcNotifyAll
<1>3. /\ at[p] = "out" /\ AddToVal(WaiterMod) /\ UNCHANGED key
      /\ at' = [at EXCEPT ![p] = IF WaiterCount > 0 THEN wake ELSE "out"]
  BY <1>2 DEF EcAdvance, EcGoto
<1>4. p \in Notifying /\ Notifying' = Notifying \ {p}
  BY <1>1, Roles DEF Notifying, IInv, TypeOK
<1>5. /\ Cardinality(Notifying) \in Nat
      /\ Cardinality(Notifying') = Cardinality(Notifying) - 1
      /\ Cardinality(Notifying) # 0
  <2>1. IsFiniteSet(Notifying) /\ Cardinality(Notifying) \in Nat
    BY NotifyingFinite
  <2> QED  BY <2>1, <1>4, FS_RemoveElement, FS_EmptySet
<1>6. Epoch \in Nat  BY Halves DEF IInv, TypeOK
<1>7. Epoch' = Epoch + 1
  <2>1. posted \in 0 .. MaxPosts /\ Epoch + Cardinality(Notifying) = posted
    BY DEF IInv, TypeOK, EpochsPosted
  <2>2. Epoch + 1 < EpochMod
    BY <2>1, <1>5, <1>6, UsersAssumption, EcAssumption
  <2> QED  BY <2>2, <1>3, EpochUp DEF IInv, TypeOK
<1>8. EpochsPosted'
  BY <1>1, <1>5, <1>6, <1>7 DEF IInv, EpochsPosted
<1>9. key \in [EcThreads -> Int] /\ at \in [EcThreads -> EcLabels]
      /\ step \in [EcThreads -> Steps]
  BY EcAssumption DEF IInv, TypeOK, EcTypeOK
<1>10. PostersNeverWait' /\ TakersPrepared' /\ KeysPast'
  BY <1>1, <1>3, <1>6, <1>7, <1>9, Roles
     DEF IInv, PostersNeverWait, TakersPrepared, KeysPast
<1>11. FreshWaitersSawNone'
  BY <1>3, <1>6, <1>7, <1>9, Roles DEF IInv, KeysPast, FreshWaitersSawNone
<1>12. SomeoneFresh'
  <2>1. CASE WaiterCount > 0
    BY <2>1, <1>1, <1>3, <1>9 DEF SomeoneFresh
  <2>2. CASE ~ (WaiterCount > 0)
    <3>1. PICK t : t \in Takers
      OBVIOUS
    <3>2. t \notin Waiting  BY <2>2, CountedOne DEF IInv
    <3> QED  BY <3>1, <3>2, <1>1, <1>3, <1>9, Roles DEF SomeoneFresh, Waiting
  <2> QED  BY <2>1, <2>2
<1> QED  BY <1>8, <1>10, <1>11, <1>12 DEF Fresh

LEMMA UserStepKeeps ==
  ASSUME IInv, NEW t \in Takers,
         TryTake(t) \/ Prepare(t) \/ TryAgain(t) \/ Cancel(t) \/ Wait(t)
  PROVE  EpochsPosted' /\ Fresh'
<1> USE DEF StepTo, EcGoto
<1>1. /\ key \in [EcThreads -> Int] /\ at \in [EcThreads -> EcLabels]
      /\ step \in [EcThreads -> Steps] /\ Epoch \in Nat /\ items \in Nat
  BY EcAssumption, UsersAssumption, Halves DEF IInv, TypeOK, EcTypeOK
<1>2. t \in EcThreads /\ t \notin Posters  BY Roles
<1>3. Epoch' = Epoch
  <2>1. UNCHANGED ecVars \/ EcPrepareWait(t) \/ EcCancelWait(t) \/ EcWait(t)
    BY DEF TryTake, Prepare, TryAgain, Cancel, Wait
  <2> QED  BY <2>1, <1>2, EpochStep DEF IInv, TypeOK
<1>4. EpochsPosted' /\ Notifying' = Notifying
  <2>1. posted' = posted /\ \A p \in Posters : step'[p] = step[p]
    BY <1>1, <1>2, Roles DEF TryTake, Prepare, TryAgain, Cancel, Wait
  <2>2. Notifying' = Notifying  BY <2>1 DEF Notifying
  <2> QED  BY <2>1, <2>2, <1>3 DEF IInv, EpochsPosted
<1>5. CASE TryTake(t)
  <2>1. /\ UNCHANGED ecVars /\ at[t] = "out"
        /\ \/ step' = step /\ items' = items - 1 /\ items > 0
           \/ step' = [step EXCEPT ![t] = "prepare"] /\ items' = items
    BY <1>5 DEF TryTake
  <2>2. PostersNeverWait' /\ TakersPrepared' /\ KeysPast' /\ SomeoneFresh'
    BY <2>1, <1>1, <1>2, <1>3, Roles
       DEF ecVars, IInv, PostersNeverWait, TakersPrepared, KeysPast, SomeoneFresh
  <2>3. FreshWaitersSawNone'
    BY <2>1, <1>1, <1>2, <1>3, <1>4, Roles
       DEF ecVars, IInv, FreshWaitersSawNone, Committed
  <2> QED  BY <2>2, <2>3, <1>4 DEF Fresh
<1>6. CASE Prepare(t)
  BY <1>1, <1>2, <1>3, <1>4, <1>6
     DEF Prepare, EcPrepareWait, IInv, Fresh, PostersNeverWait, TakersPrepared, KeysPast,
         FreshWaitersSawNone, Committed, SomeoneFresh
<1>7. CASE TryAgain(t)
  <2>1. /\ UNCHANGED ecVars /\ at[t] = "prepared"
        /\ \/ step' = [step EXCEPT ![t] = "cancel"] /\ items' = items - 1 /\ items > 0
           \/ step' = [step EXCEPT ![t] = "wait"] /\ items' = items /\ items = 0
    BY <1>1, <1>7 DEF TryAgain, IInv, TakersPrepared
  <2>2. PostersNeverWait' /\ TakersPrepared' /\ KeysPast' /\ SomeoneFresh'
    BY <2>1, <1>1, <1>2, <1>3, Roles
       DEF ecVars, IInv, PostersNeverWait, TakersPrepared, KeysPast, SomeoneFresh
  <2>3. FreshWaitersSawNone'
    BY <2>1, <1>1, <1>2, <1>3, <1>4, Roles
       DEF ecVars, IInv, FreshWaitersSawNone, Committed
  <2> QED  BY <2>2, <2>3, <1>4 DEF Fresh
<1>8. CASE Cancel(t)
  BY <1>1, <1>2, <1>3, <1>4, <1>8
     DEF Cancel, EcCancelWait, EndWait, IInv, Fresh, PostersNeverWait, TakersPrepared,
         KeysPast, FreshWaitersSawNone, Committed, SomeoneFresh
<1>9. CASE Wait(t)
  BY <1>1, <1>2, <1>3, <1>4, <1>9
     DEF Wait, EcWait, IInv, Fresh, PostersNeverWait, TakersPrepared, KeysPast,
         FreshWaitersSawNone, Committed, SomeoneFresh
<1> QED  BY <1>4, <1>5, <1>6, <1>7, <1>8, <1>9

LEMMA InsideKeeps ==
  ASSUME Takers # {}, IInv, NEW t \in EcThreads, Inside(t) \/ Signal(t)
  PROVE  EpochsPosted' /\ Fresh'
<1> USE DEF EcGoto
<1>1. /\ key \in [EcThreads -> Int] /\ at \in [EcThreads -> EcLabels] /\ Epoch \in Nat
  BY EcAssumption, Halves DEF IInv, TypeOK, EcTypeOK
<1>2. UNCHANGED <<items, posted, step>> /\ (EcStep(t) \/ Interrupted(t))
  BY DEF Inside, Signal
<1>3. Epoch' = Epoch  BY <1>2, EpochStep DEF IInv, TypeOK
<1>4. EpochsPosted' /\ Notifying' = Notifying
  <2>1. Notifying' = Notifying  BY <1>2 DEF Notifying
  <2> QED  BY <2>1, <1>2, <1>3 DEF IInv, EpochsPosted
<1>5. CASE FutexWake(t)
  <2>1. key' = key
        /\ \A u \in EcThreads : \/ at'[u] = at[u]
                                \/ at[u] = "asleep" /\ at'[u] = "check"
                                \/ at[u] \in {"wake1", "wakeAll"} /\ at'[u] = "out"
    BY <1>1, <1>5 DEF FutexWake, Sleepers
  <2>2. PostersNeverWait' /\ TakersPrepared' /\ KeysPast' /\ FreshWaitersSawNone'
    BY <2>1, <1>2, <1>3, <1>4, Roles
       DEF IInv, PostersNeverWait, TakersPrepared, KeysPast, FreshWaitersSawNone, Committed
  <2>3. \E u \in Takers : at'[u] # "asleep"
    <3>1. CASE Sleepers = {}
      BY <3>1, <2>1, Roles DEF Sleepers
    <3>2. CASE Sleepers # {}
      <4>1. \E s \in EcThreads : at[s] = "asleep" /\ at'[s] = "check"
        BY <3>2, <1>1, <1>5 DEF FutexWake, Sleepers
      <4> QED  BY <4>1, Roles DEF IInv, PostersNeverWait
    <3> QED  BY <3>1, <3>2
  <2> QED  BY <2>2, <2>3, <1>4 DEF Fresh, SomeoneFresh
<1>6. CASE CheckEpoch(t) \/ FutexWait(t)
  <2>1. /\ t \in Takers /\ key' = key /\ at[t] \in {"check", "futex"}
        /\ \A u \in EcThreads : u # t => at'[u] = at[u]
        /\ \/ at'[t] \in {"check", "futex", "leaving"}
           \/ at'[t] = "asleep" /\ key[t] = Epoch
    BY <1>1, <1>6, Roles DEF CheckEpoch, FutexWait, IInv, PostersNeverWait
  <2> QED
    BY <2>1, <1>2, <1>3, <1>4, Roles
       DEF IInv, Fresh, PostersNeverWait, TakersPrepared, KeysPast,
           FreshWaitersSawNone, Committed, SomeoneFresh
<1>7. CASE LeaveWait(t) \/ Interrupted(t)
  <2>1. /\ t \in Takers /\ at[t] \in {"leaving", "asleep"}
        /\ \A u \in EcThreads : u # t => at'[u] = at[u] /\ key'[u] = key[u]
        /\ \/ at'[t] = "out" /\ key'[t] = 0
           \/ at[t] = "asleep" /\ at'[t] = "check" /\ key'[t] = key[t]
    BY <1>1, <1>7, Roles
       DEF LeaveWait, EndWait, Interrupted, IInv, PostersNeverWait
  <2> QED
    BY <2>1, <1>1, <1>2, <1>3, <1>4, Roles
       DEF IInv, Fresh, PostersNeverWait, TakersPrepared, KeysPast,
           FreshWaitersSawNone, Committed, SomeoneFresh
<1> QED  BY <1>2, <1>5, <1>6, <1>7, <1>4 DEF EcStep

LEMMA StutterKeeps ==
  ASSUME IInv, UNCHANGED vars
  PROVE  EpochsPosted' /\ Fresh'
<1>1. Epoch' = Epoch /\ Notifying' = Notifying
  BY DEF vars, ecVars, Epoch, Notifying
<1> QED
  BY <1>1 DEF vars, ecVars, IInv, EpochsPosted, Fresh, PostersNeverWait, TakersPrepared,
              KeysPast, FreshWaitersSawNone, Committed, SomeoneFresh

LEMMA InvStep ==
  ASSUME MaxPosts < EpochMod, Takers # {}
  PROVE  IInv /\ [Next]_vars => IInv'
<1> SUFFICES ASSUME IInv, [Next]_vars PROVE IInv'
  OBVIOUS
<1>1. TypeOK' /\ WaitersCounted'  BY TypeStep, CountStep DEF IInv
<1>2. EpochsPosted' /\ Fresh'
  <2>1. CASE UNCHANGED vars  BY <2>1, StutterKeeps
  <2>2. ASSUME NEW p \in Posters, Post(p) \/ PosterStep(p)
        PROVE  EpochsPosted' /\ Fresh'
    BY <2>2, PostKeeps, NotifyKeeps, InsideKeeps, Roles DEF PosterStep
  <2>3. ASSUME NEW t \in Takers, TakerStep(t) \/ Signal(t)
        PROVE  EpochsPosted' /\ Fresh'
    BY <2>3, UserStepKeeps, InsideKeeps, Roles DEF TakerStep
  <2> QED  BY <2>1, <2>2, <2>3 DEF Next
<1> QED  BY <1>1, <1>2 DEF IInv, Fresh

-----------------------------------------------------------------------------
(* The word, the labels and the keys keep their types (event_count.c). *)
THEOREM TypeCorrect == Spec => []TypeOK
<1>1. Init => TypeOK  BY EcTypeInit, UsersAssumption DEF Init, TypeOK, Steps
<1> QED  BY <1>1, TypeStep, PTL DEF Spec

(* The waiter count never borrows from the epoch nor carries into it, so   *)
(* a notify that finds it zero skips nobody (event_count.c:61-64, 79-105). *)
THEOREM Counted == Spec => []WaitersCounted
<1>1. Init => TypeOK /\ WaitersCounted
  BY EcTypeInit, WaitersInit, UsersAssumption DEF Init, TypeOK, Steps
<1>2. TypeOK /\ WaitersCounted /\ [Next]_vars => (TypeOK /\ WaitersCounted)'
  BY TypeStep, CountStep
<1> QED  BY <1>1, <1>2, PTL DEF Spec

(* The inductive invariant. *)
THEOREM Invariance ==
  ASSUME MaxPosts < EpochMod, Takers # {}
  PROVE  Spec => []IInv
  BY InitHolds, InvStep, PTL DEF Spec

(* Prepare, look again, wait: whoever waits for an item is awake or about  *)
(* to be woken while there is one (event_count.c:79-125).                  *)
THEOREM WakeupsKept ==
  ASSUME MaxPosts < EpochMod, Takers # {}
  PROVE  Spec => []NoLostWakeup
<1>1. IInv => NoLostWakeup
  BY UsersAssumption
     DEF IInv, TypeOK, SomeoneFresh, FreshWaitersSawNone, Committed, Notifying, NoLostWakeup
<1> QED  BY <1>1, Invariance, PTL

=============================================================================
