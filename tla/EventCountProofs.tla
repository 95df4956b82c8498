--------------------------- MODULE EventCountProofs ---------------------------
(***************************************************************************)
(* Proofs about EventCount that its users share: the operations keep the   *)
(* types of the event count, for any number of threads and any width of    *)
(* the epoch and of the waiter count.                                      *)
(***************************************************************************)
EXTENDS EventCount, FiniteSetTheorems, TLAPS

(* The number of values of the word. *)
LEMMA WordType == EpochMod * WaiterMod \in Nat \ {0}
  BY EcAssumption

(* A wrapped sum is a word. *)
LEMMA WrapType ==
  ASSUME NEW n \in Int
  PROVE  n % (EpochMod * WaiterMod) \in 0 .. (EpochMod * WaiterMod - 1)
<1> DEFINE M == EpochMod * WaiterMod
<1>1. M \in Nat \ {0}  BY WordType
<1> HIDE DEF M
<1>2. n % M \in 0 .. (M - 1)  BY <1>1
<1> QED  BY <1>2 DEF M

(* The upper half of a word is an epoch. *)
LEMMA EpochType ==
  ASSUME EcTypeOK
  PROVE  Epoch \in 0 .. (EpochMod - 1)
<1> DEFINE q == val \div WaiterMod
           r == val % WaiterMod
<1>1. /\ q \in Nat /\ r \in 0 .. (WaiterMod - 1)
      /\ val = WaiterMod * q + r
      /\ val < EpochMod * WaiterMod
  BY EcAssumption DEF EcTypeOK
<1>2. Epoch = q  BY DEF Epoch
<1> HIDE DEF q, r
<1>3. CASE q >= EpochMod
  <2>1. WaiterMod * q >= EpochMod * WaiterMod  BY <1>1, <1>3, EcAssumption
  <2> QED  BY <2>1, <1>1, EcAssumption
<1> QED  BY <1>1, <1>2, <1>3, EcAssumption

LEMMA EcTypeInit == EcInit => EcTypeOK
  BY EcAssumption, WordType DEF EcInit, EcTypeOK, EcLabels

LEMMA AddToValType ==
  ASSUME EcTypeOK, NEW n \in Int, AddToVal(n)
  PROVE  val' \in 0 .. (EpochMod * WaiterMod - 1)
<1>1. val + n \in Int  BY WordType DEF EcTypeOK
<1> QED  BY <1>1, WrapType DEF AddToVal

(* Every call and every step inside a call keeps the types. *)
LEMMA EcTypeStep ==
  ASSUME EcTypeOK, NEW t \in EcThreads,
         \/ EcNotify(t) \/ EcNotifyAll(t)
         \/ EcPrepareWait(t) \/ EcCancelWait(t) \/ EcWait(t)
         \/ EcStep(t) \/ Interrupted(t)
         \/ UNCHANGED ecVars
  PROVE  EcTypeOK'
<1> USE DEF EcTypeOK, EcGoto, EcLabels
<1>0. SubWaiter \in Int /\ WaiterMod \in Int  BY WordType, EcAssumption DEF SubWaiter
<1>1. ASSUME NEW wake \in {"wake1", "wakeAll"}, EcAdvance(t, wake)  PROVE EcTypeOK'
  BY <1>0, <1>1, AddToValType DEF EcAdvance
<1>2. CASE FutexWake(t)  BY <1>2 DEF FutexWake
<1>3. CASE EcPrepareWait(t)
  BY <1>3, AddToValType, EpochType DEF EcPrepareWait
<1>4. ASSUME EndWait(t) PROVE EcTypeOK'
  <2>1. 0 \in 0 .. (EpochMod - 1)  BY EcAssumption
  <2> QED  BY <1>0, <1>4, <2>1, AddToValType DEF EndWait
<1>5. CASE EcWait(t)  BY <1>5 DEF EcWait
<1>6. CASE CheckEpoch(t)  BY <1>6 DEF CheckEpoch
<1>7. CASE FutexWait(t)  BY <1>7 DEF FutexWait
<1>8. CASE Interrupted(t)  BY <1>8 DEF Interrupted
<1>9. CASE UNCHANGED ecVars  BY <1>9 DEF ecVars
<1> QED
  BY <1>1, <1>2, <1>3, <1>4, <1>5, <1>6, <1>7, <1>8, <1>9
     DEF EcNotify, EcNotifyAll, EcCancelWait, LeaveWait, EcStep

(* What a step of a thread does to where the others stand.                 *)
LEMMA AtOfOther ==
  ASSUME EcTypeOK, NEW t \in EcThreads, NEW u \in EcThreads, u # t,
         \/ EcNotify(t) \/ EcNotifyAll(t)
         \/ EcPrepareWait(t) \/ EcCancelWait(t) \/ EcWait(t)
         \/ EcStep(t) \/ Interrupted(t)
  PROVE  /\ at'[u] = at[u] \/ (at[u] = "asleep" /\ at'[u] = "check")
         /\ key'[u] = key[u]
<1>1. at \in [EcThreads -> EcLabels] /\ DOMAIN key = EcThreads  BY DEF EcTypeOK
<1>2. CASE EcNotify(t) \/ EcNotifyAll(t) \/ EcPrepareWait(t) \/ EcCancelWait(t) \/ EcWait(t)
  BY <1>1, <1>2 DEF EcNotify, EcNotifyAll, EcAdvance, EcPrepareWait, EcCancelWait, EndWait,
                    EcWait, EcGoto
<1>3. CASE CheckEpoch(t) \/ FutexWait(t) \/ LeaveWait(t) \/ Interrupted(t)
  BY <1>1, <1>3 DEF CheckEpoch, FutexWait, LeaveWait, Interrupted, EndWait, EcGoto
<1>4. CASE FutexWake(t)
  BY <1>1, <1>4 DEF FutexWake, Sleepers, EcGoto
<1> QED  BY <1>2, <1>3, <1>4 DEF EcStep

-----------------------------------------------------------------------------
(* The waiter count in the lower half of the word. *)

(* Quotient and remainder are determined by their equation. *)
LEMMA DivisionUnique ==
  ASSUME NEW d \in Nat \ {0}, NEW x \in Int, NEW q \in Int, NEW r \in 0 .. (d - 1),
         x = d * q + r
  PROVE  x % d = r /\ x \div d = q
<1> DEFINE p == x \div d
           s == x % d
<1>1. p \in Int /\ s \in 0 .. (d - 1) /\ x = d * p + s
  OBVIOUS
<1> HIDE DEF p, s
<1>2. d * (q - p) = s - r
  <2>1. \A c, a, b \in Int : c * (a - b) = c * a - c * b
    OBVIOUS
  <2>2. d * (q - p) = d * q - d * p  BY <2>1, <1>1
  <2> QED  BY <2>2, <1>1
<1>3. CASE q - p >= 1
  <2>1. d * (q - p) >= d  BY <1>1, <1>3
  <2> QED  BY <2>1, <1>1, <1>2
<1>4. CASE q - p <= -1
  <2>1. d * (q - p) <= -d  BY <1>1, <1>4
  <2> QED  BY <2>1, <1>1, <1>2
<1>5. CASE q = p
  BY <1>1, <1>5 DEF s, p
<1> QED  BY <1>1, <1>3, <1>4, <1>5

(* Cutting a sum to the word does not change its lower half. *)
LEMMA LowerHalf ==
  ASSUME NEW n \in Int
  PROVE  (n % (EpochMod * WaiterMod)) % WaiterMod = n % WaiterMod
<1> DEFINE M == EpochMod * WaiterMod
           p == n \div M
           s == n % M
           a == s \div WaiterMod
           r == s % WaiterMod
<1>1. M \in Nat \ {0}  BY WordType
<1>2. p \in Int /\ s \in Int /\ n = M * p + s
  <2> HIDE DEF M
  <2> QED  BY <1>1
<1>3. M * p = WaiterMod * (EpochMod * p)
  <2>1. \A e, w, k \in Int : (e * w) * k = w * (e * k)
    OBVIOUS
  <2> HIDE DEF p
  <2> QED  BY <2>1, <1>2, EcAssumption
<1> HIDE DEF M, p, s
<1>4. a \in Int /\ r \in 0 .. (WaiterMod - 1) /\ s = WaiterMod * a + r
  BY <1>2, EcAssumption
<1> HIDE DEF a, r
<1>5. n = WaiterMod * (EpochMod * p + a) + r
  <2>1. \A w, x, y \in Int : w * (x + y) = w * x + w * y
    OBVIOUS
  <2>2. EpochMod * p \in Int  BY <1>2, EcAssumption
  <2>3. WaiterMod * (EpochMod * p + a) = WaiterMod * (EpochMod * p) + WaiterMod * a
    BY <2>1, <2>2, <1>4, EcAssumption
  <2> QED  BY <2>2, <2>3, <1>2, <1>3, <1>4, EcAssumption
<1>6. EpochMod * p + a \in Int  BY <1>2, <1>4, EcAssumption
<1>7. n % WaiterMod = r  BY <1>4, <1>5, <1>6, DivisionUnique, EcAssumption
<1> QED  BY <1>7 DEF r, s, M

(* One waiter more, one fewer, one epoch more (event_count.c:61-63). *)
LEMMA CountUp ==
  ASSUME EcTypeOK, WaiterCount + 1 < WaiterMod, AddToVal(1)
  PROVE  WaiterCount' = WaiterCount + 1
<1> DEFINE q == val \div WaiterMod
           r == val % WaiterMod
<1>1. /\ val \in Int /\ q \in Int /\ r \in 0 .. (WaiterMod - 1)
      /\ val = WaiterMod * q + r
  <2>1. val \in Int  BY WordType DEF EcTypeOK
  <2> QED  BY <2>1, EcAssumption
<1>2. r + 1 < WaiterMod  BY DEF WaiterCount
<1> HIDE DEF q, r
<1>3. (val + 1) % WaiterMod = r + 1
  <2>1. r + 1 \in 0 .. (WaiterMod - 1) /\ val + 1 \in Int /\ val + 1 = WaiterMod * q + (r + 1)
    BY <1>1, <1>2, EcAssumption
  <2> QED  BY <2>1, <1>1, DivisionUnique, EcAssumption
<1>4. val' % WaiterMod = (val + 1) % WaiterMod
  BY <1>1, LowerHalf DEF AddToVal
<1> QED  BY <1>3, <1>4 DEF WaiterCount, r

LEMMA CountDown ==
  ASSUME EcTypeOK, WaiterCount > 0, AddToVal(SubWaiter)
  PROVE  WaiterCount' = WaiterCount - 1
<1> DEFINE q == val \div WaiterMod
           r == val % WaiterMod
<1>1. /\ val \in Int /\ q \in Int /\ r \in 0 .. (WaiterMod - 1)
      /\ val = WaiterMod * q + r
  <2>1. val \in Int  BY WordType DEF EcTypeOK
  <2> QED  BY <2>1, EcAssumption
<1>2. r > 0  BY DEF WaiterCount
<1> HIDE DEF q, r
<1>3. SubWaiter \in Int /\ SubWaiter = WaiterMod * EpochMod - 1
  BY EcAssumption DEF SubWaiter
<1>4. val + SubWaiter = WaiterMod * (q + EpochMod) + (r - 1)
  <2>1. \A w, x, y \in Int : w * (x + y) = w * x + w * y
    OBVIOUS
  <2>2. WaiterMod * (q + EpochMod) = WaiterMod * q + WaiterMod * EpochMod
    BY <2>1, <1>1, EcAssumption
  <2> QED  BY <2>2, <1>1, <1>3, EcAssumption
<1>5. (val + SubWaiter) % WaiterMod = r - 1
  <2>1. q + EpochMod \in Int /\ r - 1 \in 0 .. (WaiterMod - 1) /\ val + SubWaiter \in Int
    BY <1>1, <1>2, <1>3, EcAssumption
  <2> QED  BY <2>1, <1>4, DivisionUnique, EcAssumption
<1>6. val' % WaiterMod = (val + SubWaiter) % WaiterMod
  BY <1>1, <1>3, LowerHalf DEF AddToVal
<1> QED  BY <1>5, <1>6 DEF WaiterCount, r

LEMMA CountSame ==
  ASSUME EcTypeOK, AddToVal(WaiterMod)
  PROVE  WaiterCount' = WaiterCount
<1> DEFINE q == val \div WaiterMod
           r == val % WaiterMod
<1>1. /\ val \in Int /\ q \in Int /\ r \in 0 .. (WaiterMod - 1)
      /\ val = WaiterMod * q + r
  <2>1. val \in Int  BY WordType DEF EcTypeOK
  <2> QED  BY <2>1, EcAssumption
<1> HIDE DEF q, r
<1>2. val + WaiterMod = WaiterMod * (q + 1) + r
  <2>1. \A w, x \in Int : w * (x + 1) = w * x + w
    OBVIOUS
  <2> QED  BY <2>1, <1>1, EcAssumption
<1>3. (val + WaiterMod) % WaiterMod = r
  BY <1>1, <1>2, DivisionUnique, EcAssumption
<1>4. val' % WaiterMod = (val + WaiterMod) % WaiterMod
  <2>1. val + WaiterMod \in Int  BY <1>1, EcAssumption
  <2> QED  BY <2>1, LowerHalf DEF AddToVal
<1> QED  BY <1>3, <1>4 DEF WaiterCount, r

-----------------------------------------------------------------------------
(* The epoch in the upper half of the word. *)

(* A sum that is a word is not cut. *)
LEMMA NoWrap ==
  ASSUME NEW n \in 0 .. (EpochMod * WaiterMod - 1)
  PROVE  n % (EpochMod * WaiterMod) = n
<1> DEFINE M == EpochMod * WaiterMod
<1>1. M \in Nat \ {0} /\ n \in 0 .. (M - 1) /\ n \in Int  BY WordType
<1> HIDE DEF M
<1>2. n = M * 0 + n  BY <1>1
<1>3. n % M = n  BY <1>1, <1>2, DivisionUnique
<1> QED  BY <1>3 DEF M

(* A word is put together from its halves. *)
LEMMA Halves ==
  ASSUME EcTypeOK
  PROVE  /\ val \in Int
         /\ Epoch \in 0 .. (EpochMod - 1) /\ WaiterCount \in 0 .. (WaiterMod - 1)
         /\ val = WaiterMod * Epoch + WaiterCount
<1>1. val \in Int  BY WordType DEF EcTypeOK
<1>2. WaiterCount \in 0 .. (WaiterMod - 1) /\ val = WaiterMod * Epoch + WaiterCount
  BY <1>1, EcAssumption DEF Epoch, WaiterCount
<1> QED  BY <1>1, <1>2, EpochType

(* Halves in their range give a word. *)
LEMMA WordOfHalves ==
  ASSUME NEW q \in 0 .. (EpochMod - 1), NEW r \in 0 .. (WaiterMod - 1)
  PROVE  WaiterMod * q + r \in 0 .. (EpochMod * WaiterMod - 1)
<1>1. WaiterMod * q >= 0 /\ WaiterMod * q \in Int  BY EcAssumption
<1>2. WaiterMod * q <= WaiterMod * (EpochMod - 1)  BY EcAssumption
<1>3. WaiterMod * (EpochMod - 1) = EpochMod * WaiterMod - WaiterMod
  <2>1. \A w, e \in Int : w * (e - 1) = e * w - w
    OBVIOUS
  <2> QED  BY <2>1, EcAssumption
<1> QED  BY <1>1, <1>2, <1>3, EcAssumption, WordType

(* Waiters come and go without touching the epoch. *)
LEMMA EpochKeptIn ==
  ASSUME EcTypeOK, WaiterCount + 1 < WaiterMod, AddToVal(1)
  PROVE  Epoch' = Epoch
<1> DEFINE q == Epoch
           r == WaiterCount
<1>1. /\ val \in Int /\ q \in 0 .. (EpochMod - 1) /\ r + 1 \in 0 .. (WaiterMod - 1)
      /\ val + 1 = WaiterMod * q + (r + 1)
  BY Halves, EcAssumption
<1> HIDE DEF q, r
<1>2. val + 1 \in 0 .. (EpochMod * WaiterMod - 1)  BY <1>1, WordOfHalves
<1>3. val' = val + 1  BY <1>2, NoWrap DEF AddToVal
<1>4. (val + 1) \div WaiterMod = q
  <2>1. val + 1 \in Int /\ q \in Int  BY <1>1
  <2> QED  BY <2>1, <1>1, DivisionUnique, EcAssumption
<1> QED  BY <1>3, <1>4 DEF Epoch, q

LEMMA EpochKeptOut ==
  ASSUME EcTypeOK, WaiterCount > 0, AddToVal(SubWaiter)
  PROVE  Epoch' = Epoch
<1> DEFINE q == Epoch
           r == WaiterCount
           M == EpochMod * WaiterMod
<1>1. /\ val \in Int /\ q \in 0 .. (EpochMod - 1) /\ r - 1 \in 0 .. (WaiterMod - 1)
      /\ val - 1 = WaiterMod * q + (r - 1)
  BY Halves, EcAssumption
<1> HIDE DEF q, r
<1>2. val - 1 \in 0 .. (M - 1)  BY <1>1, WordOfHalves
<1>3. M \in Nat \ {0}  BY WordType
<1>4. val' = (val + (M - 1)) % M  BY DEF AddToVal, SubWaiter
<1> HIDE DEF M
<1>5. val' = val - 1
  <2>1. val + (M - 1) = M * 1 + (val - 1) /\ val + (M - 1) \in Int  BY <1>1, <1>3
  <2> QED  BY <2>1, <1>2, <1>3, <1>4, DivisionUnique
<1>6. (val - 1) \div WaiterMod = q
  <2>1. val - 1 \in Int /\ q \in Int  BY <1>1
  <2> QED  BY <2>1, <1>1, DivisionUnique, EcAssumption
<1> QED  BY <1>5, <1>6 DEF Epoch, q

(* A notify advances the epoch, short of its wrap. *)
LEMMA EpochUp ==
  ASSUME EcTypeOK, Epoch + 1 < EpochMod, AddToVal(WaiterMod)
  PROVE  Epoch' = Epoch + 1
<1> DEFINE q == Epoch
           r == WaiterCount
<1>1. /\ val \in Int /\ q + 1 \in 0 .. (EpochMod - 1) /\ q \in Int /\ r \in 0 .. (WaiterMod - 1)
      /\ val = WaiterMod * q + r
  BY Halves, EcAssumption
<1> HIDE DEF q, r
<1>2. val + WaiterMod = WaiterMod * (q + 1) + r
  <2>1. \A w, x \in Int : w * (x + 1) = w * x + w
    OBVIOUS
  <2>2. WaiterMod * (q + 1) = WaiterMod * q + WaiterMod  BY <2>1, <1>1, EcAssumption
  <2> QED  BY <2>2, <1>1, EcAssumption
<1>3. val + WaiterMod \in 0 .. (EpochMod * WaiterMod - 1)  BY <1>1, <1>2, WordOfHalves
<1>4. val' = val + WaiterMod  BY <1>3, NoWrap DEF AddToVal
<1>5. (val + WaiterMod) \div WaiterMod = q + 1
  <2>1. val + WaiterMod \in Int /\ q + 1 \in Int  BY <1>1, EcAssumption
  <2> QED  BY <2>1, <1>1, <1>2, DivisionUnique, EcAssumption
<1> QED  BY <1>4, <1>5 DEF Epoch, q

(* A notify never leaves the epoch what it was: it wraps to another one. *)
LEMMA NotifyMoves ==
  ASSUME EcTypeOK, AddToVal(WaiterMod)
  PROVE  Epoch' # Epoch
<1> DEFINE q == Epoch
           r == WaiterCount
           M == EpochMod * WaiterMod
<1>1. /\ q \in 0 .. (EpochMod - 1) /\ r \in 0 .. (WaiterMod - 1)
      /\ val = WaiterMod * q + r
  BY Halves
<1>2. CASE q + 1 < EpochMod
  BY <1>1, <1>2, EpochUp
<1>3. CASE q + 1 = EpochMod
  <2>1. WaiterMod * q = M - WaiterMod
    <3>1. \A w, e \in Int : w * (e - 1) = e * w - w
      OBVIOUS
    <3>2. q = EpochMod - 1  BY <1>1, <1>3, EcAssumption
    <3> QED  BY <3>1, <3>2, EcAssumption
  <2>2. M \in Nat \ {0} /\ r \in 0 .. (M - 1)
    <3>1. WaiterMod * 0 + r \in 0 .. (EpochMod * WaiterMod - 1)
      BY <1>1, EcAssumption, WordOfHalves
    <3> QED  BY <3>1, <1>1, WordType, EcAssumption
  <2>3. val' = (val + WaiterMod) % M  BY DEF AddToVal
  <2> HIDE DEF q, r, M
  <2>4. val + WaiterMod = M * 1 + r /\ val + WaiterMod \in Int
    BY <1>1, <2>1, <2>2, EcAssumption
  <2>5. val' = r
    <3> DEFINE x == val + WaiterMod
    <3>1. x \in Int /\ x = M * 1 + r /\ val' = x % M  BY <2>3, <2>4
    <3> HIDE DEF x
    <3>2. x % M = r  BY <2>2, <3>1, DivisionUnique
    <3> QED  BY <3>1, <3>2
  <2>6. r \div WaiterMod = 0
    <3>1. r = WaiterMod * 0 + r /\ r \in Int  BY <1>1, EcAssumption
    <3> QED  BY <1>1, <3>1, DivisionUnique, EcAssumption
  <2>7. Epoch' = 0  BY <2>5, <2>6 DEF Epoch
  <2>8. q # 0  BY <1>3, EcAssumption
  <2> QED  BY <2>7, <2>8 DEF q
<1> QED  BY <1>1, <1>2, <1>3, EcAssumption

-----------------------------------------------------------------------------
(* There are fewer waiters than the count can hold. *)
LEMMA WaitingFinite ==
  /\ IsFiniteSet(Waiting)
  /\ Cardinality(Waiting) \in Nat
  /\ Cardinality(Waiting) < WaiterMod
<1>1. Waiting \in SUBSET EcThreads  BY DEF Waiting
<1>2. Cardinality(EcThreads) \in Nat  BY EcAssumption, FS_CardinalityType
<1>3. IsFiniteSet(Waiting) /\ Cardinality(Waiting) <= Cardinality(EcThreads)
  BY <1>1, EcAssumption, FS_Subset
<1>4. Cardinality(Waiting) \in Nat  BY <1>3, FS_CardinalityType
<1> QED  BY <1>2, <1>3, <1>4, EcAssumption

(* Who is not counted can still be, who is counted can be taken back. *)
LEMMA RoomForOne ==
  ASSUME WaitersCounted, NEW t \in EcThreads, t \notin Waiting
  PROVE  /\ WaiterCount + 1 < WaiterMod
         /\ Cardinality(Waiting \cup {t}) = Cardinality(Waiting) + 1
<1>1. /\ Cardinality(Waiting \cup {t}) = Cardinality(Waiting) + 1
      /\ IsFiniteSet(Waiting \cup {t})
  BY WaitingFinite, FS_AddElement
<1>2. Waiting \cup {t} \in SUBSET EcThreads  BY DEF Waiting
<1>3. Cardinality(Waiting) + 1 <= Cardinality(EcThreads)
  BY <1>1, <1>2, EcAssumption, FS_Subset
<1>4. Cardinality(EcThreads) \in Nat  BY EcAssumption, FS_CardinalityType
<1> QED  BY <1>1, <1>3, <1>4, WaitingFinite, EcAssumption DEF WaitersCounted

LEMMA CountedOne ==
  ASSUME WaitersCounted, NEW t \in Waiting
  PROVE  WaiterCount > 0
<1>1. Cardinality(Waiting) # 0  BY WaitingFinite, FS_EmptySet
<1> QED  BY <1>1, WaitingFinite DEF WaitersCounted

(* A wait begins or ends. *)
LEMMA CountOneIn ==
  ASSUME EcTypeOK, WaitersCounted, NEW t \in EcThreads, t \notin Waiting,
         Waiting' = Waiting \cup {t}, AddToVal(1)
  PROVE  WaitersCounted'
<1>1. WaiterCount' = WaiterCount + 1  BY RoomForOne, CountUp
<1> QED  BY <1>1, RoomForOne DEF WaitersCounted

LEMMA CountOneOut ==
  ASSUME EcTypeOK, WaitersCounted, NEW t \in Waiting,
         Waiting' = Waiting \ {t}, AddToVal(SubWaiter)
  PROVE  WaitersCounted'
<1>1. Cardinality(Waiting \ {t}) = Cardinality(Waiting) - 1
  BY WaitingFinite, FS_RemoveElement
<1>2. WaiterCount' = WaiterCount - 1  BY CountedOne, CountDown
<1> QED  BY <1>1, <1>2 DEF WaitersCounted

LEMMA WaitersInit == EcInit => WaitersCounted
<1> SUFFICES ASSUME EcInit PROVE WaitersCounted
  OBVIOUS
<1>1. Waiting = {}  BY DEF EcInit, Waiting
<1>2. val % WaiterMod = 0
  <2>1. \A d \in Nat \ {0} : 0 % d = 0
    OBVIOUS
  <2> QED  BY <2>1, EcAssumption DEF EcInit
<1> QED  BY <1>1, <1>2, FS_EmptySet DEF WaitersCounted, WaiterCount

(* Every call and every step inside a call keeps the waiters counted.      *)
LEMMA WaitersStep ==
  ASSUME EcTypeOK, WaitersCounted, NEW t \in EcThreads,
         \/ EcNotify(t) \/ EcNotifyAll(t)
         \/ EcPrepareWait(t) \/ EcCancelWait(t) \/ EcWait(t)
         \/ EcStep(t) \/ Interrupted(t)
         \/ UNCHANGED ecVars
  PROVE  WaitersCounted'
<1> USE DEF EcTypeOK, EcGoto
<1>a. ASSUME Waiting' = Waiting, val' = val  PROVE WaitersCounted'
  BY <1>a DEF WaitersCounted, WaiterCount
<1>1. ASSUME NEW wake \in {"wake1", "wakeAll"}, EcAdvance(t, wake)  PROVE WaitersCounted'
  <2>1. Waiting' = Waiting  BY <1>1 DEF EcAdvance, Waiting
  <2>2. WaiterCount' = WaiterCount  BY <1>1, CountSame DEF EcAdvance
  <2> QED  BY <2>1, <2>2 DEF WaitersCounted
<1>2. CASE FutexWake(t)
  <2>1. Waiting' = Waiting /\ val' = val  BY <1>2 DEF FutexWake, Waiting, Sleepers
  <2> QED  BY <2>1, <1>a
<1>3. CASE EcPrepareWait(t)
  <2>1. t \notin Waiting /\ Waiting' = Waiting \cup {t}
    BY <1>3 DEF EcPrepareWait, Waiting
  <2> QED  BY <2>1, <1>3, CountOneIn DEF EcPrepareWait
<1>4. ASSUME EndWait(t), t \in Waiting  PROVE WaitersCounted'
  <2>1. Waiting' = Waiting \ {t}  BY <1>4 DEF EndWait, Waiting
  <2> QED  BY <2>1, <1>4, CountOneOut DEF EndWait
<1>5. CASE EcCancelWait(t) \/ LeaveWait(t)
  BY <1>4, <1>5 DEF EcCancelWait, LeaveWait, Waiting
<1>6. CASE EcWait(t)
  <2>1. Waiting' = Waiting /\ val' = val  BY <1>6 DEF EcWait, Waiting
  <2> QED  BY <2>1, <1>a
<1>7. CASE CheckEpoch(t)
  <2>1. Waiting' = Waiting /\ val' = val  BY <1>7 DEF CheckEpoch, Waiting
  <2> QED  BY <2>1, <1>a
<1>8. CASE FutexWait(t)
  <2>1. Waiting' = Waiting /\ val' = val  BY <1>8 DEF FutexWait, Waiting
  <2> QED  BY <2>1, <1>a
<1>9. CASE Interrupted(t)
  <2>1. Waiting' = Waiting /\ val' = val  BY <1>9 DEF Interrupted, Waiting
  <2> QED  BY <2>1, <1>a
<1>10. CASE UNCHANGED ecVars
  <2>1. Waiting' = Waiting /\ val' = val  BY <1>10 DEF ecVars, Waiting
  <2> QED  BY <2>1, <1>a
<1> QED
  BY <1>1, <1>2, <1>3, <1>5, <1>6, <1>7, <1>8, <1>9, <1>10
     DEF EcNotify, EcNotifyAll, EcStep

(* Only a notify moves the epoch: the waiters that come and go never       *)
(* carry into it or borrow from it.                                        *)
LEMMA EpochStep ==
  ASSUME EcTypeOK, WaitersCounted, NEW t \in EcThreads,
         \/ EcPrepareWait(t) \/ EcCancelWait(t) \/ EcWait(t)
         \/ EcStep(t) \/ Interrupted(t)
         \/ UNCHANGED ecVars
  PROVE  Epoch' = Epoch
<1>1. CASE val' = val  BY <1>1 DEF Epoch
<1>2. CASE EcPrepareWait(t)
  <2>1. t \notin Waiting  BY <1>2 DEF EcPrepareWait, Waiting
  <2> QED  BY <2>1, <1>2, RoomForOne, EpochKeptIn DEF EcPrepareWait
<1>3. CASE EcCancelWait(t) \/ LeaveWait(t)
  <2>1. t \in Waiting  BY <1>3 DEF EcCancelWait, LeaveWait, Waiting
  <2> QED  BY <2>1, <1>3, CountedOne, EpochKeptOut DEF EcCancelWait, LeaveWait, EndWait
<1>4. CASE EcWait(t) \/ FutexWake(t) \/ CheckEpoch(t) \/ FutexWait(t)
           \/ Interrupted(t) \/ UNCHANGED ecVars
  <2>1. val' = val
    BY <1>4 DEF EcWait, FutexWake, CheckEpoch, FutexWait, Interrupted, ecVars
  <2> QED  BY <2>1, <1>1
<1> QED  BY <1>2, <1>3, <1>4 DEF EcStep

=============================================================================
