--------------------------- MODULE LogRotateProofs ---------------------------
(***************************************************************************)
(* Proofs about LogRotate, for any limits, line sizes and failures.        *)
(* Whether or not rotations fall in one second, the size the logger tracks *)
(* is that of the file, and the file stays within its maximum; when none   *)
(* do, the list of backups is what is on disk, and only backups behind     *)
(* max_backup newer ones disappear.                                        *)
(***************************************************************************)
EXTENDS LogRotate, SequenceTheorems, FiniteSetTheorems, TLAPS

(* A line fits into an empty log file, whatever the limit in force. *)
LEMMA LimitKnown ==
  ASSUME NEW m \in Limits
  PROVE  m \in Nat /\ m >= 1 /\ \A n \in LineSizes : n \in Nat /\ n >= 1 /\ n <= m
<1>1. m \in Nat /\ m >= 1
  BY RotateAssumption DEF Limits
<1>2. LineSizes \subseteq 1 .. m
  BY RotateAssumption
<1> QED  BY <1>1, <1>2

(* So does the line being written, while the daemon runs. *)
LEMMA LimitInForce ==
  ASSUME SizeTypes, pc # "down"
  PROVE  /\ max_log_size \in Limits /\ max_log_size \in Nat
         /\ line \in Nat /\ line <= max_log_size
<1>1. max_log_size \in Limits
  BY DEF SizeTypes
<1>2. max_log_size \in Nat /\ max_log_size >= 1
  BY <1>1, LimitKnown
<1>3. ASSUME NEW n \in LineSizes PROVE n \in Nat /\ n <= max_log_size
  BY <1>1, LimitKnown
<1>4. line \in LineSizes \/ line = 0
  BY DEF SizeTypes
<1> QED  BY <1>1, <1>2, <1>3, <1>4

(* What stdio writes out is a part of what it was given. *)
LEMMA FlushKeepsTypes ==
  ASSUME SizeTypes, FlushSome
  PROVE  /\ logfile' \in [size : Nat, gen : Nat]
         /\ flushed' = logfile'.size /\ flushed' \in Nat
         /\ logfile'.size <= logfile.size
<1>1. PICK s \in flushed .. logfile.size : logfile' = [logfile EXCEPT !.size = s]
  BY DEF FlushSome
<1>2. s \in Nat /\ s <= logfile.size
  BY DEF SizeTypes
<1>3. logfile' \in [size : Nat, gen : Nat] /\ logfile'.size = s
  BY <1>1, <1>2 DEF SizeTypes
<1> QED  BY <1>2, <1>3 DEF FlushSome

(* Opening the log file leaves its size as it is. *)
LEMMA OpenKeepsSize ==
  ASSUME SizeTypes, OpenLog
  PROVE  /\ logfile' \in [size : Nat, gen : Nat] /\ gen' \in Nat
         /\ logfile'.size = logfile.size /\ flushed' = logfile.size
<1>1. CASE Exists
  BY <1>1 DEF OpenLog, SizeTypes
<1>2. CASE ~Exists
  BY <1>2 DEF OpenLog, SizeTypes, Exists, Absent
<1> QED  BY <1>1, <1>2

LEMMA SizeInit == Init => SizeInv
BY DEF Init, SizeInv, SizeTypes, SizeKnown, RoomForLine, Absent

-----------------------------------------------------------------------------
(* The steps of a rotation. *)
LEMMA RotationStep ==
  ASSUME SizeInv,
         \/ Rotate \/ RotateFails \/ AppendBackup \/ AppendFails
         \/ Cleanup \/ UnlinkFails
  PROVE  SizeInv'
<1> USE DEF SizeInv
<1>1. pc # "down"
  BY DEF Rotate, RotateFails, AppendBackup, AppendFails, Cleanup, UnlinkFails
<1>2. /\ max_log_size \in Nat
      /\ line \in Nat /\ line <= max_log_size
  BY <1>1, LimitInForce
<1>3. CASE Rotate
  BY <1>2, <1>3 DEF Rotate, Rename, SizeTypes, SizeKnown, RoomForLine, Absent, limits
<1>4. CASE RotateFails
  BY <1>4 DEF RotateFails, SizeTypes, SizeKnown, RoomForLine, limits, disk, memory, history
<1>5. CASE AppendBackup
  BY <1>5 DEF AppendBackup, SizeTypes, SizeKnown, RoomForLine, limits, disk, faults, history
<1>6. CASE AppendFails
  BY <1>2, <1>6 DEF AppendFails, SizeTypes, SizeKnown, RoomForLine, limits, disk, faults,
                    memory
<1>7. CASE Cleanup
  <2>1. /\ logfile' = logfile /\ flushed' = flushed /\ curr_log_size' = curr_log_size
        /\ line' = line /\ gen' = gen /\ lost' = lost /\ stuck' = stuck
        /\ max_log_size' = max_log_size
    BY <1>7 DEF Cleanup, limits, faults, history
  <2>2. \/ pc = "cleanup" /\ pc' \in {"cleanup", "open"}
        \/ pc = "initCleanup" /\ pc' \in {"initCleanup", "initOpen"}
    BY <1>7 DEF Cleanup
  <2>3. SizeTypes'
    BY <1>1, <2>1 DEF SizeTypes
  <2>4. SizeKnown'
    BY <2>1, <2>2 DEF SizeKnown
  <2>5. RoomForLine'
    <3>1. CASE pc = "cleanup"
      <4>1. curr_log_size = 0 /\ curr_log_size + line <= max_log_size
        BY <1>2, <3>1 DEF RoomForLine
      <4> QED  BY <2>1, <2>2, <3>1, <4>1 DEF RoomForLine
    <3>2. CASE pc = "initCleanup"
      <4>1. ~stuck => logfile.size <= max_log_size
        BY <3>2 DEF RoomForLine
      <4> QED  BY <2>1, <2>2, <3>2, <4>1 DEF RoomForLine
    <3> QED  BY <2>2, <3>1, <3>2
  <2> QED  BY <2>3, <2>4, <2>5
<1>8. CASE UnlinkFails
  BY <1>8 DEF UnlinkFails, SizeTypes, SizeKnown, RoomForLine, limits, disk, faults
<1> QED  BY <1>3, <1>4, <1>5, <1>6, <1>7, <1>8

(* The steps of init_daemon_logger. *)
LEMMA StartStep ==
  ASSUME SizeInv, Start \/ InitRotate \/ Scan \/ InitOpen \/ InitFails
  PROVE  SizeInv'
<1> USE DEF SizeInv
<1>1. CASE Start
  <2>1. PICK m \in ConfSizes, b \in ConfBackups :
          max_log_size' = IF m < 1 THEN DefSize ELSE m
    BY <1>1 DEF Start, LimitsAndSize
  <2>2. max_log_size' \in Limits
    BY <2>1, RotateAssumption DEF Limits
  <2>3. max_log_size' \in Nat
    BY <2>2, LimitKnown
  <2>4. /\ pc = "down" /\ logfile' = logfile /\ flushed' = flushed
        /\ line' = line /\ gen' = gen /\ lost' = lost
    BY <1>1 DEF Start, disk, faults, history
  <2>5. /\ logfile \in [size : Nat, gen : Nat] /\ logfile.size \in Nat
        /\ curr_log_size = 0 /\ lost = 0
    BY <2>4 DEF SizeTypes, SizeKnown
  <2>6. \/ pc' = "initRotate" /\ curr_log_size' = curr_log_size
        \/ pc' = "scan" /\ curr_log_size' = logfile.size /\ logfile.size < max_log_size'
    BY <1>1 DEF Start, LimitsAndSize
  <2>7. SizeTypes'
    BY <2>2, <2>4, <2>5, <2>6 DEF SizeTypes
  <2>8. SizeKnown'
    BY <2>4, <2>5, <2>6 DEF SizeKnown
  <2>9. RoomForLine'
    <3>1. pc' = "scan" => logfile'.size <= max_log_size'
      BY <2>3, <2>4, <2>5, <2>6
    <3>2. pc' \in {"scan", "initRotate"}
      BY <2>6
    <3> QED  BY <3>1, <3>2 DEF RoomForLine
  <2> QED  BY <2>7, <2>8, <2>9
<1>2. CASE InitRotate
  <2>1. max_log_size \in Nat
    BY <1>2, LimitKnown DEF InitRotate, SizeTypes
  <2> QED
    BY <1>2, <2>1 DEF InitRotate, Rename, SizeTypes, SizeKnown, RoomForLine, Absent, limits
<1>3. CASE Scan
  BY <1>3 DEF Scan, SizeTypes, SizeKnown, RoomForLine, limits, disk, faults
<1>4. CASE InitOpen
  <2>1. OpenLog
    BY <1>4 DEF InitOpen
  <2> QED
    BY <1>4, <2>1, OpenKeepsSize DEF InitOpen, SizeTypes, SizeKnown, RoomForLine, limits, faults
<1>5. CASE InitFails
  BY <1>5 DEF InitFails, Destroy, SizeTypes, SizeKnown, RoomForLine, disk, history
<1> QED  BY <1>1, <1>2, <1>3, <1>4, <1>5

-----------------------------------------------------------------------------
(* The steps of write_daemon_log. *)
LEMMA WriteStep ==
  ASSUME SizeInv, NEW n \in LineSizes, Write(n)
  PROVE  SizeInv'
<1> USE DEF SizeInv
<1>1. n \in Nat /\ max_log_size \in Nat
  BY LimitKnown DEF Write, SizeTypes
<1>2. CASE curr_log_size + n > max_log_size
  <2>1. FlushSome
    BY <1>2 DEF Write
  <2> QED
    BY <1>1, <1>2, <2>1, FlushKeepsTypes DEF Write, SizeTypes, SizeKnown, RoomForLine, limits,
                                             history
<1>3. CASE ~(curr_log_size + n > max_log_size)
  BY <1>1, <1>3 DEF Write, SizeTypes, SizeKnown, RoomForLine, limits, history
<1> QED  BY <1>2, <1>3

(* A line that reaches the file whole. *)
LEMMA AppendLineStep ==
  ASSUME SizeInv, AppendLine
  PROVE  SizeInv'
<1>1. SizeTypes /\ SizeKnown /\ RoomForLine
  BY DEF SizeInv
<1>2. /\ pc = "append line" /\ pc' = "idle" /\ line' = 0
      /\ lost' = lost /\ stuck' = stuck
      /\ max_log_size' = max_log_size /\ gen' = gen
  BY DEF AppendLine, limits, faults, history
<1>3. /\ logfile' = [logfile EXCEPT !.size = logfile.size + line]
      /\ curr_log_size' = curr_log_size + line
      /\ flushed' = flushed /\ lost' = lost
  BY DEF AppendLine, faults
<1>4. max_log_size \in Limits /\ max_log_size \in Nat /\ line \in Nat
  BY <1>1, <1>2, LimitInForce
<1>5. /\ logfile \in [size : Nat, gen : Nat] /\ gen \in Nat
      /\ flushed \in 0 .. logfile.size
      /\ curr_log_size \in Nat /\ lost \in Nat
      /\ curr_log_size = logfile.size + lost
  BY <1>1, <1>2 DEF SizeTypes, SizeKnown
<1>6. logfile.size \in Nat /\ logfile.size + line \in Nat
  BY <1>4, <1>5
<1>7. logfile' \in [size : Nat, gen : Nat] /\ logfile'.size = logfile.size + line
  BY <1>3, <1>5, <1>6
<1>8. curr_log_size' \in Nat /\ curr_log_size' = logfile'.size + lost'
  BY <1>3, <1>4, <1>5, <1>6, <1>7
<1>9. flushed' \in 0 .. logfile'.size
  BY <1>3, <1>4, <1>5, <1>6, <1>7
<1>10. SizeTypes'
  BY <1>2, <1>4, <1>5, <1>7, <1>8, <1>9 DEF SizeTypes
<1>11. SizeKnown'
  BY <1>2, <1>8 DEF SizeKnown
<1>12. RoomForLine'
  <2>1. ASSUME ~stuck PROVE logfile.size + line <= max_log_size
    <3>1. curr_log_size + line <= max_log_size
      BY <1>1, <1>2, <2>1 DEF RoomForLine
    <3> QED  BY <1>4, <1>5, <1>6, <3>1
  <2> QED  BY <1>2, <1>7, <2>1 DEF RoomForLine
<1> QED  BY <1>10, <1>11, <1>12 DEF SizeInv

(* A line that is cut short, and the loss of what stdio had buffered. *)
LEMMA FallsShortStep ==
  ASSUME SizeInv, AppendFallsShort
  PROVE  SizeInv'
<1>1. SizeTypes /\ SizeKnown /\ RoomForLine
  BY DEF SizeInv
<1>2. /\ pc = "append line" /\ pc' = "idle" /\ line' = 0
      /\ stuck' = stuck /\ max_log_size' = max_log_size /\ gen' = gen
  BY DEF AppendFallsShort, limits, history
<1>3. max_log_size \in Limits /\ max_log_size \in Nat /\ line \in Nat
  BY <1>1, <1>2, LimitInForce
<1>4. /\ logfile \in [size : Nat, gen : Nat] /\ gen \in Nat
      /\ flushed \in 0 .. logfile.size
      /\ curr_log_size \in Nat /\ lost \in Nat
      /\ curr_log_size = logfile.size + lost
  BY <1>1, <1>2 DEF SizeTypes, SizeKnown
<1>5. PICK written \in 0 .. line :
        \E s \in flushed .. (logfile.size + written) :
           /\ logfile' = [logfile EXCEPT !.size = s]
           /\ flushed' = s
           /\ curr_log_size' = curr_log_size + written
           /\ lost' = lost + logfile.size + written - s
  BY DEF AppendFallsShort
<1>6. PICK s \in flushed .. (logfile.size + written) :
        /\ logfile' = [logfile EXCEPT !.size = s]
        /\ flushed' = s
        /\ curr_log_size' = curr_log_size + written
        /\ lost' = lost + logfile.size + written - s
  BY <1>5
<1>7. logfile.size \in Nat /\ flushed \in Nat
  BY <1>4
<1>8. written \in Nat /\ written <= line
  BY <1>3
<1>9. s \in Nat /\ s <= logfile.size + written
  BY <1>4, <1>7, <1>8
<1>10. logfile' \in [size : Nat, gen : Nat] /\ logfile'.size = s
  BY <1>4, <1>6, <1>9
<1>11. curr_log_size' \in Nat /\ lost' \in Nat /\ curr_log_size' = s + lost'
  BY <1>4, <1>6, <1>7, <1>8, <1>9
<1>12. SizeTypes'
  <2>1. flushed' \in 0 .. logfile'.size
    BY <1>6, <1>9, <1>10
  <2> QED  BY <1>2, <1>3, <1>4, <1>10, <1>11, <2>1 DEF SizeTypes
<1>13. SizeKnown'
  BY <1>2, <1>10, <1>11 DEF SizeKnown
<1>14. RoomForLine'
  <2>1. ASSUME ~stuck PROVE s <= max_log_size
    <3>1. curr_log_size + line <= max_log_size
      BY <1>1, <1>2, <2>1 DEF RoomForLine
    <3> QED  BY <1>3, <1>4, <1>7, <1>8, <1>9, <3>1
  <2> QED  BY <1>2, <1>10, <2>1 DEF RoomForLine
<1> QED  BY <1>12, <1>13, <1>14 DEF SizeInv

(* The log file is opened, or the line dropped. *)
LEMMA OpenStep ==
  ASSUME SizeInv, Open \/ OpenFails
  PROVE  SizeInv'
<1>1. SizeTypes /\ SizeKnown /\ RoomForLine
  BY DEF SizeInv
<1>2. /\ pc = "open" /\ pc' \in {"idle", "append line"}
      /\ pc' = "append line" => line' = line
      /\ pc' = "idle" => line' = 0
      /\ curr_log_size' = curr_log_size /\ lost' = lost /\ stuck' = stuck
      /\ max_log_size' = max_log_size
  BY DEF Open, OpenFails, limits, faults, memory
<1>3. max_log_size \in Limits /\ max_log_size \in Nat /\ line \in Nat
  BY <1>1, <1>2, LimitInForce
<1>4. /\ logfile \in [size : Nat, gen : Nat] /\ gen \in Nat
      /\ flushed \in 0 .. logfile.size
      /\ curr_log_size \in Nat /\ lost \in Nat
      /\ curr_log_size = logfile.size + lost
  BY <1>1, <1>2 DEF SizeTypes, SizeKnown
<1>5. logfile.size \in Nat
  BY <1>4
<1>6. /\ logfile' \in [size : Nat, gen : Nat] /\ gen' \in Nat
      /\ logfile'.size = logfile.size /\ flushed' \in 0 .. logfile.size
  <2>1. CASE OpenLog
    BY <1>1, <1>5, <2>1, OpenKeepsSize
  <2>2. CASE ~OpenLog
    <3>1. logfile' = logfile /\ gen' = gen /\ flushed' = flushed
      BY <2>2 DEF Open, OpenFails, disk, history
    <3> QED  BY <1>4, <3>1
  <2> QED  BY <2>1, <2>2
<1>7. SizeTypes'
  BY <1>1, <1>2, <1>3, <1>4, <1>6 DEF SizeTypes
<1>8. SizeKnown'
  BY <1>2, <1>4, <1>6 DEF SizeKnown
<1>9. RoomForLine'
  <2>1. ASSUME ~stuck PROVE curr_log_size + line <= max_log_size
    BY <1>1, <1>2, <2>1 DEF RoomForLine
  <2>2. ASSUME ~stuck PROVE logfile.size <= max_log_size
    BY <1>3, <1>4, <1>5, <2>1, <2>2
  <2> QED  BY <1>2, <1>6, <2>1, <2>2 DEF RoomForLine
<1> QED  BY <1>7, <1>8, <1>9 DEF SizeInv

-----------------------------------------------------------------------------
LEMMA EndStep ==
  ASSUME SizeInv, Stop \/ Crash
  PROVE  SizeInv'
<1>1. SizeTypes /\ FlushSome /\ Destroy /\ gen' = gen
  BY DEF SizeInv, Stop, Crash, history
<1>2. /\ logfile' \in [size : Nat, gen : Nat]
      /\ flushed' = logfile'.size /\ flushed' \in Nat
  BY <1>1, FlushKeepsTypes
<1>3. SizeTypes'
  BY <1>1, <1>2 DEF Destroy, SizeTypes
<1>4. SizeKnown' /\ RoomForLine'
  BY <1>1 DEF Destroy, SizeKnown, RoomForLine
<1> QED  BY <1>3, <1>4 DEF SizeInv

LEMMA SizeStep == SizeInv /\ [Next]_vars => SizeInv'
<1> SUFFICES ASSUME SizeInv, [Next]_vars PROVE SizeInv'
  OBVIOUS
<1>1. CASE Tick \/ UNCHANGED vars
  BY <1>1 DEF Tick, vars, disk, limits, memory, faults, history, SizeInv, SizeTypes, SizeKnown,
              RoomForLine
<1>2. CASE \E n \in LineSizes : Write(n)
  BY <1>2, WriteStep
<1>3. CASE Next
  BY <1>1, <1>2, <1>3, RotationStep, StartStep, OpenStep,
     AppendLineStep, FallsShortStep, EndStep DEF Next
<1> QED  BY <1>1, <1>3

(* The inductive invariant holds in every state (logger.c:154-188,472-562). *)
THEOREM SizesKnown == Spec => []SizeInv
<1>1. Init => SizeInv  BY SizeInit
<1>2. SizeInv /\ [Next]_vars => SizeInv'  BY SizeStep
<1> QED  BY <1>1, <1>2, PTL DEF Spec

(* Between two lines the tracked size is that of the file and what stdio   *)
(* has lost of it, through every failed rename, failed open, short write,  *)
(* crash and restart (logger.c:485,550,557).                               *)
THEOREM Tracked == Spec => []SizeTracked
<1>1. SizeInv => SizeTracked  BY DEF SizeInv, SizeKnown, SizeTracked
<1> QED  BY <1>1, SizesKnown, PTL

(* The log file stays within the maximum in force, which may differ from   *)
(* start to start, unless it cannot be renamed (logger.c:160,543).         *)
THEOREM Bounded == Spec => []LogBounded
<1>1. SizeInv => LogBounded  BY DEF SizeInv, RoomForLine, LogBounded
<1> QED  BY <1>1, SizesKnown, PTL

-----------------------------------------------------------------------------
(* qsort: the list of a finite set of names holds each of them, once and in *)
(* ascending order.                                                        *)
LEMMA ByNameSorted ==
  ASSUME NEW S \in SUBSET Nat, IsFiniteSet(S)
  PROVE  /\ ByName(S) \in Seq(S)
         /\ ToSet(ByName(S)) = S
         /\ \A i, j \in 1 .. Len(ByName(S)) : i < j => ByName(S)[i] < ByName(S)[j]
<1> DEFINE n == Cardinality(S)
           Below(x) == {m \in S : m <= x}
           rank == [x \in S |-> Cardinality(Below(x))]
           f == ByName(S)
<1>1. n \in Nat  BY FS_CardinalityType
<1>2. ASSUME NEW x \in S PROVE IsFiniteSet(Below(x)) /\ rank[x] \in 1 .. n
  <2>1. Below(x) \in SUBSET S  OBVIOUS
  <2>2. IsFiniteSet(Below(x)) /\ Cardinality(Below(x)) <= n  BY <2>1, FS_Subset
  <2>3. Cardinality(Below(x)) \in Nat  BY <2>2, FS_CardinalityType
  <2>4. x \in Below(x)  OBVIOUS
  <2>5. Cardinality(Below(x)) # 0  BY <2>2, <2>4, FS_EmptySet
  <2> QED  BY <1>1, <2>2, <2>3, <2>5
<1>3. ASSUME NEW x \in S, NEW y \in S, x < y PROVE rank[x] < rank[y]
  <2>0. \A m \in S : m <= x => m <= y  BY <1>3
  <2>1. Below(x) \in SUBSET Below(y)  BY <2>0
  <2>2. y \in Below(y) /\ y \notin Below(x)  BY <1>3
  <2>3. Below(x) # Below(y)  BY <2>2
  <2>4. IsFiniteSet(Below(x)) /\ IsFiniteSet(Below(y))  BY <1>2
  <2> HIDE DEF Below
  <2>5. /\ Cardinality(Below(x)) <= Cardinality(Below(y))
        /\ Cardinality(Below(x)) # Cardinality(Below(y))
    BY <2>1, <2>3, <2>4, FS_Subset
  <2>6. rank[x] \in 1 .. n /\ rank[y] \in 1 .. n  BY <1>2
  <2>7. rank[x] <= rank[y] /\ rank[x] # rank[y]  BY <2>5
  <2> QED  BY <1>1, <2>6, <2>7
<1>4. rank \in [S -> 1 .. n]  BY <1>2
<1> HIDE DEF rank
<1>5. \A x, y \in S : rank[x] = rank[y] => x = y
  <2> SUFFICES ASSUME NEW x \in S, NEW y \in S, rank[x] = rank[y], x # y PROVE FALSE
    OBVIOUS
  <2>1. x < y \/ y < x  OBVIOUS
  <2>2. rank[x] \in Nat /\ rank[y] \in Nat  BY <1>1, <1>4
  <2>3. rank[x] < rank[y] \/ rank[y] < rank[x]  BY <1>3, <2>1
  <2> QED  BY <2>2, <2>3
<1>6. \A i \in 1 .. n : \E x \in S : rank[x] = i
  <2>1. rank \in Injection(S, 1 .. n)  BY <1>4, <1>5 DEF Injection, IsInjective
  <2>2. IsFiniteSet(1 .. n) /\ Cardinality(1 .. n) = n  BY <1>1, FS_Interval
  <2>3. rank \in Surjection(S, 1 .. n)  BY <2>1, <2>2, FS_Injection
  <2> QED  BY <2>3 DEF Surjection
<1>7. /\ DOMAIN f = 1 .. n
      /\ \A i \in 1 .. n : f[i] \in S /\ rank[f[i]] = i
  <2>1. DOMAIN f = 1 .. n  BY DEF ByName
  <2>2. ASSUME NEW i \in 1 .. n PROVE f[i] \in S /\ rank[f[i]] = i
    <3>1. f[i] = CHOOSE x \in S : Cardinality(Below(x)) = i  BY DEF ByName
    <3>2. \E x \in S : Cardinality(Below(x)) = i  BY <1>6 DEF rank
    <3>3. f[i] \in S /\ Cardinality(Below(f[i])) = i  BY <3>1, <3>2
    <3> QED  BY <3>3 DEF rank
  <2> QED  BY <2>1, <2>2
<1>8. f = [i \in 1 .. n |-> f[i]]  BY DEF ByName
<1> HIDE DEF f, n
<1>9. f \in [1 .. n -> S]  BY <1>7, <1>8
<1>10. f \in Seq(S) /\ Len(f) = n  BY <1>1, <1>9, SeqDef, LenProperties
<1>11. ASSUME NEW i \in 1 .. n, NEW j \in 1 .. n, i < j PROVE f[i] < f[j]
  <2>1. f[i] \in Nat /\ f[j] \in Nat /\ rank[f[i]] < rank[f[j]]  BY <1>1, <1>7, <1>11
  <2>2. f[i] # f[j]  BY <1>1, <2>1, <1>7
  <2>3. ~ f[j] < f[i]  BY <1>1, <1>3, <1>7, <2>1
  <2> QED  BY <2>1, <2>2, <2>3
<1>12. ToSet(f) = S
  <2>1. \A x \in S : f[rank[x]] = x  BY <1>4, <1>5, <1>7
  <2> QED  BY <1>4, <1>7, <2>1 DEF ToSet
<1> QED  BY <1>10, <1>11, <1>12 DEF f

-----------------------------------------------------------------------------
(* The backups.  What each variable may become in a step. *)

LEMMA TypeFacts ==
  ASSUME TypeOK
  PROVE  /\ now \in Nat /\ last \in Nat /\ gen \in Nat /\ max_backup \in Nat
         /\ Names \in SUBSET Nat /\ IsFiniteSet(Names)
         /\ \A n \in Names : n \in Nat /\ backups[n] \in Nat /\ backups[n] <= gen
<1>1. /\ now \in 1 .. MaxTime /\ last \in 0 .. MaxTime /\ gen \in Nat /\ max_backup \in Nat
      /\ Names \subseteq 1 .. MaxTime /\ \A n \in Names : backups[n] \in 1 .. gen
  BY DEF TypeOK
<1>2. MaxTime \in Nat  BY RotateAssumption
<1>3. IsFiniteSet(1 .. MaxTime)  BY <1>2, FS_Interval
<1>4. IsFiniteSet(Names)  BY <1>1, <1>3, FS_Subset
<1> QED  BY <1>1, <1>2, <1>4

LEMMA TimeStep ==
  ASSUME [Next]_vars
  PROVE  \/ now' = now /\ last' = last
         \/ now < MaxTime /\ now' = now + 1 /\ last' = last
         \/ (Rotate \/ InitRotate) /\ now' = now /\ last' = now
BY DEF Next, vars, history, Tick, Start, InitRotate, Scan, InitOpen, InitFails, Write, Rotate,
       RotateFails, AppendBackup, AppendFails, Cleanup, UnlinkFails, Open, OpenFails, AppendLine,
       AppendFallsShort, Stop, Crash, Rename

LEMMA BackupsStep ==
  ASSUME [Next]_vars
  PROVE  \/ UNCHANGED backups
         \/ Rotate \/ InitRotate
         \/ Cleanup /\ Len(files) > max_backup
BY DEF Next, vars, disk, Tick, Start, Scan, InitOpen, InitFails, Write,
       RotateFails, AppendBackup, AppendFails, Cleanup, UnlinkFails, Open, OpenFails, AppendLine,
       AppendFallsShort, Stop, Crash

LEMMA GenerationStep ==
  ASSUME SizeTypes, [Next]_vars, ~Rotate, ~InitRotate
  PROVE  \/ gen' = gen /\ logfile'.gen = logfile.gen
         \/ ~Exists /\ gen' = gen + 1 /\ logfile'.gen = gen'
<1>0. logfile \in [size : Nat, gen : Nat]  BY DEF SizeTypes
<1>1. CASE gen' = gen /\ logfile' = logfile  BY <1>1
<1>2. CASE InitOpen \/ Open
  <2>1. CASE OpenLog /\ Exists  BY <1>1, <2>1 DEF OpenLog
  <2>2. CASE OpenLog /\ ~Exists
    <3>1. gen' = gen + 1 /\ logfile' = [size |-> 0, gen |-> gen + 1]  BY <2>2 DEF OpenLog
    <3> QED  BY <2>2, <3>1
  <2>3. CASE ~OpenLog  BY <1>1, <1>2, <2>3 DEF InitOpen, Open
  <2> QED  BY <2>1, <2>2, <2>3
<1>3. CASE \E n \in LineSizes : Write(n)
  BY <1>0, <1>3 DEF Write, FlushSome, history
<1>4. CASE AppendLine \/ AppendFallsShort
  BY <1>0, <1>4 DEF AppendLine, AppendFallsShort, history
<1>5. CASE Stop \/ Crash
  BY <1>0, <1>5 DEF Stop, Crash, FlushSome, history
<1> QED
  BY <1>1, <1>2, <1>3, <1>4, <1>5
     DEF Next, vars, disk, history, Tick, Start, Scan, InitFails, RotateFails, AppendBackup,
         AppendFails, Cleanup, UnlinkFails, OpenFails

LEMMA LimitsStep ==
  ASSUME [Next]_vars
  PROVE  \/ UNCHANGED limits
         \/ pc' = "down" /\ max_log_size' = 0 /\ max_backup' = 0
         \/ /\ pc = "down" /\ pc' \in {"initRotate", "scan"}
            /\ \E m \in ConfSizes, b \in ConfBackups :
                  /\ max_log_size' = IF m < 1 THEN DefSize ELSE m
                  /\ max_backup' = IF b < 1 THEN 0 ELSE b
BY DEF Next, vars, Tick, Start, LimitsAndSize, InitRotate, Scan, InitOpen, InitFails, Write,
       Rotate, RotateFails, AppendBackup, AppendFails, Cleanup, UnlinkFails, Open, OpenFails,
       AppendLine, AppendFallsShort, Stop, Crash, Destroy

LEMMA FlagsStep ==
  ASSUME TypeOK, [Next]_vars
  PROVE  /\ fp' \in BOOLEAN /\ stuck' \in BOOLEAN
         /\ pc' \in {"down", "initRotate", "scan", "initCleanup", "initOpen", "idle",
                     "rotate", "append", "cleanup", "open", "append line"}
<1>1. fp' \in BOOLEAN
  BY DEF TypeOK, Next, vars, memory, Tick, Start, InitRotate, Scan, InitOpen, InitFails, Write,
         Rotate, RotateFails, AppendBackup, AppendFails, Cleanup, UnlinkFails, Open, OpenFails,
         AppendLine, AppendFallsShort, Stop, Crash, Destroy, OpenLog
<1>2. stuck' \in BOOLEAN
  BY DEF TypeOK, Next, vars, faults, Tick, Start, InitRotate, Scan, InitOpen, InitFails, Write,
         Rotate, RotateFails, AppendBackup, AppendFails, Cleanup, UnlinkFails, Open, OpenFails,
         AppendLine, AppendFallsShort, Stop, Crash, Destroy, Rename
<1>3. pc' \in {"down", "initRotate", "scan", "initCleanup", "initOpen", "idle",
               "rotate", "append", "cleanup", "open", "append line"}
  BY DEF TypeOK, Next, vars, Tick, Start, LimitsAndSize, InitRotate, Scan, InitOpen, InitFails,
         Write, Rotate, RotateFails, AppendBackup, AppendFails, Cleanup, UnlinkFails, Open,
         OpenFails, AppendLine, AppendFallsShort, Stop, Crash, Destroy
<1> QED  BY <1>1, <1>2, <1>3

(* What becomes of the list, and of the backups outside it. *)
LEMMA ListStep ==
  ASSUME [Next]_vars
  PROVE  \/ UNCHANGED <<files, forgotten>>
         \/ files' = <<>> /\ forgotten' = forgotten /\ pc' = "down"
         \/ (Rotate \/ InitRotate) /\ files' = files /\ forgotten' = forgotten \ {now}
         \/ Scan /\ files' = ByName(Names) /\ forgotten' = {}
         \/ AppendBackup /\ files' = Append(files, last) /\ forgotten' = forgotten
         \/ AppendFails /\ files' = files /\ forgotten' = forgotten \cup {last}
         \/ /\ Cleanup /\ Len(files) > max_backup
            /\ files' = Tail(files) /\ forgotten' = forgotten \ {Head(files)}
         \/ /\ UnlinkFails /\ files' = Tail(files)
            /\ forgotten' = forgotten \cup ({Head(files)} \cap Names)
<1>1. CASE Tick \/ Start \/ InitOpen \/ (\E n \in LineSizes : Write(n)) \/ RotateFails
           \/ Open \/ OpenFails \/ AppendLine \/ AppendFallsShort \/ UNCHANGED vars
  BY <1>1 DEF vars, memory, history, Tick, Start, InitOpen, Write, RotateFails, Open, OpenFails,
              AppendLine, AppendFallsShort
<1>2. CASE InitFails \/ Stop \/ Crash
  BY <1>2 DEF InitFails, Stop, Crash, Destroy, history
<1>3. CASE Rotate \/ InitRotate
  BY <1>3 DEF Rotate, InitRotate, Rename
<1>4. CASE Scan \/ AppendBackup \/ AppendFails
  BY <1>4 DEF Scan, AppendBackup, AppendFails, memory, history
<1>5. CASE Cleanup \/ UnlinkFails
  BY <1>5 DEF Cleanup, UnlinkFails
<1> QED  BY <1>1, <1>2, <1>3, <1>4, <1>5 DEF Next

-----------------------------------------------------------------------------
(* A rename moves a log file that was begun. *)
LEMMA FileBegunStep ==
  ASSUME TypeOK, SizeInv, FileBegun, [Next]_vars
  PROVE  FileBegun'
<1>0. /\ SizeTypes /\ SizeKnown /\ FileBegun
      /\ logfile \in [size : Nat, gen : Nat] /\ logfile.size \in Nat /\ logfile.gen \in Nat
      /\ gen \in Nat /\ flushed \in 0 .. logfile.size /\ lost \in Nat
  BY DEF SizeInv, SizeTypes
<1>a. /\ logfile.gen = 0 => logfile.size = 0 /\ lost = 0 /\ fp = FALSE
      /\ fp => logfile.gen # 0
      /\ logfile.gen \in {0, gen}
  BY DEF TypeOK, FileBegun
<1>1. CASE Rotate \/ InitRotate
  <2>1. /\ logfile' = Absent /\ lost' = 0 /\ fp' = fp
        /\ pc \in {"rotate", "initRotate"} /\ pc' \in {"append", "open", "scan"}
    BY <1>1 DEF Rotate, InitRotate, Rename
  <2> QED  BY <1>0, <2>1 DEF FileBegun, Absent
<1>2. CASE ~Rotate /\ ~InitRotate
  <2>0. \/ gen' = gen /\ logfile'.gen = logfile.gen
        \/ ~Exists /\ gen' = gen + 1 /\ logfile'.gen = gen + 1
    BY <1>0, <1>2, GenerationStep
  <2>1. logfile'.gen \in {0, gen'}
    BY <1>0, <1>a, <2>0
  <2>2. ASSUME logfile'.gen = 0  PROVE logfile'.size = 0 /\ lost' = 0
    <3>1. logfile.gen = 0 /\ logfile.size = 0 /\ lost = 0 /\ ~fp
      BY <1>0, <1>a, <2>0, <2>2
    <3>2. flushed = 0  BY <1>0, <3>1
    <3>3. ~Exists  BY <1>0, <3>1 DEF Exists, Absent
    <3>4. ~OpenLog
      BY <1>0, <2>2, <3>3 DEF OpenLog
    <3>5. pc # "append line"  BY <3>1 DEF FileBegun
    <3>6. CASE FlushSome
      <4>1. PICK s \in 0 .. 0 : logfile' = [logfile EXCEPT !.size = s]
        BY <3>1, <3>2, <3>6 DEF FlushSome
      <4>2. logfile'.size = 0  BY <1>0, <4>1
      <4>3. \/ lost' = 0 \/ lost' = lost \/ lost' = lost + logfile.size - logfile'.size
        BY <1>2, <3>4, <3>5
           DEF Next, vars, faults, Tick, Start, Scan, InitOpen, InitFails, Write, RotateFails,
               AppendBackup, AppendFails, Cleanup, UnlinkFails, Open, OpenFails, AppendLine,
               AppendFallsShort, Stop, Crash, Destroy
      <4> QED  BY <3>1, <4>2, <4>3
    <3>7. CASE ~FlushSome
      <4>1. logfile' = logfile
        BY <1>2, <3>4, <3>5, <3>7
           DEF Next, vars, disk, Tick, Start, Scan, InitOpen, InitFails, Write, RotateFails,
               AppendBackup, AppendFails, Cleanup, UnlinkFails, Open, OpenFails, AppendLine,
               AppendFallsShort, Stop, Crash
      <4>2. \/ lost' = 0 \/ lost' = lost \/ lost' = lost + logfile.size - logfile'.size
        BY <1>2, <3>4, <3>5
           DEF Next, vars, faults, Tick, Start, Scan, InitOpen, InitFails, Write, RotateFails,
               AppendBackup, AppendFails, Cleanup, UnlinkFails, Open, OpenFails, AppendLine,
               AppendFallsShort, Stop, Crash, Destroy
      <4> QED  BY <3>1, <4>1, <4>2
    <3> QED  BY <3>6, <3>7
  <2>3. ASSUME fp'  PROVE logfile'.gen # 0 /\ pc' \in {"idle", "open", "append line"}
    <3>1. CASE OpenLog
      <4>1. logfile'.gen # 0
        <5>1. CASE Exists
          <6>1. logfile' = logfile /\ logfile.gen # 0
            BY <1>0, <1>a, <3>1, <5>1 DEF OpenLog, Exists, Absent
          <6> QED  BY <6>1
        <5>2. CASE ~Exists
          <6>1. logfile' = [size |-> 0, gen |-> gen + 1]  BY <3>1, <5>2 DEF OpenLog
          <6> QED  BY <1>0, <6>1
        <5> QED  BY <5>1, <5>2
      <4>2. pc' \in {"idle", "append line"} \/ ~(InitOpen \/ Open)
        BY DEF InitOpen, Open
      <4>3. CASE ~(InitOpen \/ Open)
        <5>1. fp /\ pc \in {"idle", "open", "append line"}
          BY <1>0, <1>2, <2>3, <4>3
             DEF FileBegun, Next, vars, memory, Tick, Start, Scan, InitFails, Write,
                 RotateFails, AppendBackup, AppendFails, Cleanup, UnlinkFails, OpenFails,
                 AppendLine, AppendFallsShort, Stop, Crash, Destroy
        <5>2. pc' \in {"idle", "open", "append line"}
          BY <1>2, <2>3, <4>3, <5>1
             DEF Next, vars, memory, Tick, Start, Scan, InitFails, Write,
                 RotateFails, AppendBackup, AppendFails, Cleanup, UnlinkFails, OpenFails,
                 AppendLine, AppendFallsShort, Stop, Crash, Destroy
        <5> QED  BY <4>1, <5>2
      <4> QED  BY <4>1, <4>2, <4>3
    <3>2. CASE ~OpenLog
      <4>1. fp /\ pc \in {"idle", "open", "append line"}
        BY <1>0, <1>2, <2>3, <3>2
           DEF FileBegun, Next, vars, memory, Tick, Start, Scan, InitOpen, InitFails, Write,
               RotateFails, AppendBackup, AppendFails, Cleanup, UnlinkFails, Open, OpenFails,
               AppendLine, AppendFallsShort, Stop, Crash, Destroy
      <4>2. pc' \in {"idle", "open", "append line"}
        BY <1>2, <2>3, <3>2, <4>1
           DEF Next, vars, memory, Tick, Start, Scan, InitOpen, InitFails, Write,
               RotateFails, AppendBackup, AppendFails, Cleanup, UnlinkFails, Open, OpenFails,
               AppendLine, AppendFallsShort, Stop, Crash, Destroy
      <4>3. logfile'.gen # 0
        <5>1. logfile.gen # 0  BY <1>a, <4>1, Zenon
        <5> QED  BY <1>0, <2>0, <5>1
      <4> QED  BY <4>2, <4>3
    <3> QED  BY <3>1, <3>2
  <2>4. pc' = "append line" => fp'
    BY <1>0, <1>2
       DEF FileBegun, Next, vars, memory, Tick, Start, LimitsAndSize, Scan, InitOpen, InitFails,
           Write, RotateFails, AppendBackup, AppendFails, Cleanup, UnlinkFails, Open, OpenFails,
           AppendLine, AppendFallsShort, Stop, Crash, Destroy, OpenLog
  <2>5. ASSUME pc' \in {"rotate", "initRotate"}  PROVE logfile'.gen # 0
    <3>1. CASE pc = pc'
      <4>1. logfile.gen # 0  BY <1>0, <2>5, <3>1 DEF FileBegun
      <4> QED  BY <1>0, <1>2, <4>1, GenerationStep
    <3>2. CASE \E n \in LineSizes : Write(n)
      <4>1. PICK n \in LineSizes : Write(n)  BY <3>2
      <4>2. n \in Nat /\ n <= max_log_size
        BY <1>0, <4>1, LimitKnown DEF Write, SizeTypes
      <4>3. curr_log_size + n > max_log_size /\ curr_log_size = logfile.size + lost
        BY <1>0, <2>5, <4>1 DEF Write, SizeKnown
      <4>4. max_log_size \in Nat  BY <1>0, <4>1, LimitKnown DEF Write, SizeTypes
      <4>5. ~(logfile.size = 0 /\ lost = 0)  BY <4>2, <4>3, <4>4
      <4>6. logfile.gen # 0  BY <1>a, <4>5
      <4> QED  BY <1>0, <2>0, <4>6
    <3>3. CASE Start
      <4>1. logfile.size >= max_log_size'  BY <2>5, <3>3 DEF Start, LimitsAndSize
      <4>2. PICK m \in ConfSizes : max_log_size' = IF m < 1 THEN DefSize ELSE m
        BY <3>3 DEF Start, LimitsAndSize
      <4>3. max_log_size' \in Nat /\ max_log_size' >= 1
        BY <4>2, RotateAssumption
      <4>4. logfile.size # 0  BY <4>1, <4>3
      <4>5. logfile.gen # 0  BY <1>a, <4>4
      <4> QED  BY <1>0, <2>0, <4>5
    <3> QED
      BY <1>2, <2>5, <3>1, <3>2, <3>3
         DEF Next, vars, Tick, Scan, InitOpen, InitFails, RotateFails, AppendBackup,
             AppendFails, Cleanup, UnlinkFails, Open, OpenFails, AppendLine, AppendFallsShort,
             Stop, Crash, Destroy
  <2> QED  BY <2>1, <2>2, <2>3, <2>4, <2>5 DEF FileBegun
<1> QED  BY <1>1, <1>2

(* The effect of a rename on the backups. *)
LEMMA Renamed ==
  ASSUME TypeOK, FileBegun, Rotate \/ InitRotate
  PROVE  /\ Names' = Names \cup {now}
         /\ backups'[now] = logfile.gen /\ logfile.gen # 0 /\ logfile.gen = gen
         /\ \A n \in Names : n # now => backups'[n] = backups[n]
         /\ logfile'.gen = 0 /\ last' = now /\ now' = now /\ gen' = gen
         /\ SameSecond \/ now > last
<1>1. /\ backups' = [n \in Names \cup {now} |-> IF n = now THEN logfile.gen ELSE backups[n]]
      /\ logfile' = Absent /\ last' = now /\ now' = now /\ gen' = gen
      /\ SameSecond \/ now > last
      /\ pc \in {"rotate", "initRotate"}
  BY DEF Rotate, InitRotate, Rename
<1>2. logfile.gen # 0 /\ logfile.gen = gen  BY <1>1 DEF FileBegun
<1>3. Names' = Names \cup {now}  BY <1>1 DEF Names
<1>4. logfile'.gen = 0  BY <1>1 DEF Absent
<1> QED  BY <1>1, <1>2, <1>3, <1>4

(* The effect of an unlink. *)
LEMMA Unlinked ==
  ASSUME Cleanup, Len(files) > max_backup
  PROVE  /\ Names' = Names \ {Head(files)}
         /\ \A n \in Names' : backups'[n] = backups[n]
         /\ files' = Tail(files) /\ forgotten' = forgotten \ {Head(files)}
         /\ last' = last /\ logfile' = logfile /\ gen' = gen
         /\ pc' = pc /\ pc \in {"cleanup", "initCleanup"} /\ max_backup' = max_backup
<1>1. backups' = [n \in Names \ {Head(files)} |-> backups[n]]
  BY DEF Cleanup, Without
<1>2. Names' = Names \ {Head(files)}  BY <1>1 DEF Names
<1> QED  BY <1>1, <1>2 DEF Cleanup, limits

LEMMA NamesInOrderStep ==
  ASSUME TypeOK, SizeInv, FileBegun, NamesInOrder, [Next]_vars
  PROVE  /\ NamesInOrder'
         /\ Names' \subseteq 1 .. MaxTime /\ \A n \in Names' : backups'[n] \in 1 .. gen'
<1> DEFINE Goal == /\ NamesInOrder'
                   /\ Names' \subseteq 1 .. MaxTime /\ \A n \in Names' : backups'[n] \in 1 .. gen'
<1> SUFFICES Goal  OBVIOUS
<1>0. /\ now \in 1 .. MaxTime /\ now \in Nat /\ last \in Nat /\ gen \in Nat
      /\ MaxTime \in Nat /\ Names \subseteq 1 .. MaxTime
      /\ \A n \in Names : n \in Nat /\ backups[n] \in 1 .. gen /\ backups[n] \in Nat
  BY TypeFacts, RotateAssumption DEF TypeOK
<1>1. /\ last <= now
      /\ \A n \in Names : n <= last /\ (logfile.gen # 0 => backups[n] < logfile.gen)
      /\ \A n, m \in Names : n < m => backups[n] < backups[m]
  BY DEF NamesInOrder
<1>2. last' <= now'  BY <1>0, <1>1, TimeStep
<1>3. CASE Rotate \/ InitRotate
  <2>1. /\ Names' = Names \cup {now}
        /\ backups'[now] = logfile.gen /\ logfile.gen # 0 /\ logfile.gen = gen
        /\ \A n \in Names : n # now => backups'[n] = backups[n]
        /\ logfile'.gen = 0 /\ last' = now /\ gen' = gen
    BY <1>3, Renamed
  <2>2. ASSUME NEW n \in Names'
        PROVE  n \in 1 .. MaxTime /\ n <= last' /\ backups'[n] \in 1 .. gen'
    BY <1>0, <1>1, <2>1
  <2>3. ASSUME NEW n \in Names', NEW m \in Names', n < m
        PROVE  backups'[n] < backups'[m]
    <3>1. n # now /\ n \in Names
      BY <1>0, <1>1, <2>1, <2>3
    <3>2. CASE m = now
      BY <1>1, <2>1, <3>1, <3>2
    <3>3. CASE m # now
      <4>1. m \in Names  BY <2>1, <3>3
      <4> QED  BY <1>1, <2>1, <2>3, <3>1, <3>3, <4>1
    <3> QED  BY <3>2, <3>3
  <2> QED  BY <1>2, <2>1, <2>2, <2>3 DEF NamesInOrder
<1>4. CASE Cleanup /\ Len(files) > max_backup
  <2>1. /\ Names' \subseteq Names /\ \A n \in Names' : backups'[n] = backups[n]
        /\ last' = last /\ logfile' = logfile /\ gen' = gen
    BY <1>4, Unlinked
  <2> QED  BY <1>0, <1>1, <1>2, <2>1 DEF NamesInOrder
<1>5. CASE UNCHANGED backups /\ ~Rotate /\ ~InitRotate
  <2>1. Names' = Names  BY <1>5 DEF Names
  <2>2. last' = last  BY <1>5, TimeStep
  <2>3. \/ gen' = gen /\ logfile'.gen = logfile.gen
        \/ gen' = gen + 1 /\ logfile'.gen = gen + 1
    BY <1>5, GenerationStep DEF SizeInv
  <2>4. ASSUME NEW n \in Names
        PROVE  /\ backups[n] \in 1 .. gen'
               /\ logfile'.gen # 0 => backups[n] < logfile'.gen
    BY <1>0, <1>1, <2>3
  <2> QED  BY <1>0, <1>1, <1>2, <1>5, <2>1, <2>2, <2>4 DEF NamesInOrder
<1> QED  BY <1>3, <1>4, <1>5, BackupsStep

-----------------------------------------------------------------------------
(* The list of backups. *)

LEMMA AppendListed ==
  ASSUME NEW S, NEW s \in Seq(S), NEW e \in S
  PROVE  /\ Append(s, e) \in Seq(S) /\ Len(Append(s, e)) = Len(s) + 1
         /\ ToSet(Append(s, e)) = ToSet(s) \cup {e}
<1>1. /\ Append(s, e) \in Seq(S) /\ Len(Append(s, e)) = Len(s) + 1
      /\ \A i \in 1 .. Len(s) : Append(s, e)[i] = s[i]
      /\ Append(s, e)[Len(s) + 1] = e
  BY AppendProperties
<1>2. Len(s) \in Nat /\ DOMAIN s = 1 .. Len(s) /\ DOMAIN Append(s, e) = 1 .. (Len(s) + 1)
  BY <1>1, LenProperties
<1> QED  BY <1>1, <1>2 DEF ToSet

LEMMA TailListed ==
  ASSUME NEW S, NEW s \in Seq(S), s # <<>>
  PROVE  /\ Tail(s) \in Seq(S) /\ Len(s) \in Nat \ {0} /\ Len(Tail(s)) = Len(s) - 1
         /\ \A i \in 1 .. Len(Tail(s)) : Tail(s)[i] = s[i + 1]
         /\ Head(s) = s[1]
         /\ ToSet(s) = ToSet(Tail(s)) \cup {Head(s)}
<1>1. /\ Tail(s) \in Seq(S) /\ Len(Tail(s)) = Len(s) - 1
      /\ \A i \in 1 .. Len(Tail(s)) : Tail(s)[i] = s[i + 1]
      /\ Head(s) = s[1]
  BY HeadTailProperties
<1>2. Len(s) \in Nat /\ Len(s) # 0  BY EmptySeq, LenProperties
<1>3. DOMAIN s = 1 .. Len(s) /\ DOMAIN Tail(s) = 1 .. (Len(s) - 1)
  BY <1>1, LenProperties
<1> DEFINE n == Len(s)
           t == Tail(s)
<1>4. \A i \in 1 .. (n - 1) : i + 1 \in 1 .. n  BY <1>2
<1>5. \A i \in 1 .. n : i = 1 \/ (i - 1 \in 1 .. (n - 1) /\ (i - 1) + 1 = i)  BY <1>2
<1>6. 1 \in 1 .. n  BY <1>2
<1>7. ToSet(s) = ToSet(t) \cup {s[1]}
  <2>1. /\ DOMAIN s = 1 .. n /\ DOMAIN t = 1 .. (n - 1)
        /\ \A i \in 1 .. (n - 1) : t[i] = s[i + 1]
    BY <1>1, <1>3
  <2> HIDE DEF n, t
  <2>2. ASSUME NEW x \in ToSet(s) PROVE x \in ToSet(t) \cup {s[1]}
    <3>1. PICK i \in 1 .. n : x = s[i]  BY <2>1 DEF ToSet
    <3>2. CASE i = 1  BY <3>1, <3>2
    <3>3. CASE i - 1 \in 1 .. (n - 1) /\ (i - 1) + 1 = i
      <4>1. t[i - 1] = x  BY <2>1, <3>1, <3>3
      <4> QED  BY <2>1, <3>3, <4>1 DEF ToSet
    <3> QED  BY <1>5, <3>2, <3>3
  <2>3. ASSUME NEW x \in ToSet(t) \cup {s[1]} PROVE x \in ToSet(s)
    BY <1>4, <1>6, <2>1, <2>3 DEF ToSet
  <2> QED  BY <2>2, <2>3
<1> QED  BY <1>1, <1>2, <1>7

Ascending(s) == \A i, j \in 1 .. Len(s) : i < j => s[i] < s[j]

(* In an ascending list everything after the head is greater. *)
LEMMA TailAscending ==
  ASSUME NEW s \in Seq(Nat), s # <<>>, Ascending(s)
  PROVE  /\ Ascending(Tail(s)) /\ Head(s) \notin ToSet(Tail(s))
         /\ \A m \in ToSet(Tail(s)) : m \in Nat /\ m > Head(s)
<1> DEFINE n == Len(s)
           t == Tail(s)
<1>1. /\ n \in Nat \ {0} /\ Len(t) = n - 1 /\ t \in Seq(Nat)
      /\ \A i \in 1 .. (n - 1) : t[i] = s[i + 1]
      /\ Head(s) = s[1]
  BY TailListed
<1>2. DOMAIN t = 1 .. (n - 1)  BY <1>1, LenProperties
<1>3. \A i, j \in 1 .. n : i < j => s[i] < s[j]  BY DEF Ascending
<1>4. \A i \in 1 .. n : s[i] \in Nat  BY ElementOfSeq
<1> HIDE DEF n, t
<1>5. ASSUME NEW i \in 1 .. (n - 1), NEW j \in 1 .. (n - 1), i < j
      PROVE  t[i] < t[j]
  <2>1. i + 1 \in 1 .. n /\ j + 1 \in 1 .. n /\ i + 1 < j + 1  BY <1>1, <1>5
  <2> QED  BY <1>1, <1>3, <2>1
<1>6. ASSUME NEW i \in 1 .. (n - 1)  PROVE t[i] \in Nat /\ t[i] > s[1]
  <2>1. 1 \in 1 .. n /\ i + 1 \in 1 .. n /\ 1 < i + 1  BY <1>1
  <2>2. s[1] < s[i + 1] /\ s[1] \in Nat /\ s[i + 1] \in Nat  BY <1>3, <1>4, <2>1
  <2> QED  BY <1>1, <2>2
<1>7. Ascending(t)  BY <1>1, <1>5 DEF Ascending
<1>8. \A m \in ToSet(t) : m \in Nat /\ m > s[1]  BY <1>2, <1>6 DEF ToSet
<1>9. s[1] \in Nat  BY <1>1, <1>4
<1>10. s[1] \notin ToSet(t)  BY <1>8, <1>9
<1> QED  BY <1>1, <1>7, <1>8, <1>10 DEF t

ListOK == ListComplete /\ (SameSecond \/ ListExact)
Quiet == Listing \ {"initCleanup", "cleanup", "append"}

(* Steps that touch neither the list nor the backups. *)
LEMMA ListSame ==
  ASSUME ListOK, UNCHANGED <<files, forgotten, backups, last>>,
         \/ pc' = pc /\ max_backup' = max_backup
         \/ pc \notin Listing /\ pc' \notin Listing
         \/ pc \in Quiet /\ pc' \in Quiet /\ max_backup' = max_backup
         \/ /\ pc \in {"initCleanup", "cleanup"} /\ pc' \in Quiet
            /\ Len(files) <= max_backup /\ max_backup' = max_backup
  PROVE  ListOK'
<1>1. Names' = Names  BY DEF Names
<1>2. CASE pc' = pc /\ max_backup' = max_backup
  BY <1>1, <1>2 DEF ListOK, ListComplete, ListExact, Unlisted
<1>3. CASE pc \notin Listing /\ pc' \notin Listing
  <2>1. pc' \notin {"initCleanup", "cleanup", "append"}  BY <1>3 DEF Listing
  <2> QED  BY <1>1, <1>3, <2>1 DEF ListOK, ListComplete, ListExact
<1>4. CASE /\ pc' \in Quiet /\ max_backup' = max_backup
           /\ pc \in Listing /\ pc # "append" /\ Len(files) <= max_backup
  <2>1. /\ pc' \in Listing /\ pc' \notin {"initCleanup", "cleanup", "append"}
        /\ Unlisted' = forgotten /\ Unlisted = forgotten
    BY <1>4 DEF Quiet, Unlisted
  <2> QED  BY <1>1, <1>4, <2>1 DEF ListOK, ListComplete, ListExact
<1>5. pc \in Quiet => pc \in Listing /\ pc # "append" /\ Len(files) <= max_backup
  BY DEF Quiet, ListOK, ListComplete
<1>6. {"initCleanup", "cleanup"} \subseteq Listing  BY DEF Listing
<1> QED  BY <1>2, <1>3, <1>4, <1>5, <1>6

LEMMA ListTypes ==
  ASSUME TypeOK
  PROVE  files \in Seq(Nat) /\ Len(files) \in Nat /\ \A i \in 1 .. Len(files) : files[i] \in Nat
<1>1. files \in Seq(1 .. MaxTime) /\ MaxTime \in Nat
  BY RotateAssumption DEF TypeOK
<1>2. Len(files) \in Nat /\ files \in [1 .. Len(files) -> 1 .. MaxTime]
  BY <1>1, LenProperties
<1>3. \A i \in 1 .. MaxTime : i \in Nat  BY <1>1
<1>4. \A i \in 1 .. Len(files) : files[i] \in Nat  BY <1>2, <1>3
<1>5. files \in [1 .. Len(files) -> Nat]  BY <1>2, <1>4
<1> QED  BY <1>2, <1>4, <1>5, SeqDef

(* The end of the daemon, in any of its ways. *)
LEMMA ListGone ==
  ASSUME files' = <<>>, pc' \notin Listing
  PROVE  ListOK'
<1>1. pc' \notin {"initCleanup", "cleanup", "append"}  BY DEF Listing
<1>2. \A i, j \in 1 .. Len(files') : i < j => files'[i] < files'[j]  OBVIOUS
<1> QED  BY <1>1, <1>2 DEF ListOK, ListComplete, ListExact

(* The file that a rename has just made a backup is the one not listed yet. *)
LEMMA ListRotate ==
  ASSUME IInv, Rotate
  PROVE  ListOK'
<1>1. /\ TypeOK /\ FileBegun /\ NamesInOrder /\ ListComplete
      /\ SameSecond \/ (ListExact /\ now > last)
  BY Renamed DEF IInv
<1>2. Names' = Names \cup {now} /\ last' = now  BY <1>1, Renamed
<1>3. /\ files' = files /\ forgotten' = forgotten \ {now} /\ max_backup' = max_backup
      /\ pc = "rotate" /\ pc' = IF max_backup > 0 THEN "append" ELSE "open"
  BY DEF Rotate, Rename, limits
<1>4. max_backup \in Nat /\ now \in Nat /\ last \in Nat /\ \A n \in Names : n \in Nat /\ n <= last
  BY <1>1, TypeFacts DEF NamesInOrder
<1>5. pc \in Listing /\ Unlisted = forgotten /\ Len(files) <= max_backup
  BY <1>1, <1>3 DEF Listing, Unlisted, ListComplete
<1>6. CASE max_backup > 0
  <2>1. pc' = "append" /\ pc' \in Listing /\ Unlisted' = (forgotten \ {now}) \cup {now}
    BY <1>2, <1>3, <1>6 DEF Unlisted, Listing
  <2>2. Names \ forgotten \subseteq ToSet(files)
    BY <1>1, <1>5, <1>6 DEF ListComplete
  <2>3. ListComplete'
    BY <1>2, <1>3, <1>5, <1>6, <2>1, <2>2 DEF ListComplete
  <2>4. ASSUME ListExact, now > last PROVE ListExact'
    <3>1. ToSet(files) \subseteq Names \ forgotten  BY <1>5, <1>6, <2>4 DEF ListExact
    <3>2. now \notin Names  BY <1>4, <2>4
    <3> QED  BY <1>2, <1>3, <2>1, <2>4, <3>1, <3>2 DEF ListExact
  <2> QED  BY <1>1, <2>3, <2>4 DEF ListOK
<1>7. CASE ~(max_backup > 0)
  <2>1. pc' = "open" /\ pc' \in Listing  BY <1>3, <1>7 DEF Listing
  <2>2. ListComplete'  BY <1>3, <1>5, <1>7, <2>1 DEF ListComplete
  <2>3. ListExact => ListExact'  BY <1>3, <1>7 DEF ListExact
  <2> QED  BY <1>1, <2>2, <2>3 DEF ListOK
<1> QED  BY <1>6, <1>7

LEMMA ListScan ==
  ASSUME IInv, Scan
  PROVE  ListOK'
<1>1. TypeOK /\ ListComplete  BY DEF IInv
<1>2. /\ pc = "scan" /\ Names' = Names /\ max_backup' = max_backup
  BY DEF Scan, Names, disk, limits
<1>3. files = <<>> /\ max_backup \in Nat  BY <1>1, <1>2, TypeFacts DEF ListComplete, Listing
<1>4. CASE max_backup > 0
  <2>1. files' = ByName(Names) /\ forgotten' = {} /\ pc' = "initCleanup"
    BY <1>4 DEF Scan
  <2>2. /\ ToSet(files') = Names
        /\ \A i, j \in 1 .. Len(files') : i < j => files'[i] < files'[j]
    BY <1>1, <2>1, TypeFacts, ByNameSorted
  <2>3. pc' \in Listing /\ pc' \notin Listing \ {"initCleanup", "cleanup"} /\ Unlisted' = {}
    BY <2>1 DEF Listing, Unlisted
  <2> QED  BY <1>2, <1>4, <2>1, <2>2, <2>3 DEF ListOK, ListComplete, ListExact
<1>5. CASE ~(max_backup > 0)
  <2>1. files' = <<>> /\ pc' = "initOpen"  BY <1>3, <1>5 DEF Scan
  <2>2. pc' \in Listing  BY <2>1 DEF Listing
  <2>3. Len(files') <= max_backup'  BY <1>2, <1>3, <2>1
  <2>4. \A i, j \in 1 .. Len(files') : i < j => files'[i] < files'[j]  BY <2>1
  <2> QED  BY <1>2, <1>5, <2>1, <2>2, <2>3, <2>4 DEF ListOK, ListComplete, ListExact
<1> QED  BY <1>4, <1>5

(* The new backup goes to the end of the list, or is forgotten. *)
LEMMA ListAppend ==
  ASSUME IInv, AppendBackup \/ AppendFails
  PROVE  ListOK'
<1>1. TypeOK /\ ListComplete /\ NamesInOrder /\ (SameSecond \/ ListExact)  BY DEF IInv
<1>2. /\ pc = "append" /\ Names' = Names /\ max_backup' = max_backup
      /\ last' = last
  BY DEF AppendBackup, AppendFails, Names, disk, limits, history
<1>3. /\ pc \in Listing /\ max_backup > 0 /\ Len(files) <= max_backup
      /\ last \in Names \ forgotten /\ Names \ (forgotten \cup {last}) \subseteq ToSet(files)
  BY <1>1, <1>2 DEF ListComplete, Listing, Unlisted
<1>4. ListExact => /\ ToSet(files) \subseteq Names \ (forgotten \cup {last})
                   /\ \A i, j \in 1 .. Len(files) : i < j => files[i] < files[j]
  BY <1>2, <1>3 DEF ListExact, Unlisted
<1>5. /\ files \in Seq(Nat) /\ Len(files) \in Nat
      /\ \A i \in 1 .. Len(files) : files[i] \in Nat
      /\ last \in Nat
  BY <1>1, ListTypes, TypeFacts
<1>6. CASE AppendBackup
  <2>1. files' = Append(files, last) /\ forgotten' = forgotten /\ pc' = "cleanup"
    BY <1>6 DEF AppendBackup, history
  <2>2. /\ Len(files') = Len(files) + 1 /\ ToSet(files') = ToSet(files) \cup {last}
        /\ \A i \in 1 .. Len(files) : files'[i] = files[i]
        /\ files'[Len(files) + 1] = last
    BY <1>5, <2>1, AppendListed, AppendProperties
  <2>3. pc' \in Listing /\ pc' \notin Listing \ {"initCleanup", "cleanup"} /\ Unlisted' = forgotten
    BY <2>1 DEF Listing, Unlisted
  <2>4. ListComplete'
    BY <1>2, <1>3, <2>1, <2>2, <2>3 DEF ListComplete
  <2>5. ASSUME ListExact PROVE ListExact'
    <3>1. \A i \in 1 .. Len(files) : files[i] < last
      <4> SUFFICES ASSUME NEW i \in 1 .. Len(files) PROVE files[i] < last
        OBVIOUS
      <4>1. files[i] \in ToSet(files)  BY <1>5, LenProperties DEF ToSet
      <4>2. files[i] \in Names /\ files[i] # last  BY <1>4, <2>5, <4>1
      <4>3. files[i] <= last  BY <1>1, <4>2 DEF NamesInOrder
      <4> QED  BY <1>5, <4>2, <4>3
    <3> DEFINE n == Len(files)
    <3>2. ASSUME NEW i \in 1 .. (n + 1), NEW j \in 1 .. (n + 1), i < j
          PROVE  files'[i] < files'[j]
      <4>1. i \in 1 .. n /\ (j \in 1 .. n \/ j = n + 1)  BY <1>5, <3>2
      <4> QED  BY <1>4, <2>2, <2>5, <3>1, <3>2, <4>1
    <3>3. \A i, j \in 1 .. Len(files') : i < j => files'[i] < files'[j]
      BY <2>2, <3>2
    <3>4. ToSet(files') \subseteq Names \ forgotten  BY <1>3, <1>4, <2>2, <2>5
    <3> QED  BY <1>2, <2>3, <3>3, <3>4 DEF ListExact
  <2> QED  BY <1>1, <2>4, <2>5 DEF ListOK
<1>7. CASE AppendFails
  <2>1. files' = files /\ forgotten' = forgotten \cup {last} /\ pc' = "open"
    BY <1>7 DEF AppendFails, memory
  <2>2. pc' \in Listing /\ Unlisted' = forgotten \cup {last}
    BY <2>1 DEF Listing, Unlisted
  <2>3. ListComplete'
    BY <1>2, <1>3, <2>1, <2>2 DEF ListComplete
  <2>4. ListExact => ListExact'
    BY <1>2, <1>4, <2>1, <2>2 DEF ListExact
  <2> QED  BY <1>1, <2>3, <2>4 DEF ListOK
<1> QED  BY <1>6, <1>7

(* An unlink takes the head of the list from the disk, or forgets it. *)
LEMMA ListUnlink ==
  ASSUME IInv, (Cleanup /\ Len(files) > max_backup) \/ UnlinkFails
  PROVE  ListOK'
<1>1. TypeOK /\ ListComplete /\ (SameSecond \/ ListExact)  BY DEF IInv
<1>2. /\ pc \in {"cleanup", "initCleanup"} /\ pc' = pc /\ max_backup' = max_backup
      /\ Len(files) > max_backup /\ files' = Tail(files)
      /\ \/ Names' = Names \ {Head(files)} /\ forgotten' = forgotten \ {Head(files)}
         \/ Names' = Names /\ forgotten' = forgotten \cup ({Head(files)} \cap Names)
  BY Unlinked DEF UnlinkFails, Names, disk, limits
<1>3. /\ pc' \in Listing /\ pc' \notin Listing \ {"initCleanup", "cleanup"}
      /\ Unlisted = forgotten /\ Unlisted' = forgotten'
  BY <1>2 DEF Listing, Unlisted
<1>4. max_backup > 0 /\ Names \ forgotten \subseteq ToSet(files) /\ max_backup \in Nat
  BY <1>1, <1>2, <1>3, TypeFacts DEF ListComplete
<1>5. files \in Seq(Nat) /\ files # <<>>
  BY <1>1, <1>2, <1>4, ListTypes
<1>6. ToSet(files) = ToSet(files') \cup {Head(files)}
  BY <1>2, <1>5, TailListed
<1>7. Names' \ forgotten' \subseteq ToSet(files')
  BY <1>2, <1>4, <1>6
<1>8. ListComplete'
  BY <1>2, <1>3, <1>4, <1>7 DEF ListComplete
<1>9. ASSUME ListExact PROVE ListExact'
  <2>1. Ascending(files) /\ ToSet(files) \subseteq Names \ forgotten
    BY <1>2, <1>3, <1>4, <1>9 DEF ListExact, Ascending
  <2>2. Ascending(files') /\ Head(files) \notin ToSet(files')
    BY <1>2, <1>5, <2>1, TailAscending
  <2>3. ToSet(files') \subseteq Names' \ forgotten'
    BY <1>2, <1>6, <2>1, <2>2
  <2> QED  BY <1>2, <1>3, <2>2, <2>3 DEF ListExact, Ascending
<1> QED  BY <1>1, <1>8, <1>9 DEF ListOK

LEMMA ListOKStep ==
  ASSUME IInv, [Next]_vars
  PROVE  ListOK'
<1>0. ListOK /\ ListComplete  BY DEF IInv, ListOK
<1>1. CASE UNCHANGED vars \/ Tick
  <2>1. UNCHANGED <<files, forgotten, backups, last, pc, max_backup>>
    BY <1>1 DEF vars, Tick, disk, limits, memory, history
  <2> QED  BY <1>0, <2>1, ListSame
<1>2. CASE Start
  <2>1. /\ UNCHANGED <<files, forgotten, backups, last>>
        /\ pc = "down" /\ pc' \in {"initRotate", "scan"}
    BY <1>2 DEF Start, LimitsAndSize, disk, history
  <2>2. pc \notin Listing /\ pc' \notin Listing  BY <2>1 DEF Listing
  <2> QED  BY <1>0, <2>1, <2>2, ListSame
<1>3. CASE InitRotate
  <2>1. pc = "initRotate" /\ pc' = "scan" /\ files' = files  BY <1>3 DEF InitRotate
  <2>2. pc \notin Listing /\ pc' \notin Listing  BY <2>1 DEF Listing
  <2>3. files' = <<>>  BY <1>0, <2>1, <2>2 DEF ListComplete
  <2> QED  BY <2>2, <2>3, ListGone
<1>4. CASE InitFails \/ Stop \/ Crash
  <2>1. files' = <<>> /\ pc' = "down"  BY <1>4 DEF InitFails, Stop, Crash, Destroy
  <2>2. pc' \notin Listing  BY <2>1 DEF Listing
  <2> QED  BY <2>1, <2>2, ListGone
<1>5. CASE InitOpen \/ (\E n \in LineSizes : Write(n)) \/ RotateFails \/ Open \/ OpenFails
           \/ AppendLine \/ AppendFallsShort
  <2>1. UNCHANGED <<files, forgotten, backups, last, max_backup>>
    BY <1>5 DEF InitOpen, Write, RotateFails, Open, OpenFails, AppendLine, AppendFallsShort,
                disk, limits, memory, history
  <2>2. /\ pc \in {"initOpen", "idle", "rotate", "open", "append line"}
        /\ pc' \in {"initOpen", "idle", "rotate", "open", "append line"}
    BY <1>5 DEF InitOpen, Write, RotateFails, Open, OpenFails, AppendLine, AppendFallsShort
  <2>3. pc \in Quiet /\ pc' \in Quiet  BY <2>2 DEF Quiet, Listing
  <2> QED  BY <1>0, <2>1, <2>3, ListSame
<1>6. CASE Cleanup /\ ~(Len(files) > max_backup)
  <2>1. /\ UNCHANGED <<files, forgotten, backups, last, max_backup>>
        /\ pc \in {"cleanup", "initCleanup"} /\ pc' \in {"open", "initOpen"}
    BY <1>6 DEF Cleanup, limits
  <2>2. pc' \in Quiet  BY <2>1 DEF Quiet, Listing
  <2>3. Len(files) <= max_backup
    BY <1>6, ListTypes, TypeFacts DEF IInv
  <2> QED  BY <1>0, <2>1, <2>2, <2>3, ListSame
<1> QED
  BY <1>1, <1>2, <1>3, <1>4, <1>5, <1>6, ListRotate, ListScan, ListAppend, ListUnlink DEF Next

-----------------------------------------------------------------------------
(* The invariant as a whole. *)

LEMMA InvInit == Init => IInv
<1> SUFFICES ASSUME Init PROVE IInv
  OBVIOUS
<1>1. /\ now = 1 /\ last = 0 /\ gen = 0 /\ forgotten = {} /\ backups = <<>> /\ files = <<>>
      /\ pc = "down" /\ line = 0 /\ max_backup = 0 /\ max_log_size = 0 /\ fp = FALSE
      /\ stuck = FALSE /\ lost = 0 /\ curr_log_size = 0 /\ flushed = 0
      /\ logfile = [size |-> 0, gen |-> 0]
  BY DEF Init, Absent
<1>2. Names = {}  BY <1>1 DEF Names
<1>3. TypeOK
  <2>1. 1 \in 1 .. MaxTime /\ 0 \in 0 .. MaxTime  BY RotateAssumption
  <2>2. files \in Seq(1 .. MaxTime)  BY <1>1
  <2>3. /\ logfile \in [size : Nat, gen : Nat] /\ logfile.size = 0  BY <1>1
  <2>4. flushed \in 0 .. logfile.size /\ lost \in 0 .. curr_log_size  BY <1>1, <2>3
  <2>5. Names \subseteq 1 .. MaxTime /\ \A x \in Names : backups[x] \in 1 .. gen  BY <1>2
  <2>6. /\ pc \in {"down", "initRotate", "scan", "initCleanup", "initOpen", "idle",
                  "rotate", "append", "cleanup", "open", "append line"}
        /\ line \in LineSizes \cup {0} /\ gen \in Nat /\ forgotten \subseteq Names
        /\ fp \in BOOLEAN /\ stuck \in BOOLEAN
    BY <1>1
  <2>7. /\ now \in 1 .. MaxTime /\ last \in 0 .. MaxTime
        /\ curr_log_size \in Nat /\ max_log_size \in Nat /\ max_backup \in Nat
    BY <1>1, <2>1
  <2> QED  BY <2>2, <2>3, <2>4, <2>5, <2>6, <2>7 DEF TypeOK
<1>4. FileBegun /\ NamesInOrder  BY <1>1, <1>2 DEF FileBegun, NamesInOrder
<1>5. ListComplete /\ ListExact
  <2>1. pc \notin Listing /\ pc \notin {"initCleanup", "cleanup", "append"}
    BY <1>1 DEF Listing
  <2>2. \A i, j \in 1 .. Len(files) : i < j => files[i] < files[j]  BY <1>1
  <2> QED  BY <1>1, <2>1, <2>2 DEF ListComplete, ListExact
<1> QED  BY <1>3, <1>4, <1>5, SizeInit DEF IInv

(* The list holds names, and what failed calls left out of it is on disk. *)
LEMMA ListTypesStep ==
  ASSUME IInv, [Next]_vars, Names' \subseteq 1 .. MaxTime
  PROVE  files' \in Seq(1 .. MaxTime) /\ forgotten' \subseteq Names'
<1>1. /\ TypeOK /\ FileBegun /\ ListComplete /\ files \in Seq(1 .. MaxTime)
      /\ forgotten \subseteq Names /\ Names \subseteq 1 .. MaxTime
  BY DEF IInv, TypeOK
<1>2. CASE Rotate \/ InitRotate
  <2>1. Names' = Names \cup {now}  BY <1>1, <1>2, Renamed
  <2>2. files' = files /\ forgotten' = forgotten \ {now}
    BY <1>2 DEF Rotate, InitRotate, Rename
  <2> QED  BY <1>1, <2>1, <2>2
<1>3. CASE Cleanup /\ Len(files) > max_backup
  <2>1. /\ Names' = Names \ {Head(files)} /\ files' = Tail(files)
        /\ forgotten' = forgotten \ {Head(files)}
    BY <1>3, Unlinked
  <2>2. files # <<>>
    BY <1>1, <1>3, TypeFacts
  <2>3. Tail(files) \in Seq(1 .. MaxTime)  BY <1>1, <2>2, TailListed
  <2> QED  BY <1>1, <2>1, <2>3
<1>4. CASE /\ ~Rotate /\ ~InitRotate
           /\ ~(Cleanup /\ Len(files) > max_backup)
  <2>1. Names' = Names  BY <1>4, BackupsStep DEF Names
  <2>2. CASE UNCHANGED <<files, forgotten>>  BY <1>1, <2>1, <2>2
  <2>3. CASE files' = <<>> /\ forgotten' = forgotten  BY <1>1, <2>1, <2>3
  <2>4. CASE files' = ByName(Names) /\ forgotten' = {}
    <3>1. ByName(Names) \in Seq(Names)  BY <1>1, TypeFacts, ByNameSorted
    <3> DEFINE f == ByName(Names)
               n == Len(f)
    <3> HIDE DEF f
    <3>2. n \in Nat /\ f \in [1 .. n -> Names]  BY <3>1, LenProperties DEF f
    <3>3. f \in [1 .. n -> 1 .. MaxTime]  BY <1>1, <3>2
    <3>4. f \in Seq(1 .. MaxTime)  BY <3>2, <3>3, SeqDef
    <3> QED  BY <2>4, <3>4 DEF f
  <2>5. CASE AppendBackup /\ files' = Append(files, last) /\ forgotten' = forgotten
    <3>1. last \in Names  BY <1>1, <2>5 DEF ListComplete, AppendBackup
    <3>2. Append(files, last) \in Seq(1 .. MaxTime)  BY <1>1, <3>1, AppendListed
    <3> QED  BY <1>1, <2>1, <2>5, <3>2
  <2>6. CASE AppendFails /\ files' = files /\ forgotten' = forgotten \cup {last}
    <3>1. last \in Names  BY <1>1, <2>6 DEF ListComplete, AppendFails
    <3> QED  BY <1>1, <2>1, <2>6, <3>1
  <2>7. CASE /\ UnlinkFails /\ files' = Tail(files)
             /\ forgotten' = forgotten \cup ({Head(files)} \cap Names)
    <3>1. files # <<>>
      BY <1>1, <2>7, TypeFacts DEF UnlinkFails
    <3>2. Tail(files) \in Seq(1 .. MaxTime)  BY <1>1, <3>1, TailListed
    <3> QED  BY <1>1, <2>1, <2>7, <3>2
  <2> QED  BY <1>4, <2>2, <2>3, <2>4, <2>5, <2>6, <2>7, ListStep
<1> QED  BY <1>2, <1>3, <1>4

LEMMA TypeStep ==
  ASSUME IInv, [Next]_vars, SizeInv'
  PROVE  TypeOK'
<1>0. TypeOK /\ SizeInv /\ FileBegun /\ NamesInOrder  BY DEF IInv
<1>1. now' \in 1 .. MaxTime /\ last' \in 0 .. MaxTime
  <2>1. MaxTime \in Nat /\ now \in 1 .. MaxTime /\ last \in 0 .. MaxTime
    BY <1>0, RotateAssumption DEF TypeOK
  <2> QED  BY <2>1, TimeStep
<1>2. /\ logfile' \in [size : Nat, gen : Nat] /\ flushed' \in 0 .. logfile'.size
      /\ curr_log_size' \in Nat /\ line' \in LineSizes \cup {0} /\ gen' \in Nat
  BY DEF SizeInv, SizeTypes
<1>3. lost' \in 0 .. curr_log_size'
  <2>1. lost' \in Nat /\ logfile'.size \in Nat  BY <1>2 DEF SizeInv, SizeTypes
  <2>2. (curr_log_size' = 0 /\ lost' = 0) \/ curr_log_size' = logfile'.size + lost'
    BY DEF SizeInv, SizeKnown
  <2> QED  BY <2>1, <2>2
<1>4. max_log_size' \in Nat /\ max_backup' \in Nat
  <2>1. max_log_size \in Nat /\ max_backup \in Nat  BY <1>0 DEF TypeOK
  <2> QED  BY <2>1, LimitsStep, RotateAssumption DEF limits
<1>5. /\ fp' \in BOOLEAN /\ stuck' \in BOOLEAN
      /\ pc' \in {"down", "initRotate", "scan", "initCleanup", "initOpen", "idle",
                  "rotate", "append", "cleanup", "open", "append line"}
  BY <1>0, FlagsStep
<1>6. Names' \subseteq 1 .. MaxTime /\ \A n \in Names' : backups'[n] \in 1 .. gen'
  BY <1>0, NamesInOrderStep
<1>7. files' \in Seq(1 .. MaxTime) /\ forgotten' \subseteq Names'
  BY <1>6, ListTypesStep
<1> QED  BY <1>1, <1>2, <1>3, <1>4, <1>5, <1>6, <1>7 DEF TypeOK

LEMMA InvStep == IInv /\ [Next]_vars => IInv'
<1> SUFFICES ASSUME IInv, [Next]_vars PROVE IInv'
  OBVIOUS
<1>1. TypeOK /\ SizeInv /\ FileBegun /\ NamesInOrder  BY DEF IInv
<1>2. SizeInv'  BY <1>1, SizeStep
<1>3. TypeOK'  BY <1>2, TypeStep
<1>4. FileBegun'  BY <1>1, <1>2, FileBegunStep
<1>5. NamesInOrder'  BY <1>1, NamesInOrderStep
<1>6. ListOK'  BY ListOKStep
<1> QED  BY <1>2, <1>3, <1>4, <1>5, <1>6 DEF IInv, ListOK

(* The inductive invariant: what is listed, what is on disk, and in what    *)
(* order the names and the files behind them stand (logger.c:340-396).     *)
THEOREM Invariance == Spec => []IInv
BY InvInit, InvStep, PTL DEF Spec

(* Every variable keeps its type: names are seconds that have been, and     *)
(* what failed calls left outside the list is on disk (logger.c:340-562).  *)
THEOREM TypeCorrect == Spec => []TypeOK
<1>1. IInv => TypeOK  BY DEF IInv
<1> QED  BY <1>1, Invariance, PTL

(* A list has no more elements than places, and an ascending one as many. *)
LEMMA SetOfList ==
  ASSUME NEW S, NEW s \in Seq(S)
  PROVE  IsFiniteSet(ToSet(s)) /\ Cardinality(ToSet(s)) <= Len(s)
<1> DEFINE n == Len(s)
<1>1. n \in Nat /\ s \in [1 .. n -> S] /\ DOMAIN s = 1 .. n  BY LenProperties
<1> HIDE DEF n
<1>2. IsFiniteSet(1 .. n) /\ Cardinality(1 .. n) = n  BY <1>1, FS_Interval
<1>3. s \in Surjection(1 .. n, ToSet(s))
  BY <1>1 DEF Surjection, ToSet
<1>4. IsFiniteSet(ToSet(s)) /\ Cardinality(ToSet(s)) <= n  BY <1>2, <1>3, FS_Surjection
<1> QED  BY <1>4 DEF n

LEMMA SetOfAscending ==
  ASSUME NEW s \in Seq(Nat), Ascending(s)
  PROVE  IsFiniteSet(ToSet(s)) /\ Cardinality(ToSet(s)) = Len(s)
<1> DEFINE n == Len(s)
<1>0. n \in Nat  BY LenProperties
<1>1. /\ n \in Nat /\ s \in [1 .. n -> Nat] /\ DOMAIN s = 1 .. n
      /\ \A i, j \in 1 .. n : i < j => s[i] < s[j]
  BY LenProperties DEF Ascending
<1> HIDE DEF n
<1>2. IsFiniteSet(1 .. n) /\ Cardinality(1 .. n) = n  BY <1>0, FS_Interval
<1>3. s \in Surjection(1 .. n, ToSet(s))
  BY <1>1 DEF Surjection, ToSet
<1>4. ASSUME NEW i \in 1 .. n, NEW j \in 1 .. n, s[i] = s[j] PROVE i = j
  <2>1. i \in Nat /\ j \in Nat /\ s[i] \in Nat /\ s[j] \in Nat  BY <1>1
  <2>2. ~(i < j) /\ ~(j < i)  BY <1>1, <1>4, <2>1
  <2> QED  BY <2>1, <2>2
<1>5. s \in Injection(1 .. n, ToSet(s))
  BY <1>1, <1>3, <1>4 DEF Injection, IsInjective, Surjection
<1>6. IsFiniteSet(ToSet(s)) /\ Cardinality(ToSet(s)) = n
  BY <1>2, <1>3, <1>5, FS_Surjection
<1> QED  BY <1>6 DEF n

-----------------------------------------------------------------------------
(* What the list is for. *)

(* Between two lines the list names exactly the backups on disk, oldest     *)
(* first, but for those a failed call has left out, when no two rotations  *)
(* share a second: the list and the names would otherwise hold one backup  *)
(* for two files (logger.c:346-396,478-513).                               *)
THEOREM ListKept ==
  ASSUME SameSecond = FALSE
  PROVE  Spec => []ListIsDisk
<1>1. ASSUME IInv PROVE ListIsDisk
  <2>1. ListComplete /\ ListExact  BY <1>1 DEF IInv
  <2>2. pc = "idle" => pc \in Listing /\ Unlisted = forgotten  BY DEF Listing, Unlisted
  <2> QED  BY <2>1, <2>2 DEF ListIsDisk, ListComplete, ListExact
<1> QED  BY <1>1, Invariance, PTL

(* The daemon runs with the number of backups its configuration asks for.   *)
BackupsAsked == pc # "down" => max_backup \in Nat \ {0}

(* No more than max_backup backups are kept, whatever number the            *)
(* configuration asks for from 1 on, whether or not rotations share a      *)
(* second (logger.c:381-396).                                              *)
THEOREM BackupsFew ==
  ASSUME \A b \in ConfBackups : b >= 1
  PROVE  Spec => []BackupsBounded
<1>1. Init => BackupsAsked  BY DEF Init, BackupsAsked
<1>2. BackupsAsked /\ [Next]_vars => BackupsAsked'
  <2> SUFFICES ASSUME BackupsAsked, [Next]_vars PROVE BackupsAsked'
    OBVIOUS
  <2>1. CASE pc' = "down"  BY <2>1 DEF BackupsAsked
  <2>2. CASE pc # "down" /\ UNCHANGED limits  BY <2>2 DEF BackupsAsked, limits
  <2>3. CASE \E b \in ConfBackups : max_backup' = IF b < 1 THEN 0 ELSE b
    BY <2>3, RotateAssumption DEF BackupsAsked
  <2>4. pc = "down" /\ pc' # "down" => Start
    BY DEF Next, vars, Tick, Start, InitRotate, Scan, InitOpen, InitFails, Write, Rotate,
           RotateFails, AppendBackup, AppendFails, Cleanup, UnlinkFails, Open, OpenFails,
           AppendLine, AppendFallsShort, Stop, Crash, Destroy
  <2>5. Start => \E b \in ConfBackups : max_backup' = IF b < 1 THEN 0 ELSE b
    BY DEF Start, LimitsAndSize
  <2> QED  BY <2>1, <2>2, <2>3, <2>4, <2>5, LimitsStep
<1>3. ASSUME IInv, BackupsAsked PROVE BackupsBounded
  <2> SUFFICES ASSUME pc = "idle" PROVE Cardinality(Names \ forgotten) <= max_backup
    BY DEF BackupsBounded
  <2>1. pc \in Listing /\ pc \in Listing \ {"initCleanup", "cleanup"} /\ Unlisted = forgotten
    BY DEF Listing, Unlisted
  <2>2. max_backup \in Nat /\ max_backup > 0  BY <1>3 DEF BackupsAsked
  <2>3. Names \ forgotten \subseteq ToSet(files) /\ Len(files) <= max_backup
    BY <1>3, <2>1, <2>2 DEF IInv, ListComplete
  <2>4. /\ IsFiniteSet(ToSet(files)) /\ Cardinality(ToSet(files)) <= Len(files)
        /\ Len(files) \in Nat
    BY <1>3, ListTypes, SetOfList DEF IInv
  <2>5. /\ Cardinality(Names \ forgotten) <= Cardinality(ToSet(files))
        /\ IsFiniteSet(Names \ forgotten)
    BY <2>3, <2>4, FS_Subset
  <2>6. Cardinality(Names \ forgotten) \in Nat /\ Cardinality(ToSet(files)) \in Nat
    BY <2>4, <2>5, FS_CardinalityType
  <2> QED  BY <2>2, <2>3, <2>4, <2>5, <2>6
<1> QED  BY <1>1, <1>2, <1>3, Invariance, PTL DEF Spec

(* When no two rotations share a second, a backup disappears only behind    *)
(* max_backup newer ones: a rename replaces none, and an unlink takes the  *)
(* head of a list that is sorted and entirely on disk (logger.c:381-396).  *)
THEOREM NewestStay ==
  ASSUME SameSecond = FALSE
  PROVE  Spec => NewestKept
<1> DEFINE Kept == \A n \in Names :
                     (n \notin DOMAIN backups' \/ backups'[n] # backups[n]) =>
                        Cardinality({m \in DOMAIN backups' : backups'[m] > backups[n]})
                            >= max_backup
<1>1. ASSUME IInv, [Next]_vars PROVE Kept
  <2> DEFINE Newer(n) == {m \in Names' : backups'[m] > backups[n]}
  <2> SUFFICES \A n \in Names : (n \notin Names' \/ backups'[n] # backups[n]) =>
                 Cardinality(Newer(n)) >= max_backup
    BY DEF Names
  <2>0. /\ TypeOK /\ FileBegun /\ NamesInOrder /\ ListComplete /\ ListExact
        /\ \A n \in Names : n \in Nat /\ n <= last
        /\ last \in Nat /\ now \in Nat /\ max_backup \in Nat
    BY <1>1, TypeFacts DEF IInv, NamesInOrder
  <2>1. CASE UNCHANGED backups
    BY <2>1 DEF Names
  <2>2. CASE Rotate \/ InitRotate
    <3>1. /\ Names' = Names \cup {now} /\ now > last
          /\ \A n \in Names : n # now => backups'[n] = backups[n]
      BY <2>0, <2>2, Renamed
    <3>2. \A n \in Names : n # now  BY <2>0, <3>1
    <3> QED  BY <3>1, <3>2
  <2>3. CASE Cleanup /\ Len(files) > max_backup
    <3>1. /\ Names' = Names \ {Head(files)} /\ files' = Tail(files)
          /\ \A n \in Names' : backups'[n] = backups[n]
          /\ pc \in {"cleanup", "initCleanup"}
      BY <2>3, Unlinked
    <3>2. /\ pc \in Listing /\ Unlisted = forgotten /\ max_backup > 0
      BY <2>0, <3>1 DEF Listing, Unlisted, ListComplete
    <3>3. ToSet(files) \subseteq Names /\ Ascending(files)
      BY <2>0, <3>2 DEF ListExact, Ascending
    <3>4. /\ files \in Seq(Nat) /\ files # <<>> /\ Len(files) \in Nat
          /\ Len(files) - 1 >= max_backup
      BY <2>0, <2>3, ListTypes
    <3>5. /\ Tail(files) \in Seq(Nat) /\ Ascending(Tail(files))
          /\ Head(files) \in ToSet(files)
          /\ \A m \in ToSet(Tail(files)) : m \in ToSet(files) /\ m > Head(files)
      BY <3>3, <3>4, TailAscending, TailListed
    <3>6. /\ IsFiniteSet(ToSet(Tail(files)))
          /\ Cardinality(ToSet(Tail(files))) = Len(files) - 1
      BY <3>4, <3>5, SetOfAscending, TailListed
    <3>7. ASSUME NEW n \in Names, n \notin Names' \/ backups'[n] # backups[n]
          PROVE  Cardinality(Newer(n)) >= max_backup
      <4>1. n = Head(files)  BY <3>1, <3>7
      <4>2. ASSUME NEW m \in ToSet(Tail(files)) PROVE m \in Newer(n)
        <5>1. m \in Names /\ m \in Names' /\ n < m  BY <2>0, <3>1, <3>3, <3>5, <4>1, <4>2
        <5>2. backups[n] < backups[m] /\ backups'[m] = backups[m]
          BY <2>0, <3>1, <5>1 DEF NamesInOrder
        <5>3. backups[n] \in Nat /\ backups[m] \in Nat  BY <2>0, <5>1, TypeFacts
        <5> QED  BY <5>1, <5>2, <5>3
      <4>3. IsFiniteSet(Names')  BY <2>0, <3>1, TypeFacts, FS_RemoveElement
      <4>4. Newer(n) \in SUBSET Names'  OBVIOUS
      <4>5. IsFiniteSet(Newer(n)) /\ Cardinality(Newer(n)) \in Nat
        BY <4>3, <4>4, FS_Subset, FS_CardinalityType
      <4> HIDE DEF Newer
      <4>6. ToSet(Tail(files)) \in SUBSET Newer(n)  BY <4>2
      <4>7. Cardinality(ToSet(Tail(files))) <= Cardinality(Newer(n))
        BY <4>5, <4>6, FS_Subset
      <4> QED  BY <2>0, <3>4, <3>6, <4>5, <4>7
    <3> QED  BY <3>7
  <2> QED  BY <1>1, <2>1, <2>2, <2>3, BackupsStep
<1>2. IInv /\ [Next]_vars => [Kept]_vars  BY <1>1
<1> QED  BY <1>2, Invariance, PTL DEF Spec, NewestKept

=============================================================================
