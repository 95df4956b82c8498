--------------------------- MODULE ConfigDbufProofs ---------------------------
(***************************************************************************)
(* Proofs about ConfigDbuf, for any number of readers, writers and calls:  *)
(* the invariant BufferInv, that reference counts are exact, that          *)
(* config_update returns only when nobody holds the buffer it replaced,    *)
(* that a held configuration does not change, that a file is loaded as it  *)
(* is written, that the buffers implement ConfigRegister, and that no      *)
(* writer sleeps on while the readers it waits for are gone.               *)
(***************************************************************************)
EXTENDS ConfigDbuf, ConfFileProofs, EventCountProofs

(* The constants, with the threads in their roles. *)
LEMMA Roles ==
  /\ \A r \in Readers : r \in EcThreads
  /\ \A w \in Writers : w \in EcThreads
  /\ IsFiniteSet(Readers)
<1>1. Readers \in SUBSET EcThreads  BY ConfigAssumption
<1>2. IsFiniteSet(Readers)  BY <1>1, EcAssumption, FS_Subset
<1> QED  BY <1>2, ConfigAssumption

(* The readers counted in a buffer are finitely many. *)
LEMMA CountedFinite ==
  ASSUME NEW i
  PROVE  IsFiniteSet(CountedReaders(i)) /\ Cardinality(CountedReaders(i)) \in Nat
<1>1. CountedReaders(i) \in SUBSET Readers  BY DEF CountedReaders
<1>2. IsFiniteSet(CountedReaders(i))  BY <1>1, Roles, FS_Subset
<1> QED  BY <1>2, FS_CardinalityType

LEMMA BufferInvInit == Init => BufferInv
<1> SUFFICES ASSUME Init PROVE BufferInv
  OBVIOUS
<1>1. TypeOK
  <2>1. EcTypeOK  BY EcTypeInit DEF Init
  <2>2. Zeroed \in Contents  BY ConfigAssumption DEF Zeroed, Contents
  <2> QED  BY <2>1, <2>2, ConfigAssumption DEF Init, TypeOK, LoadTypeOK, Idx, Sections,
                                              ReaderLabels, WriterLabels
<1>2. CountsExact
  <2>1. \A i \in Idx : CountedReaders(i) = {}
    BY DEF Init, CountedReaders, CountedIn
  <2> QED  BY <2>1, FS_EmptySet DEF Init, CountsExact
<1>3. LockOwner /\ OldIdxKnown /\ HeldIsActive
  BY ConfigAssumption DEF Init, LockOwner, OldIdxKnown, HeldIsActive, Updating, Draining, Holding
<1> QED  BY <1>1, <1>2, <1>3 DEF BufferInv

-----------------------------------------------------------------------------
(* Steps that count nobody in or out of a buffer. *)
LEMMA SameCounts ==
  ASSUME CountsExact, UNCHANGED refcnt,
         \A i \in Idx : CountedReaders(i)' = CountedReaders(i)
  PROVE  CountsExact'
  BY DEF CountsExact

(* A reader enters or leaves the count of its buffer. *)
LEMMA CountsReaderIn ==
  ASSUME TypeOK, CountsExact, NEW r \in Readers, CountIn(r)
  PROVE  CountsExact' /\ refcnt' \in [Idx -> Nat]
<1>1. PICK b \in Idx : b = ridx[r]  BY DEF TypeOK
<1>2. r \notin CountedReaders(b)  BY <1>1 DEF CountIn, CountedReaders, CountedIn
<1>3. CountedReaders(b)' = CountedReaders(b) \cup {r}
  BY <1>1 DEF CountIn, CountedReaders, CountedIn, RGoto, TypeOK
<1>4. \A i \in Idx : i # b => CountedReaders(i)' = CountedReaders(i)
  BY <1>1 DEF CountIn, CountedReaders, CountedIn, RGoto, TypeOK
<1>5. Cardinality(CountedReaders(b) \cup {r}) = Cardinality(CountedReaders(b)) + 1
  BY <1>2, CountedFinite, FS_AddElement
<1>6. refcnt' = [refcnt EXCEPT ![b] = refcnt[b] + 1]
  BY <1>1 DEF CountIn
<1>7. refcnt \in [Idx -> Nat]  BY DEF TypeOK
<1>8. refcnt' \in [Idx -> Nat]  BY <1>1, <1>6, <1>7
<1>9. CountsExact'
  BY <1>1, <1>3, <1>4, <1>5, <1>6, <1>7 DEF CountsExact
<1> QED  BY <1>8, <1>9

LEMMA CountsReaderOut ==
  ASSUME TypeOK, CountsExact, NEW r \in Readers, UndoAcquire(r) \/ Release(r)
  PROVE  CountsExact' /\ refcnt' \in [Idx -> Nat]
<1>1. PICK b \in Idx : b = ridx[r]  BY DEF TypeOK
<1>2. r \in CountedReaders(b)
  BY <1>1 DEF UndoAcquire, Release, CountedReaders, CountedIn
<1>3. CountedReaders(b)' = CountedReaders(b) \ {r}
  <2>1. CASE UndoAcquire(r)
    BY <1>1, <2>1 DEF UndoAcquire, CountOut, CountedReaders, CountedIn, RGoto, TypeOK
  <2>2. CASE Release(r)
    BY <1>1, <2>2 DEF Release, CountOut, CountedReaders, CountedIn, RGoto, TypeOK
  <2> QED  BY <2>1, <2>2
<1>4. \A i \in Idx : i # b => CountedReaders(i)' = CountedReaders(i)
  <2>1. CASE UndoAcquire(r)
    BY <1>1, <2>1 DEF UndoAcquire, CountOut, CountedReaders, CountedIn, RGoto, TypeOK
  <2>2. CASE Release(r)
    BY <1>1, <2>2 DEF Release, CountOut, CountedReaders, CountedIn, RGoto, TypeOK
  <2> QED  BY <2>1, <2>2
<1>5. Cardinality(CountedReaders(b) \ {r}) = Cardinality(CountedReaders(b)) - 1
  BY <1>2, CountedFinite, FS_RemoveElement
<1>6. refcnt' = [refcnt EXCEPT ![b] = refcnt[b] - 1]
  BY <1>1 DEF UndoAcquire, Release, CountOut
<1>7. refcnt \in [Idx -> Nat]  BY DEF TypeOK
<1>8. Cardinality(CountedReaders(b)) # 0
  BY <1>2, CountedFinite, FS_EmptySet
<1>9. refcnt[b] - 1 \in Nat
  BY <1>1, <1>7, <1>8 DEF CountsExact
<1>10. refcnt' \in [Idx -> Nat]  BY <1>1, <1>6, <1>7, <1>9
<1>11. CountsExact'
  BY <1>1, <1>3, <1>4, <1>5, <1>6, <1>7 DEF CountsExact
<1> QED  BY <1>10, <1>11

-----------------------------------------------------------------------------
(* The steps of a reader. *)
(* A load reads lines of its file. *)
LEMMA LineType ==
  ASSUME LoadTypeOK, NEW w \in Writers, MoreLines(w)
  PROVE  ThisLine(w) \in Lines
<1>1. file[w] \in Seq(Lines) /\ line_no[w] \in Nat  BY DEF LoadTypeOK
<1>2. line_no[w] + 1 \in 1 .. Len(file[w])  BY <1>1 DEF MoreLines
<1>3. file[w][line_no[w] + 1] \in Lines  BY <1>1, <1>2
<1> QED  BY <1>3 DEF ThisLine

(* The state of a load keeps its types. *)
LEMMA LoadTypes ==
  ASSUME TypeOK, Next
  PROVE  LoadTypeOK'
<1>0. LoadTypeOK /\ conf \in [Idx -> Contents] /\ active_idx \in Idx  BY DEF TypeOK
<1> USE DEF LoadTypeOK
<1>z. Zeroed \in Contents  BY ConfigAssumption DEF Zeroed, Contents
<1>1. ASSUME NEW r \in Readers, AcquireCall(r) \/ ReaderStep(r)  PROVE LoadTypeOK'
  BY <1>0, <1>1 DEF AcquireCall, ReaderStep, LoadIdx, CountIn, CheckIdx, UndoAcquire, Release,
              Notify, InEventCount, writerVars, loadVars
<1>2. ASSUME NEW w \in Writers, UpdateCall(w) \/ WriterStep(w) \/ Signal(w)  PROVE LoadTypeOK'
  <2>1. CASE Lock(w)
    <3>1. conf[Other(active_idx)] \in Contents  BY <1>0 DEF Other, Idx
    <3> QED  BY <1>0, <2>1, <3>1 DEF Lock
  <2>2. CASE Open(w)
    BY <1>0, <2>2, ConfigAssumption DEF Open
  <2>3. CASE SkipLine(w) \/ ParseLine(w)
    <3> DEFINE s == curr_section[w]
               l == ThisLine(w)
    <3>1. UNCHANGED <<file, base>> /\ line_no' = [line_no EXCEPT ![w] = @ + 1]
          /\ curr_section' = [curr_section EXCEPT ![w] = NextSection(s, l)]
      BY <2>3 DEF SkipLine, ParseLine, ReadLine
    <3>2. l \in Lines  BY <1>0, <2>3, LineType DEF SkipLine, ParseLine, ReadLine
    <3>3. s \in Sections  BY <1>0
    <3>4. NextSection(s, l) \in Sections  BY <3>2, <3>3, NextSectionType
    <3> HIDE DEF s, l
    <3> QED  BY <1>0, <3>1, <3>4
  <2>4. CASE Unlock(w)  BY <1>0, <1>z, <2>4 DEF Unlock, Sections
  <2>5. CASE UpdateCall(w) \/ ParseFails(w) \/ Swap(w) \/ Prepare(w) \/ CheckReaders(w)
              \/ Cancel(w) \/ Wait(w) \/ InEventCount(w) \/ Signal(w)
    BY <1>0, <2>5 DEF UpdateCall, ParseFails, Swap, Prepare, CheckReaders, Cancel, Wait,
        InEventCount, Signal, writerVars, loadVars
  <2> QED  BY <1>2, <2>1, <2>2, <2>3, <2>4, <2>5 DEF WriterStep
<1> QED  BY <1>1, <1>2 DEF Next

LEMMA ReaderKeepsTypes ==
  ASSUME BufferInv, NEW r \in Readers, AcquireCall(r) \/ ReaderStep(r)
  PROVE  TypeOK'
<1>l. LoadTypeOK'  BY LoadTypes DEF BufferInv, Next
<1>c. AcquireCall(r) => reads[r] + 1 \in 0 .. MaxReads
  <2>1. reads \in [Readers -> 0 .. MaxReads]  BY DEF BufferInv, TypeOK
  <2>2. reads[r] \in 0 .. MaxReads /\ MaxReads \in Nat  BY <2>1, ConfigAssumption
  <2>3. AcquireCall(r) => reads[r] < MaxReads  BY DEF AcquireCall
  <2> QED  BY <2>2, <2>3
<1> USE <1>l DEF TypeOK, RGoto, Idx, ReaderLabels
<1>0. TypeOK /\ CountsExact /\ EcTypeOK  BY DEF BufferInv
<1>e. ASSUME UNCHANGED ecVars  PROVE EcTypeOK'
  BY <1>0, <1>e, EcTypeStep, Roles
<1>1. CASE AcquireCall(r)
  BY <1>0, <1>c, <1>e, <1>1 DEF AcquireCall, sharedVars, writerVars
<1>2. CASE LoadIdx(r)  BY <1>0, <1>e, <1>2 DEF LoadIdx, sharedVars, writerVars
<1>3. CASE CountIn(r)
  BY <1>0, <1>e, <1>3, CountsReaderIn DEF CountIn, writerVars
<1>4. CASE CheckIdx(r)  BY <1>0, <1>e, <1>4 DEF CheckIdx, sharedVars, writerVars
<1>5. CASE UndoAcquire(r) \/ Release(r)
  <2>1. refcnt' \in [Idx -> Nat]  BY <1>0, <1>5, CountsReaderOut
  <2>2. EcTypeOK'  BY <1>e, <1>5 DEF UndoAcquire, Release
  <2> QED  BY <1>0, <1>5, <2>1, <2>2 DEF UndoAcquire, Release, CountOut, writerVars
<1>6. CASE Notify(r) \/ InEventCount(r)
  <2>1. EcTypeOK'  BY <1>0, <1>6, EcTypeStep, Roles DEF Notify, InEventCount
  <2> QED  BY <1>0, <1>6, <2>1 DEF Notify, InEventCount, sharedVars, readerVars, writerVars
<1> QED  BY <1>1, <1>2, <1>3, <1>4, <1>5, <1>6 DEF ReaderStep

LEMMA ReaderKeepsBuffers ==
  ASSUME BufferInv, NEW r \in Readers, AcquireCall(r) \/ ReaderStep(r)
  PROVE  BufferInv'
<1> USE DEF BufferInv
<1>1. TypeOK'  BY ReaderKeepsTypes
<1>2. CountsExact'
  <2> USE DEF CountedReaders, CountedIn, RGoto, TypeOK
  <2>1. CASE AcquireCall(r)
    BY <2>1, SameCounts DEF AcquireCall, sharedVars
  <2>2. CASE LoadIdx(r)
    BY <2>2, SameCounts DEF LoadIdx, sharedVars
  <2>3. CASE CountIn(r)  BY <2>3, CountsReaderIn
  <2>4. CASE CheckIdx(r)
    BY <2>4, SameCounts DEF CheckIdx, sharedVars
  <2>5. CASE UndoAcquire(r) \/ Release(r)  BY <2>5, CountsReaderOut
  <2>6. CASE Notify(r) \/ InEventCount(r)
    BY <2>6, SameCounts DEF Notify, Notifying, InEventCount, sharedVars, readerVars
  <2> QED  BY <2>1, <2>2, <2>3, <2>4, <2>5, <2>6 DEF ReaderStep
<1>3. UNCHANGED <<active_idx, writer_lock, writerVars>>
  BY DEF ReaderStep, AcquireCall, LoadIdx, CountIn, CheckIdx, UndoAcquire, Release,
         Notify, InEventCount, sharedVars, writerVars
<1>4. LockOwner' /\ OldIdxKnown'
  BY <1>3 DEF LockOwner, OldIdxKnown, Updating, Draining, NewIdx, Other, writerVars
<1>5. \A q \in Readers : Holding(q)' =>
         (Holding(q) /\ ridx'[q] = ridx[q]) \/ ridx'[q] = active_idx
  BY DEF ReaderStep, AcquireCall, LoadIdx, CountIn, CheckIdx, UndoAcquire, Release,
         CountOut, Notify, InEventCount, sharedVars, readerVars, Holding, RGoto, TypeOK
<1>6. HeldIsActive'
  BY <1>3, <1>5 DEF HeldIsActive, Draining, writerVars
<1> QED  BY <1>1, <1>2, <1>4, <1>6

-----------------------------------------------------------------------------
(* The steps of a writer. *)
LEMMA WriterKeepsTypes ==
  ASSUME BufferInv, NEW w \in Writers, UpdateCall(w) \/ WriterStep(w) \/ Signal(w)
  PROVE  TypeOK'
<1>l. LoadTypeOK'  BY LoadTypes DEF BufferInv, Next
<1>c. UpdateCall(w) => updates[w] + 1 \in 0 .. MaxUpdates
  <2>1. updates \in [Writers -> 0 .. MaxUpdates]  BY DEF BufferInv, TypeOK
  <2>2. updates[w] \in 0 .. MaxUpdates /\ MaxUpdates \in Nat  BY <2>1, ConfigAssumption
  <2>3. UpdateCall(w) => updates[w] < MaxUpdates  BY DEF UpdateCall
  <2> QED  BY <2>2, <2>3
<1> USE <1>l DEF TypeOK, WGoto, Idx, WriterLabels
<1>0. TypeOK /\ EcTypeOK  BY DEF BufferInv
<1>e. ASSUME UNCHANGED ecVars  PROVE EcTypeOK'
  BY <1>0, <1>e, EcTypeStep, Roles
<1>n. NewIdx(w) \in Idx  BY <1>0 DEF NewIdx, Other
<1>1. CASE UpdateCall(w)
  BY <1>0, <1>c, <1>e, <1>1 DEF UpdateCall, sharedVars, readerVars
<1>2. CASE Lock(w)  BY <1>0, <1>e, <1>2 DEF Lock, readerVars
<1>3. CASE Open(w)  BY <1>0, <1>e, <1>3 DEF Open, sharedVars, readerVars
<1>4. CASE SkipLine(w) \/ ParseLine(w)
  <2>1. conf' \in [Idx -> Contents]
    <3>1. CASE SkipLine(w)  BY <1>0, <3>1 DEF SkipLine
    <3>2. CASE ParseLine(w)
      <4>1. ThisLine(w) \in Lines /\ conf[NewIdx(w)] \in Contents
        BY <1>0, <1>n, <3>2, LineType DEF ParseLine, ReadLine
      <4>2. Parser(conf[NewIdx(w)], curr_section[w], ThisLine(w)) \in Contents
        BY <3>2, <4>1, ParserType DEF ParseLine
      <4> QED  BY <1>0, <1>n, <3>2, <4>2 DEF ParseLine
    <3> QED  BY <1>4, <3>1, <3>2
  <2> QED  BY <1>0, <1>e, <1>4, <2>1 DEF SkipLine, ParseLine, ReadLine, readerVars
<1>5. CASE ParseFails(w)
  BY <1>0, <1>e, <1>5 DEF ParseFails, sharedVars, readerVars
<1>6. CASE Swap(w)  BY <1>0, <1>e, <1>6, <1>n DEF Swap, readerVars
<1>7. CASE Unlock(w)  BY <1>0, <1>e, <1>7 DEF Unlock, readerVars
<1>8. CASE CheckReaders(w)
  BY <1>0, <1>e, <1>8 DEF CheckReaders, sharedVars, readerVars
<1>9. CASE Prepare(w) \/ Cancel(w) \/ Wait(w) \/ InEventCount(w) \/ Signal(w)
  <2>1. EcTypeOK'
    BY <1>0, <1>9, EcTypeStep, Roles DEF Prepare, Cancel, Wait, InEventCount, Signal
  <2> QED
    BY <1>0, <1>9, <2>1
       DEF Prepare, Cancel, Wait, InEventCount, Signal, sharedVars, readerVars, writerVars
<1> QED
  BY <1>1, <1>2, <1>3, <1>4, <1>5, <1>6, <1>7, <1>8, <1>9 DEF WriterStep

(* No step of a writer touches a reader's state or a count. *)
LEMMA WriterKeepsCounts ==
  ASSUME CountsExact, NEW w \in Writers, UpdateCall(w) \/ WriterStep(w) \/ Signal(w)
  PROVE  UNCHANGED <<refcnt, readerVars>> /\ CountsExact'
<1>1. UNCHANGED <<refcnt, readerVars>>
  BY DEF UpdateCall, WriterStep, Signal, Lock, Open, SkipLine, ParseLine, ReadLine,
         ParseFails, Swap, Prepare, CheckReaders, Cancel, Wait, Unlock, InEventCount, sharedVars
<1>2. CountsExact'
  BY <1>1, SameCounts DEF readerVars, CountedReaders, CountedIn
<1> QED  BY <1>1, <1>2

(* Nobody is counted in a buffer whose count is zero. *)
LEMMA ZeroMeansNobody ==
  ASSUME CountsExact, NEW i \in Idx, refcnt[i] = 0
  PROVE  \A r \in Readers : Holding(r) => ridx[r] # i
<1>1. CountedReaders(i) = {}
  BY CountedFinite, FS_EmptySet DEF CountsExact
<1> QED  BY <1>1 DEF CountedReaders, CountedIn, Holding

LEMMA WriterKeepsBuffers ==
  ASSUME BufferInv, NEW w \in Writers, UpdateCall(w) \/ WriterStep(w) \/ Signal(w)
  PROVE  BufferInv'
<1> USE DEF BufferInv
<1>1. TypeOK'  BY WriterKeepsTypes
<1>2. CountsExact' /\ UNCHANGED readerVars  BY WriterKeepsCounts
<1>3. CASE UpdateCall(w) \/ Unlock(w)
  <2>1. CASE UpdateCall(w)
    BY <1>1, <1>2, <2>1, ConfigAssumption
       DEF UpdateCall, TypeOK, WGoto, sharedVars, readerVars,
           LockOwner, OldIdxKnown, HeldIsActive, Updating, Draining, Holding, NewIdx, Other
  <2>2. CASE Unlock(w)
    BY <1>1, <1>2, <2>2, ConfigAssumption
       DEF Unlock, TypeOK, WGoto, sharedVars, readerVars,
           LockOwner, OldIdxKnown, HeldIsActive, Updating, Draining, Holding, NewIdx, Other
  <2> QED  BY <1>3, <2>1, <2>2
<1>4. CASE Lock(w)
  BY <1>1, <1>2, <1>4, ConfigAssumption
     DEF Lock, TypeOK, WGoto, readerVars,
         LockOwner, OldIdxKnown, HeldIsActive, Updating, Draining, Holding, NewIdx, Other
<1>5. CASE Open(w) \/ SkipLine(w) \/ ParseLine(w) \/ ParseFails(w)
  BY <1>1, <1>2, <1>5
     DEF Open, SkipLine, ParseLine, ReadLine, ParseFails, TypeOK, WGoto, sharedVars, readerVars,
         LockOwner, OldIdxKnown, HeldIsActive, Updating, Draining, Holding, NewIdx, Other
<1>6. CASE Swap(w)
  BY <1>1, <1>2, <1>6
     DEF Swap, TypeOK, WGoto, readerVars,
         LockOwner, OldIdxKnown, HeldIsActive, Updating, Draining, Holding, NewIdx, Other
<1>7. CASE CheckReaders(w)
  <2>1. LockOwner' /\ OldIdxKnown'
    BY <1>7 DEF CheckReaders, TypeOK, WGoto, sharedVars, LockOwner, OldIdxKnown,
                Updating, Draining, NewIdx, Other
  <2>2. HeldIsActive'
    <3>1. CASE refcnt[old_idx[w]] = 0
      <4>1. old_idx[w] \in Idx /\ active_idx = NewIdx(w)
        BY <1>7 DEF CheckReaders, TypeOK, OldIdxKnown, Draining
      <4>2. \A r \in Readers : Holding(r) => ridx[r] # old_idx[w]
        BY <3>1, <4>1, ZeroMeansNobody
      <4>3. \A r \in Readers : Holding(r) => ridx[r] = active_idx
        BY <4>1, <4>2 DEF TypeOK, NewIdx, Other, Idx
      <4> QED
        BY <1>2, <1>7, <4>3 DEF CheckReaders, sharedVars, readerVars, HeldIsActive, Holding
    <3>2. CASE refcnt[old_idx[w]] # 0
      BY <1>7, <3>2 DEF CheckReaders, TypeOK, WGoto, HeldIsActive, Draining
    <3> QED  BY <3>1, <3>2
  <2> QED  BY <1>1, <1>2, <2>1, <2>2
<1>8. CASE Prepare(w) \/ Cancel(w) \/ Wait(w)
  BY <1>1, <1>2, <1>8
     DEF Prepare, Cancel, Wait, TypeOK, WGoto, sharedVars, readerVars,
         LockOwner, OldIdxKnown, HeldIsActive, Updating, Draining, Holding, NewIdx, Other
<1>9. CASE InEventCount(w) \/ Signal(w)
  BY <1>1, <1>2, <1>9
     DEF InEventCount, Signal, sharedVars, readerVars, writerVars,
         LockOwner, OldIdxKnown, HeldIsActive, Updating, Draining, Holding, NewIdx, Other
<1> QED
  BY <1>3, <1>4, <1>5, <1>6, <1>7, <1>8, <1>9 DEF WriterStep

-----------------------------------------------------------------------------
LEMMA StutterKeepsBuffers == ASSUME BufferInv, UNCHANGED vars PROVE BufferInv'
<1>1. EcTypeOK' /\ UNCHANGED <<sharedVars, readerVars, writerVars>>
  BY DEF vars, BufferInv, TypeOK, EcTypeOK, ecVars
<1>2. TypeOK'
  BY <1>1 DEF BufferInv, TypeOK, LoadTypeOK, sharedVars, readerVars, writerVars, loadVars
<1>3. CountsExact'
  BY <1>1 DEF BufferInv, CountsExact, CountedReaders, CountedIn, sharedVars, readerVars
<1> QED
  BY <1>1, <1>2, <1>3
     DEF BufferInv, LockOwner, OldIdxKnown, HeldIsActive, Updating, Draining, Holding,
         NewIdx, Other, sharedVars, readerVars, writerVars

LEMMA BufferInvStep == BufferInv /\ [Next]_vars => BufferInv'
  BY ReaderKeepsBuffers, WriterKeepsBuffers, StutterKeepsBuffers DEF Next

(* What config_update relies on holds in every reachable state, for any    *)
(* number of readers, writers, calls and lines (config.c:85-161).          *)
THEOREM BuffersKept == Spec => []BufferInv
  BY BufferInvInit, BufferInvStep, PTL DEF Spec

(* The buffers, the counts and the labels of the threads keep their types *)
(* (config.c).                                                             *)
THEOREM TypeCorrect == Spec => []TypeOK
<1>1. BufferInv => TypeOK  BY DEF BufferInv
<1> QED  BY <1>1, BuffersKept, PTL

(* refcnt[i] is always the number of readers counted in buffer i           *)
(* (config.c:90-119).                                                      *)
THEOREM Counted == Spec => []CountsExact
<1>1. BufferInv => CountsExact  BY DEF BufferInv
<1> QED  BY <1>1, BuffersKept, PTL

(* While no update is under way every held buffer is the active one        *)
(* (config.c:146-158).                                                     *)
THEOREM ReplacedNotHeld == Spec => []HoldersCurrent
<1>1. BufferInv => HoldersCurrent
  BY ConfigAssumption DEF BufferInv, LockOwner, HeldIsActive, HoldersCurrent, Updating, Draining
<1> QED  BY <1>1, BuffersKept, PTL

(* A configuration does not change between config_acquire and              *)
(* config_release, whatever updates run (config.c:107-161).                *)
LEMMA HeldUntouched ==
  ASSUME BufferInv, Next, NEW r \in Readers, Holding(r), Holding(r)'
  PROVE  conf'[ridx'[r]] = conf[ridx[r]]
<1> USE DEF BufferInv
<1>1. ASSUME NEW q \in Readers, AcquireCall(q) \/ ReaderStep(q)
      PROVE  conf' = conf /\ ridx'[r] = ridx[r]
  BY <1>1 DEF AcquireCall, ReaderStep, LoadIdx, CountIn, CheckIdx, UndoAcquire, Release,
              CountOut, Notify, InEventCount, RGoto, TypeOK, Holding, sharedVars, readerVars
<1>2. ASSUME NEW w \in Writers, UpdateCall(w) \/ WriterStep(w) \/ Signal(w)
      PROVE  conf'[ridx'[r]] = conf[ridx[r]]
  <2>1. ridx' = ridx  BY <1>2, WriterKeepsCounts DEF readerVars
  <2>2. CASE ParseLine(w)
    <3>1. \A u \in Writers : ~Draining(u)
      BY <2>2 DEF ParseLine, ReadLine, LockOwner, Updating, Draining
    <3>2. ridx[r] = old_idx[w]
      BY <2>2, <3>1 DEF ParseLine, ReadLine, HeldIsActive, OldIdxKnown
    <3>3. ridx[r] \in Idx /\ NewIdx(w) # ridx[r]
      BY <3>2 DEF TypeOK, Idx, NewIdx, Other
    <3>4. conf'[ridx[r]] = conf[ridx[r]]
      BY <2>2, <3>3 DEF ParseLine, TypeOK
    <3> QED  BY <2>1, <3>4
  <2>3. CASE ~ParseLine(w)
    BY <1>2, <2>1, <2>3
       DEF UpdateCall, WriterStep, Signal, Lock, Open, SkipLine, ParseFails, Swap, Prepare,
           CheckReaders, Cancel, Wait, Unlock, InEventCount, sharedVars
  <2> QED  BY <2>2, <2>3
<1> QED  BY <1>1, <1>2 DEF Next

THEOREM HeldStable == Spec => HeldConfigStable
<1>1. BufferInv /\ [Next]_vars =>
        [\A r \in Readers : Holding(r) /\ Holding(r)' => conf'[ridx'[r]] = conf[ridx[r]]]_vars
  BY HeldUntouched
<1> QED  BY <1>1, BuffersKept, PTL DEF Spec, HeldConfigStable

-----------------------------------------------------------------------------
(* A load keeps the inactive buffer what the lines read say. *)

(* The load of a writer in the next state is as it is now. *)
LoadSame(w) ==
    /\ wpc'[w] = wpc[w] /\ file'[w] = file[w] /\ line_no'[w] = line_no[w]
    /\ curr_section'[w] = curr_section[w] /\ base'[w] = base[w]
    /\ old_idx'[w] = old_idx[w]
    /\ Loading(w) \/ wpc[w] = "open" => conf'[NewIdx(w)] = conf[NewIdx(w)]

LEMMA OthersLoad ==
  ASSUME BufferInv, NEW u \in Writers, UpdateCall(u) \/ WriterStep(u) \/ Signal(u),
         NEW w \in Writers, w # u
  PROVE  LoadSame(w)
<1> USE DEF BufferInv, TypeOK, LoadTypeOK, LoadSame
<1>1. CASE ParseLine(u)
  <2>1. Updating(u) /\ ~Updating(w)
    BY <1>1, ConfigAssumption DEF ParseLine, ReadLine, Updating, LockOwner
  <2> QED  BY <1>1, <2>1 DEF ParseLine, ReadLine, Updating, Loading
<1>2. CASE ~ParseLine(u)
  BY <1>2 DEF UpdateCall, WriterStep, Signal, Lock, Open, SkipLine, ReadLine, ParseFails, Swap,
              Prepare, CheckReaders, Cancel, Wait, Unlock, InEventCount, WGoto,
              sharedVars, readerVars, writerVars, loadVars
<1> QED  BY <1>1, <1>2

(* Reading one line of the file into the inactive buffer. *)
LEMMA LineRead ==
  ASSUME BufferInv, BufferInv', LoadInv, NEW w \in Writers, SkipLine(w) \/ ParseLine(w)
  PROVE  /\ line_no'[w] <= Len(file'[w])
         /\ SectionIs(file'[w], line_no'[w], curr_section'[w])
         /\ Follows(file'[w], line_no'[w], base'[w], conf'[NewIdx(w)'])
<1> DEFINE f == file[w]
           n == line_no[w]
           s == curr_section[w]
           c == conf[NewIdx(w)]
           d == conf'[NewIdx(w)]
<1>1. /\ f \in Seq(Lines) /\ n \in Nat /\ s \in Sections /\ NewIdx(w) \in Idx
      /\ conf \in [Idx -> Contents] /\ conf' \in [Idx -> Contents]
  <2>1. f \in Seq(Lines) /\ n \in Nat /\ s \in Sections  BY DEF BufferInv, TypeOK, LoadTypeOK
  <2>2. NewIdx(w) \in Idx  BY DEF BufferInv, TypeOK, NewIdx, Other, Idx
  <2>3. conf \in [Idx -> Contents] /\ conf' \in [Idx -> Contents]  BY DEF BufferInv, TypeOK
  <2> QED  BY <2>1, <2>2, <2>3
<1>2. /\ n < Len(f) /\ SectionIs(f, n, s) /\ Follows(f, n, base[w], c)
      /\ f[n + 1] = ThisLine(w)
  BY <1>1 DEF SkipLine, ParseLine, ReadLine, MoreLines, ThisLine, LoadInv, SectionKnown,
         LoadFollowsFile, Loading
<1>3. /\ file'[w] = f /\ line_no'[w] = n + 1 /\ base'[w] = base[w]
      /\ curr_section'[w] = NextSection(s, f[n + 1]) /\ NewIdx(w)' = NewIdx(w)
  BY <1>2 DEF SkipLine, ParseLine, ReadLine, NewIdx, BufferInv, TypeOK, LoadTypeOK
<1>4. d = IF Parsed(s, f[n + 1]) THEN Parser(c, s, f[n + 1]) ELSE c
  BY <1>1, <1>2 DEF SkipLine, ParseLine
<1>5. c \in Contents /\ d \in Contents  BY <1>1
<1> HIDE DEF f, n, s, c, d
<1>6. SectionIs(f, n + 1, NextSection(s, f[n + 1]))  BY <1>1, <1>2, SectionStep
<1>7. Follows(f, n + 1, base[w], d)  BY <1>1, <1>2, <1>4, <1>5, FollowsStep
<1>8. n + 1 <= Len(f)  BY <1>1, <1>2
<1> QED  BY <1>3, <1>6, <1>7, <1>8 DEF d

LEMMA LoadInvStep == BufferInv /\ BufferInv' /\ LoadInv /\ [Next]_vars => LoadInv'
<1> SUFFICES ASSUME BufferInv, BufferInv', LoadInv, [Next]_vars, NEW w \in Writers
             PROVE  /\ wpc'[w] \in {"idle", "lock", "open"} =>
                          line_no'[w] = 0 /\ curr_section'[w] = NoSection
                    /\ wpc'[w] = "open" => base'[w] = conf'[NewIdx(w)']
                    /\ wpc'[w] = "parse" =>
                          /\ line_no'[w] <= Len(file'[w])
                          /\ SectionIs(file'[w], line_no'[w], curr_section'[w])
                    /\ Loading(w)' =>
                          /\ Follows(file'[w], line_no'[w], base'[w], conf'[NewIdx(w)'])
                          /\ wpc'[w] # "parse" => line_no'[w] = Len(file'[w])
  BY DEF LoadInv, LoadBegins, SectionKnown, LoadFollowsFile
<1>1. CASE LoadSame(w)
  BY <1>1 DEF LoadSame, LoadInv, LoadBegins, SectionKnown, LoadFollowsFile, Loading, NewIdx
<1>2. CASE UNCHANGED vars
  BY <1>1, <1>2 DEF LoadSame, vars, sharedVars, writerVars, loadVars
<1>3. ASSUME NEW r \in Readers, AcquireCall(r) \/ ReaderStep(r)  PROVE LoadSame(w)
  BY <1>3 DEF LoadSame, AcquireCall, ReaderStep, LoadIdx, CountIn, CheckIdx, UndoAcquire, Release,
              Notify, InEventCount, sharedVars, writerVars, loadVars
<1>4. ASSUME UpdateCall(w) \/ WriterStep(w) \/ Signal(w)
      PROVE  \/ LoadSame(w)
             \/ UpdateCall(w) \/ Lock(w) \/ Open(w) \/ SkipLine(w) \/ ParseLine(w)
             \/ ParseFails(w) \/ Swap(w) \/ Unlock(w)
             \/ Prepare(w) \/ CheckReaders(w) \/ Cancel(w) \/ Wait(w)
  BY <1>4 DEF WriterStep, Signal, InEventCount, LoadSame, sharedVars, writerVars, loadVars
<1> USE DEF BufferInv, TypeOK, LoadTypeOK, LoadInv, LoadBegins, SectionKnown, LoadFollowsFile, WGoto
<1>5. CASE UpdateCall(w)
  BY <1>5 DEF UpdateCall, loadVars, Loading
<1>6. CASE Lock(w)
  <2>1. NewIdx(w)' = Other(active_idx)  BY <1>6 DEF Lock, NewIdx
  <2> QED  BY <1>6, <2>1 DEF Lock, Loading, Other, Idx
<1>7. CASE Open(w)
  <2>1. NewIdx(w)' = NewIdx(w) /\ conf' = conf  BY <1>7 DEF Open, NewIdx, sharedVars
  <2>2. line_no'[w] = 0 /\ curr_section'[w] = NoSection /\ base'[w] = conf'[NewIdx(w)']
    BY <1>7, <2>1 DEF Open
  <2>3. Follows(file'[w], 0, base'[w], base'[w]) /\ SectionIs(file'[w], 0, NoSection)
    BY FollowsAtStart, SectionAtStart
  <2>4. 0 <= Len(file'[w])
    <3>1. file'[w] \in Seq(Lines)  OBVIOUS
    <3> QED  BY <3>1
  <2>5. wpc'[w] \in {"parse", "unlock"}  BY <1>7 DEF Open
  <2> QED  BY <2>2, <2>3, <2>4, <2>5 DEF Loading
<1>8. CASE SkipLine(w) \/ ParseLine(w)
  <2>1. wpc'[w] = "parse"  BY <1>8 DEF SkipLine, ParseLine, ReadLine
  <2> QED  BY <1>8, <2>1, LineRead DEF Loading
<1>9. CASE ParseFails(w) \/ Unlock(w)
  BY <1>9 DEF ParseFails, Unlock, Loading
<1>10. CASE Swap(w)
  <2>1. file[w] \in Seq(Lines) /\ line_no[w] \in Nat  OBVIOUS
  <2>2. line_no[w] = Len(file[w])  BY <1>10, <2>1 DEF Swap, MoreLines
  <2> QED  BY <1>10, <2>2 DEF Swap, Loading, NewIdx, loadVars
<1>11. CASE Prepare(w) \/ CheckReaders(w) \/ Cancel(w) \/ Wait(w)
  BY <1>11 DEF Prepare, CheckReaders, Cancel, Wait, Loading, NewIdx, loadVars, sharedVars
<1> QED
  BY <1>1, <1>2, <1>3, <1>4, <1>5, <1>6, <1>7, <1>8, <1>9, <1>10, <1>11, OthersLoad DEF Next

(* For every file, what config_update makes active is what the file says,  *)
(* over what the buffer held before (config.c:121-144,202-258).            *)
THEOREM LoadedAsWritten == Spec => []LoadFollowsFile
<1>1. Init => LoadInv
  BY DEF Init, LoadInv, LoadBegins, SectionKnown, LoadFollowsFile, Loading
<1>2. LoadInv => LoadFollowsFile  BY DEF LoadInv
<1> QED  BY <1>1, <1>2, LoadInvStep, BuffersKept, PTL DEF Spec

-----------------------------------------------------------------------------
(* The buffers implement the register. *)

(* What the register shows does not change. *)
RegisterSame == Current' = Current /\ Held' = Held /\ HoldersOfReplaced' = HoldersOfReplaced

LEMMA RegisterUntouched ==
  ASSUME Holders' = Holders, conf'[active_idx'] = conf[active_idx], active_idx' = active_idx,
         \A q \in Holders : ridx'[q] = ridx[q] /\ conf'[ridx[q]] = conf[ridx[q]]
  PROVE  RegisterSame
  BY DEF RegisterSame, Current, Held, HoldersOfReplaced

LEMMA ReaderOnRegister ==
  ASSUME BufferInv, NEW r \in Readers, AcquireCall(r) \/ ReaderStep(r)
  PROVE  RegisterSame \/ Register!Acquire(r) \/ Register!Release(r)
<1> USE DEF BufferInv, TypeOK, RGoto, Holding
<1>1. CASE CheckIdx(r) /\ active_idx = ridx[r]
  <2>1. UNCHANGED <<conf, active_idx, ridx>> /\ r \notin Holders /\ Holders' = Holders \cup {r}
    BY <1>1 DEF CheckIdx, Holders, sharedVars
  <2>2. Current' = Current  BY <2>1 DEF Current
  <2>3. Held' = [q \in DOMAIN Held \cup {r} |-> IF q = r THEN Current ELSE Held[q]]
    BY <1>1, <2>1 DEF Held, Current
  <2>4. HoldersOfReplaced' = HoldersOfReplaced
    BY <1>1, <2>1 DEF HoldersOfReplaced
  <2> QED  BY <2>1, <2>2, <2>3, <2>4 DEF Register!Acquire, Held
<1>2. CASE Release(r)
  <2>1. UNCHANGED <<conf, active_idx>> /\ r \in Holders /\ Holders' = Holders \ {r}
    BY <1>2 DEF Release, Holders, CountOut
  <2>2. \A q \in Holders' : ridx'[q] = ridx[q]
    BY <1>2, <2>1 DEF Release, CountOut, Holders
  <2>3. Current' = Current  BY <2>1 DEF Current
  <2>4. Held' = [q \in DOMAIN Held \ {r} |-> Held[q]]
    BY <2>1, <2>2 DEF Held
  <2>5. HoldersOfReplaced' = HoldersOfReplaced \ {r}
    BY <2>1, <2>2 DEF HoldersOfReplaced
  <2> QED  BY <2>1, <2>3, <2>4, <2>5 DEF Register!Release, Held
<1>3. CASE \/ AcquireCall(r) \/ LoadIdx(r) \/ CountIn(r) \/ UndoAcquire(r) \/ Notify(r)
           \/ InEventCount(r)
           \/ CheckIdx(r) /\ active_idx # ridx[r]
  <2>a. UNCHANGED <<conf, active_idx>>
    BY <1>3 DEF AcquireCall, LoadIdx, CountIn, CheckIdx, UndoAcquire, Notify, InEventCount,
        CountOut, sharedVars
  <2>b. UNCHANGED rpc \/ (rpc[r] # "hold" /\ \E l \in ReaderLabels :
                              l # "hold" /\ rpc' = [rpc EXCEPT ![r] = l])
    BY <1>3 DEF AcquireCall, LoadIdx, CountIn, CheckIdx, UndoAcquire, Notify, Notifying,
        InEventCount, readerVars, ReaderLabels
  <2>1. UNCHANGED <<conf, active_idx>> /\ Holders' = Holders
    BY <2>a, <2>b DEF Holders
  <2>2. \A q \in Holders : ridx'[q] = ridx[q]
    BY <1>3 DEF AcquireCall, LoadIdx, CountIn, CheckIdx, UndoAcquire, Notify, InEventCount, CountOut,
        Holders, sharedVars, readerVars
  <2> QED  BY <2>1, <2>2, RegisterUntouched
<1> QED  BY <1>1, <1>2, <1>3 DEF ReaderStep

LEMMA WriterOnRegister ==
  ASSUME BufferInv, BufferInv', NEW w \in Writers, UpdateCall(w) \/ WriterStep(w) \/ Signal(w)
  PROVE  RegisterSame \/ \E c \in Contents : Register!Replace(c)
<1> USE DEF BufferInv
<1>1. UNCHANGED readerVars  BY WriterKeepsCounts
<1>2. Holders' = Holders /\ \A q \in Holders : ridx'[q] = ridx[q]
  BY <1>1 DEF readerVars, Holders, Holding
<1>3. ASSUME wpc[w] = "parse"
      PROVE  /\ \A q \in Holders : ridx[q] = active_idx
             /\ active_idx = old_idx[w] /\ NewIdx(w) # active_idx
             /\ NewIdx(w) \in Idx /\ active_idx \in Idx
  <2>1. \A u \in Writers : ~Draining(u)
    BY <1>3 DEF LockOwner, Updating, Draining
  <2>2. active_idx = old_idx[w] /\ active_idx \in Idx  BY <1>3 DEF OldIdxKnown, TypeOK
  <2> QED  BY <2>1, <2>2 DEF HeldIsActive, Holders, NewIdx, Other, Idx
<1>4. CASE ParseLine(w)
  <2>1. wpc[w] = "parse" /\ active_idx' = active_idx  BY <1>4 DEF ParseLine, ReadLine
  <2>2. conf'[active_idx] = conf[active_idx]
    BY <1>3, <1>4, <2>1 DEF ParseLine, TypeOK
  <2> QED  BY <1>2, <1>3, <2>1, <2>2, RegisterUntouched
<1>5. CASE Swap(w)
  <2>1. wpc[w] = "parse" /\ active_idx' = NewIdx(w) /\ conf' = conf  BY <1>5 DEF Swap
  <2>2. HoldersOfReplaced = {}  BY <1>3, <2>1 DEF HoldersOfReplaced
  <2>3. HoldersOfReplaced' = Holders
    BY <1>2, <1>3, <2>1 DEF HoldersOfReplaced
  <2>4. Held' = Held /\ DOMAIN Held = Holders  BY <1>2, <2>1 DEF Held
  <2>5. Current' \in Contents  BY <2>1 DEF Current, TypeOK
  <2> QED  BY <2>2, <2>3, <2>4, <2>5 DEF Register!Replace
<1>6. CASE ~ParseLine(w) /\ ~Swap(w)
  <2>1. UNCHANGED <<conf, active_idx>>
    BY <1>6 DEF UpdateCall, WriterStep, Signal, Lock, Open, SkipLine, ReadLine, ParseFails,
           Prepare, CheckReaders, Cancel, Wait, Unlock, InEventCount, sharedVars
  <2> QED  BY <1>2, <2>1, RegisterUntouched
<1> QED  BY <1>4, <1>5, <1>6

(* The double buffer is a configuration that changes in one step, for any  *)
(* number of readers, writers and calls (config.c:85-161).                 *)
THEOREM RegisterImplemented == Spec => ImplementsRegister
<1>1. Init => Register!Init
  <2> SUFFICES ASSUME Init PROVE Register!Init
    OBVIOUS
  <2>1. Holders = {}  BY DEF Init, Holders, Holding
  <2>2. Held = [r \in {} |-> Zeroed] /\ HoldersOfReplaced = {}
    BY <2>1 DEF Held, HoldersOfReplaced
  <2>3. Current = Zeroed  BY DEF Init, Current, Idx
  <2> QED  BY <2>2, <2>3 DEF Register!Init
<1>2. BufferInv /\ BufferInv' /\ [Next]_vars => [Register!Next]_(Register!vars)
  <2> SUFFICES ASSUME BufferInv, BufferInv', [Next]_vars PROVE [Register!Next]_(Register!vars)
    OBVIOUS
  <2>1. CASE UNCHANGED vars
    BY <2>1, RegisterUntouched
       DEF vars, sharedVars, readerVars, Holders, Holding, RegisterSame, Register!vars
  <2>2. CASE Next
    BY <2>2, ReaderOnRegister, WriterOnRegister
       DEF Next, RegisterSame, Register!vars, Register!Next
  <2> QED  BY <2>1, <2>2
<1> QED
  BY <1>1, <1>2, BuffersKept, PTL DEF Spec, ImplementsRegister, Register!Spec

-----------------------------------------------------------------------------
(* Where the threads stand in the event count. *)

(* A reader only notifies, a writer only waits. *)
LEMMA ReaderOnEc ==
  ASSUME NEW r \in Readers, AcquireCall(r) \/ ReaderStep(r)
  PROVE  UNCHANGED ecVars \/ Notify(r) \/ EcStep(r)
  BY DEF AcquireCall, ReaderStep, LoadIdx, CountIn, CheckIdx, UndoAcquire, Release, InEventCount

LEMMA WriterOnEc ==
  ASSUME NEW w \in Writers, UpdateCall(w) \/ WriterStep(w) \/ Signal(w)
  PROVE  \/ UNCHANGED ecVars
         \/ EcPrepareWait(w) \/ EcCancelWait(w) \/ EcWait(w) \/ EcStep(w) \/ Interrupted(w)
  BY DEF UpdateCall, WriterStep, Signal, Lock, Open, SkipLine, ParseLine, ReadLine, ParseFails,
         Swap, Prepare, CheckReaders, Cancel, Wait, Unlock, InEventCount

LEMMA WaitersKept ==
  ASSUME BufferInv, WaitersCounted, [Next]_vars
  PROVE  WaitersCounted'
<1>1. EcTypeOK  BY DEF BufferInv, TypeOK
<1>2. CASE UNCHANGED ecVars
  BY <1>2 DEF ecVars, WaitersCounted, WaiterCount, Waiting
<1>3. ASSUME NEW r \in Readers, AcquireCall(r) \/ ReaderStep(r)  PROVE WaitersCounted'
  BY <1>1, <1>2, <1>3, ReaderOnEc, WaitersStep, Roles DEF Notify
<1>4. ASSUME NEW w \in Writers, UpdateCall(w) \/ WriterStep(w) \/ Signal(w)
      PROVE  WaitersCounted'
  BY <1>1, <1>2, <1>4, WriterOnEc, WaitersStep, Roles
<1> QED  BY <1>2, <1>3, <1>4 DEF Next, vars

(* A step of another thread leaves a thread where it is in its own code,   *)
(* and at most wakes it.                                                   *)
LEMMA ByOtherThread ==
  ASSUME BufferInv, NEW u \in EcThreads,
         \/ \E r \in Readers \ {u} : AcquireCall(r) \/ ReaderStep(r)
         \/ \E w \in Writers \ {u} : UpdateCall(w) \/ WriterStep(w) \/ Signal(w)
         \/ UNCHANGED vars
  PROVE  /\ at'[u] = at[u] \/ (at[u] = "asleep" /\ at'[u] = "check")
         /\ key'[u] = key[u]
         /\ u \in Readers => rpc'[u] = rpc[u]
         /\ u \in Writers => wpc'[u] = wpc[u] /\ old_idx'[u] = old_idx[u]
<1>1. /\ EcTypeOK
      /\ rpc \in [Readers -> ReaderLabels] /\ wpc \in [Writers -> WriterLabels]
      /\ old_idx \in [Writers -> Idx]
  BY DEF BufferInv, TypeOK
<1>2. CASE UNCHANGED vars
  BY <1>2 DEF vars, readerVars, writerVars, ecVars
<1>3. ASSUME NEW r \in Readers \ {u}, AcquireCall(r) \/ ReaderStep(r)
      PROVE  /\ at'[u] = at[u] \/ (at[u] = "asleep" /\ at'[u] = "check")
             /\ key'[u] = key[u]
             /\ u \in Readers => rpc'[u] = rpc[u]
             /\ UNCHANGED <<wpc, old_idx>>
  <2>1. UNCHANGED ecVars \/ EcNotify(r) \/ EcStep(r)  BY <1>3, ReaderOnEc DEF Notify
  <2>2. /\ at'[u] = at[u] \/ (at[u] = "asleep" /\ at'[u] = "check")
        /\ key'[u] = key[u]
    BY <1>1, <2>1, AtOfOther, Roles DEF ecVars
  <2>3. UNCHANGED writerVars /\ (u \in Readers => rpc'[u] = rpc[u])
    BY <1>1, <1>3 DEF AcquireCall, ReaderStep, LoadIdx, CountIn, CheckIdx, UndoAcquire, Release,
        Notify, InEventCount, RGoto, readerVars
  <2> QED  BY <2>2, <2>3 DEF writerVars
<1>4. ASSUME NEW w \in Writers \ {u}, UpdateCall(w) \/ WriterStep(w) \/ Signal(w)
      PROVE  /\ at'[u] = at[u] \/ (at[u] = "asleep" /\ at'[u] = "check")
             /\ key'[u] = key[u]
             /\ UNCHANGED rpc
             /\ u \in Writers => wpc'[u] = wpc[u] /\ old_idx'[u] = old_idx[u]
  <2>1. /\ at'[u] = at[u] \/ (at[u] = "asleep" /\ at'[u] = "check")
        /\ key'[u] = key[u]
    BY <1>1, <1>4, WriterOnEc, AtOfOther, Roles DEF ecVars
  <2>2. UNCHANGED rpc  BY <1>4, WriterKeepsCounts DEF readerVars, BufferInv
  <2>3. u \in Writers => wpc'[u] = wpc[u] /\ old_idx'[u] = old_idx[u]
    BY <1>1, <1>4 DEF UpdateCall, WriterStep, Signal, Lock, Open, SkipLine, ParseLine, ReadLine,
        ParseFails, Swap, Prepare, CheckReaders, Cancel, Wait, Unlock, InEventCount, WGoto,
        writerVars
  <2> QED  BY <2>1, <2>2, <2>3
<1> QED  BY <1>2, <1>3, <1>4

LEMMA ReadersPlaceStep ==
  ASSUME BufferInv, ReadersPlace, [Next]_vars
  PROVE  ReadersPlace'
<1> SUFFICES ASSUME NEW r \in Readers
             PROVE  /\ at'[r] \in {"out", "wake1"}
                    /\ at'[r] = "wake1" => rpc'[r] \in {"idle", "load"}
  BY DEF ReadersPlace
<1>1. /\ r \in EcThreads /\ r \notin Writers /\ DOMAIN at = EcThreads /\ DOMAIN rpc = Readers
      /\ at[r] \in {"out", "wake1"} /\ (at[r] = "wake1" => rpc[r] \in {"idle", "load"})
  BY Roles, ConfigAssumption DEF BufferInv, TypeOK, EcTypeOK, ReadersPlace
<1>2. CASE UNCHANGED ecVars /\ (at[r] = "wake1" => rpc'[r] \in {"idle", "load"})
  BY <1>1, <1>2 DEF ecVars
<1>3. CASE AcquireCall(r) \/ LoadIdx(r)
  BY <1>1, <1>2, <1>3 DEF AcquireCall, LoadIdx
<1>4. CASE CountIn(r) \/ CheckIdx(r) \/ UndoAcquire(r) \/ Release(r)
  BY <1>1, <1>2, <1>4 DEF CountIn, CheckIdx, UndoAcquire, Release
<1>5. CASE Notify(r)
  <2>1. at'[r] \in {"out", "wake1"}
    BY <1>1, <1>5 DEF Notify, EcNotify, EcAdvance, EcGoto
  <2>2. rpc'[r] \in {"idle", "load"}  BY <1>1, <1>5 DEF Notify, RGoto
  <2> QED  BY <2>1, <2>2
<1>6. CASE InEventCount(r)
  <2>1. FutexWake(r) /\ at[r] = "wake1"
    BY <1>1, <1>6 DEF InEventCount, EcStep, FutexWake, CheckEpoch, FutexWait, LeaveWait
  <2>2. r \notin Sleepers  BY <1>1 DEF Sleepers
  <2>3. at'[r] = "out"  BY <1>1, <2>1, <2>2 DEF FutexWake, EcGoto
  <2> QED  BY <2>3
<1>7. CASE AcquireCall(r) \/ ReaderStep(r)
  BY <1>3, <1>4, <1>5, <1>6, <1>7 DEF ReaderStep
<1>8. CASE ~(AcquireCall(r) \/ ReaderStep(r))
  BY <1>1, <1>8, ByOtherThread DEF Next
<1> QED  BY <1>7, <1>8

LEMMA WritersPlaceStep ==
  ASSUME BufferInv, WritersPlace, [Next]_vars
  PROVE  WritersPlace'
<1> SUFFICES ASSUME NEW w \in Writers
             PROVE  /\ wpc'[w] = "prepare" =>
                          at'[w] \in {"out", "check", "futex", "asleep", "leaving"}
                    /\ wpc'[w] \in {"drain", "cancel", "wait"} => at'[w] = "prepared"
                    /\ wpc'[w] \notin {"prepare", "drain", "cancel", "wait"} => at'[w] = "out"
  BY DEF WritersPlace, Draining
<1>1. /\ w \in EcThreads /\ w \notin Readers /\ DOMAIN at = EcThreads /\ DOMAIN wpc = Writers
      /\ wpc[w] = "prepare" => at[w] \in {"out", "check", "futex", "asleep", "leaving"}
      /\ wpc[w] \in {"drain", "cancel", "wait"} => at[w] = "prepared"
      /\ wpc[w] \notin {"prepare", "drain", "cancel", "wait"} => at[w] = "out"
  BY Roles, ConfigAssumption DEF BufferInv, TypeOK, EcTypeOK, WritersPlace, Draining
<1>2. CASE UpdateCall(w) \/ Lock(w) \/ Open(w) \/ SkipLine(w) \/ ParseLine(w) \/ ParseFails(w)
           \/ Swap(w) \/ Unlock(w)
  BY <1>1, <1>2 DEF UpdateCall, Lock, Open, SkipLine, ParseLine, ReadLine, ParseFails, Swap,
      Unlock, WGoto, ecVars
<1>3. CASE CheckReaders(w)
  BY <1>1, <1>3 DEF CheckReaders, WGoto, ecVars
<1>4. CASE Prepare(w) \/ Cancel(w) \/ Wait(w)
  BY <1>1, <1>4 DEF Prepare, Cancel, Wait, WGoto, EcPrepareWait, EcCancelWait, EcWait, EndWait,
      EcGoto
<1>5. CASE InEventCount(w) \/ Signal(w)
  <2>1. UNCHANGED wpc  BY <1>5 DEF InEventCount, Signal, writerVars
  <2>2. CASE CheckEpoch(w) \/ FutexWait(w) \/ LeaveWait(w) \/ Interrupted(w)
    <3>1. at[w] \in {"check", "futex", "asleep", "leaving"}
      BY <2>2 DEF CheckEpoch, FutexWait, LeaveWait, Interrupted
    <3>2. at'[w] \in {"out", "check", "futex", "asleep", "leaving"}
      BY <1>1, <2>2 DEF CheckEpoch, FutexWait, LeaveWait, Interrupted, EndWait, EcGoto
    <3>3. wpc[w] = "prepare"  BY <1>1, <3>1
    <3> QED  BY <2>1, <3>2, <3>3
  <2>3. ~FutexWake(w)  BY <1>1 DEF FutexWake
  <2> QED  BY <1>5, <2>2, <2>3 DEF InEventCount, Signal, EcStep
<1>6. CASE UpdateCall(w) \/ WriterStep(w) \/ Signal(w)
  BY <1>2, <1>3, <1>4, <1>5, <1>6 DEF WriterStep
<1>7. CASE ~(UpdateCall(w) \/ WriterStep(w) \/ Signal(w))
  BY <1>1, <1>7, ByOtherThread DEF Next
<1> QED  BY <1>6, <1>7

(* The inductive invariant of the run: what config_update relies on, and   *)
(* the count of the waiters with the places of readers and writers in the  *)
(* event count (config.c:85-161).                                          *)
THEOREM Invariance == Spec => []IInv
<1>1. Init => IInv
  BY BufferInvInit, WaitersInit, Roles
     DEF Init, EcInit, IInv, ReadersPlace, WritersPlace, Draining
<1>2. IInv /\ [Next]_vars => IInv'
  BY BufferInvStep, WaitersKept, ReadersPlaceStep, WritersPlaceStep DEF IInv
<1> QED  BY <1>1, <1>2, PTL DEF Spec

-----------------------------------------------------------------------------
(* The writer is not forgotten. *)

(* Only the notify of a reader moves the epoch, and it always does. *)
LEMMA EpochMovedBy ==
  ASSUME IInv, [Next]_vars
  PROVE  Epoch' # Epoch <=> \E r \in Readers : Notify(r)
<1>1. EcTypeOK /\ WaitersCounted  BY DEF IInv, BufferInv, TypeOK
<1>2. ASSUME NEW r \in Readers, Notify(r)  PROVE Epoch' # Epoch
  BY <1>1, <1>2, NotifyMoves DEF Notify, EcNotify, EcAdvance
<1>3. CASE UNCHANGED ecVars  BY <1>2, <1>3 DEF ecVars, Epoch
<1>4. ASSUME NEW r \in Readers, AcquireCall(r) \/ ReaderStep(r), ~Notify(r)
      PROVE  Epoch' = Epoch
  BY <1>1, <1>4, ReaderOnEc, EpochStep, Roles
<1>5. ASSUME NEW w \in Writers, UpdateCall(w) \/ WriterStep(w) \/ Signal(w)
      PROVE  Epoch' = Epoch
  BY <1>1, <1>5, WriterOnEc, EpochStep, Roles
<1> QED  BY <1>2, <1>3, <1>4, <1>5 DEF Next, vars

(* A writer that waits did so before the step, or has just seen a reader. *)
LEMMA WaitsBefore ==
  ASSUME IInv, [Next]_vars, NEW w \in Writers, Waits(w)'
  PROVE  /\ key'[w] = key[w] /\ old_idx'[w] = old_idx[w]
         /\ Waits(w) \/ (CheckReaders(w) /\ refcnt[old_idx[w]] # 0)
<1>1. /\ w \in EcThreads /\ w \notin Readers /\ DOMAIN at = EcThreads /\ DOMAIN wpc = Writers
      /\ BufferInv
      /\ wpc[w] = "prepare" => at[w] \in {"out", "check", "futex", "asleep", "leaving"}
      /\ wpc[w] \in {"drain", "cancel", "wait"} => at[w] = "prepared"
      /\ wpc[w] \notin {"prepare", "drain", "cancel", "wait"} => at[w] = "out"
  BY Roles, ConfigAssumption DEF IInv, BufferInv, TypeOK, EcTypeOK, WritersPlace, Draining
<1>2. wpc'[w] = "wait" \/ (wpc'[w] = "prepare" /\ at'[w] \in {"check", "futex", "asleep"})
  BY DEF Waits
<1>3. ~(UpdateCall(w) \/ Lock(w) \/ Open(w) \/ SkipLine(w) \/ ParseLine(w) \/ ParseFails(w)
        \/ Swap(w) \/ Unlock(w))
  BY <1>1, <1>2 DEF UpdateCall, Lock, Open, SkipLine, ParseLine, ReadLine, ParseFails, Swap,
      Unlock, WGoto, ecVars
<1>4. CASE CheckReaders(w)
  BY <1>1, <1>2, <1>4 DEF CheckReaders, WGoto, ecVars
<1>5. ~Prepare(w) /\ ~Cancel(w)
  BY <1>1, <1>2 DEF Prepare, Cancel, WGoto
<1>6. CASE Wait(w)
  BY <1>1, <1>6 DEF Wait, EcWait, Waits
<1>7. CASE InEventCount(w) \/ Signal(w)
  <2>1. UNCHANGED <<wpc, old_idx>>  BY <1>7 DEF InEventCount, Signal, writerVars
  <2>2. ~FutexWake(w)  BY <1>1 DEF FutexWake
  <2>3. ~LeaveWait(w)
    BY <1>1, <1>2, <2>1 DEF LeaveWait, EndWait, EcGoto
  <2>4. UNCHANGED key /\ at[w] \in {"check", "futex", "asleep"}
    BY <1>7, <2>2, <2>3 DEF InEventCount, Signal, EcStep, CheckEpoch, FutexWait, Interrupted
  <2> QED  BY <1>1, <2>1, <2>4 DEF Waits
<1>8. CASE UpdateCall(w) \/ WriterStep(w) \/ Signal(w)
  BY <1>3, <1>4, <1>5, <1>6, <1>7, <1>8 DEF WriterStep
<1>9. CASE ~(UpdateCall(w) \/ WriterStep(w) \/ Signal(w))
  BY <1>1, <1>2, <1>9, ByOtherThread DEF Next, Waits
<1> QED  BY <1>8, <1>9

(* Who takes the last reader out of a buffer has yet to notify. *)
LEMMA LastIsNotifying ==
  ASSUME IInv, [Next]_vars, NEW i \in Idx, refcnt[i] # 0, refcnt'[i] = 0
  PROVE  \E r \in Readers : Notifying(r)'
<1>1. /\ refcnt \in [Idx -> Nat] /\ ridx \in [Readers -> Idx] /\ DOMAIN rpc = Readers
      /\ CountsExact
  BY DEF IInv, BufferInv, TypeOK
<1>2. ASSUME UNCHANGED refcnt  PROVE FALSE
  BY <1>2
<1>3. CASE UNCHANGED vars  BY <1>2, <1>3 DEF vars, sharedVars
<1>4. ASSUME NEW w \in Writers, UpdateCall(w) \/ WriterStep(w) \/ Signal(w)  PROVE FALSE
  BY <1>1, <1>2, <1>4, WriterKeepsCounts
<1>5. ASSUME NEW r \in Readers, UndoAcquire(r) \/ Release(r)
      PROVE  Notifying(r)'
  <2>1. refcnt' = [refcnt EXCEPT ![ridx[r]] = @ - 1] /\ ridx[r] \in Idx
    BY <1>1, <1>5 DEF UndoAcquire, Release, CountOut
  <2>2. i = ridx[r] /\ refcnt[i] - 1 = 0  BY <1>1, <2>1
  <2>3. LastOut(r)  BY <1>1, <2>2 DEF LastOut
  <2> QED  BY <1>1, <1>5, <2>3 DEF UndoAcquire, Release, RGoto, Notifying
<1>6. ASSUME NEW r \in Readers, CountIn(r)  PROVE FALSE
  <2>1. refcnt' = [refcnt EXCEPT ![ridx[r]] = @ + 1]  BY <1>6 DEF CountIn
  <2>2. \A n \in Nat : n + 1 # 0
    OBVIOUS
  <2> QED  BY <1>1, <2>1, <2>2
<1>7. ASSUME NEW r \in Readers, AcquireCall(r) \/ LoadIdx(r) \/ CheckIdx(r) \/ Notify(r)
                                \/ InEventCount(r)
      PROVE  FALSE
  BY <1>2, <1>7 DEF AcquireCall, LoadIdx, CheckIdx, Notify, InEventCount, sharedVars
<1> QED  BY <1>3, <1>4, <1>5, <1>6, <1>7 DEF Next, ReaderStep

(* A reader that has yet to notify goes on only by doing so. *)
LEMMA NotifyingStays ==
  ASSUME IInv, [Next]_vars, NEW r \in Readers, Notifying(r), ~Notify(r)
  PROVE  Notifying(r)'
<1>1. BufferInv /\ r \in EcThreads  BY Roles DEF IInv
<1>2. CASE AcquireCall(r) \/ ReaderStep(r)
  BY <1>2 DEF AcquireCall, ReaderStep, LoadIdx, CountIn, CheckIdx, UndoAcquire, Release,
              InEventCount, readerVars, Notifying
<1>3. CASE ~(AcquireCall(r) \/ ReaderStep(r))
  <2>1. rpc'[r] = rpc[r]
    BY <1>1, <1>3, ConfigAssumption, ByOtherThread DEF Next
  <2> QED  BY <2>1 DEF Notifying
<1> QED  BY <1>2, <1>3

LEMMA SawReadersStep ==
  ASSUME IInv, SawReaders, [Next]_vars, [KeyStaysOld]_vars
  PROVE  SawReaders'
<1> SUFFICES ASSUME NEW w \in Writers, Waits(w)', key'[w] = Epoch', refcnt'[old_idx'[w]] = 0
             PROVE  \E r \in Readers : Notifying(r)'
  BY DEF SawReaders
<1>1. /\ key'[w] = key[w] /\ old_idx'[w] = old_idx[w]
      /\ Waits(w) \/ (CheckReaders(w) /\ refcnt[old_idx[w]] # 0)
  BY WaitsBefore
<1>2. old_idx[w] \in Idx  BY DEF IInv, BufferInv, TypeOK
<1>3. CASE refcnt[old_idx[w]] # 0
  BY <1>1, <1>2, <1>3, LastIsNotifying
<1>4. CASE refcnt[old_idx[w]] = 0
  <2>1. Waits(w)  BY <1>1, <1>4
  <2>2. key[w] = Epoch /\ Epoch' = Epoch
    <3>1. CASE key[w] = Epoch  BY <1>1, <3>1
    <3>2. CASE key[w] # Epoch
      <4>1. CASE KeyStaysOld  BY <1>1, <2>1, <3>2, <4>1 DEF KeyStaysOld
      <4>2. CASE UNCHANGED vars  BY <1>1, <3>2, <4>2 DEF vars, ecVars, Epoch
      <4> QED  BY <4>1, <4>2
    <3> QED  BY <3>1, <3>2
  <2>3. PICK r \in Readers : Notifying(r)  BY <1>4, <2>1, <2>2 DEF SawReaders
  <2>4. ~Notify(r)  BY <2>2, EpochMovedBy
  <2>5. Notifying(r)'  BY <2>3, <2>4, NotifyingStays
  <2> QED  BY <2>5
<1> QED  BY <1>3, <1>4

(* A writer asleep is the only sleeper, and is counted as a waiter. *)
LEMMA OnlySleeper ==
  ASSUME IInv, NEW w \in Writers, at[w] = "asleep"
  PROVE  Sleepers = {w} /\ WaiterCount > 0
<1>1. /\ EcThreads = Readers \cup Writers /\ w \in EcThreads
      /\ \A r \in Readers : at[r] # "asleep"
  BY ConfigAssumption, Roles DEF IInv, ReadersPlace
<1>2. \A u \in Writers : at[u] = "asleep" => writer_lock = u
  <2> SUFFICES ASSUME NEW u \in Writers, at[u] = "asleep" PROVE writer_lock = u
    OBVIOUS
  <2>1. Updating(u)  BY DEF IInv, WritersPlace, Draining, Updating
  <2> QED  BY <2>1 DEF IInv, BufferInv, LockOwner
<1>3. Sleepers = {w}  BY <1>1, <1>2 DEF Sleepers
<1>4. w \in Waiting  BY <1>1 DEF Waiting
<1> QED  BY <1>3, <1>4, CountedOne DEF IInv

LEMMA OldKeyWokenStep ==
  ASSUME IInv, OldKeyWoken, [Next]_vars
  PROVE  OldKeyWoken'
<1> SUFFICES ASSUME NEW w \in Writers, at'[w] = "asleep", key'[w] # Epoch'
             PROVE  \E r \in Readers : at'[r] = "wake1"
  BY DEF OldKeyWoken
<1>1. /\ BufferInv /\ EcTypeOK /\ DOMAIN at = EcThreads /\ w \in EcThreads /\ w \notin Readers
      /\ \A r \in Readers : r \in EcThreads /\ at[r] \in {"out", "wake1"}
  BY Roles, ConfigAssumption DEF IInv, BufferInv, TypeOK, EcTypeOK, ReadersPlace
<1>2. at[w] = "asleep" /\ key'[w] = key[w]
  <2>1. CASE UNCHANGED ecVars  BY <2>1 DEF ecVars
  <2>2. CASE EcPrepareWait(w) \/ EcCancelWait(w) \/ EcWait(w) \/ CheckEpoch(w)
             \/ LeaveWait(w) \/ Interrupted(w)
    BY <1>1, <2>2 DEF EcPrepareWait, EcCancelWait, EndWait, EcWait, CheckEpoch, LeaveWait,
                      Interrupted, EcGoto
  <2>3. CASE FutexWait(w)
    <3>1. Epoch' = Epoch /\ key' = key  BY <2>3 DEF FutexWait, Epoch
    <3>2. at'[w] = IF Epoch = key[w] THEN "asleep" ELSE "check"
      BY <1>1, <2>3 DEF FutexWait, EcGoto
    <3> QED  BY <3>1, <3>2
  <2>4. ~FutexWake(w)
    <3>1. at[w] \notin {"wake1", "wakeAll"}
      BY DEF IInv, WritersPlace, Draining
    <3> QED  BY <3>1 DEF FutexWake
  <2>5. CASE UpdateCall(w) \/ WriterStep(w) \/ Signal(w)
    BY <2>1, <2>2, <2>3, <2>4, <2>5, WriterOnEc DEF EcStep
  <2>6. CASE ~(UpdateCall(w) \/ WriterStep(w) \/ Signal(w))
    BY <1>1, <2>6, ByOtherThread DEF Next
  <2> QED  BY <2>5, <2>6
<1>3. Sleepers = {w} /\ WaiterCount > 0  BY <1>2, OnlySleeper
<1>4. ASSUME NEW r \in Readers, Notify(r)  PROVE at'[r] = "wake1"
  BY <1>1, <1>3, <1>4 DEF Notify, EcNotify, EcAdvance, EcGoto
<1>5. CASE \A r \in Readers : ~Notify(r)
  <2>1. Epoch' = Epoch  BY <1>5, EpochMovedBy
  <2>2. PICK r \in Readers : at[r] = "wake1"  BY <1>2, <2>1 DEF OldKeyWoken
  <2>3. \A q \in Readers : ~FutexWake(q)
    BY <1>1, <1>3 DEF FutexWake
  <2>4. at'[r] = at[r]
    <3>1. CASE UNCHANGED vars  BY <3>1 DEF vars, ecVars
    <3>2. CASE AcquireCall(r) \/ ReaderStep(r)
      <4>1. UNCHANGED ecVars \/ EcStep(r)  BY <1>5, <3>2, ReaderOnEc DEF Next
      <4> QED  BY <2>2, <2>3, <4>1 DEF EcStep, CheckEpoch, FutexWait, LeaveWait, ecVars
    <3>3. CASE ~(AcquireCall(r) \/ ReaderStep(r))
      BY <1>1, <2>2, <3>3, ConfigAssumption, ByOtherThread DEF Next
    <3> QED  BY <3>1, <3>2, <3>3
  <2> QED  BY <2>2, <2>4
<1> QED  BY <1>4, <1>5

(* A writer never sleeps on a count of zero that no reader is about to     *)
(* notify it of, or to wake it for: the look at refcnt between             *)
(* ec_prepare_wait and ec_wait, and the notify of whoever leaves last,     *)
(* leave no gap (config.c:99-103,114-118 against config.c:147-155), unless *)
(* the epoch comes round to the key of a writer while it waits.            *)
THEOREM WriterRemembered == Spec /\ [][KeyStaysOld]_vars => []NoForgottenWriter
<1>1. Init => SawReaders /\ OldKeyWoken
  BY Roles DEF Init, EcInit, SawReaders, OldKeyWoken, Waits
<1>2. IInv /\ SawReaders /\ OldKeyWoken /\ [Next]_vars /\ [KeyStaysOld]_vars
        => (SawReaders /\ OldKeyWoken)'
  BY SawReadersStep, OldKeyWokenStep
<1>3. IInv /\ SawReaders /\ OldKeyWoken => NoForgottenWriter
  <2> SUFFICES ASSUME IInv, SawReaders, OldKeyWoken, NEW w \in Writers, at[w] = "asleep",
                      refcnt[old_idx[w]] = 0
               PROVE  \E r \in Readers : Notifying(r) \/ at[r] = "wake1"
    BY DEF NoForgottenWriter
  <2>1. Waits(w)  BY DEF IInv, WritersPlace, Draining, Waits
  <2>2. CASE key[w] = Epoch  BY <2>1, <2>2 DEF SawReaders
  <2>3. CASE key[w] # Epoch  BY <2>3 DEF OldKeyWoken
  <2> QED  BY <2>2, <2>3
<1> QED  BY Invariance, <1>1, <1>2, <1>3, PTL DEF Spec

=============================================================================
