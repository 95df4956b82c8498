-------------------------- MODULE LogPipelineProofs --------------------------
(***************************************************************************)
(* Proofs about LogPipeline, for any number of worker threads, any size of *)
(* the queue and any number of log calls.                                  *)
(***************************************************************************)
EXTENDS LogPipeline, EventCountProofs, SequenceTheorems

LEMMA Roles ==
  /\ Main \in Producers /\ Main \in EcThreads /\ Logger \in EcThreads
  /\ Logger \notin Producers /\ Logger \in Threads /\ Main \notin Threads
  /\ \A w \in Workers : w \in Producers /\ w \in Threads /\ w # Main
  /\ \A p \in Producers : p \in EcThreads /\ p # Logger /\ (p = Main \/ p \in Workers)
  /\ \A t \in EcThreads : t = Logger \/ t \in Producers
  /\ \A t \in Threads : t = Logger \/ (t \in Workers /\ t # Logger)
  BY PipelineAssumption DEF Producers, Threads

LEMMA WorkersFinite == IsFiniteSet(Workers) /\ IsFiniteSet(Producers)
<1>1. Workers \in SUBSET EcThreads /\ Producers \in SUBSET EcThreads  BY Roles
<1> QED  BY <1>1, EcAssumption, FS_Subset

(* The table lists every thread once, the consumer first. *)
LEMMA TableFacts ==
  /\ Table \in Seq(Threads) /\ Len(Table) \in Nat \ {0} /\ Table[1] = Logger
  /\ \A i \in 1 .. Len(Table) : Table[i] \in Threads
  /\ \A i, j \in 1 .. Len(Table) : Table[i] = Table[j] => i = j
  /\ \A t \in Threads : \E i \in 1 .. Len(Table) : Table[i] = t
<1> DEFINE n == Cardinality(Workers)
           W == SetToSeq(Workers)
<1>1. n \in Nat /\ ExistsBijection(1 .. n, Workers)
  BY WorkersFinite, FS_CardinalityType
<1>2. \E f \in [1 .. n -> Workers] : IsInjective(f)
  BY <1>1 DEF ExistsBijection, Bijection, Injection
<1>3. W \in [1 .. n -> Workers] /\ IsInjective(W)
  BY <1>2 DEF SetToSeq
<1>4. W \in Injection(1 .. n, Workers)  BY <1>3 DEF Injection
<1>5. \A w \in Workers : \E i \in 1 .. n : W[i] = w
  <2>1. IsFiniteSet(1 .. n) /\ Cardinality(1 .. n) = n
    BY <1>1, FS_Interval
  <2>2. W \in Surjection(1 .. n, Workers)
    BY <2>1, <1>4, WorkersFinite, FS_Injection
  <2> QED  BY <2>2 DEF Surjection
<1>6. \A i, j \in 1 .. n : W[i] = W[j] => i = j  BY <1>3 DEF IsInjective
<1>7. W \in Seq(Threads) /\ Len(W) = n /\ \A i \in 1 .. n : W[i] \in Workers
  <2>1. W \in [1 .. n -> Threads]  BY <1>3 DEF Threads
  <2> QED  BY <2>1, <1>3, <1>1
<1> HIDE DEF W, n
<1>8. <<Logger>> \in Seq(Threads) /\ Len(<<Logger>>) = 1 /\ <<Logger>>[1] = Logger
  BY Roles
<1>9. Table = <<Logger>> \o W  BY DEF Table, W
<1>10. /\ Table \in Seq(Threads) /\ Len(Table) = n + 1 /\ Table[1] = Logger
       /\ \A i \in 2 .. n + 1 : Table[i] = W[i - 1]
  <2>1. /\ Table \in Seq(Threads) /\ Len(Table) = 1 + n
        /\ \A i \in 1 .. 1 + n : Table[i] = IF i <= 1 THEN <<Logger>>[i] ELSE W[i - 1]
    BY <1>7, <1>8, <1>9, ConcatProperties
  <2> QED  BY <2>1, <1>1, <1>8
<1>11. \A i \in 2 .. n + 1 : i - 1 \in 1 .. n /\ Table[i] \in Workers /\ Table[i] # Logger
  BY <1>10, <1>7, <1>1, Roles
<1>12. \A i \in 1 .. n + 1 : i = 1 \/ i \in 2 .. n + 1  BY <1>1
<1>13. \A i \in 1 .. Len(Table) : Table[i] \in Threads
  BY <1>10, <1>11, <1>12, Roles
<1>14. \A i, j \in 1 .. Len(Table) : Table[i] = Table[j] => i = j
  <2> SUFFICES ASSUME NEW i \in 1 .. n + 1, NEW j \in 1 .. n + 1, Table[i] = Table[j]
               PROVE  i = j
    BY <1>10
  <2>1. CASE i = 1 \/ j = 1  BY <2>1, <1>10, <1>11, <1>12
  <2>2. CASE i \in 2 .. n + 1 /\ j \in 2 .. n + 1
    <3>1. i - 1 = j - 1  BY <2>2, <1>10, <1>11, <1>6
    <3> QED  BY <3>1, <2>2, <1>1
  <2> QED  BY <2>1, <2>2, <1>12
<1>15. \A t \in Threads : \E i \in 1 .. Len(Table) : Table[i] = t
  <2> SUFFICES ASSUME NEW t \in Threads PROVE \E i \in 1 .. n + 1 : Table[i] = t
    BY <1>10
  <2>1. CASE t = Logger  BY <2>1, <1>10, <1>1
  <2>2. CASE t \in Workers
    <3>1. PICK i \in 1 .. n : W[i] = t  BY <2>2, <1>5
    <3>2. i + 1 \in 2 .. n + 1 /\ (i + 1) - 1 = i  BY <1>1
    <3>3. Table[i + 1] = t /\ i + 1 \in 1 .. n + 1  BY <3>1, <3>2, <1>10, <1>1
    <3> QED  BY <3>3
  <2> QED  BY <2>1, <2>2, Roles
<1> QED  BY <1>10, <1>13, <1>14, <1>15, <1>1

(* What a step of the pipeline is to the event count. *)
LEMMA StepOfEventCount ==
  ASSUME [Next]_vars
  PROVE  \/ \E t \in EcThreads : \/ EcNotify(t) \/ EcNotifyAll(t)
                                 \/ EcPrepareWait(t) \/ EcCancelWait(t) \/ EcWait(t)
                                 \/ EcStep(t) \/ Interrupted(t)
         \/ UNCHANGED ecVars
<1>1. CASE UNCHANGED vars \/ Stopped  BY <1>1 DEF vars, Stopped
<1>2. CASE \E p \in Producers : LogCall(p) \/ ProducerStep(p)
  BY <1>2, Roles DEF LogCall, ProducerStep, Reserve, ReserveRefused, CommitEntry, Notify,
                     InEventCount
<1>3. CASE (\E w \in Workers : WorkerReturns(w)) \/ TableStep \/ StopAll
  BY <1>3, Roles DEF WorkerReturns, TableStep, StopAll, StartThread, StartFails, StopThread,
                     WakeConsumer, JoinThread, DestroyLogger
<1>4. CASE ConsumerStep \/ Signal(Logger)
  BY <1>4, Roles DEF ConsumerStep, Signal, LoopTest, TakeEntry, WriteEntry, FreeEntry,
                     NothingToTake, Prepare, RecheckRunning, Cancel, Break, Wait, InEventCount
<1> QED  BY <1>1, <1>2, <1>3, <1>4 DEF Next

LEMMA EventCountKept ==
  ASSUME EcTypeOK, WaitersCounted, [Next]_vars
  PROVE  EcTypeOK' /\ WaitersCounted'
<1>1. CASE UNCHANGED ecVars
  BY <1>1 DEF ecVars, EcTypeOK, WaitersCounted, WaiterCount, Waiting
<1> QED  BY <1>1, StepOfEventCount, EcTypeStep, WaitersStep

(* Which actions change what. *)
LEMMA QueueFrame ==
  ASSUME [Next]_vars
  PROVE  \/ \E p \in Producers : Reserve(p) \/ CommitEntry(p)
         \/ TakeEntry \/ WriteEntry \/ FreeEntry
         \/ UNCHANGED <<tickets, held, out, accepted, delivered>>
<1>1. CASE UNCHANGED vars \/ Stopped  BY <1>1 DEF vars, Stopped, queueVars
<1>2. CASE \E p \in Producers : LogCall(p) \/ ProducerStep(p)
  BY <1>2 DEF LogCall, ProducerStep, ReserveRefused, Notify, InEventCount, queueVars
<1>3. CASE (\E w \in Workers : WorkerReturns(w)) \/ TableStep \/ StopAll
  BY <1>3 DEF WorkerReturns, TableStep, StopAll, StartThread, StartFails, StopThread,
              WakeConsumer, JoinThread, DestroyLogger, queueVars
<1>4. CASE ConsumerStep \/ Signal(Logger)
  BY <1>4 DEF ConsumerStep, Signal, LoopTest, NothingToTake, Prepare, RecheckRunning, Cancel,
              Break, Wait, InEventCount, queueVars
<1> QED  BY <1>1, <1>2, <1>3, <1>4 DEF Next

LEMMA TableFrame ==
  ASSUME [Next]_vars
  PROVE  \/ StartThread \/ StartFails \/ StopAll
         \/ StopThread \/ JoinThread \/ DestroyLogger
         \/ UNCHANGED <<stage, started, toStop, running>>
<1>1. CASE UNCHANGED vars \/ Stopped  BY <1>1 DEF vars, Stopped, threadVars, tableVars
<1>2. CASE \E p \in Producers : LogCall(p) \/ ProducerStep(p)
  BY <1>2 DEF LogCall, ProducerStep, Reserve, ReserveRefused, CommitEntry, Notify, InEventCount,
              threadVars, tableVars
<1>3. CASE (\E w \in Workers : WorkerReturns(w)) \/ TableStep \/ StopAll
  BY <1>3 DEF WorkerReturns, TableStep, WakeConsumer, tableVars
<1>4. CASE ConsumerStep \/ Signal(Logger)
  BY <1>4 DEF ConsumerStep, Signal, LoopTest, TakeEntry, WriteEntry, FreeEntry, NothingToTake,
              Prepare, RecheckRunning, Cancel, Break, Wait, InEventCount, threadVars, tableVars
<1> QED  BY <1>1, <1>2, <1>3, <1>4 DEF Next

LEMMA CallFrame ==
  ASSUME [Next]_vars
  PROVE  \/ \E p \in Producers : LogCall(p)
         \/ UNCHANGED <<calls, logged>>
<1>1. CASE UNCHANGED vars \/ Stopped  BY <1>1 DEF vars, Stopped, threadVars, callVars
<1>2. CASE \E p \in Producers : LogCall(p) \/ ProducerStep(p)
  BY <1>2 DEF ProducerStep, Reserve, ReserveRefused, CommitEntry, Notify, InEventCount,
              threadVars, callVars
<1>3. CASE (\E w \in Workers : WorkerReturns(w)) \/ TableStep \/ StopAll
  BY <1>3 DEF WorkerReturns, TableStep, StopAll, StartThread, StartFails, StopThread,
              WakeConsumer, JoinThread, DestroyLogger, callVars
<1>4. CASE ConsumerStep \/ Signal(Logger)
  BY <1>4 DEF ConsumerStep, Signal, LoopTest, TakeEntry, WriteEntry, FreeEntry, NothingToTake,
              Prepare, RecheckRunning, Cancel, Break, Wait, InEventCount, threadVars, callVars
<1> QED  BY <1>1, <1>2, <1>3, <1>4 DEF Next

-----------------------------------------------------------------------------
(* Types. *)
ReservedOrCommitted == Producers \cup Entries

LEMMA EntryIsEntry ==
  ASSUME TypeOK, NEW p \in Producers
  PROVE  Entry(p) \in Entries
  BY DEF TypeOK, Entry, Entries

LEMMA SeqOfFunction ==
  ASSUME NEW S, NEW n \in Nat, NEW f \in [1 .. n -> S]
  PROVE  f \in Seq(S) /\ Len(f) = n
  OBVIOUS

LEMMA FirstOfSeq ==
  ASSUME NEW S, NEW s \in Seq(S), NEW n \in 0 .. Len(s)
  PROVE  /\ SubSeq(s, 1, n) \in Seq(S) /\ Len(SubSeq(s, 1, n)) = n
         /\ \A i \in 1 .. n : SubSeq(s, 1, n)[i] = s[i]
<1>1. Len(s) \in Nat /\ \A i \in 1 .. n : s[i] \in S  OBVIOUS
<1>2. n \in Int /\ 1 \in Int  BY <1>1
<1>3. /\ SubSeq(s, 1, n) \in Seq(S)
      /\ Len(SubSeq(s, 1, n)) = IF 1 <= n THEN n - 1 + 1 ELSE 0
      /\ \A i \in 1 .. (n - 1 + 1) : SubSeq(s, 1, n)[i] = s[1 + i - 1]
  BY <1>1, <1>2, SubSeqProperties
<1>4. (IF 1 <= n THEN n - 1 + 1 ELSE 0) = n /\ n - 1 + 1 = n
      /\ \A i \in 1 .. n : 1 + i - 1 = i
  BY <1>1
<1> QED  BY <1>3, <1>4

LEMMA ReverseFacts ==
  /\ Reverse(Table) \in Seq(Threads) /\ Len(Reverse(Table)) = Len(Table)
  /\ \A i \in 1 .. Len(Table) : Reverse(Table)[i] = Table[Len(Table) - i + 1]
<1>1. \A i \in 1 .. Len(Table) : Len(Table) - i + 1 \in 1 .. Len(Table)
  BY TableFacts
<1>2. Reverse(Table) \in [1 .. Len(Table) -> Threads]
  BY <1>1, TableFacts DEF Reverse
<1>3. Reverse(Table) \in Seq(Threads) /\ Len(Reverse(Table)) = Len(Table)
  BY <1>2, TableFacts, SeqOfFunction
<1> QED  BY <1>3 DEF Reverse

LEMMA QueueTypeStep ==
  ASSUME TypeOK, [Next]_vars
  PROVE  Queue!TypeOK' /\ accepted' \in Seq(Entries) /\ delivered' \in Seq(Entries)
<1> DEFINE S == ReservedOrCommitted
           Goal == /\ tickets' \in Seq(S)
                   /\ held' \in [{Logger} -> Entries \cup {Nil}]
                   /\ out' \in [{Logger} -> Entries \cup {Nil}]
                   /\ accepted' \in Seq(Entries) /\ delivered' \in Seq(Entries)
<1>1. /\ tickets \in Seq(S) /\ held \in [{Logger} -> Entries \cup {Nil}]
      /\ out \in [{Logger} -> Entries \cup {Nil}]
      /\ accepted \in Seq(Entries) /\ delivered \in Seq(Entries)
  BY DEF TypeOK, Queue!TypeOK, ReservedOrCommitted
<1>2. Producers \subseteq S /\ Entries \subseteq S  BY DEF ReservedOrCommitted
<1>3. \A p \in Producers : Entry(p) \in Entries  BY EntryIsEntry
<1> SUFFICES Goal  BY DEF Queue!TypeOK, ReservedOrCommitted
<1> HIDE DEF S
<1>4. ASSUME NEW p \in Producers, Reserve(p)  PROVE Goal
  <2>1. tickets' = Append(tickets, p) /\ accepted' = Append(accepted, Entry(p))
        /\ UNCHANGED <<held, out, delivered>>
    BY <1>4 DEF Reserve, Queue!Reserve
  <2>2. p \in S  BY <1>2
  <2> QED  BY <2>1, <2>2, <1>1, <1>3, AppendProperties
<1>5. ASSUME NEW p \in Producers, CommitEntry(p)  PROVE Goal
  <2>1. PICK i \in 1 .. Len(tickets) : tickets' = [tickets EXCEPT ![i] = Entry(p)]
                                       /\ UNCHANGED <<held, out, accepted, delivered>>
    BY <1>5 DEF CommitEntry, Queue!Commit
  <2>2. Entry(p) \in S  BY <1>2, <1>3
  <2>3. tickets' \in Seq(S)  BY <2>1, <2>2, <1>1
  <2> QED  BY <2>1, <2>3, <1>1
<1>6. CASE TakeEntry
  <2>1. /\ tickets # <<>> /\ Head(tickets) \in Entries /\ tickets' = Tail(tickets)
        /\ held' = [held EXCEPT ![Logger] = Head(tickets)]
        /\ UNCHANGED <<out, accepted, delivered>>
    BY <1>6 DEF TakeEntry, Queue!Claim, Queue!Ready
  <2>2. Tail(tickets) \in Seq(S)  BY <1>1, <2>1, HeadTailProperties
  <2> QED  BY <2>1, <2>2, <1>1
<1>7. CASE WriteEntry
  <2>1. /\ held[Logger] # Nil /\ delivered' = Append(delivered, held[Logger])
        /\ out' = [out EXCEPT ![Logger] = held[Logger]] /\ UNCHANGED <<tickets, held, accepted>>
    BY <1>7 DEF WriteEntry, Queue!Read
  <2>2. held[Logger] \in Entries  BY <2>1, <1>1
  <2> QED  BY <2>1, <2>2, <1>1, AppendProperties
<1>8. CASE FreeEntry
  BY <1>8, <1>1 DEF FreeEntry, Queue!GiveBack
<1>9. CASE UNCHANGED <<tickets, held, out, accepted, delivered>>
  BY <1>9, <1>1
<1> QED  BY <1>4, <1>5, <1>6, <1>7, <1>8, <1>9, QueueFrame

LEMMA TableTypeStep ==
  ASSUME TypeOK, StageFits, [Next]_vars
  PROVE  /\ stage' \in {"starting", "up", "stopping", "freed"}
         /\ started' \in 0 .. Len(Table)
         /\ toStop' \in Seq(Threads) /\ running' \in [Threads -> BOOLEAN]
<1> DEFINE Goal == /\ stage' \in {"starting", "up", "stopping", "freed"}
                   /\ started' \in 0 .. Len(Table)
                   /\ toStop' \in Seq(Threads) /\ running' \in [Threads -> BOOLEAN]
<1>1. /\ stage \in {"starting", "up", "stopping", "freed"} /\ started \in 0 .. Len(Table)
      /\ toStop \in Seq(Threads) /\ running \in [Threads -> BOOLEAN]
  BY DEF TypeOK
<1>2. CASE StartThread
  <2>1. started + 1 \in 0 .. Len(Table)
    BY <1>1, <1>2, TableFacts DEF StartThread, StageFits
  <2>2. /\ started' = started + 1 /\ UNCHANGED toStop /\ stage' \in {"up", "starting"}
        /\ running' = [running EXCEPT ![Table[started + 1]] = TRUE]
    BY <1>2 DEF StartThread
  <2> QED  BY <1>1, <2>1, <2>2
<1>3. CASE StartFails
  <2>1. SubSeq(Table, 1, started) \in Seq(Threads)  BY <1>1, TableFacts, FirstOfSeq
  <2> QED  BY <2>1, <1>1, <1>3, TableFacts DEF StartFails
<1>4. CASE StopAll  BY <1>1, <1>4, ReverseFacts DEF StopAll
<1>5. CASE StopThread  BY <1>1, <1>5, TableFacts DEF StopThread
<1>6. CASE DestroyLogger  BY <1>1, <1>6, TableFacts DEF DestroyLogger
<1>7. CASE UNCHANGED <<stage, started, toStop, running>>  BY <1>1, <1>7, TableFacts
<1>8. CASE JoinThread
  <2>1. toStop # <<>>  BY <1>8 DEF JoinThread, StageFits
  <2>2. Tail(toStop) \in Seq(Threads)  BY <2>1, <1>1, HeadTailProperties
  <2> QED  BY <2>2, <1>1, <1>8 DEF JoinThread
<1> QED  BY <1>2, <1>3, <1>4, <1>5, <1>6, <1>7, <1>8, TableFrame

LEMMA PlaceTypeStep ==
  ASSUME TypeOK, [Next]_vars
  PROVE  /\ lpc' \in {"none", "loop", "consume", "write", "commit", "prepare", "recheck",
                      "cancel", "break", "wait", "exited"}
         /\ phase' \in {"try", "again", "drain"}
         /\ ppc' \in [Producers -> {"none", "idle", "reserve", "fill", "notify", "wakeup",
                                    "join", "done"}]
<1> DEFINE Labels == {"none", "idle", "reserve", "fill", "notify", "wakeup", "join", "done"}
           LLabels == {"none", "loop", "consume", "write", "commit", "prepare", "recheck",
                       "cancel", "break", "wait", "exited"}
           Phases == {"try", "again", "drain"}
           Goal == lpc' \in LLabels /\ phase' \in Phases /\ ppc' \in [Producers -> Labels]
<1> SUFFICES Goal  OBVIOUS
<1>1. lpc \in LLabels /\ phase \in Phases /\ ppc \in [Producers -> Labels]  BY DEF TypeOK
<1> HIDE DEF Labels, LLabels, Phases
<1>2. {"idle", "reserve", "fill", "notify", "wakeup", "join", "done"} \subseteq Labels
  BY DEF Labels
<1>3. CASE UNCHANGED vars \/ Stopped  BY <1>1, <1>3 DEF vars, threadVars, Stopped
<1>4. CASE \E p \in Producers : LogCall(p) \/ ProducerStep(p)
  BY <1>1, <1>2, <1>4 DEF LogCall, ProducerStep, Reserve, ReserveRefused, CommitEntry, Notify,
                          InEventCount, threadVars, PGoto
<1>5. CASE \E w \in Workers : WorkerReturns(w)
  BY <1>1, <1>2, <1>5 DEF WorkerReturns, PGoto
<1>6. CASE StartThread
  <2>1. ppc' \in [Producers -> Labels]  BY <1>1, <1>2, <1>6 DEF StartThread
  <2> QED  BY <2>1, <1>1, <1>6 DEF StartThread, LLabels
<1>7. CASE StartFails \/ StopAll \/ StopThread \/ WakeConsumer \/ JoinThread \/ DestroyLogger
  BY <1>1, <1>2, <1>7 DEF StartFails, StopAll, StopThread, WakeConsumer, JoinThread,
                          DestroyLogger, PGoto
<1>8. CASE ConsumerStep \/ Signal(Logger)
  <2>1. ppc' = ppc
    BY <1>8 DEF ConsumerStep, Signal, LoopTest, TakeEntry, WriteEntry, FreeEntry, NothingToTake,
                Prepare, RecheckRunning, Cancel, Break, Wait, InEventCount, threadVars
  <2>2. lpc' \in LLabels /\ phase' \in Phases
    BY <1>1, <1>8
       DEF ConsumerStep, Signal, LoopTest, TakeEntry, WriteEntry, FreeEntry, NothingToTake,
           Prepare, RecheckRunning, Cancel, Break, Wait, InEventCount, threadVars,
           Consume, CGoto, LLabels, Phases
  <2> QED  BY <2>1, <2>2, <1>1
<1> QED  BY <1>3, <1>4, <1>5, <1>6, <1>7, <1>8 DEF Next, TableStep

LEMMA CallTypeStep ==
  ASSUME TypeOK, [Next]_vars
  PROVE  calls' \in [Producers -> Nat] /\ logged' \in 0 .. MaxLogs
<1>1. calls \in [Producers -> Nat] /\ logged \in 0 .. MaxLogs /\ MaxLogs \in Nat
  BY PipelineAssumption DEF TypeOK
<1>2. ASSUME NEW p \in Producers, LogCall(p)
      PROVE  calls' \in [Producers -> Nat] /\ logged' \in 0 .. MaxLogs
  <2>1. calls' = [calls EXCEPT ![p] = @ + 1] /\ logged' = logged + 1 /\ logged < MaxLogs
    BY <1>2 DEF LogCall
  <2>2. calls[p] + 1 \in Nat  BY <1>1
  <2>3. logged' \in 0 .. MaxLogs  BY <2>1, <1>1
  <2> QED  BY <1>1, <2>1, <2>2, <2>3
<1> QED  BY <1>1, <1>2, CallFrame

LEMMA TypeStep ==
  ASSUME TypeOK, WaitersCounted, StageFits, [Next]_vars
  PROVE  TypeOK' /\ WaitersCounted'
<1>1. EcTypeOK' /\ WaitersCounted'  BY EventCountKept DEF TypeOK
<1> QED
  BY <1>1, QueueTypeStep, TableTypeStep, PlaceTypeStep, CallTypeStep, TableFacts DEF TypeOK


-----------------------------------------------------------------------------
(* Where a producer stands in the event count. *)
LEMMA AtOfProducer ==
  ASSUME TypeOK, ProducersPlace, [Next]_vars, NEW p \in Producers
  PROVE  \/ at'[p] = at[p] \/ at'[p] = "out"
         \/ at'[p] \in {"wake1", "wakeAll"} /\ (Notify(p) \/ (p = Main /\ WakeConsumer))
<1>1. at \in [EcThreads -> EcLabels] /\ p \in EcThreads /\ EcTypeOK
      /\ at[p] \in {"out", "wake1", "wakeAll"}
  BY Roles DEF TypeOK, EcTypeOK, ProducersPlace
<1>2. CASE UNCHANGED at  BY <1>2
<1>3. CASE \E t \in EcThreads : t # p /\
             \/ EcNotify(t) \/ EcNotifyAll(t)
             \/ EcPrepareWait(t) \/ EcCancelWait(t) \/ EcWait(t)
             \/ EcStep(t) \/ Interrupted(t)
  BY <1>1, <1>3, AtOfOther
<1>4. CASE Notify(p) \/ (p = Main /\ WakeConsumer)
  BY <1>1, <1>4 DEF Notify, WakeConsumer, EcNotify, EcNotifyAll, EcAdvance, EcGoto
<1>5. CASE InEventCount(p)
  BY <1>1, <1>5 DEF InEventCount, EcStep, FutexWake, CheckEpoch, FutexWait, LeaveWait, EcGoto
<1>6. CASE UNCHANGED vars \/ Stopped  BY <1>2, <1>6 DEF vars, ecVars, Stopped
<1>7. CASE \E q \in Producers : LogCall(q) \/ ProducerStep(q)
  <2>1. PICK q \in Producers : LogCall(q) \/ ProducerStep(q)  BY <1>7
  <2>2. q \in EcThreads  BY Roles
  <2> QED
    BY <2>1, <2>2, <1>2, <1>3, <1>4, <1>5
       DEF LogCall, ProducerStep, Reserve, ReserveRefused, CommitEntry, Notify, InEventCount,
           ecVars
<1>8. CASE (\E w \in Workers : WorkerReturns(w)) \/ TableStep \/ StopAll
  BY <1>8, <1>2, <1>3, <1>4, Roles
     DEF WorkerReturns, TableStep, StopAll, StartThread, StartFails, StopThread, WakeConsumer,
         JoinThread, DestroyLogger, ecVars
<1>9. CASE ConsumerStep \/ Signal(Logger)
  BY <1>9, <1>2, <1>3, Roles
     DEF ConsumerStep, Signal, LoopTest, TakeEntry, WriteEntry, FreeEntry, NothingToTake,
         Prepare, RecheckRunning, Cancel, Break, Wait, InEventCount, ecVars
<1> QED  BY <1>6, <1>7, <1>8, <1>9 DEF Next

(* Steps that are not of Main leave Main and the table where they are. *)
LEMMA StepsOfMain ==
  ASSUME TypeOK, ProducersPlace, [Next]_vars
  PROVE  \/ UNCHANGED <<stage, started, toStop, running>> /\ ppc'[Main] = ppc[Main]
            /\ (at[Main] = "out" => at'[Main] = "out")
         \/ LogCall(Main) \/ Reserve(Main) \/ ReserveRefused(Main) \/ CommitEntry(Main)
         \/ Notify(Main) \/ TableStep \/ StopAll
<1> DEFINE Still == UNCHANGED <<stage, started, toStop, running>> /\ ppc'[Main] = ppc[Main]
                    /\ (at[Main] = "out" => at'[Main] = "out")
<1>1. Main \in Producers /\ DOMAIN ppc = Producers  BY Roles DEF TypeOK
<1>2. WakeConsumer \/ Notify(Main) \/ (at[Main] = "out" => at'[Main] = "out")
  BY <1>1, AtOfProducer
<1>3. CASE UNCHANGED vars \/ Stopped
  BY <1>3 DEF vars, ecVars, threadVars, tableVars, Stopped
<1>4. CASE \E q \in Producers : LogCall(q) \/ ProducerStep(q)
  <2>1. PICK q \in Producers : LogCall(q) \/ ProducerStep(q)  BY <1>4
  <2>2. CASE q # Main
    <3>1. UNCHANGED <<stage, started, toStop, running>>
      BY <2>1 DEF LogCall, ProducerStep, Reserve, ReserveRefused, CommitEntry, Notify,
                  InEventCount, threadVars, tableVars
    <3>2. ppc'[Main] = ppc[Main]
      BY <2>1, <2>2, <1>1 DEF LogCall, ProducerStep, Reserve, ReserveRefused, CommitEntry,
                             Notify, InEventCount, threadVars, PGoto
    <3> QED  BY <3>1, <3>2, <1>2 DEF TableStep
  <2>3. CASE InEventCount(Main)
    BY <2>3, <1>2 DEF InEventCount, threadVars, tableVars, TableStep
  <2> QED  BY <2>1, <2>2, <2>3 DEF ProducerStep
<1>5. CASE \E w \in Workers : WorkerReturns(w)
  <2>1. PICK w \in Workers : WorkerReturns(w)  BY <1>5
  <2>2. UNCHANGED <<stage, started, toStop, running>> /\ UNCHANGED at
    BY <2>1 DEF WorkerReturns, tableVars, ecVars
  <2>3. ppc'[Main] = ppc[Main]  BY <2>1, <1>1, Roles DEF WorkerReturns, PGoto
  <2> QED  BY <2>2, <2>3
<1>6. CASE ConsumerStep \/ Signal(Logger)
  <2>1. UNCHANGED <<stage, started, toStop, running, ppc>>
    BY <1>6 DEF ConsumerStep, Signal, LoopTest, TakeEntry, WriteEntry, FreeEntry, NothingToTake,
                Prepare, RecheckRunning, Cancel, Break, Wait, InEventCount, threadVars, tableVars
  <2> QED  BY <2>1, <1>2 DEF TableStep
<1> QED  BY <1>3, <1>4, <1>5, <1>6 DEF Next


-----------------------------------------------------------------------------
(* The table. *)
LEMMA StartedUp ==
  ASSUME TypeOK, started < Len(Table), started' = started + 1
  PROVE  /\ \A t \in Threads : Started(t)' <=> Started(t) \/ t = Table[started + 1]
         /\ Table[started + 1] \in Threads /\ ~Started(Table[started + 1])
<1>1. started \in Nat /\ started + 1 \in 1 .. Len(Table)  BY TableFacts DEF TypeOK
<1>2. \A i \in 1 .. started : i \in 1 .. Len(Table) /\ i # started + 1
  BY <1>1, TableFacts
<1>3. \A i : i \in 1 .. (started + 1) <=> (i \in 1 .. started \/ i = started + 1)  BY <1>1
<1> QED  BY <1>1, <1>2, <1>3, TableFacts DEF Started

LEMMA StartedSame ==
  ASSUME UNCHANGED started, NEW t
  PROVE  Started(t)' <=> Started(t)
  BY DEF Started

LEMMA WholeTable ==
  ASSUME AllStarted, NEW t \in Threads
  PROVE  Started(t)
  BY TableFacts DEF AllStarted, Started

LEMMA StageStep ==
  ASSUME IInv, [Next]_vars
  PROVE  StageFits'
<1>0. TypeOK /\ ProducersPlace /\ StageFits /\ StopsInOrder  BY DEF IInv
<1>1. /\ TypeOK /\ ProducersPlace /\ StageFits /\ StopsInOrder
      /\ Main \in Producers /\ Main \notin Threads
      /\ DOMAIN ppc = Producers
      /\ started \in Nat /\ running \in [Threads -> BOOLEAN] /\ toStop \in Seq(Threads)
  <2>1. /\ started \in 0 .. Len(Table) /\ running \in [Threads -> BOOLEAN]
        /\ toStop \in Seq(Threads) /\ DOMAIN ppc = Producers
    BY <1>0 DEF TypeOK
  <2>2. started \in Nat  BY <2>1, TableFacts
  <2> QED  BY <1>0, <2>1, <2>2, Roles
<1> USE DEF StageFits
<1>2. CASE UNCHANGED <<stage, started, toStop, running>> /\ ppc'[Main] = ppc[Main]
           /\ (at[Main] = "out" => at'[Main] = "out")
  BY <1>1, <1>2, StartedSame DEF AllStarted
<1>3. CASE LogCall(Main) \/ Reserve(Main) \/ ReserveRefused(Main) \/ CommitEntry(Main)
           \/ Notify(Main)
  <2>1. UNCHANGED <<stage, started, toStop, running>> /\ ppc[Main] \notin {"wakeup", "join"}
        /\ ppc'[Main] \in {"idle", "reserve", "fill", "notify"}
        /\ stage = "up"
    BY <1>1, <1>3 DEF LogCall, Reserve, ReserveRefused, CommitEntry, Notify, tableVars, PGoto,
                      TypeOK
  <2> QED  BY <1>1, <2>1, StartedSame DEF AllStarted
<1>4. CASE StartThread
  <2>1. /\ stage = "starting" /\ started < Len(Table) /\ started' = started + 1
        /\ running' = [running EXCEPT ![Table[started + 1]] = TRUE]
        /\ stage' = IF started + 1 = Len(Table) THEN "up" ELSE "starting"
        /\ UNCHANGED toStop /\ toStop = <<>>
        /\ ppc'[Main] = "idle" /\ at'[Main] = at[Main] /\ at[Main] = "out"
    BY <1>1, <1>4 DEF StartThread, ecVars
  <2>2. \A t \in Threads : Started(t)' => running'[t]
    BY <1>1, <2>1, StartedUp
  <2> QED  BY <1>1, <2>1, <2>2, TableFacts DEF AllStarted
<1>5. CASE StartFails
  BY <1>1, <1>5 DEF StartFails, ecVars
<1>6. CASE StopAll
  BY <1>1, <1>6 DEF StopAll, ecVars
<1>7. CASE StopThread
  <2>1. Head(toStop) \in Threads  BY <1>1, <1>7, HeadTailProperties DEF StopThread
  <2>2. /\ UNCHANGED <<stage, toStop>> /\ stage = "stopping" /\ toStop # <<>>
        /\ running'[Head(toStop)] = FALSE
        /\ ppc'[Main] = IF Head(toStop) = Logger THEN "wakeup" ELSE "join"
    BY <1>1, <1>7, <2>1 DEF StopThread, PGoto
  <2> QED  BY <2>1, <2>2
<1>8. CASE WakeConsumer
  <2>1. UNCHANGED <<stage, started, toStop, running>> /\ ppc[Main] = "wakeup"
        /\ ppc'[Main] = "join"
    BY <1>1, <1>8 DEF WakeConsumer, tableVars, PGoto
  <2> QED  BY <1>1, <2>1
<1>9. CASE JoinThread
  <2>1. /\ stage = "stopping" /\ UNCHANGED stage /\ ppc'[Main] = "idle" /\ at'[Main] = "out"
    BY <1>1, <1>9 DEF JoinThread, PGoto, ecVars
  <2> QED  BY <2>1
<1>10. CASE DestroyLogger
  BY <1>1, <1>10 DEF DestroyLogger, ecVars
<1> QED
  BY <1>1, <1>2, <1>3, <1>4, <1>5, <1>6, <1>7, <1>8, <1>9, <1>10, StepsOfMain DEF TableStep


(* A thread that has not begun, or has ended, stays so but for its start. *)
LEMMA AtRest ==
  ASSUME TypeOK, [Next]_vars
  PROVE  \/ StartThread
         \/ /\ lpc \in {"none", "exited"} => lpc' = lpc
            /\ \A w \in Workers : ppc[w] \in {"none", "done"} => ppc'[w] = ppc[w]
<1> DEFINE Kept == \A w \in Workers : ppc[w] \in {"none", "done"} => ppc'[w] = ppc[w]
<1>1. DOMAIN ppc = Producers  BY DEF TypeOK
<1>2. CASE UNCHANGED vars \/ Stopped  BY <1>2 DEF vars, threadVars, Stopped
<1>3. CASE \E p \in Producers : LogCall(p) \/ ProducerStep(p)
  <2>1. PICK p \in Producers : LogCall(p) \/ ProducerStep(p)  BY <1>3
  <2>2. UNCHANGED lpc
    BY <2>1 DEF LogCall, ProducerStep, Reserve, ReserveRefused, CommitEntry, Notify,
                InEventCount, threadVars
  <2>3. Kept
    BY <2>1, <1>1, Roles
       DEF LogCall, ProducerStep, Reserve, ReserveRefused, CommitEntry, Notify, InEventCount,
           threadVars, PGoto
  <2> QED  BY <2>2, <2>3
<1>4. CASE \E w \in Workers : WorkerReturns(w)
  BY <1>4, <1>1, Roles DEF WorkerReturns, PGoto
<1>5. CASE StartFails \/ StopAll \/ StopThread \/ WakeConsumer \/ JoinThread \/ DestroyLogger
  BY <1>5, <1>1, Roles DEF StartFails, StopAll, StopThread, WakeConsumer, JoinThread,
                           DestroyLogger, PGoto
<1>6. CASE ConsumerStep \/ Signal(Logger)
  <2>1. UNCHANGED ppc
    BY <1>6 DEF ConsumerStep, Signal, LoopTest, TakeEntry, WriteEntry, FreeEntry, NothingToTake,
                Prepare, RecheckRunning, Cancel, Break, Wait, InEventCount, threadVars
  <2>2. lpc \in {"none", "exited"} => lpc' = lpc
    BY <1>6 DEF ConsumerStep, Signal, LoopTest, TakeEntry, WriteEntry, FreeEntry, NothingToTake,
                Prepare, RecheckRunning, Cancel, Break, Wait, InEventCount, threadVars
  <2> QED  BY <2>1, <2>2
<1> QED  BY <1>2, <1>3, <1>4, <1>5, <1>6 DEF Next, TableStep

LEMMA NotBegunStep ==
  ASSUME IInv, [Next]_vars
  PROVE  NotBegun'
<1>1. /\ TypeOK /\ StageFits /\ NotBegun /\ toStop \in Seq(Threads)
      /\ running \in [Threads -> BOOLEAN] /\ DOMAIN ppc = Producers
  BY DEF IInv, TypeOK
<1> SUFFICES ASSUME NEW t \in Threads, ~Started(t)'
             PROVE  /\ ~running'[t]
                    /\ IF t = Logger THEN lpc' = "none" ELSE ppc'[t] = "none"
  BY DEF NotBegun
<1>2. t = Logger \/ t \in Workers  BY Roles
<1>3. CASE StartThread
  <2>1. /\ stage = "starting" /\ started' = started + 1
        /\ running' = [running EXCEPT ![Table[started + 1]] = TRUE]
        /\ lpc' = IF Table[started + 1] = Logger THEN "loop" ELSE lpc
        /\ \A p \in Producers : p # Table[started + 1] => ppc'[p] = ppc[p]
    BY <1>3 DEF StartThread
  <2>2. started < Len(Table)  BY <2>1, <1>1 DEF StageFits
  <2>3. ~Started(t) /\ t # Table[started + 1]  BY <2>1, <2>2, <1>1, StartedUp
  <2> QED  BY <2>1, <2>3, <1>1, <1>2, Roles DEF NotBegun
<1>4. CASE ~StartThread
  <2>1. UNCHANGED started /\ ~running'[t]
    <3>1. CASE StopThread
      <4>1. Head(toStop) \in Threads /\ UNCHANGED started
            /\ running' = [running EXCEPT ![Head(toStop)] = FALSE]
        BY <1>1, <3>1, HeadTailProperties DEF StopThread
      <4>2. ~Started(t)  BY <4>1, StartedSame
      <4> QED  BY <4>1, <4>2, <1>1 DEF NotBegun
    <3>2. CASE ~StopThread
      <4>1. UNCHANGED <<started, running>>
        BY <1>4, <3>2, TableFrame DEF StartFails, StopAll, JoinThread, DestroyLogger
      <4>2. ~Started(t)  BY <4>1, StartedSame
      <4> QED  BY <4>1, <4>2, <1>1 DEF NotBegun
    <3> QED  BY <3>1, <3>2
  <2>2. ~Started(t)  BY <2>1, StartedSame
  <2> QED  BY <2>1, <2>2, <1>1, <1>2, <1>4, AtRest, Roles DEF NotBegun
<1> QED  BY <1>3, <1>4


LEMMA EndedStays ==
  ASSUME TypeOK, [Next]_vars, ~StartThread, NEW t \in Threads, Ended(t)
  PROVE  Ended(t)'
<1>1. t = Logger \/ (t \in Workers /\ t # Logger)  BY Roles
<1> QED  BY <1>1, AtRest DEF Ended

LEMMA StopsStep ==
  ASSUME IInv, [Next]_vars
  PROVE  StopsInOrder'
<1>1. TypeOK /\ ProducersPlace /\ StageFits /\ StopsInOrder  BY DEF IInv
<1>2. /\ Main \in Producers /\ Main \notin Threads /\ DOMAIN ppc = Producers
      /\ started \in Nat /\ running \in [Threads -> BOOLEAN] /\ toStop \in Seq(Threads)
      /\ Len(toStop) \in Nat /\ \A i \in 1 .. Len(toStop) : toStop[i] \in Threads
  <2>1. /\ started \in 0 .. Len(Table) /\ running \in [Threads -> BOOLEAN]
        /\ toStop \in Seq(Threads) /\ DOMAIN ppc = Producers
    BY <1>1 DEF TypeOK
  <2>2. started \in Nat  BY <2>1, TableFacts
  <2>3. Len(toStop) \in Nat /\ \A i \in 1 .. Len(toStop) : toStop[i] \in Threads  BY <2>1
  <2> QED  BY <2>1, <2>2, <2>3, Roles
<1>3. CASE UNCHANGED <<stage, started, toStop, running>>
  <2>1. ~StartThread  BY <1>2, <1>3 DEF StartThread
  <2>2. toStop # <<>> /\ ppc'[Main] = "idle" => ppc[Main] = "idle"
    <3> SUFFICES ASSUME toStop # <<>>, ppc'[Main] = "idle", ppc[Main] # "idle" PROVE FALSE
      OBVIOUS
    <3>1. stage = "stopping" /\ ppc[Main] \in {"wakeup", "join"}
      BY <1>1 DEF StageFits, TypeOK
    <3>2. ~JoinThread
      <4>1. Len(Tail(toStop)) # Len(toStop)  BY <1>2, HeadTailProperties
      <4> QED  BY <4>1, <1>3 DEF JoinThread
    <3> QED
      BY <3>1, <3>2, <1>1, <1>2, StepsOfMain
         DEF LogCall, Reserve, ReserveRefused, CommitEntry, Notify, TableStep, StopAll, StartThread,
             StartFails, StopThread, WakeConsumer, DestroyLogger, PGoto
  <2>3. \A t \in Threads : (Ended(t) => Ended(t)') /\ (Started(t)' <=> Started(t))
    BY <1>1, <1>3, <2>1, EndedStays, StartedSame
  <2>4. Len(toStop') = Len(toStop) /\ \A i \in 1 .. Len(toStop) : toStop # <<>>
    BY <1>2, <1>3
  <2> QED  BY <1>1, <1>2, <1>3, <2>2, <2>3, <2>4 DEF StopsInOrder, AllStarted
<1>4. CASE StartThread
  <2>1. toStop' = <<>> /\ stage' \in {"starting", "up"}
    BY <1>1, <1>4 DEF StartThread, StageFits
  <2> QED  BY <2>1 DEF StopsInOrder
<1>5. CASE StartFails
  <2>1. /\ stage = "starting" /\ started < Len(Table) /\ toStop' = SubSeq(Table, 1, started)
        /\ UNCHANGED <<started, running, lpc, ppc>>
    BY <1>1, <1>5 DEF StartFails, StageFits
  <2>2. /\ Len(toStop') = started /\ started # Len(Table)
        /\ \A i \in 1 .. started : toStop'[i] = Table[i] /\ i \in 1 .. Len(Table)
    <3>1. started \in 0 .. Len(Table) /\ \A i \in 1 .. started : i \in 1 .. Len(Table)
      BY <1>2, <2>1, TableFacts
    <3> QED  BY <3>1, <2>1, TableFacts, FirstOfSeq
  <2>4. \A i \in 1 .. started : running[Table[i]]
    BY <1>1, <2>1, <2>2, TableFacts DEF StageFits, Started
  <2>5. \A t \in Threads : Started(t) => \E i \in 1 .. started : toStop'[i] = t
    BY <2>2 DEF Started
  <2>6. ASSUME NEW i \in 1 .. started, NEW j \in 1 .. started, toStop'[i] = toStop'[j]
        PROVE  i = j
    <3>1. i \in 1 .. Len(Table) /\ j \in 1 .. Len(Table) /\ Table[i] = Table[j]
      BY <2>2, <2>6
    <3> QED  BY <3>1, TableFacts
  <2>7. \A i \in 1 .. started : running'[toStop'[i]] /\ \E j \in 1 .. started : Table[j] = toStop'[i]
    BY <2>1, <2>2, <2>4
  <2> QED  BY <2>1, <2>2, <2>5, <2>6, <2>7 DEF StopsInOrder, Started, AllStarted
<1>6. CASE StopAll
  <2> DEFINE n == Len(Table)
             R == Reverse(Table)
  <2>1. stage = "up" /\ AllStarted /\ toStop' = R /\ UNCHANGED <<started, running, lpc, ppc>>
    BY <1>1, <1>6 DEF StopAll, StageFits
  <2>2. /\ n \in Nat \ {0} /\ Len(R) = n /\ \A i \in 1 .. n : R[i] = Table[n - i + 1]
        /\ \A i \in 1 .. n : n - i + 1 \in 1 .. n
    <3>1. n \in Nat \ {0} /\ Len(R) = n /\ \A i \in 1 .. n : R[i] = Table[n - i + 1]
      BY ReverseFacts, TableFacts
    <3> HIDE DEF R, n
    <3> QED  BY <3>1
  <2> HIDE DEF R, n
  <2>3. \A t \in Threads : (\E j \in 1 .. started : Table[j] = t) /\ running'[t]
    BY <1>1, <2>1, WholeTable DEF StageFits, Started
  <2>4. /\ \A i \in 1 .. n : R[i] \in Threads /\ (R[i] = Logger <=> i = n)
        /\ \A i, j \in 1 .. n : R[i] = R[j] => i = j
        /\ \A t \in Threads : \E i \in 1 .. n : R[i] = t
    <3> USE <2>2
    <3>1. /\ \A i \in 1 .. n : Table[i] \in Threads
          /\ \A i, j \in 1 .. n : Table[i] = Table[j] => i = j
          /\ \A t \in Threads : \E i \in 1 .. n : Table[i] = t
          /\ Table[1] = Logger
      BY TableFacts DEF n
    <3>2. \A i \in 1 .. n : R[i] \in Threads  BY <3>1
    <3>3. ASSUME NEW i \in 1 .. n, NEW j \in 1 .. n, R[i] = R[j]  PROVE i = j
      <4>1. n - i + 1 = n - j + 1  BY <3>1, <3>3
      <4> QED  BY <4>1
    <3>4. R[n] = Logger /\ n \in 1 .. n  BY <3>1
    <3>5. ASSUME NEW t \in Threads  PROVE \E i \in 1 .. n : R[i] = t
      <4>1. PICK j \in 1 .. n : Table[j] = t  BY <3>1
      <4>2. n - j + 1 \in 1 .. n /\ n - (n - j + 1) + 1 = j  OBVIOUS
      <4> QED  BY <4>1, <4>2
    <3> QED  BY <3>2, <3>3, <3>4, <3>5
  <2> QED  BY <2>1, <2>2, <2>3, <2>4 DEF StopsInOrder, Started
<1>7. CASE StopThread
  <2>1. /\ toStop # <<>> /\ stage = "stopping" /\ UNCHANGED <<stage, started, toStop>>
        /\ running' = [running EXCEPT ![Head(toStop)] = FALSE]
        /\ ppc'[Main] # "idle"
    BY <1>2, <1>7 DEF StopThread, PGoto
  <2>2. Head(toStop) = toStop[1] /\ 1 \in 1 .. Len(toStop)  BY <1>2, <2>1
  <2>3. \A i \in 1 .. Len(toStop) : i > 1 => running'[toStop[i]] = running[toStop[i]]
    <3>1. \A i \in 1 .. Len(toStop) : i > 1 => toStop[i] # toStop[1]
      BY <1>1, <1>2, <2>2 DEF StopsInOrder
    <3> QED  BY <3>1, <1>2, <2>1, <2>2
  <2>4. ~StartThread  BY <2>1 DEF StartThread
  <2>5. \A t \in Threads : (Ended(t) => Ended(t)') /\ (Started(t)' <=> Started(t))
    BY <1>1, <2>1, <2>4, EndedStays, StartedSame
  <2> QED  BY <1>1, <1>2, <2>1, <2>3, <2>5 DEF StopsInOrder, AllStarted
<1>8. CASE JoinThread
  <2> DEFINE n == Len(toStop)
  <2>1. /\ toStop # <<>> /\ toStop' = Tail(toStop) /\ UNCHANGED <<stage, started, running>>
        /\ Ended(Head(toStop))
    BY <1>1, <1>8 DEF JoinThread, StageFits
  <2>2. Head(toStop) = toStop[1] /\ n \in Nat \ {0} /\ 1 \in 1 .. n  BY <1>2, <2>1
  <2>3. /\ toStop' \in Seq(Threads) /\ Len(toStop') = n - 1
        /\ \A i \in 1 .. (n - 1) : toStop'[i] = toStop[i + 1]
    BY <1>2, <2>1, HeadTailProperties
  <2>4. ~StartThread  BY <1>2, <2>1 DEF StartThread
  <2>5. \A t \in Threads : Ended(t) => Ended(t)'
    BY <1>1, <2>1, <2>4, EndedStays
  <2>6. /\ \A i \in 1 .. n : /\ toStop[i] \in Threads /\ Started(toStop[i])
                             /\ i > 1 => running[toStop[i]]
                             /\ AllStarted => (toStop[i] = Logger <=> i = n)
        /\ \A i, j \in 1 .. n : toStop[i] = toStop[j] => i = j
        /\ stage \in {"stopping", "freed"} =>
             \A t \in Threads : Started(t) => Ended(t) \/ \E i \in 1 .. n : toStop[i] = t
    BY <1>1, <1>2 DEF StopsInOrder
  <2>7. AllStarted' <=> AllStarted  BY <2>1 DEF AllStarted
  <2> HIDE DEF n
  <2>8. \A i \in 1 .. (n - 1) : i + 1 \in 1 .. n /\ i + 1 > 1 /\ (i + 1 = n <=> i = n - 1)
    BY <2>2
  <2>9. \A i \in 1 .. (n - 1) :
          /\ Started(toStop[i + 1]) /\ running'[toStop'[i]]
          /\ AllStarted => (toStop'[i] = Logger <=> i = n - 1)
    BY <2>1, <2>3, <2>6, <2>8
  <2>13. \A i \in 1 .. (n - 1) : \E j \in 1 .. started : Table[j] = toStop'[i]
    BY <2>3, <2>9 DEF Started
  <2>10. ASSUME NEW i \in 1 .. (n - 1), NEW j \in 1 .. (n - 1), toStop'[i] = toStop'[j]
         PROVE  i = j
    <3>1. i + 1 = j + 1  BY <2>3, <2>6, <2>8, <2>10
    <3> QED  BY <3>1, <2>2
  <2>11. ASSUME stage' \in {"stopping", "freed"}, NEW t \in Threads, Started(t)
         PROVE  Ended(t)' \/ \E i \in 1 .. (n - 1) : toStop'[i] = t
    <3>1. CASE Ended(t)  BY <3>1, <2>5
    <3>2. CASE ~Ended(t)
      <4>1. PICK j \in 1 .. n : toStop[j] = t  BY <2>1, <2>5, <2>6, <2>11, <3>2
      <4>2. j # 1  BY <4>1, <2>1, <2>2, <3>2
      <4>3. j - 1 \in 1 .. (n - 1) /\ (j - 1) + 1 = j  BY <4>2, <2>2
      <4>4. toStop'[j - 1] = t  BY <4>1, <4>3, <2>3
      <4> QED  BY <4>3, <4>4
    <3> QED  BY <3>1, <3>2
  <2>12. AllStarted' /\ toStop' # <<>> => toStop'[Len(toStop')] = Logger
    <3> SUFFICES ASSUME AllStarted', toStop' # <<>> PROVE toStop'[n - 1] = Logger
      BY <2>3
    <3>1. n - 1 \in 1 .. (n - 1)  BY <2>2, <2>3
    <3> QED  BY <3>1, <2>7, <2>9
  <2>14. started' = started  BY <2>1
  <2> QED  BY <2>3, <2>7, <2>9, <2>10, <2>11, <2>12, <2>13, <2>14 DEF StopsInOrder, Started
<1>9. CASE DestroyLogger
  <2>1. /\ toStop = <<>> /\ stage = "stopping"
        /\ UNCHANGED <<started, toStop, running, lpc, ppc>>
    BY <1>9 DEF DestroyLogger
  <2>2. ~StartThread  BY <2>1 DEF StartThread
  <2>3. \A t \in Threads : (Ended(t) => Ended(t)') /\ (Started(t)' <=> Started(t))
    BY <1>1, <2>1, <2>2, EndedStays, StartedSame
  <2>4. \A t \in Threads : Started(t) => Ended(t)
    BY <1>1, <2>1 DEF StopsInOrder
  <2> QED  BY <2>1, <2>3, <2>4 DEF StopsInOrder
<1> QED  BY <1>3, <1>4, <1>5, <1>6, <1>7, <1>8, <1>9, TableFrame


-----------------------------------------------------------------------------
(* The consumer's place. *)
LEMMA StepsOfOthers ==
  ASSUME TypeOK, [Next]_vars
  PROVE  \/ ConsumerStep \/ Signal(Logger) \/ StartThread
         \/ /\ UNCHANGED <<lpc, phase, held, delivered>>
            /\ at'[Logger] = at[Logger] \/ (at[Logger] = "asleep" /\ at'[Logger] = "check")
            /\ key'[Logger] = key[Logger]
            /\ running'[Logger] => running[Logger]
<1> DEFINE Far == /\ at'[Logger] = at[Logger] \/ (at[Logger] = "asleep" /\ at'[Logger] = "check")
                  /\ key'[Logger] = key[Logger]
<1>1. EcTypeOK /\ running \in [Threads -> BOOLEAN] /\ Logger \in Threads /\ Logger \in EcThreads
  BY Roles DEF TypeOK
<1>2. UNCHANGED ecVars => Far  BY DEF ecVars
<1>3. ASSUME NEW p \in Producers,
             EcNotify(p) \/ EcNotifyAll(p) \/ EcStep(p)
      PROVE  Far
  BY <1>1, <1>3, AtOfOther, Roles
<1>4. CASE UNCHANGED vars \/ Stopped
  BY <1>4, <1>2 DEF vars, Stopped, threadVars, tableVars, queueVars
<1>5. CASE \E p \in Producers : LogCall(p) \/ ProducerStep(p)
  <2>1. PICK p \in Producers : LogCall(p) \/ ProducerStep(p)  BY <1>5
  <2>2. Far
    BY <2>1, <1>2, <1>3 DEF LogCall, ProducerStep, Reserve, ReserveRefused, CommitEntry, Notify,
                            InEventCount
  <2>3. UNCHANGED <<lpc, phase, held, delivered, running>>
    BY <2>1 DEF LogCall, ProducerStep, Reserve, ReserveRefused, CommitEntry, Notify, InEventCount,
                threadVars, tableVars, queueVars, Queue!Reserve, Queue!Commit
  <2> QED  BY <2>2, <2>3
<1>6. CASE \E w \in Workers : WorkerReturns(w)
  BY <1>6, <1>2 DEF WorkerReturns, queueVars, tableVars
<1>7. CASE StartFails \/ StopAll \/ StopThread \/ WakeConsumer \/ JoinThread \/ DestroyLogger
  <2>1. Far
    BY <1>7, <1>2, <1>3, Roles DEF StartFails, StopAll, StopThread, WakeConsumer, JoinThread,
                                   DestroyLogger
  <2>2. UNCHANGED <<lpc, phase, held, delivered>>
    BY <1>7 DEF StartFails, StopAll, StopThread, WakeConsumer, JoinThread, DestroyLogger,
                queueVars
  <2>3. running'[Logger] => running[Logger]
    <3>1. CASE StopThread  BY <1>1, <3>1 DEF StopThread
    <3>2. CASE ~StopThread
      BY <1>7, <3>2 DEF StartFails, StopAll, WakeConsumer, JoinThread, DestroyLogger, tableVars
    <3> QED  BY <3>1, <3>2
  <2> QED  BY <2>1, <2>2, <2>3
<1> QED  BY <1>4, <1>5, <1>6, <1>7 DEF Next, TableStep

LEMMA ConsumerPlaceStep ==
  ASSUME IInv, [Next]_vars
  PROVE  ConsumerPlace'
<1>1. TypeOK /\ ConsumerPlace /\ NotBegun /\ StageFits /\ ProducersPlace  BY DEF IInv
<1>2. /\ Logger \in Threads /\ Logger \in EcThreads /\ DOMAIN at = EcThreads
      /\ held \in [{Logger} -> Entries \cup {Nil}]
      /\ tickets \in Seq(ReservedOrCommitted) /\ Nil \notin Entries
      /\ running \in [Threads -> BOOLEAN]
      /\ phase \in {"try", "again", "drain"}
  BY <1>1, Roles, PipelineAssumption DEF TypeOK, EcTypeOK, Queue!TypeOK, ReservedOrCommitted
<1>3. CASE /\ UNCHANGED <<lpc, phase, held, delivered>>
           /\ at'[Logger] = at[Logger] \/ (at[Logger] = "asleep" /\ at'[Logger] = "check")
           /\ key'[Logger] = key[Logger]
           /\ running'[Logger] => running[Logger]
  BY <1>1, <1>3 DEF ConsumerPlace, Consuming
<1>4. CASE StartThread
  <2>1. /\ stage = "starting" /\ started' = started + 1
        /\ running' = [running EXCEPT ![Table[started + 1]] = TRUE]
        /\ lpc' = IF Table[started + 1] = Logger THEN "loop" ELSE lpc
        /\ UNCHANGED <<phase, held, at>>
    BY <1>4 DEF StartThread, queueVars, ecVars
  <2>2. CASE Table[started + 1] = Logger
    <3>1. lpc = "none"  BY <1>1, <1>2, <2>1, <2>2, StartedUp DEF NotBegun, StageFits
    <3>2. lpc' = "loop"  BY <2>1, <2>2
    <3> QED  BY <3>1, <3>2, <2>1, <1>1 DEF ConsumerPlace, Consuming
  <2>3. CASE Table[started + 1] # Logger
    BY <2>1, <2>3, <1>1, <1>2 DEF ConsumerPlace, Consuming
  <2> QED  BY <2>2, <2>3
<1>5. CASE LoopTest \/ NothingToTake \/ RecheckRunning
  <2>1. UNCHANGED <<at, held, running>>
    BY <1>5 DEF LoopTest, NothingToTake, RecheckRunning, ecVars, queueVars, tableVars
  <2> QED
    BY <2>1, <1>1, <1>2, <1>5 DEF LoopTest, NothingToTake, RecheckRunning, ConsumerPlace,
                                  Consuming, Consume, CGoto
<1>6. CASE TakeEntry
  <2>1. /\ lpc = "consume" /\ lpc' = "write" /\ Head(tickets) \in Entries
        /\ held'[Logger] = Head(tickets) /\ UNCHANGED <<at, phase, running>>
    BY <1>6, <1>2 DEF TakeEntry, Queue!Claim, Queue!Ready, ecVars, tableVars, CGoto
  <2> QED  BY <2>1, <1>1, <1>2 DEF ConsumerPlace, Consuming
<1>7. CASE WriteEntry
  <2>1. /\ lpc = "write" /\ lpc' = "commit" /\ UNCHANGED <<at, phase, running, held>>
    BY <1>7 DEF WriteEntry, Queue!Read, ecVars, tableVars, CGoto
  <2> QED  BY <2>1, <1>1 DEF ConsumerPlace, Consuming
<1>8. CASE FreeEntry
  <2>1. /\ lpc = "commit" /\ held'[Logger] = Nil /\ UNCHANGED <<at, phase, running>>
        /\ lpc' = CASE phase = "try" -> "loop"
                    [] phase = "again" -> "cancel"
                    [] phase = "drain" -> "consume"
    BY <1>8, <1>2 DEF FreeEntry, Queue!GiveBack, ecVars, tableVars, CGoto
  <2> QED  BY <2>1, <1>1, <1>2 DEF ConsumerPlace, Consuming
<1>9. CASE Prepare
  <2>1. /\ lpc = "prepare" /\ lpc' = "consume" /\ phase' = "again"
        /\ at'[Logger] = "prepared" /\ UNCHANGED <<held, running>>
    BY <1>9, <1>2 DEF Prepare, EcPrepareWait, EcGoto, Consume, CGoto, queueVars, tableVars
  <2> QED  BY <2>1, <1>1 DEF ConsumerPlace, Consuming
<1>10. CASE Cancel \/ Break
  <2>1. /\ at'[Logger] = "out" /\ UNCHANGED <<held, running>>
        /\ \/ lpc = "cancel" /\ lpc' = "loop" /\ UNCHANGED phase
           \/ lpc = "break" /\ lpc' = "consume" /\ phase' = "drain"
    BY <1>10, <1>2 DEF Cancel, Break, EcCancelWait, EndWait, EcGoto, Consume, CGoto, queueVars,
                       tableVars
  <2> QED  BY <2>1, <1>1 DEF ConsumerPlace, Consuming
<1>11. CASE Wait
  <2>1. lpc = "wait" /\ lpc' = "loop" /\ at'[Logger] = "check"
        /\ UNCHANGED <<held, running, phase>>
    BY <1>11, <1>2 DEF Wait, EcWait, EcGoto, CGoto, queueVars, tableVars
  <2> QED  BY <2>1, <1>1 DEF ConsumerPlace, Consuming
<1>12. CASE InEventCount(Logger) \/ Signal(Logger)
  <2>1. UNCHANGED <<held, running, phase, lpc>>
    BY <1>12 DEF InEventCount, Signal, queueVars, threadVars, tableVars
  <2>2. /\ at[Logger] \in {"wake1", "wakeAll", "check", "futex", "asleep", "leaving"}
        /\ at[Logger] \in {"check", "futex", "asleep", "leaving"} =>
             at'[Logger] \in {"out", "check", "futex", "asleep", "leaving"}
    BY <1>12, <1>2 DEF InEventCount, Signal, EcStep, FutexWake, CheckEpoch, FutexWait, LeaveWait,
                       Interrupted, EndWait, EcGoto
  <2>3. lpc = "loop"
    <3>1. lpc \in {"none", "loop", "consume", "write", "commit", "prepare", "recheck", "cancel",
                   "break", "wait", "exited"}
      BY <1>1 DEF TypeOK
    <3> QED  BY <3>1, <2>2, <1>1, <1>2 DEF ConsumerPlace, Consuming
  <2>4. at[Logger] \in {"check", "futex", "asleep", "leaving"}
    BY <2>2, <2>3, <1>1 DEF ConsumerPlace
  <2> QED  BY <2>1, <2>2, <2>3, <2>4, <1>1 DEF ConsumerPlace, Consuming
<1> QED
  BY <1>1, <1>3, <1>4, <1>5, <1>6, <1>7, <1>8, <1>9, <1>10, <1>11, <1>12, StepsOfOthers
     DEF ConsumerStep


-----------------------------------------------------------------------------
(* The producers' places, and the tickets that are theirs. *)
LEMMA StepsOfProducer ==
  ASSUME TypeOK, [Next]_vars, NEW p \in Producers
  PROVE  \/ ppc'[p] = ppc[p]
         \/ LogCall(p) \/ Reserve(p) \/ ReserveRefused(p) \/ CommitEntry(p) \/ Notify(p)
         \/ p \in Workers /\ WorkerReturns(p)
         \/ p = Main /\ (StopThread \/ WakeConsumer \/ JoinThread)
         \/ StartThread /\ p = Table[started + 1] /\ ppc'[p] = "idle"
<1>1. DOMAIN ppc = Producers /\ Main \in Producers  BY Roles DEF TypeOK
<1>2. CASE UNCHANGED vars \/ Stopped  BY <1>2 DEF vars, Stopped, threadVars
<1>3. CASE \E q \in Producers : LogCall(q) \/ ProducerStep(q)
  <2>1. PICK q \in Producers : LogCall(q) \/ ProducerStep(q)  BY <1>3
  <2>2. CASE q # p
    BY <2>1, <2>2, <1>1 DEF LogCall, ProducerStep, Reserve, ReserveRefused, CommitEntry, Notify,
                           InEventCount, threadVars, PGoto
  <2>3. CASE InEventCount(p)  BY <2>3 DEF InEventCount, threadVars
  <2> QED  BY <2>1, <2>2, <2>3 DEF ProducerStep
<1>4. CASE \E w \in Workers : WorkerReturns(w)
  <2>1. PICK w \in Workers : WorkerReturns(w)  BY <1>4
  <2>2. w # p => ppc'[p] = ppc[p]  BY <2>1, <1>1, Roles DEF WorkerReturns, PGoto
  <2> QED  BY <2>1, <2>2
<1>5. CASE StartThread
  BY <1>5 DEF StartThread
<1>6. CASE StopThread \/ WakeConsumer \/ JoinThread
  BY <1>6, <1>1 DEF StopThread, WakeConsumer, JoinThread, PGoto
<1>7. CASE StartFails \/ StopAll \/ DestroyLogger
  BY <1>7 DEF StartFails, StopAll, DestroyLogger
<1>8. CASE ConsumerStep \/ Signal(Logger)
  BY <1>8 DEF ConsumerStep, Signal, LoopTest, TakeEntry, WriteEntry, FreeEntry, NothingToTake,
              Prepare, RecheckRunning, Cancel, Break, Wait, InEventCount, threadVars
<1> QED  BY <1>2, <1>3, <1>4, <1>5, <1>6, <1>7, <1>8 DEF Next, TableStep

(* A producer that holds a ticket holds it until it commits. *)
LEMMA FillStays ==
  ASSUME IInv, [Next]_vars, NEW p \in Producers, ppc[p] = "fill"
  PROVE  ppc'[p] = "fill" \/ CommitEntry(p)
<1>1. TypeOK /\ NotBegun /\ StageFits /\ DOMAIN ppc = Producers  BY DEF IInv, TypeOK
<1>2. ASSUME StartThread, p = Table[started + 1]  PROVE FALSE
  <2>1. started < Len(Table) /\ started' = started + 1
    BY <1>1, <1>2 DEF StartThread, StageFits
  <2>2. p \in Threads /\ ~Started(p) /\ p # Logger  BY <1>1, <1>2, <2>1, StartedUp, Roles
  <2> QED  BY <2>2, <1>1 DEF NotBegun
<1> QED
  BY <1>1, <1>2, StepsOfProducer
     DEF LogCall, Reserve, ReserveRefused, Notify, WorkerReturns, StopThread, WakeConsumer,
         JoinThread

LEMMA ProducersAtStep ==
  ASSUME IInv, [Next]_vars, NEW p \in Producers
  PROVE  /\ at'[p] \in {"out", "wake1", "wakeAll"}
         /\ ppc'[p] \in {"none", "done"} => at'[p] = "out" /\ p # Main
         /\ ppc'[p] \in {"wakeup", "join"} => p = Main
<1>1. TypeOK /\ ProducersPlace /\ NotBegun /\ StageFits /\ DOMAIN ppc = Producers
  BY DEF IInv, TypeOK
<1>2. /\ at[p] \in {"out", "wake1", "wakeAll"}
      /\ ppc[p] \in {"none", "done"} => at[p] = "out" /\ p # Main
      /\ ppc[p] \in {"wakeup", "join"} => p = Main
  BY <1>1 DEF ProducersPlace
<1>3. \/ at'[p] = at[p] \/ at'[p] = "out"
      \/ at'[p] \in {"wake1", "wakeAll"} /\ (Notify(p) \/ (p = Main /\ WakeConsumer))
  BY <1>1, AtOfProducer
<1>4. at'[p] \in {"out", "wake1", "wakeAll"}  BY <1>2, <1>3
<1>5. Notify(p) => ppc[p] = "notify" /\ ppc'[p] = "idle"
  BY <1>1 DEF Notify, PGoto
<1>6. p = Main /\ WakeConsumer => ppc'[p] = "join"
  BY <1>1 DEF WakeConsumer, PGoto
<1>7. CASE ppc'[p] = ppc[p]
  <2>1. ppc'[p] \in {"none", "done"} => at'[p] = "out"
    BY <1>7, <1>2, <1>3, <1>5, <1>6
  <2> QED  BY <1>7, <1>2, <1>4, <2>1
<1>8. CASE LogCall(p) \/ Reserve(p) \/ ReserveRefused(p) \/ CommitEntry(p) \/ Notify(p)
  <2>1. ppc'[p] \in {"idle", "reserve", "fill", "notify"}
    BY <1>8, <1>1 DEF LogCall, Reserve, ReserveRefused, CommitEntry, Notify, PGoto
  <2> QED  BY <2>1, <1>4
<1>9. CASE p \in Workers /\ WorkerReturns(p)
  <2>1. ppc'[p] = "done" /\ at'[p] = "out" /\ p # Main
    BY <1>9, <1>1, Roles DEF WorkerReturns, PGoto, ecVars
  <2> QED  BY <2>1
<1>10. CASE p = Main /\ (StopThread \/ WakeConsumer \/ JoinThread)
  <2>1. ppc'[p] \in {"idle", "wakeup", "join"}
    BY <1>10, <1>1 DEF StopThread, WakeConsumer, JoinThread, PGoto
  <2> QED  BY <2>1, <1>4, <1>10
<1>11. CASE StartThread /\ p = Table[started + 1] /\ ppc'[p] = "idle"
  BY <1>11, <1>4
<1> QED  BY <1>1, <1>7, <1>8, <1>9, <1>10, <1>11, StepsOfProducer

LEMMA ProducersTicketStep ==
  ASSUME IInv, [Next]_vars
  PROVE  \A i \in 1 .. Len(tickets') : tickets'[i] \in Producers =>
           /\ ppc'[tickets'[i]] = "fill"
           /\ \A j \in 1 .. Len(tickets') : tickets'[j] = tickets'[i] => j = i
<1> DEFINE S == ReservedOrCommitted
           Goal == \A i \in 1 .. Len(tickets') : tickets'[i] \in Producers =>
                     /\ ppc'[tickets'[i]] = "fill"
                     /\ \A j \in 1 .. Len(tickets') : tickets'[j] = tickets'[i] => j = i
<1> SUFFICES Goal  OBVIOUS
<1>1. /\ TypeOK /\ DOMAIN ppc = Producers /\ tickets \in Seq(S) /\ Len(tickets) \in Nat
      /\ Producers \subseteq S
  BY DEF IInv, TypeOK, Queue!TypeOK, ReservedOrCommitted
<1>2. \A i \in 1 .. Len(tickets) : tickets[i] \in Producers =>
        /\ ppc[tickets[i]] = "fill"
        /\ \A j \in 1 .. Len(tickets) : tickets[j] = tickets[i] => j = i
  BY DEF IInv, ProducersPlace
<1> HIDE DEF S
<1>3. ASSUME NEW p \in Producers, Reserve(p)  PROVE Goal
  <2>1. /\ tickets' = Append(tickets, p) /\ \A i \in 1 .. Len(tickets) : tickets[i] # p
        /\ ppc' = [ppc EXCEPT ![p] = "fill"]
    BY <1>3 DEF Reserve, Queue!Reserve, PGoto
  <2>2. /\ Len(tickets') = Len(tickets) + 1 /\ tickets'[Len(tickets) + 1] = p
        /\ \A i \in 1 .. Len(tickets) : tickets'[i] = tickets[i]
    BY <2>1, <1>1, AppendProperties
  <2>3. \A i \in 1 .. Len(tickets') : i = Len(tickets) + 1 \/ i \in 1 .. Len(tickets)
    BY <2>2, <1>1
  <2> QED  BY <2>1, <2>2, <2>3, <1>1, <1>2
<1>4. ASSUME NEW p \in Producers, CommitEntry(p)  PROVE Goal
  <2>1. PICK i \in 1 .. Len(tickets) : tickets[i] = p /\ tickets' = [tickets EXCEPT ![i] = Entry(p)]
    BY <1>4 DEF CommitEntry, Queue!Commit
  <2>2. ppc' = [ppc EXCEPT ![p] = "notify"] /\ Entry(p) \notin Producers
    BY <1>4, <1>1, EntryIsEntry, PipelineAssumption DEF CommitEntry, PGoto
  <2>3. Len(tickets') = Len(tickets) /\ tickets'[i] = Entry(p)
        /\ \A j \in 1 .. Len(tickets) : j # i => tickets'[j] = tickets[j]
    BY <2>1, <1>1
  <2>4. \A j \in 1 .. Len(tickets) : j # i => tickets[j] # p  BY <2>1, <1>2
  <2> QED  BY <2>2, <2>3, <2>4, <1>1, <1>2
<1>5. CASE TakeEntry
  <2>1. tickets # <<>> /\ tickets' = Tail(tickets) /\ UNCHANGED ppc
    BY <1>5 DEF TakeEntry, Queue!Claim, Queue!Ready
  <2>2. /\ Len(tickets') = Len(tickets) - 1
        /\ \A i \in 1 .. Len(tickets') : tickets'[i] = tickets[i + 1]
    BY <2>1, <1>1, HeadTailProperties
  <2>3. \A i \in 1 .. Len(tickets') : i + 1 \in 1 .. Len(tickets)  BY <2>2, <1>1
  <2>4. \A i, j \in 1 .. Len(tickets') : i + 1 = j + 1 => i = j  BY <2>2, <1>1
  <2> QED  BY <2>1, <2>2, <2>3, <2>4, <1>2
<1>6. CASE UNCHANGED tickets /\ \A p \in Producers : ~CommitEntry(p)
  <2>1. \A i \in 1 .. Len(tickets) : tickets[i] \in Producers => ppc'[tickets[i]] = "fill"
    BY <1>2, <1>6, FillStays
  <2> QED  BY <2>1, <1>2, <1>6
<1> QED
  BY <1>3, <1>4, <1>5, <1>6, QueueFrame DEF WriteEntry, FreeEntry, Queue!Read, Queue!GiveBack

LEMMA ProducersPlaceStep ==
  ASSUME IInv, [Next]_vars
  PROVE  ProducersPlace'
  BY ProducersAtStep, ProducersTicketStep DEF ProducersPlace


-----------------------------------------------------------------------------
(* The order of the messages. *)
LEMMA WriteStays ==
  ASSUME TypeOK, NotBegun, StageFits, [Next]_vars, ~TakeEntry, ~WriteEntry
  PROVE  lpc' = "write" <=> lpc = "write"
<1>1. CASE ConsumerStep \/ Signal(Logger)
  BY <1>1 DEF ConsumerStep, Signal, LoopTest, FreeEntry, NothingToTake, Prepare, RecheckRunning,
              Cancel, Break, Wait, InEventCount, threadVars, Consume, CGoto, TypeOK
<1>2. CASE StartThread
  <2>1. /\ started < Len(Table) /\ started' = started + 1
        /\ lpc' = IF Table[started + 1] = Logger THEN "loop" ELSE lpc
    BY <1>2 DEF StartThread, StageFits
  <2>2. Table[started + 1] = Logger => lpc = "none"
    BY <2>1, StartedUp DEF NotBegun
  <2> QED  BY <2>1, <2>2
<1> QED  BY <1>1, <1>2, StepsOfOthers

(* What a ticket stands for stays what it is until the ticket is gone. *)
LEMMA MessageSame ==
  ASSUME IInv, [Next]_vars, NEW i \in 1 .. Len(tickets), tickets[i] \in Producers
  PROVE  calls'[tickets[i]] = calls[tickets[i]]
<1>1. ppc[tickets[i]] = "fill" /\ DOMAIN calls = Producers
  BY DEF IInv, ProducersPlace, TypeOK
<1>2. ASSUME NEW p \in Producers, LogCall(p)  PROVE calls'[tickets[i]] = calls[tickets[i]]
  BY <1>1, <1>2 DEF LogCall
<1> QED  BY <1>2, CallFrame

LEMMA InOrderStep ==
  ASSUME IInv, [Next]_vars
  PROVE  InOrder'
<1> DEFINE n == Len(tickets)
           T == Taken
           S == ReservedOrCommitted
           M(t) == IF t \in Producers THEN <<t, calls'[t]>> ELSE t
           Goal(T1) == /\ Len(accepted') = T1 + Len(tickets')
                       /\ \A i \in 1 .. Len(delivered') : delivered'[i] = accepted'[i]
                       /\ lpc' = "write" => held'[Logger] = accepted'[T1]
                       /\ \A i \in 1 .. Len(tickets') : M(tickets'[i]) = accepted'[T1 + i]
<1>1. /\ TypeOK /\ NotBegun /\ StageFits /\ InOrder /\ tickets \in Seq(S)
      /\ accepted \in Seq(Entries) /\ delivered \in Seq(Entries)
      /\ held \in [{Logger} -> Entries \cup {Nil}]
      /\ Producers \subseteq S
      /\ \A p \in Producers : Entry(p) \in Entries
      /\ \A e \in Entries : e \notin Producers
  BY EntryIsEntry, PipelineAssumption DEF IInv, TypeOK, Queue!TypeOK, ReservedOrCommitted
<1>2. /\ n \in Nat /\ T \in Nat /\ Len(accepted) \in Nat /\ Len(delivered) \in Nat
      /\ Len(accepted) = T + n
      /\ T = IF lpc = "write" THEN Len(delivered) + 1 ELSE Len(delivered)
      /\ \A i \in 1 .. Len(delivered) : delivered[i] = accepted[i]
      /\ lpc = "write" => held[Logger] = accepted[T]
  <2>1. n \in Nat /\ Len(accepted) \in Nat /\ Len(delivered) \in Nat  BY <1>1
  <2> QED  BY <2>1, <1>1 DEF InOrder, Taken
<1>3. \A i \in 1 .. n : Message(tickets[i]) = accepted[T + i]
  BY <1>1 DEF InOrder
<1>4. \A i \in 1 .. n : M(tickets[i]) = accepted[T + i]
  <2>1. \A i \in 1 .. n : tickets[i] \in Producers => calls'[tickets[i]] = calls[tickets[i]]
    BY MessageSame
  <2> QED  BY <1>3, <2>1 DEF Message, Entry
<1>5. ASSUME NEW T1 \in Nat, Goal(T1),
             T1 = IF lpc' = "write" THEN Len(delivered') + 1 ELSE Len(delivered')
      PROVE  InOrder'
  <2>1. T1 = Taken'
    <3>1. Len(delivered') \in Nat  BY <1>1, QueueTypeStep
    <3> QED  BY <3>1, <1>5 DEF Taken
  <2>2. \A i \in 1 .. Len(tickets') : M(tickets'[i]) = accepted'[T1 + i]  BY <1>5
  <2>3. \A i \in 1 .. Len(tickets') : Message(tickets[i])' = accepted'[T1 + i]
    BY <2>2 DEF Message, Entry
  <2> QED  BY <2>1, <2>3, <1>5 DEF InOrder
<1> HIDE DEF n, T, S
<1>0. n \in Nat /\ T \in Nat  BY <1>2
<1>6. ASSUME NEW p \in Producers, Reserve(p)  PROVE InOrder'
  <2>1. /\ tickets' = Append(tickets, p) /\ accepted' = Append(accepted, Entry(p))
        /\ UNCHANGED <<held, lpc, delivered, calls>>
    BY <1>6 DEF Reserve, Queue!Reserve, callVars
  <2>2. /\ Len(tickets') = n + 1 /\ tickets'[n + 1] = p
        /\ \A i \in 1 .. n : tickets'[i] = tickets[i]
    BY <2>1, <1>1, AppendProperties DEF n
  <2>3. /\ Len(accepted') = T + n + 1 /\ accepted'[T + n + 1] = Entry(p)
        /\ \A i \in 1 .. (T + n) : accepted'[i] = accepted[i]
    BY <2>1, <1>1, <1>2, AppendProperties
  <2>4. M(p) = Entry(p)  BY <2>1 DEF Entry
  <2>5. \A i \in 1 .. n : T + i \in 1 .. (T + n)  BY <1>2
  <2>6. \A i \in 1 .. (n + 1) : i = n + 1 \/ i \in 1 .. n  BY <1>2
  <2>7. \A i \in 1 .. Len(tickets') : M(tickets'[i]) = accepted'[T + i]
    <3>1. \A i \in 1 .. n : M(tickets'[i]) = accepted'[T + i]  BY <2>2, <2>3, <2>5, <1>4
    <3>2. M(tickets'[n + 1]) = accepted'[T + (n + 1)]  BY <2>2, <2>3, <2>4, <1>0
    <3> QED  BY <3>1, <3>2, <2>2, <2>6
  <2>8. \A i \in 1 .. Len(delivered) : i \in 1 .. (T + n)  BY <1>2
  <2>9. lpc = "write" => T \in 1 .. (T + n)  BY <1>2
  <2>10. Len(accepted') = T + Len(tickets')  BY <2>2, <2>3, <1>0
  <2>11. \A i \in 1 .. Len(delivered') : delivered'[i] = accepted'[i]
    BY <2>1, <2>3, <2>8, <1>2
  <2>12. lpc' = "write" => held'[Logger] = accepted'[T]  BY <2>1, <2>3, <2>9, <1>2
  <2>13. T = IF lpc' = "write" THEN Len(delivered') + 1 ELSE Len(delivered')
    BY <2>1, <1>2
  <2> QED  BY <2>7, <2>10, <2>11, <2>12, <2>13, <1>2, <1>5
<1>7. ASSUME NEW p \in Producers, CommitEntry(p)  PROVE InOrder'
  <2>1. PICK i \in 1 .. n : tickets[i] = p /\ tickets' = [tickets EXCEPT ![i] = Entry(p)]
    BY <1>7 DEF CommitEntry, Queue!Commit, n
  <2>2. UNCHANGED <<held, lpc, delivered, calls, accepted>>
    BY <1>7 DEF CommitEntry, Queue!Commit, callVars
  <2>3. Len(tickets') = n /\ tickets'[i] = Entry(p)
        /\ \A j \in 1 .. n : j # i => tickets'[j] = tickets[j]
    BY <2>1, <1>1 DEF n
  <2>4. M(p) = Entry(p) /\ M(Entry(p)) = Entry(p)  BY <2>2, <1>1 DEF Entry
  <2>5. \A j \in 1 .. n : M(tickets'[j]) = accepted'[T + j]
    <3>1. \A j \in 1 .. n : j # i => M(tickets'[j]) = accepted'[T + j]
      BY <2>2, <2>3, <1>4
    <3>2. M(tickets'[i]) = accepted'[T + i]  BY <2>1, <2>2, <2>3, <2>4, <1>4
    <3> QED  BY <3>1, <3>2
  <2> QED  BY <2>2, <2>3, <2>5, <1>2, <1>5
<1>8. CASE TakeEntry
  <2>1. /\ lpc = "consume" /\ lpc' = "write" /\ tickets # <<>> /\ Head(tickets) \in Entries
        /\ held' = [held EXCEPT ![Logger] = Head(tickets)] /\ tickets' = Tail(tickets)
        /\ UNCHANGED <<delivered, accepted, calls>>
    BY <1>8 DEF TakeEntry, Queue!Claim, Queue!Ready, CGoto, callVars
  <2>2. /\ Head(tickets) = tickets[1] /\ n # 0 /\ Len(tickets') = n - 1
        /\ \A i \in 1 .. (n - 1) : tickets'[i] = tickets[i + 1]
    BY <2>1, <1>1, HeadTailProperties DEF n
  <2>3. 1 \in 1 .. n /\ \A i \in 1 .. (n - 1) : i + 1 \in 1 .. n /\ T + (i + 1) = (T + 1) + i
    BY <2>2, <1>0
  <2>4. held'[Logger] = accepted[T + 1]
    <3>1. held'[Logger] = tickets[1] /\ tickets[1] \notin Producers
      BY <2>1, <2>2, <1>1
    <3> QED  BY <3>1, <2>3, <1>4
  <2>5. \A i \in 1 .. (n - 1) : M(tickets'[i]) = accepted'[(T + 1) + i]
    BY <2>1, <2>2, <2>3, <1>4
  <2>6. T = Len(delivered)  BY <2>1, <1>2
  <2>7. Len(accepted') = (T + 1) + Len(tickets') /\ T + 1 \in Nat
    <3>1. Len(accepted') = T + n  BY <2>1, <1>2
    <3> QED  BY <3>1, <2>2, <1>0
  <2>8. \A i \in 1 .. Len(delivered') : delivered'[i] = accepted'[i]
    BY <2>1, <1>2
  <2>9. Goal(T + 1)  BY <2>1, <2>2, <2>4, <2>5, <2>7, <2>8
  <2>10. T + 1 = IF lpc' = "write" THEN Len(delivered') + 1 ELSE Len(delivered')
    BY <2>1, <2>6
  <2> QED  BY <2>7, <2>9, <2>10, <1>5
<1>9. CASE WriteEntry
  <2>1. /\ lpc = "write" /\ lpc' = "commit" /\ delivered' = Append(delivered, held[Logger])
        /\ held[Logger] # Nil /\ UNCHANGED <<tickets, accepted, calls>>
    BY <1>9 DEF WriteEntry, Queue!Read, CGoto, callVars
  <2>2. held[Logger] \in Entries  BY <2>1, <1>1
  <2>3. /\ Len(delivered') = Len(delivered) + 1
        /\ delivered'[Len(delivered) + 1] = held[Logger]
        /\ \A i \in 1 .. Len(delivered) : delivered'[i] = delivered[i]
    BY <2>1, <2>2, <1>1, AppendProperties
  <2>4. T = Len(delivered) + 1 /\ held[Logger] = accepted[T] /\ Len(delivered) \in Nat
    BY <2>1, <1>2
  <2>5. \A i \in 1 .. Len(delivered') : i = T \/ i \in 1 .. Len(delivered)
    BY <2>3, <2>4
  <2>6. \A i \in 1 .. Len(delivered') : delivered'[i] = accepted'[i]
    BY <2>1, <2>3, <2>4, <2>5, <1>2
  <2>7. T = IF lpc' = "write" THEN Len(delivered') + 1 ELSE Len(delivered')
    BY <2>1, <2>3, <2>4
  <2>8. Len(accepted') = T + Len(tickets')  BY <2>1, <1>2 DEF n
  <2>9. \A i \in 1 .. Len(tickets') : M(tickets'[i]) = accepted'[T + i]
    BY <2>1, <1>4 DEF n
  <2>10. Goal(T)  BY <2>1, <2>6, <2>8, <2>9
  <2> QED  BY <2>7, <2>10, <1>0, <1>5
<1>10. ASSUME UNCHANGED <<tickets, accepted, delivered>>, lpc' = "write" <=> lpc = "write",
              lpc = "write" => held'[Logger] = held[Logger]
       PROVE  InOrder'
  <2>1. T = IF lpc' = "write" THEN Len(delivered') + 1 ELSE Len(delivered')
    BY <1>10, <1>2
  <2>2. Len(accepted') = T + Len(tickets')  BY <1>10, <1>2 DEF n
  <2>3. \A i \in 1 .. Len(tickets') : M(tickets'[i]) = accepted'[T + i]
    BY <1>10, <1>4 DEF n
  <2>4. lpc' = "write" => held'[Logger] = accepted'[T]  BY <1>10, <1>2
  <2>5. \A i \in 1 .. Len(delivered') : delivered'[i] = accepted'[i]  BY <1>10, <1>2
  <2>6. Goal(T)  BY <2>2, <2>3, <2>4, <2>5
  <2> QED  BY <2>1, <2>6, <1>0, <1>5
<1>11. CASE FreeEntry
  <2>1. UNCHANGED <<tickets, accepted, delivered>> /\ lpc = "commit" /\ lpc' # "write"
    BY <1>11, <1>1 DEF FreeEntry, Queue!GiveBack, CGoto, TypeOK
  <2> QED  BY <2>1, <1>10
<1>12. CASE UNCHANGED <<tickets, held, out, accepted, delivered>>
  <2>1. CASE TakeEntry \/ WriteEntry  BY <2>1, <1>8, <1>9
  <2>2. CASE ~TakeEntry /\ ~WriteEntry
    BY <2>2, <1>1, <1>10, <1>12, WriteStays
  <2> QED  BY <2>1, <2>2
<1> QED  BY <1>6, <1>7, <1>8, <1>9, <1>11, <1>12, QueueFrame

-----------------------------------------------------------------------------
LEMMA InitHolds == Init => IInv
<1> SUFFICES ASSUME Init PROVE IInv
  OBVIOUS
<1>1. EcTypeOK /\ WaitersCounted  BY EcTypeInit, WaitersInit DEF Init
<1>2. started = 0 /\ toStop = <<>> /\ tickets = <<>> /\ accepted = <<>> /\ delivered = <<>>
      /\ Len(<<>>) = 0
  BY DEF Init, Queue!Init
<1>3. TypeOK
  <2>1. Queue!TypeOK  BY DEF Init, Queue!Init, Queue!TypeOK
  <2>2. started \in 0 .. Len(Table) /\ logged \in 0 .. MaxLogs
    BY <1>2, TableFacts, PipelineAssumption DEF Init
  <2> QED  BY <1>1, <2>1, <2>2 DEF Init, TypeOK
<1>4. \A t : ~Started(t)  BY <1>2 DEF Started
<1>5. NotBegun  BY Roles DEF Init, NotBegun
<1>6. StageFits  BY <1>2, <1>4, TableFacts, Roles DEF Init, EcInit, StageFits
<1>7. StopsInOrder  BY <1>2, <1>4 DEF Init, StopsInOrder
<1>8. ConsumerPlace  BY Roles DEF Init, EcInit, Queue!Init, ConsumerPlace, Consuming
<1>9. ProducersPlace  BY <1>2, Roles DEF Init, EcInit, ProducersPlace
<1>10. InOrder  BY <1>2 DEF Init, InOrder, Taken
<1> QED  BY <1>1, <1>3, <1>5, <1>6, <1>7, <1>8, <1>9, <1>10 DEF IInv

(* The inductive invariant: where every thread stands in its own code, in   *)
(* the event count and in the table, and what the queue holds, fit         *)
(* together in every reachable state.                                      *)
THEOREM Invariance == Spec => []IInv
<1>1. IInv /\ [Next]_vars => IInv'
  <2> SUFFICES ASSUME IInv, [Next]_vars PROVE IInv'
    OBVIOUS
  <2>1. TypeOK' /\ WaitersCounted'  BY TypeStep DEF IInv
  <2> QED
    BY <2>1, NotBegunStep, StageStep, StopsStep, ConsumerPlaceStep, ProducersPlaceStep,
       InOrderStep
       DEF IInv
<1> QED  BY InitHolds, <1>1, PTL DEF Spec

(* Lines are written in the order their slots were reserved, none twice and *)
(* none skipped, however the producers' commits and the consumer interleave. *)
THEOREM OrderKept == Spec => []DeliveredInOrder
<1>1. IInv => DeliveredInOrder
  <2> SUFFICES ASSUME IInv PROVE DeliveredInOrder
    OBVIOUS
  <2> DEFINE n == Len(delivered)
  <2>1. /\ accepted \in Seq(Entries) /\ delivered \in Seq(Entries)
        /\ tickets \in Seq(ReservedOrCommitted)
    BY DEF IInv, TypeOK, Queue!TypeOK, ReservedOrCommitted
  <2>2. n \in Nat /\ Len(tickets) \in Nat /\ Len(accepted) \in Nat  BY <2>1
  <2>3. n <= Len(accepted) /\ \A i \in 1 .. n : delivered[i] = accepted[i]
    BY <2>2 DEF IInv, InOrder, Taken
  <2>4. n \in 0 .. Len(accepted) /\ n \in 0 .. Len(delivered)  BY <2>2, <2>3
  <2>5. /\ SubSeq(accepted, 1, n) \in Seq(Entries) /\ Len(SubSeq(accepted, 1, n)) = n
        /\ \A i \in 1 .. n : SubSeq(accepted, 1, n)[i] = accepted[i]
    BY <2>1, <2>4, FirstOfSeq
  <2>6. /\ SubSeq(delivered, 1, n) \in Seq(Entries) /\ Len(SubSeq(delivered, 1, n)) = n
        /\ \A i \in 1 .. n : SubSeq(delivered, 1, n)[i] = delivered[i]
    BY <2>1, <2>4, FirstOfSeq
  <2> HIDE DEF n
  <2>7. SubSeq(delivered, 1, n) = SubSeq(accepted, 1, n)
    BY <2>3, <2>5, <2>6, SeqEqual
  <2> QED  BY <2>3, <2>7 DEF DeliveredInOrder, IsPrefix, n
<1> QED  BY Invariance, <1>1, PTL

(* Once the consumer of a whole table was told to stop, nobody is left who  *)
(* logs: the threads after it in the table have ended, and Main is busy    *)
(* with the stop.                                                          *)
LEMMA NobodyLogs ==
  ASSUME IInv, AllStarted, ~running[Logger]
  PROVE  /\ stage \in {"stopping", "freed"}
         /\ \A p \in Producers : ppc[p] \in {"idle", "wakeup", "join", "done"}
         /\ \A i \in 1 .. Len(tickets) : tickets[i] \in Entries
<1>1. TypeOK /\ StageFits /\ StopsInOrder /\ ProducersPlace  BY DEF IInv
<1>2. Logger \in Threads /\ Main \in Producers /\ Main \notin Threads  BY Roles
<1>3. stage \in {"stopping", "freed"}
  <2>1. Started(Logger)  BY <1>2, WholeTable
  <2> QED  BY <2>1, <1>1, <1>2 DEF StageFits, TypeOK
<1>4. ASSUME NEW w \in Workers  PROVE ppc[w] = "done"
  <2>1. w \in Threads /\ w # Logger  BY Roles
  <2>2. Ended(w) \/ \E i \in 1 .. Len(toStop) : toStop[i] = w
    BY <2>1, <1>1, <1>3, WholeTable DEF StopsInOrder
  <2>3. ASSUME NEW i \in 1 .. Len(toStop), toStop[i] = w  PROVE FALSE
    <3>1. Len(toStop) \in Nat /\ toStop # <<>>  BY <1>1, <2>3 DEF TypeOK
    <3>2. toStop[Len(toStop)] = Logger  BY <1>1, <3>1 DEF StopsInOrder
    <3>3. i # Len(toStop)  BY <2>1, <2>3, <3>2
    <3>4. Len(toStop) > 1 /\ Len(toStop) \in 1 .. Len(toStop)  BY <3>1, <3>3
    <3> QED  BY <3>2, <3>4, <1>1 DEF StopsInOrder
  <2> QED  BY <2>1, <2>2, <2>3 DEF Ended
<1>5. \A p \in Producers : ppc[p] \in {"idle", "wakeup", "join", "done"}
  BY <1>1, <1>3, <1>4, Roles DEF StageFits
<1>6. \A i \in 1 .. Len(tickets) : tickets[i] \in Entries
  <2>1. \A i \in 1 .. Len(tickets) : tickets[i] \in Producers \cup Entries
    BY <1>1 DEF TypeOK, Queue!TypeOK
  <2> QED  BY <2>1, <1>1, <1>5 DEF ProducersPlace
<1> QED  BY <1>3, <1>5, <1>6

(* When the consumer of a whole table has ended, every message that was    *)
(* accepted has been written: the order in which stop_thread_mgr_all stops *)
(* the threads, and the second look at running, leave nothing behind.      *)
THEOREM EverythingDrained == Spec => []DrainedOnExit
<1>1. Init => DrainedOnExit  BY DEF Init, DrainedOnExit
<1>2. IInv /\ DrainedOnExit /\ [Next]_vars => DrainedOnExit'
  <2> SUFFICES ASSUME IInv, DrainedOnExit, [Next]_vars, AllStarted', lpc' = "exited"
               PROVE  delivered' = accepted'
    BY DEF DrainedOnExit
  <2>1. TypeOK /\ NotBegun /\ StageFits /\ ConsumerPlace /\ InOrder  BY DEF IInv
  <2>2. \/ NothingToTake /\ phase = "drain"
        \/ lpc = "exited" /\ ~StartThread
    <3>1. CASE ConsumerStep \/ Signal(Logger)
      <4>1. (lpc = "exited" \/ NothingToTake) /\ UNCHANGED tableVars
        BY <3>1, <2>1
           DEF ConsumerStep, Signal, LoopTest, TakeEntry, WriteEntry, FreeEntry, Prepare,
               NothingToTake, RecheckRunning, Cancel, Break, Wait, InEventCount, threadVars,
               Consume, CGoto, TypeOK
      <4>2. ~StartThread
        <5>1. started \in Nat  BY <2>1, TableFacts DEF TypeOK
        <5> QED  BY <4>1, <5>1 DEF StartThread, tableVars
      <4>3. NothingToTake => phase = "drain"
        BY <2>1 DEF NothingToTake, CGoto, TypeOK
      <4> QED  BY <4>1, <4>2, <4>3
    <3>2. CASE StartThread
      <4>1. /\ stage = "starting" /\ started < Len(Table) /\ started' = started + 1
            /\ lpc = "exited"
        BY <3>2, <2>1 DEF StartThread, StageFits
      <4>2. ~running[Logger]  BY <4>1, <2>1 DEF ConsumerPlace
      <4>3. ~Started(Logger)  BY <4>1, <4>2, <2>1, Roles DEF StageFits
      <4> QED  BY <4>1, <4>3, <2>1, Roles DEF NotBegun
    <3>3. CASE ~StartThread /\ UNCHANGED lpc  BY <3>3
    <3> QED  BY <3>1, <3>2, <3>3, <2>1, StepsOfOthers
  <2>3. AllStarted /\ ~running[Logger]
    <3>1. ~StartThread
      <4>1. started \in Nat  BY <2>1, TableFacts DEF TypeOK
      <4> QED  BY <2>2, <4>1 DEF StartThread, NothingToTake, tableVars
    <3>2. UNCHANGED started
      BY <3>1, TableFrame DEF StartFails, StopAll, StopThread, JoinThread, DestroyLogger
    <3>3. lpc = "exited" \/ Consuming("drain")  BY <2>2 DEF NothingToTake, Consuming
    <3> QED  BY <3>2, <3>3, <2>1 DEF AllStarted, ConsumerPlace
  <2>4. \A p \in Producers : ~Reserve(p) /\ ~CommitEntry(p)
    BY <2>3, NobodyLogs DEF Reserve, CommitEntry
  <2>5. ~TakeEntry /\ ~WriteEntry /\ ~FreeEntry
    BY <2>1 DEF TakeEntry, WriteEntry, FreeEntry, CGoto, TypeOK
  <2>6. UNCHANGED <<accepted, delivered>>  BY <2>4, <2>5, QueueFrame
  <2>7. CASE lpc = "exited"  BY <2>3, <2>6, <2>7 DEF DrainedOnExit
  <2>8. CASE NothingToTake
    <3>1. lpc = "consume" /\ ~Queue!Ready  BY <2>8 DEF NothingToTake
    <3>2. tickets \in Seq(ReservedOrCommitted) /\ accepted \in Seq(Entries)
          /\ delivered \in Seq(Entries)
      BY <2>1 DEF TypeOK, Queue!TypeOK, ReservedOrCommitted
    <3>3. tickets = <<>>
      <4> SUFFICES ASSUME tickets # <<>> PROVE FALSE
        OBVIOUS
      <4>1. 1 \in 1 .. Len(tickets) /\ Head(tickets) = tickets[1]  BY <3>2
      <4>2. Head(tickets) \in Entries  BY <4>1, <2>3, NobodyLogs
      <4> QED  BY <4>2, <3>1 DEF Queue!Ready
    <3>4. Len(accepted) = Len(delivered)
      BY <3>1, <3>2, <3>3, <2>1 DEF InOrder, Taken
    <3>5. \A i \in 1 .. Len(delivered) : delivered[i] = accepted[i]
      BY <2>1 DEF InOrder
    <3>6. delivered = accepted  BY <3>2, <3>4, <3>5, SeqEqual
    <3> QED  BY <3>6, <2>6
  <2> QED  BY <2>2, <2>7, <2>8
<1> QED  BY Invariance, <1>1, <1>2, PTL DEF Spec

(* When destroy_daemon_logger frees the queue, nobody is left that could    *)
(* touch it or the event count, also after the rollback of a failed start. *)
THEOREM FreedAlone == Spec => []NobodyInsideWhenFreed
<1>1. IInv => NobodyInsideWhenFreed
  <2> SUFFICES ASSUME IInv, stage = "freed"
               PROVE  /\ lpc \in {"none", "exited"}
                      /\ \A w \in Workers : ppc[w] \in {"none", "done"}
                      /\ \A t \in EcThreads : at[t] = "out"
                      /\ held[Logger] = Nil
                      /\ \A i \in 1 .. Len(tickets) : tickets[i] \in Entries
    BY DEF NobodyInsideWhenFreed
  <2>1. TypeOK /\ NotBegun /\ StageFits /\ StopsInOrder /\ ConsumerPlace /\ ProducersPlace
    BY DEF IInv
  <2>2. toStop = <<>> /\ Len(<<>>) = 0  BY <2>1 DEF StageFits
  <2>3. \A t \in Threads : Started(t) => Ended(t)  BY <2>1, <2>2 DEF StopsInOrder
  <2>4. lpc \in {"none", "exited"}  BY <2>1, <2>3, Roles DEF NotBegun, Ended
  <2>5. \A w \in Workers : ppc[w] \in {"none", "done"}
    <3> TAKE w \in Workers
    <3>1. w \in Threads /\ w # Logger  BY Roles
    <3> QED  BY <3>1, <2>1, <2>3 DEF NotBegun, Ended
  <2>6. ppc[Main] = "idle" /\ at[Main] = "out"  BY <2>1 DEF StageFits
  <2>7. \A t \in EcThreads : at[t] = "out"
    <3>1. at[Logger] = "out"  BY <2>1, <2>4 DEF ConsumerPlace
    <3>2. \A w \in Workers : at[w] = "out"  BY <2>1, <2>5, Roles DEF ProducersPlace
    <3> QED  BY <3>1, <3>2, <2>6, Roles
  <2>8. held[Logger] = Nil  BY <2>1, <2>4 DEF ConsumerPlace
  <2>9. \A i \in 1 .. Len(tickets) : tickets[i] \in Entries
    <3>1. \A i \in 1 .. Len(tickets) : tickets[i] \in Producers \cup Entries
      BY <2>1 DEF TypeOK, Queue!TypeOK
    <3>2. \A p \in Producers : ppc[p] # "fill"  BY <2>5, <2>6, Roles
    <3> QED  BY <3>1, <3>2, <2>1 DEF ProducersPlace
  <2> QED  BY <2>4, <2>5, <2>7, <2>8, <2>9
<1> QED  BY Invariance, <1>1, PTL


-----------------------------------------------------------------------------
(* The consumer's sleep. *)
LEMMA EpochMoves ==
  ASSUME IInv, [Next]_vars
  PROVE  Epoch' = Epoch \/ (\E p \in Producers : Notify(p)) \/ WakeConsumer
<1>1. EcTypeOK /\ WaitersCounted  BY DEF IInv, TypeOK
<1>2. CASE UNCHANGED ecVars  BY <1>2 DEF ecVars, Epoch
<1>3. CASE UNCHANGED vars \/ Stopped  BY <1>2, <1>3 DEF vars, Stopped
<1>4. ASSUME NEW t \in EcThreads,
             \/ EcPrepareWait(t) \/ EcCancelWait(t) \/ EcWait(t)
             \/ EcStep(t) \/ Interrupted(t)
      PROVE  Epoch' = Epoch
  BY <1>1, <1>4, EpochStep
<1>5. CASE \E p \in Producers : LogCall(p) \/ ProducerStep(p)
  BY <1>5, <1>2, <1>4, Roles
     DEF LogCall, ProducerStep, Reserve, ReserveRefused, CommitEntry, InEventCount
<1>6. CASE (\E w \in Workers : WorkerReturns(w)) \/ TableStep \/ StopAll
  BY <1>6, <1>2 DEF WorkerReturns, TableStep, StopAll, StartThread, StartFails, StopThread,
                    JoinThread, DestroyLogger
<1>7. CASE ConsumerStep \/ Signal(Logger)
  BY <1>7, <1>2, <1>4, Roles
     DEF ConsumerStep, Signal, LoopTest, TakeEntry, WriteEntry, FreeEntry, NothingToTake,
         Prepare, RecheckRunning, Cancel, Break, Wait, InEventCount
<1> QED  BY <1>3, <1>5, <1>6, <1>7 DEF Next

LEMMA NotifyingFinite == IsFiniteSet(Notifying) /\ Cardinality(Notifying) \in Nat
<1>1. Notifying \in SUBSET Producers  BY DEF Notifying
<1> QED  BY <1>1, WorkersFinite, FS_Subset, FS_CardinalityType

LEMMA KeyAndEpoch ==
  ASSUME IInv
  PROVE  Epoch \in Nat /\ key[Logger] \in Nat
  BY Halves, EcAssumption, Roles DEF IInv, TypeOK, EcTypeOK

(* A notify advances the epoch, which does not come round. *)
LEMMA NotifyUp ==
  ASSUME MaxLogs + 1 < EpochMod, IInv, EpochsLogged, NEW p \in Producers, Notify(p)
  PROVE  /\ Epoch' = Epoch + 1 /\ key'[Logger] = key[Logger]
         /\ Epoch' + Cardinality(Notifying') <= logged' + (IF Woken' THEN 1 ELSE 0)
<1>1. /\ AddToVal(WaiterMod) /\ UNCHANGED <<key, stage, running, logged>>
      /\ ppc' = [ppc EXCEPT ![p] = "idle"] /\ ppc[p] = "notify"
  BY DEF Notify, EcNotify, EcAdvance, PGoto, tableVars, callVars
<1>2. DOMAIN ppc = Producers /\ Main \in Producers /\ logged \in 0 .. MaxLogs /\ MaxLogs \in Nat
      /\ EcTypeOK
  BY Roles, PipelineAssumption DEF IInv, TypeOK
<1>3. p \in Notifying /\ Notifying' = Notifying \ {p}
  BY <1>1, <1>2 DEF Notifying
<1>4. /\ Cardinality(Notifying) \in Nat \ {0}
      /\ Cardinality(Notifying') = Cardinality(Notifying) - 1
  BY <1>3, NotifyingFinite, FS_RemoveElement, FS_EmptySet
<1>5. (IF Woken THEN 1 ELSE 0) \in {0, 1} /\ (IF Woken' THEN 1 ELSE 0) \in {0, 1}
      /\ (Woken => Woken')
  BY <1>1, <1>2 DEF Woken
<1>6. Epoch \in Nat /\ EpochMod \in Nat  BY KeyAndEpoch, EcAssumption
<1>7. Epoch + Cardinality(Notifying) <= logged + (IF Woken THEN 1 ELSE 0)
  BY DEF EpochsLogged
<1>8. Epoch + 1 < EpochMod  BY <1>2, <1>4, <1>5, <1>6, <1>7
<1>9. Epoch' = Epoch + 1  BY <1>1, <1>2, <1>8, EpochUp
<1>10. Epoch' + Cardinality(Notifying') <= logged' + (IF Woken' THEN 1 ELSE 0)
  <2>1. (IF Woken THEN 1 ELSE 0) <= (IF Woken' THEN 1 ELSE 0)  BY <1>5
  <2>2. logged' = logged  BY <1>1
  <2> QED  BY <2>1, <2>2, <1>2, <1>4, <1>5, <1>6, <1>7, <1>9
<1> QED  BY <1>1, <1>9, <1>10

LEMMA WakeUp ==
  ASSUME MaxLogs + 1 < EpochMod, IInv, EpochsLogged, WakeConsumer
  PROVE  /\ Epoch' = Epoch + 1 /\ key'[Logger] = key[Logger]
         /\ Epoch' + Cardinality(Notifying') <= logged' + (IF Woken' THEN 1 ELSE 0)
<1>1. /\ AddToVal(WaiterMod) /\ UNCHANGED <<key, stage, toStop, running, logged>>
      /\ ppc' = [ppc EXCEPT ![Main] = "join"] /\ ppc[Main] = "wakeup"
  BY DEF WakeConsumer, EcNotifyAll, EcAdvance, PGoto, tableVars, callVars
<1>2. DOMAIN ppc = Producers /\ Main \in Producers /\ logged \in 0 .. MaxLogs /\ MaxLogs \in Nat
      /\ EcTypeOK
  BY Roles, PipelineAssumption DEF IInv, TypeOK
<1>3. Notifying' = Notifying  BY <1>1, <1>2 DEF Notifying
<1>4. Cardinality(Notifying) \in Nat  BY NotifyingFinite
<1>5. ~Woken /\ Woken'
  <2>1. stage = "stopping" /\ ~running[Logger]  BY <1>1 DEF IInv, StageFits
  <2> QED  BY <2>1, <1>1, <1>2 DEF Woken
<1>6. Epoch \in Nat /\ EpochMod \in Nat  BY KeyAndEpoch, EcAssumption
<1>7. Epoch + Cardinality(Notifying) <= logged  BY <1>2, <1>5 DEF EpochsLogged
<1>8. Epoch + 1 < EpochMod  BY <1>2, <1>4, <1>6, <1>7
<1>9. Epoch' = Epoch + 1  BY <1>1, <1>2, <1>8, EpochUp
<1>10. Epoch' + Cardinality(Notifying') <= logged' + (IF Woken' THEN 1 ELSE 0)
  BY <1>1, <1>2, <1>3, <1>4, <1>5, <1>6, <1>7, <1>9
<1> QED  BY <1>1, <1>9, <1>10

(* A consumer that was woken for the stop stays so. *)
LEMMA WokenStays ==
  ASSUME IInv, [Next]_vars, Woken
  PROVE  Woken'
<1>1. /\ TypeOK /\ StageFits /\ StopsInOrder /\ ProducersPlace /\ toStop \in Seq(Threads)
      /\ running \in [Threads -> BOOLEAN] /\ DOMAIN ppc = Producers /\ Main \in Producers
  BY Roles DEF IInv, TypeOK
<1>2. stage \in {"stopping", "freed"} /\ ~running[Logger] /\ ppc[Main] # "wakeup"
  BY DEF Woken
<1>3. CASE StopThread
  <2>1. /\ stage = "stopping" /\ UNCHANGED stage /\ ppc[Main] = "idle" /\ toStop # <<>>
        /\ running' = [running EXCEPT ![Head(toStop)] = FALSE]
        /\ ppc'[Main] = IF Head(toStop) = Logger THEN "wakeup" ELSE "join"
    BY <1>1, <1>3 DEF StopThread, PGoto
  <2>2. Head(toStop) = toStop[1] /\ 1 \in 1 .. Len(toStop) /\ Head(toStop) \in Threads
    BY <2>1, <1>1
  <2>3. running[Head(toStop)]  BY <2>1, <2>2, <1>1 DEF StopsInOrder
  <2> QED  BY <2>1, <2>2, <2>3, <1>1, <1>2 DEF Woken
<1>4. CASE LogCall(Main) \/ Reserve(Main) \/ ReserveRefused(Main) \/ CommitEntry(Main)
           \/ Notify(Main)
  BY <1>1, <1>2, <1>4 DEF LogCall, Reserve, ReserveRefused, CommitEntry, Notify, tableVars,
                          PGoto, Woken
<1>5. CASE StartThread \/ StartFails \/ StopAll
  BY <1>2, <1>5 DEF StartThread, StartFails, StopAll
<1>6. CASE WakeConsumer  BY <1>2, <1>6 DEF WakeConsumer
<1>7. CASE JoinThread \/ DestroyLogger
  BY <1>1, <1>2, <1>7 DEF JoinThread, DestroyLogger, PGoto, Woken
<1> QED
  BY <1>1, <1>2, <1>3, <1>4, <1>5, <1>6, <1>7, StepsOfMain DEF TableStep, Woken

LEMMA NotifyingMoves ==
  ASSUME IInv, [Next]_vars
  PROVE  Notifying' \subseteq Notifying \/ \E p \in Producers : LogCall(p)
<1> SUFFICES ASSUME \A p \in Producers : ~LogCall(p), NEW p \in Producers,
                    ppc'[p] \in {"reserve", "fill", "notify"}
             PROVE  ppc[p] \in {"reserve", "fill", "notify"}
  BY DEF Notifying
<1>1. DOMAIN ppc = Producers /\ TypeOK  BY DEF IInv, TypeOK
<1> QED
  BY <1>1, StepsOfProducer
     DEF Reserve, ReserveRefused, CommitEntry, Notify, WorkerReturns, StopThread, WakeConsumer,
         JoinThread, PGoto


LEMMA KeyMoves ==
  ASSUME IInv, [Next]_vars
  PROVE  key'[Logger] = key[Logger] \/ key'[Logger] = Epoch \/ key'[Logger] = 0
<1>1. TypeOK /\ DOMAIN key = EcThreads /\ Logger \in EcThreads
  BY Roles DEF IInv, TypeOK, EcTypeOK
<1>2. CASE ConsumerStep \/ Signal(Logger)
  <2>1. CASE UNCHANGED key  BY <2>1
  <2>2. CASE EcPrepareWait(Logger) \/ EcCancelWait(Logger) \/ LeaveWait(Logger)
    BY <2>2, <1>1 DEF EcPrepareWait, EcCancelWait, LeaveWait, EndWait
  <2> QED
    BY <1>2, <2>1, <2>2
       DEF ConsumerStep, Signal, LoopTest, TakeEntry, WriteEntry, FreeEntry, NothingToTake,
           Prepare, RecheckRunning, Cancel, Break, Wait, InEventCount, EcStep, FutexWake,
           CheckEpoch, FutexWait, Interrupted, EcWait, ecVars
<1>3. CASE StartThread  BY <1>3 DEF StartThread, ecVars
<1> QED  BY <1>1, <1>2, <1>3, StepsOfOthers

LEMMA EpochsLoggedStep ==
  ASSUME MaxLogs + 1 < EpochMod, IInv, EpochsLogged, [Next]_vars
  PROVE  EpochsLogged'
<1>1. /\ Epoch \in Nat /\ key[Logger] \in Nat /\ key[Logger] <= Epoch
      /\ logged \in Nat /\ Cardinality(Notifying) \in Nat
      /\ Epoch + Cardinality(Notifying) <= logged + (IF Woken THEN 1 ELSE 0)
  BY KeyAndEpoch, NotifyingFinite, PipelineAssumption DEF EpochsLogged, IInv, TypeOK
<1>2. key'[Logger] \in Nat /\ key'[Logger] <= Epoch  BY <1>1, KeyMoves
<1>3. CASE (\E p \in Producers : Notify(p)) \/ WakeConsumer
  <2>1. /\ Epoch' = Epoch + 1 /\ key'[Logger] = key[Logger]
        /\ Epoch' + Cardinality(Notifying') <= logged' + (IF Woken' THEN 1 ELSE 0)
    BY <1>3, NotifyUp, WakeUp
  <2>2. key'[Logger] <= Epoch'  BY <2>1, <1>1
  <2> QED  BY <2>1, <2>2 DEF EpochsLogged
<1>4. ASSUME Epoch' = Epoch, NEW p \in Producers, LogCall(p)
      PROVE  EpochsLogged'
  <2>1. /\ ppc[p] = "idle" /\ ppc' = [ppc EXCEPT ![p] = "reserve"] /\ logged' = logged + 1
        /\ DOMAIN ppc = Producers
    BY <1>4 DEF LogCall, PGoto, IInv, TypeOK
  <2>2. p \notin Notifying /\ Notifying' = Notifying \cup {p}  BY <2>1 DEF Notifying
  <2>3. Cardinality(Notifying') = Cardinality(Notifying) + 1
    BY <2>2, NotifyingFinite, FS_AddElement
  <2>4. (IF Woken THEN 1 ELSE 0) <= (IF Woken' THEN 1 ELSE 0)
        /\ (IF Woken THEN 1 ELSE 0) \in {0, 1} /\ (IF Woken' THEN 1 ELSE 0) \in {0, 1}
    BY WokenStays
  <2>5. Epoch' + Cardinality(Notifying') <= logged' + (IF Woken' THEN 1 ELSE 0)
    BY <1>1, <1>4, <2>1, <2>3, <2>4
  <2> QED  BY <1>2, <1>4, <2>5 DEF EpochsLogged
<1>5. CASE Epoch' = Epoch /\ \A p \in Producers : ~LogCall(p)
  <2>1. logged' = logged  BY <1>5, CallFrame
  <2>2. Cardinality(Notifying') <= Cardinality(Notifying) /\ Cardinality(Notifying') \in Nat
    <3>1. Notifying' \in SUBSET Notifying  BY <1>5, NotifyingMoves
    <3> QED  BY <3>1, NotifyingFinite, FS_Subset, FS_CardinalityType
  <2>3. (IF Woken THEN 1 ELSE 0) <= (IF Woken' THEN 1 ELSE 0)
        /\ (IF Woken THEN 1 ELSE 0) \in {0, 1} /\ (IF Woken' THEN 1 ELSE 0) \in {0, 1}
    BY WokenStays
  <2>4. Epoch' + Cardinality(Notifying') <= logged' + (IF Woken' THEN 1 ELSE 0)
    BY <1>1, <1>5, <2>1, <2>2, <2>3
  <2> QED  BY <1>2, <1>5, <2>4 DEF EpochsLogged
<1> QED  BY <1>3, <1>4, <1>5, EpochMoves

(* Whoever waits, or is about to, with a key did so before the step or has  *)
(* just found nothing to take.                                             *)
LEMMA WaitsBefore ==
  ASSUME IInv, [Next]_vars, lpc' = "recheck" \/ Waits'
  PROVE  /\ NothingToTake \/ lpc = "recheck" \/ Waits
         /\ Waits' => Waits \/ RecheckRunning
         /\ key'[Logger] = key[Logger]
<1>1. /\ TypeOK /\ DOMAIN at = EcThreads /\ Logger \in EcThreads /\ ConsumerPlace
      /\ NotBegun /\ StageFits
  BY Roles DEF IInv, TypeOK, EcTypeOK
<1>2. lpc' = "recheck" \/ lpc' = "wait"
      \/ (lpc' = "loop" /\ at'[Logger] \in {"check", "futex", "asleep"})
  BY DEF Waits
<1>3. CASE NothingToTake \/ RecheckRunning
  <2>1. UNCHANGED key  BY <1>3 DEF NothingToTake, RecheckRunning, ecVars
  <2>2. NothingToTake => lpc' \in {"prepare", "recheck", "exited"}
    BY <1>1 DEF NothingToTake, CGoto, TypeOK
  <2>3. RecheckRunning => lpc = "recheck"  BY DEF RecheckRunning
  <2> QED  BY <1>3, <2>1, <2>2, <2>3 DEF Waits
<1>4. CASE LoopTest \/ TakeEntry \/ WriteEntry \/ Prepare \/ Break
  BY <1>2, <1>4 DEF LoopTest, TakeEntry, WriteEntry, Prepare, Break, Consume, CGoto
<1>5. CASE FreeEntry
  <2>1. lpc = "commit" /\ UNCHANGED at /\ lpc' \in {"loop", "cancel", "consume"}
        /\ (lpc' = "loop" => phase = "try")
    BY <1>1, <1>5 DEF FreeEntry, CGoto, ecVars, TypeOK
  <2> QED  BY <2>1, <1>1, <1>2 DEF ConsumerPlace, Consuming
<1>6. CASE Cancel
  BY <1>1, <1>2, <1>6 DEF Cancel, CGoto, EcCancelWait, EndWait, EcGoto
<1>7. CASE Wait
  BY <1>7 DEF Wait, EcWait, Waits
<1>8. CASE InEventCount(Logger) \/ Signal(Logger)
  <2>1. UNCHANGED lpc /\ (EcStep(Logger) \/ Interrupted(Logger))
    BY <1>8 DEF InEventCount, Signal, threadVars
  <2>2. CASE UNCHANGED key /\ at[Logger] \in {"check", "futex", "asleep"}
    BY <2>1, <2>2, <1>2 DEF Waits
  <2>3. CASE FutexWake(Logger)
    <3>1. at[Logger] \in {"wake1", "wakeAll"}  BY <2>3 DEF FutexWake
    <3> QED  BY <3>1, <2>1, <1>1, <1>2 DEF ConsumerPlace
  <2>4. CASE LeaveWait(Logger)
    <3>1. at[Logger] = "leaving" /\ at'[Logger] = "out"
      BY <2>4, <1>1 DEF LeaveWait, EndWait, EcGoto
    <3> QED  BY <3>1, <2>1, <1>1, <1>2 DEF ConsumerPlace
  <2> QED
    BY <2>1, <2>2, <2>3, <2>4 DEF EcStep, CheckEpoch, FutexWait, Interrupted
<1>9. CASE StartThread
  <2>1. /\ started < Len(Table) /\ started' = started + 1 /\ UNCHANGED <<at, key>>
        /\ lpc' = IF Table[started + 1] = Logger THEN "loop" ELSE lpc
    BY <1>1, <1>9 DEF StartThread, StageFits, ecVars
  <2>2. CASE Table[started + 1] = Logger
    <3>1. lpc = "none"  BY <2>1, <2>2, <1>1, StartedUp DEF NotBegun
    <3> QED  BY <3>1, <2>1, <2>2, <1>1, <1>2 DEF ConsumerPlace
  <2>3. CASE Table[started + 1] # Logger  BY <2>1, <2>3, <1>2 DEF Waits
  <2> QED  BY <2>2, <2>3
<1>10. CASE /\ UNCHANGED lpc
            /\ at'[Logger] = at[Logger] \/ (at[Logger] = "asleep" /\ at'[Logger] = "check")
            /\ key'[Logger] = key[Logger]
  BY <1>2, <1>10 DEF Waits
<1> QED
  BY <1>1, <1>3, <1>4, <1>5, <1>6, <1>7, <1>8, <1>9, <1>10, StepsOfOthers DEF ConsumerStep


LEMMA SawNoEntryStep ==
  ASSUME MaxLogs + 1 < EpochMod, IInv, EpochsLogged, SawNoEntry, [Next]_vars
  PROVE  SawNoEntry'
<1> SUFFICES ASSUME lpc' = "recheck" \/ Waits', key'[Logger] = Epoch', Queue!Ready'
             PROVE  \E p \in Producers : ppc'[p] = "notify"
  BY DEF SawNoEntry
<1>1. /\ TypeOK /\ DOMAIN ppc = Producers /\ tickets \in Seq(ReservedOrCommitted)
      /\ \A p \in Producers : p \notin Entries /\ p \in ReservedOrCommitted
  BY PipelineAssumption DEF IInv, TypeOK, Queue!TypeOK, ReservedOrCommitted
<1>2. tickets' # <<>> /\ Head(tickets') \in Entries  BY DEF Queue!Ready
<1>3. key'[Logger] = key[Logger]  BY WaitsBefore
<1>4. Epoch' = Epoch /\ (\A p \in Producers : ~Notify(p))
  <2>1. Epoch' # Epoch + 1
    BY <1>3, KeyAndEpoch DEF EpochsLogged
  <2> QED  BY <2>1, NotifyUp, WakeUp, EpochMoves
<1>5. CASE \E p \in Producers : CommitEntry(p)
  BY <1>5, <1>1 DEF CommitEntry, PGoto
<1>6. CASE \A p \in Producers : ~CommitEntry(p)
  <2>1. Queue!Ready
    <3>1. ASSUME NEW p \in Producers, Reserve(p)  PROVE Queue!Ready
      <4>1. tickets' = Append(tickets, p)  BY <3>1 DEF Reserve, Queue!Reserve
      <4>2. Head(tickets') = IF tickets = <<>> THEN p ELSE Head(tickets)
        BY <4>1, <1>1, HeadTailAppend
      <4>3. tickets # <<>>  BY <4>2, <1>1, <1>2
      <4> QED  BY <4>2, <4>3, <1>2 DEF Queue!Ready
    <3>2. ~TakeEntry  BY DEF TakeEntry, CGoto, Waits
    <3>3. CASE UNCHANGED tickets  BY <3>3, <1>2 DEF Queue!Ready
    <3> QED
      BY <3>1, <3>2, <3>3, <1>6, QueueFrame DEF WriteEntry, FreeEntry, Queue!Read, Queue!GiveBack
  <2>2. lpc = "recheck" \/ Waits
    <3>1. ~NothingToTake  BY <2>1 DEF NothingToTake
    <3> QED  BY <3>1, WaitsBefore
  <2>3. PICK p \in Producers : ppc[p] = "notify"
    BY <2>1, <2>2, <1>3, <1>4 DEF SawNoEntry
  <2>4. ppc'[p] = "notify"
    <3>1. ~(StartThread /\ p = Table[started + 1])
      <4> SUFFICES ASSUME StartThread, p = Table[started + 1] PROVE FALSE
        OBVIOUS
      <4>1. started < Len(Table) /\ started' = started + 1
        BY DEF StartThread, IInv, StageFits
      <4>2. p \in Threads /\ ~Started(p) /\ p # Logger  BY <1>1, <4>1, StartedUp, Roles
      <4> QED  BY <4>2, <2>3 DEF IInv, NotBegun
    <3> QED
      BY <3>1, <2>3, <1>1, <1>4, StepsOfProducer
         DEF LogCall, Reserve, ReserveRefused, CommitEntry, WorkerReturns, StopThread,
             WakeConsumer, JoinThread
  <2> QED  BY <2>4
<1> QED  BY <1>5, <1>6

LEMMA SawNoStopStep ==
  ASSUME MaxLogs + 1 < EpochMod, IInv, EpochsLogged, SawNoStop, [Next]_vars
  PROVE  SawNoStop'
<1> SUFFICES ASSUME Waits', key'[Logger] = Epoch', ~running'[Logger]
             PROVE  ppc'[Main] = "wakeup"
  BY DEF SawNoStop
<1>1. /\ TypeOK /\ StageFits /\ ProducersPlace /\ DOMAIN ppc = Producers /\ Main \in Producers
      /\ running \in [Threads -> BOOLEAN] /\ toStop \in Seq(Threads) /\ Logger \in Threads
  BY Roles DEF IInv, TypeOK
<1>2. key'[Logger] = key[Logger] /\ (Waits \/ RecheckRunning)  BY WaitsBefore
<1>3. Epoch' = Epoch /\ ~WakeConsumer
  <2>1. Epoch' # Epoch + 1
    BY <1>2, KeyAndEpoch DEF EpochsLogged
  <2> QED  BY <2>1, NotifyUp, WakeUp, EpochMoves
<1>4. CASE StopThread
  <2>1. /\ ppc[Main] = "idle" /\ toStop # <<>> /\ UNCHANGED lpc
        /\ running' = [running EXCEPT ![Head(toStop)] = FALSE]
        /\ ppc'[Main] = IF Head(toStop) = Logger THEN "wakeup" ELSE "join"
    BY <1>1, <1>4 DEF StopThread, PGoto
  <2>2. CASE Head(toStop) # Logger
    <3>1. ~running[Logger]  BY <2>1, <2>2, <1>1
    <3>2. Waits
      <4>1. ~RecheckRunning
        BY <2>1 DEF RecheckRunning, CGoto
      <4> QED  BY <4>1, <1>2
    <3> QED  BY <3>1, <3>2, <2>1, <1>2, <1>3 DEF SawNoStop
  <2> QED  BY <2>1, <2>2
<1>5. CASE ~StopThread
  <2>1. ~running[Logger]
    <3>1. CASE StartThread  BY <3>1, <1>1 DEF StartThread
    <3>2. CASE ~StartThread
      BY <3>2, <1>5, TableFrame DEF StartFails, StopAll, JoinThread, DestroyLogger
    <3> QED  BY <3>1, <3>2
  <2>2. ~RecheckRunning
    <3>1. RecheckRunning => lpc' = "break"  BY <2>1 DEF RecheckRunning, CGoto
    <3> QED  BY <3>1 DEF Waits
  <2>3. ppc[Main] = "wakeup"  BY <2>1, <2>2, <1>2, <1>3 DEF SawNoStop
  <2>4. stage = "stopping"  BY <2>3, <1>1 DEF StageFits
  <2> QED
    BY <2>3, <2>4, <1>1, <1>3, <1>5, StepsOfMain
       DEF LogCall, Reserve, ReserveRefused, CommitEntry, Notify, TableStep, StopAll, StartThread,
           StartFails, JoinThread, DestroyLogger
<1> QED  BY <1>4, <1>5

LEMMA OldKeyWokenStep ==
  ASSUME MaxLogs + 1 < EpochMod, IInv, EpochsLogged, OldKeyWoken, [Next]_vars
  PROVE  OldKeyWoken'
<1> SUFFICES ASSUME at'[Logger] = "asleep", key'[Logger] # Epoch'
             PROVE  \E p \in Producers : at'[p] \in {"wake1", "wakeAll"}
  BY DEF OldKeyWoken
<1>1. /\ TypeOK /\ EcTypeOK /\ at \in [EcThreads -> EcLabels] /\ DOMAIN at = EcThreads
      /\ Logger \in EcThreads /\ Main \in Producers
      /\ \A p \in Producers : p \in EcThreads /\ p # Logger
      /\ ConsumerPlace /\ ProducersPlace
      /\ \A p \in Producers : at[p] \in {"out", "wake1", "wakeAll"}
  BY Roles DEF IInv, TypeOK, EcTypeOK, ProducersPlace
<1>2. at[Logger] = "asleep" /\ key'[Logger] = key[Logger]
  <2>1. CASE UNCHANGED ecVars  BY <2>1 DEF ecVars
  <2>2. CASE EcPrepareWait(Logger) \/ EcCancelWait(Logger) \/ EcWait(Logger)
             \/ CheckEpoch(Logger) \/ LeaveWait(Logger) \/ Interrupted(Logger)
    BY <2>2, <1>1 DEF EcPrepareWait, EcCancelWait, EndWait, EcWait, CheckEpoch, LeaveWait,
                      Interrupted, EcGoto
  <2>3. CASE FutexWait(Logger)
    <3>1. Epoch' = Epoch /\ key' = key  BY <2>3 DEF FutexWait, Epoch
    <3>2. at'[Logger] = IF Epoch = key[Logger] THEN "asleep" ELSE "check"
      BY <2>3, <1>1 DEF FutexWait, EcGoto
    <3> QED  BY <3>1, <3>2
  <2>4. CASE FutexWake(Logger)
    <3>1. at[Logger] \in {"wake1", "wakeAll"}  BY <2>4 DEF FutexWake
    <3>2. lpc \in {"none", "loop", "consume", "write", "commit", "prepare", "recheck", "cancel",
                   "break", "wait", "exited"} /\ phase \in {"try", "again", "drain"}
      BY <1>1 DEF TypeOK
    <3> QED  BY <3>1, <3>2, <1>1 DEF ConsumerPlace, Consuming
  <2>5. CASE ConsumerStep \/ Signal(Logger)
    BY <2>5, <2>1, <2>2, <2>3, <2>4
       DEF ConsumerStep, Signal, LoopTest, TakeEntry, WriteEntry, FreeEntry, NothingToTake,
           Prepare, RecheckRunning, Cancel, Break, Wait, InEventCount, EcStep
  <2>6. CASE StartThread  BY <2>1, <2>6 DEF StartThread
  <2> QED  BY <2>5, <2>6, <1>1, StepsOfOthers
<1>3. CASE (\E p \in Producers : Notify(p)) \/ WakeConsumer
  <2>1. WaiterCount > 0
    <3>1. Logger \in Waiting  BY <1>1, <1>2 DEF Waiting
    <3> QED  BY <3>1, CountedOne DEF IInv
  <2>2. PICK p \in Producers : EcNotify(p) \/ EcNotifyAll(p)
    BY <1>1, <1>3 DEF Notify, WakeConsumer
  <2> QED  BY <2>1, <2>2, <1>1 DEF EcNotify, EcNotifyAll, EcAdvance, EcGoto
<1>4. CASE Epoch' = Epoch /\ (\A p \in Producers : ~Notify(p)) /\ ~WakeConsumer
  <2>1. PICK p \in Producers : at[p] \in {"wake1", "wakeAll"}
    BY <1>2, <1>4 DEF OldKeyWoken
  <2>2. \A q \in Producers : ~InEventCount(q)
    <3> SUFFICES ASSUME NEW q \in Producers, InEventCount(q) PROVE FALSE
      OBVIOUS
    <3>1. FutexWake(q)
      BY <1>1 DEF InEventCount, EcStep, CheckEpoch, FutexWait, LeaveWait
    <3>2. Sleepers = {Logger}
      <4>1. \A t \in EcThreads : at[t] = "asleep" <=> t = Logger  BY <1>1, <1>2, Roles
      <4> QED  BY <4>1, <1>1 DEF Sleepers
    <3> QED  BY <3>1, <3>2, <1>1 DEF FutexWake
  <2>3. at'[p] = at[p]
    <3>1. CASE UNCHANGED ecVars  BY <3>1 DEF ecVars
    <3>2. CASE \/ EcPrepareWait(Logger) \/ EcCancelWait(Logger) \/ EcWait(Logger)
               \/ EcStep(Logger) \/ Interrupted(Logger)
      BY <3>2, <2>1, <1>1, AtOfOther
    <3>3. CASE UNCHANGED vars \/ Stopped  BY <3>1, <3>3 DEF vars, Stopped
    <3>4. CASE \E q \in Producers : LogCall(q) \/ ProducerStep(q)
      BY <3>4, <3>1, <2>2, <1>4 DEF LogCall, ProducerStep, Reserve, ReserveRefused, CommitEntry
    <3>5. CASE (\E w \in Workers : WorkerReturns(w)) \/ TableStep \/ StopAll
      BY <3>5, <3>1, <1>4 DEF WorkerReturns, TableStep, StopAll, StartThread, StartFails,
                              StopThread, JoinThread, DestroyLogger
    <3>6. CASE ConsumerStep \/ Signal(Logger)
      BY <3>6, <3>1, <3>2
         DEF ConsumerStep, Signal, LoopTest, TakeEntry, WriteEntry, FreeEntry, NothingToTake,
             Prepare, RecheckRunning, Cancel, Break, Wait, InEventCount
    <3> QED  BY <3>3, <3>4, <3>5, <3>6 DEF Next
  <2> QED  BY <2>1, <2>3
<1> QED  BY <1>3, <1>4, EpochMoves

(* The consumer never sleeps on a committed entry, or on the request to     *)
(* stop, unless somebody is about to wake it: the notify of every commit,  *)
(* the wakeup of the stop, and the looks at the queue and at running       *)
(* between ec_prepare_wait and ec_wait (logger.c) leave no gap, as long as *)
(* the notifies are fewer than the epochs.                                 *)
THEOREM SleeperWoken ==
  ASSUME MaxLogs + 1 < EpochMod
  PROVE  Spec => []NoForgottenSleeper
<1> DEFINE Served == EpochsLogged /\ SleeperServed
<1>1. Init => Served
  <2> SUFFICES ASSUME Init PROVE Served
    OBVIOUS
  <2>1. Epoch = 0
    <3>1. \A d \in Nat \ {0} : 0 \div d = 0
      OBVIOUS
    <3> QED  BY <3>1, EcAssumption DEF Init, EcInit, Epoch
  <2>2. Notifying = {}  BY DEF Init, Notifying
  <2>3. EpochsLogged
    BY <2>1, <2>2, FS_EmptySet, Roles DEF Init, EcInit, EpochsLogged, Woken
  <2>4. SleeperServed
    BY Roles DEF Init, EcInit, SleeperServed, SawNoEntry, SawNoStop, OldKeyWoken, Waits
  <2> QED  BY <2>3, <2>4
<1>2. IInv /\ Served /\ [Next]_vars => Served'
  <2> SUFFICES ASSUME IInv, Served, [Next]_vars PROVE Served'
    OBVIOUS
  <2>1. EpochsLogged'  BY EpochsLoggedStep
  <2>2. SawNoEntry' /\ SawNoStop' /\ OldKeyWoken'
    BY SawNoEntryStep, SawNoStopStep, OldKeyWokenStep DEF SleeperServed
  <2> QED  BY <2>1, <2>2 DEF SleeperServed
<1>3. IInv /\ Served => NoForgottenSleeper
  <2> SUFFICES ASSUME IInv, Served, at[Logger] = "asleep", Queue!Ready \/ ~running[Logger]
               PROVE  NotifyPending
    BY DEF NoForgottenSleeper
  <2>1. Waits
    <3>1. lpc \in {"none", "loop", "consume", "write", "commit", "prepare", "recheck", "cancel",
                   "break", "wait", "exited"} /\ phase \in {"try", "again", "drain"}
          /\ ConsumerPlace
      BY DEF IInv, TypeOK
    <3> QED  BY <3>1 DEF ConsumerPlace, Consuming, Waits
  <2>2. CASE key[Logger] = Epoch
    BY <2>1, <2>2, Roles DEF SleeperServed, SawNoEntry, SawNoStop, NotifyPending
  <2>3. CASE key[Logger] # Epoch
    BY <2>3 DEF SleeperServed, OldKeyWoken, NotifyPending
  <2> QED  BY <2>2, <2>3
<1> QED  BY Invariance, <1>1, <1>2, <1>3, PTL DEF Spec


=============================================================================
