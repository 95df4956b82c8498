----------------------------- MODULE LogPipeline -----------------------------
(***************************************************************************)
(* The daemon's log path from enqueue_daemon_log to write_daemon_log, and  *)
(* the life of the thread table around it: common/src/log/logger.c with    *)
(* threads/thread_mgr.c.                                                   *)
(*                                                                         *)
(* It composes the ring, by what MpmcQueue implements (TicketQueue), with  *)
(* the event count and the consumer's loop.  Main is the daemon's main     *)
(* thread: it starts the threads of its table, of which the log consumer   *)
(* is the first, logs, and stops them.  Workers are the other entries of   *)
(* the table: threads that log and have no wakeup callback.  Today's table *)
(* has none; thread_mgr.c is written for any number.                       *)
(***************************************************************************)
EXTENDS EventCount, Sequences, SequencesExt

CONSTANTS
    Main,
    Workers,
    Logger,   \* the thread of daemon_log_consumer_thread
    Nil,
    Cap,      \* LOG_QUEUE_SIZE
    MaxLogs   \* bound: log calls of all threads together

Producers == {Main} \cup Workers

Entries == Producers \X Nat   \* a message: who logs it, and which of its calls

ASSUME PipelineAssumption ==
    /\ Logger \notin Producers /\ Main \notin Workers
    /\ EcThreads = Producers \cup {Logger}
    /\ \A p \in Producers : p \notin Entries
    /\ Nil \notin Entries /\ Nil \notin Producers
    /\ Cap \in Nat \ {0} /\ MaxLogs \in Nat

Threads == {Logger} \cup Workers
Table == <<Logger>> \o SetToSeq(Workers)   \* g_threads

VARIABLES
    tickets, held, out,  \* the queue
    stage,      \* of the table: "starting", "up", "stopping" or "freed"
    started,    \* number of entries started
    toStop,     \* the entries still to be stopped, in that order
    running,    \* entry->running of every thread of the table
    lpc,        \* where the consumer stands in its loop
    phase,      \* which of its three consume calls it is in
    ppc,        \* where each producer stands
    calls,      \* log calls made by each producer
    logged,     \* log calls made by all of them, for the bound
    accepted,   \* history: entries whose slot was reserved, in that order
    delivered   \* history: entries handed to write_daemon_log, in order

Queue == INSTANCE TicketQueue WITH Consumers <- {Logger}, Payload <- Entries

queueVars == <<tickets, held, out>>
callVars == <<calls, logged>>
tableVars == <<stage, started, toStop, running>>
threadVars == <<tableVars, lpc, phase, ppc, callVars>>
vars == <<queueVars, ecVars, threadVars, accepted, delivered>>

Init ==
    /\ Queue!Init
    /\ EcInit
    /\ stage = "starting" /\ started = 0 /\ toStop = <<>>
    /\ running = [t \in Threads |-> FALSE]
    /\ lpc = "none" /\ phase = "try"
    /\ ppc = [p \in Producers |-> IF p = Main THEN "idle" ELSE "none"]
    /\ calls = [p \in Producers |-> 0] /\ logged = 0
    /\ accepted = <<>>
    /\ delivered = <<>>

-----------------------------------------------------------------------------
(* enqueue_daemon_log.  The logger is enabled from init_daemon_logger,      *)
(* before the table is started, to destroy_daemon_logger.                  *)

PGoto(p, label) == ppc' = [ppc EXCEPT ![p] = label]
Entry(p) == <<p, calls[p]>>

LogCall(p) ==
    /\ ppc[p] = "idle" /\ at[p] = "out"
    /\ p = Main => stage = "up"
    /\ logged < MaxLogs
    /\ logged' = logged + 1
    /\ calls' = [calls EXCEPT ![p] = @ + 1]
    /\ PGoto(p, "reserve")
    /\ UNCHANGED <<queueVars, ecVars, tableVars, lpc, phase, accepted, delivered>>

Reserve(p) ==
    /\ ppc[p] = "reserve"
    /\ Queue!Reserve(p)
    /\ accepted' = Append(accepted, Entry(p))
    /\ PGoto(p, "fill")
    /\ UNCHANGED <<ecVars, tableVars, lpc, phase, callVars, delivered>>

(* The queue is full: the message is dropped.  With a single consumer the   *)
(* slot of enqueue_pos is taken exactly when Cap slots are in use.         *)
ReserveRefused(p) ==
    /\ ppc[p] = "reserve"
    /\ Queue!Occupied >= Cap
    /\ PGoto(p, "idle")
    /\ UNCHANGED <<queueVars, ecVars, tableVars, lpc, phase, callVars, accepted, delivered>>

CommitEntry(p) ==
    /\ ppc[p] = "fill"
    /\ Queue!Commit(p, Entry(p))
    /\ PGoto(p, "notify")
    /\ UNCHANGED <<ecVars, tableVars, lpc, phase, callVars, accepted, delivered>>

\* Mutant: no notify after the commit.
NotifySkipped(p) ==
    /\ ppc[p] = "notify"
    /\ PGoto(p, "idle")
    /\ UNCHANGED <<queueVars, ecVars, tableVars, lpc, phase, callVars, accepted, delivered>>

Notify(p) ==
    /\ ppc[p] = "notify"
    /\ EcNotify(p)
    /\ PGoto(p, "idle")
    /\ UNCHANGED <<queueVars, tableVars, lpc, phase, callVars, accepted, delivered>>

(* A worker's thread function returns after its own running was cleared.   *)
WorkerReturns(w) ==
    /\ ppc[w] = "idle" /\ at[w] = "out"
    /\ ~running[w]
    /\ PGoto(w, "done")
    /\ UNCHANGED <<queueVars, ecVars, tableVars, lpc, phase, callVars, accepted, delivered>>

-----------------------------------------------------------------------------
(* The thread table: start_thread_mgr_all, stop_thread_mgr_all.            *)

Ended(t) == IF t = Logger THEN lpc = "exited" ELSE ppc[t] = "done"

StartThread ==
    /\ stage = "starting"
    /\ LET t == Table[started + 1] IN
       /\ running' = [running EXCEPT ![t] = TRUE]
       /\ started' = started + 1
       /\ stage' = IF started + 1 = Len(Table) THEN "up" ELSE "starting"
       /\ lpc' = IF t = Logger THEN "loop" ELSE lpc
       /\ ppc' = [p \in Producers |-> IF p = t THEN "idle" ELSE ppc[p]]
    /\ UNCHANGED <<queueVars, ecVars, toStop, phase, callVars, accepted, delivered>>

\* Mutant: the rollback stops one entry short.
StartFailsMissesLast ==
    /\ stage = "starting"
    /\ stage' = "stopping"
    /\ toStop' = SubSeq(Table, 1, started - 1)
    /\ UNCHANGED <<queueVars, ecVars, started, running, lpc, phase, ppc, callVars, accepted, delivered>>

(* pthread_create fails: the entries started so far are stopped, from the  *)
(* first one on.                                                           *)
StartFails ==
    /\ stage = "starting"
    /\ stage' = "stopping"
    /\ toStop' = SubSeq(Table, 1, started)
    /\ UNCHANGED <<queueVars, ecVars, started, running, lpc, phase, ppc, callVars, accepted, delivered>>

\* Mutant: the table is stopped from its first entry on.
StopAllFirstToLast ==
    /\ stage = "up" /\ ppc[Main] = "idle" /\ at[Main] = "out"
    /\ stage' = "stopping"
    /\ toStop' = Table
    /\ UNCHANGED <<queueVars, ecVars, started, running, lpc, phase, ppc, callVars, accepted, delivered>>

(* finalize: the entries are stopped from the last one to the first.       *)
StopAll ==
    /\ stage = "up" /\ ppc[Main] = "idle" /\ at[Main] = "out"
    /\ stage' = "stopping"
    /\ toStop' = Reverse(Table)
    /\ UNCHANGED <<queueVars, ecVars, started, running, lpc, phase, ppc, callVars, accepted, delivered>>

(* stop_thread_mgr_one: the flag, the wakeup callback of an entry that has *)
(* one, and the join, before the next entry is looked at.                  *)
StopThread ==
    /\ stage = "stopping" /\ ppc[Main] = "idle"
    /\ toStop # <<>>
    /\ running' = [running EXCEPT ![Head(toStop)] = FALSE]
    /\ PGoto(Main, IF Head(toStop) = Logger THEN "wakeup" ELSE "join")
    /\ UNCHANGED <<queueVars, ecVars, stage, started, toStop, lpc, phase, callVars, accepted, delivered>>

\* Mutant: the entry has no wakeup callback.
WakeConsumerSkipped ==
    /\ ppc[Main] = "wakeup"
    /\ PGoto(Main, "join")
    /\ UNCHANGED <<queueVars, ecVars, tableVars, lpc, phase, callVars, accepted, delivered>>

(* wake_daemon_log_consumer_thread *)
WakeConsumer ==
    /\ ppc[Main] = "wakeup"
    /\ EcNotifyAll(Main)
    /\ PGoto(Main, "join")
    /\ UNCHANGED <<queueVars, tableVars, lpc, phase, callVars, accepted, delivered>>

\* Mutant: the thread is not waited for.
JoinSkipped ==
    /\ ppc[Main] = "join" /\ at[Main] = "out"
    /\ toStop' = Tail(toStop)
    /\ PGoto(Main, "idle")
    /\ UNCHANGED <<queueVars, ecVars, stage, started, running, lpc, phase, callVars, accepted, delivered>>

JoinThread ==
    /\ ppc[Main] = "join" /\ at[Main] = "out"
    /\ Ended(Head(toStop))
    /\ toStop' = Tail(toStop)
    /\ PGoto(Main, "idle")
    /\ UNCHANGED <<queueVars, ecVars, stage, started, running, lpc, phase, callVars, accepted, delivered>>

(* destroy_daemon_logger frees the queue, after stop_thread_mgr_all and     *)
(* after the rollback alike.                                               *)
DestroyLogger ==
    /\ stage = "stopping" /\ ppc[Main] = "idle"
    /\ toStop = <<>>
    /\ stage' = "freed"
    /\ UNCHANGED <<queueVars, ecVars, started, toStop, running, lpc, phase, ppc, callVars, accepted, delivered>>

-----------------------------------------------------------------------------
(* daemon_log_consumer_thread. *)

CGoto(label) == lpc' = label
Consume(next) == CGoto("consume") /\ phase' = next

(* The loop's condition; a wait has returned once the event count is left. *)
LoopTest ==
    /\ lpc = "loop" /\ at[Logger] = "out"
    /\ Consume(IF running[Logger] THEN "try" ELSE "drain")
    /\ UNCHANGED <<queueVars, ecVars, tableVars, ppc, callVars, accepted, delivered>>

\* Mutant: the try after ec_prepare_wait takes the entry, and nobody writes it.
TakeEntryUnwritten ==
    /\ lpc = "consume"
    /\ Queue!Claim(Logger)
    /\ CGoto(IF phase = "again" THEN "commit" ELSE "write")
    /\ UNCHANGED <<ecVars, tableVars, phase, ppc, callVars, accepted, delivered>>

(* consume_one_daemon_log_entry reserves the oldest entry, *)
TakeEntry ==
    /\ lpc = "consume"
    /\ Queue!Claim(Logger)
    /\ CGoto("write")
    /\ UNCHANGED <<ecVars, tableVars, phase, ppc, callVars, accepted, delivered>>

(* writes it, *)
WriteEntry ==
    /\ lpc = "write"
    /\ Queue!Read(Logger)
    /\ delivered' = Append(delivered, held[Logger])
    /\ CGoto("commit")
    /\ UNCHANGED <<ecVars, tableVars, phase, ppc, callVars, accepted>>

(* and gives its slot back. *)
FreeEntry ==
    /\ lpc = "commit"
    /\ Queue!GiveBack(Logger)
    /\ CGoto(CASE phase = "try" -> "loop"
               [] phase = "again" -> "cancel"
               [] phase = "drain" -> "consume")
    /\ UNCHANGED <<ecVars, tableVars, phase, ppc, callVars, accepted, delivered>>

\* Mutant: running is not looked at again before the wait.
NothingToTakeNoRecheck ==
    /\ lpc = "consume"
    /\ ~Queue!Ready
    /\ CGoto(CASE phase = "try" -> "prepare"
               [] phase = "again" -> "wait"
               [] phase = "drain" -> "exited")
    /\ UNCHANGED <<queueVars, ecVars, tableVars, phase, ppc, callVars, accepted, delivered>>

(* Or it finds nothing to take and returns false. *)
NothingToTake ==
    /\ lpc = "consume"
    /\ ~Queue!Ready
    /\ CGoto(CASE phase = "try" -> "prepare"
               [] phase = "again" -> "recheck"
               [] phase = "drain" -> "exited")
    /\ UNCHANGED <<queueVars, ecVars, tableVars, phase, ppc, callVars, accepted, delivered>>

Prepare ==
    /\ lpc = "prepare"
    /\ EcPrepareWait(Logger)
    /\ Consume("again")
    /\ UNCHANGED <<queueVars, tableVars, ppc, callVars, accepted, delivered>>

RecheckRunning ==
    /\ lpc = "recheck"
    /\ CGoto(IF running[Logger] THEN "wait" ELSE "break")
    /\ UNCHANGED <<queueVars, ecVars, tableVars, phase, ppc, callVars, accepted, delivered>>

Cancel ==
    /\ lpc = "cancel"
    /\ EcCancelWait(Logger)
    /\ CGoto("loop")
    /\ UNCHANGED <<queueVars, tableVars, phase, ppc, callVars, accepted, delivered>>

Break ==
    /\ lpc = "break"
    /\ EcCancelWait(Logger)
    /\ Consume("drain")
    /\ UNCHANGED <<queueVars, tableVars, ppc, callVars, accepted, delivered>>

Wait ==
    /\ lpc = "wait"
    /\ EcWait(Logger)
    /\ CGoto("loop")
    /\ UNCHANGED <<queueVars, tableVars, phase, ppc, callVars, accepted, delivered>>

-----------------------------------------------------------------------------
InEventCount(t) ==
    EcStep(t) /\ UNCHANGED <<queueVars, threadVars, accepted, delivered>>
Signal(t) ==
    Interrupted(t) /\ UNCHANGED <<queueVars, threadVars, accepted, delivered>>

ProducerStep(p) ==
    \/ Reserve(p) \/ ReserveRefused(p) \/ CommitEntry(p) \/ Notify(p)
    \/ InEventCount(p)

TableStep ==
    \/ StartThread \/ StartFails
    \/ StopThread \/ WakeConsumer \/ JoinThread \/ DestroyLogger

ConsumerStep ==
    \/ LoopTest \/ TakeEntry \/ WriteEntry \/ FreeEntry \/ NothingToTake
    \/ Prepare \/ RecheckRunning \/ Cancel \/ Break \/ Wait
    \/ InEventCount(Logger)

(* Everything is joined and freed. *)
Stopped == stage = "freed" /\ UNCHANGED vars

Next ==
    \/ \E p \in Producers : LogCall(p) \/ ProducerStep(p)
    \/ \E w \in Workers : WorkerReturns(w)
    \/ TableStep \/ StopAll
    \/ ConsumerStep \/ Signal(Logger)
    \/ Stopped

Spec == Init /\ [][Next]_vars

(* Threads that are inside a call run on, the start and the stop of the    *)
(* table too, and a worker returns once it is told to.  Nothing obliges a  *)
(* thread to log or the daemon to stop, and signals may never come.        *)
Fairness ==
    /\ \A p \in Producers : WF_vars(ProducerStep(p))
    /\ \A w \in Workers : WF_vars(WorkerReturns(w))
    /\ WF_vars(TableStep)
    /\ WF_vars(ConsumerStep)

FairSpec == Spec /\ Fairness

-----------------------------------------------------------------------------
TypeOK ==
    /\ EcTypeOK /\ Queue!TypeOK
    /\ stage \in {"starting", "up", "stopping", "freed"}
    /\ started \in 0 .. Len(Table)
    /\ toStop \in Seq(Threads)
    /\ running \in [Threads -> BOOLEAN]
    /\ lpc \in {"none", "loop", "consume", "write", "commit", "prepare", "recheck",
                "cancel", "break", "wait", "exited"}
    /\ phase \in {"try", "again", "drain"}
    /\ ppc \in [Producers -> {"none", "idle", "reserve", "fill", "notify", "wakeup", "join", "done"}]
    /\ calls \in [Producers -> Nat] /\ logged \in 0 .. MaxLogs
    /\ accepted \in Seq(Entries)
    /\ delivered \in Seq(Entries)

(* Lines are written in the order their slots were reserved, none twice    *)
(* and none skipped, whatever the order the producers commit in.           *)
DeliveredInOrder == IsPrefix(delivered, accepted)

(* The comment of logger.c:240: when the consumer thread has ended, every  *)
(* message that was accepted has been written.  It rests on the order in   *)
(* which stop_thread_mgr_all stops the threads, and on no producer being   *)
(* in the middle of a call when the consumer drains the queue.  It is said *)
(* of a table that was started: the rollback of a failed start stops the   *)
(* consumer first, and what the others still log is lost.                  *)
AllStarted == started = Len(Table)

DrainedOnExit == AllStarted /\ lpc = "exited" => delivered = accepted

(* The consumer never sleeps on a committed entry, or on a stop request,   *)
(* that nobody is about to notify it of.                                   *)
NotifyPending ==
    \E p \in Producers : ppc[p] \in {"notify", "wakeup"} \/ at[p] # "out"

NoForgottenSleeper ==
    at[Logger] = "asleep" /\ (Queue!Ready \/ ~running[Logger]) => NotifyPending

(* When destroy_daemon_logger frees the queue, no thread is left that could *)
(* use it or the event count, whichever way the table came down: no slot   *)
(* is held, nobody waits, nobody is about to notify.                       *)
NobodyInsideWhenFreed ==
    stage = "freed" =>
        /\ lpc \in {"none", "exited"}
        /\ \A w \in Workers : ppc[w] \in {"none", "done"}
        /\ \A t \in EcThreads : at[t] = "out"
        /\ held[Logger] = Nil
        /\ \A i \in 1 .. Len(tickets) : tickets[i] \in Entries

(* Every accepted message is eventually written, without waiting for       *)
(* another message or for the stop, unless the start of the table fails.   *)
(* By DeliveredInOrder the first n accepted are written when n are.        *)
EveryEntryDelivered ==
    \A n \in 1 .. MaxLogs :
        Len(accepted) >= n
            ~> Len(delivered) >= n \/ (stage # "starting" /\ ~AllStarted)

(* The table comes down once that has begun: the consumer sees the request *)
(* even when it was set between its last look at running and its sleep,    *)
(* and in the rollback, where the consumer goes first, a full queue holds  *)
(* up no thread that logs.                                                 *)
StopReturns == stage = "stopping" ~> stage = "freed"

-----------------------------------------------------------------------------
(* The inductive invariant behind the safety properties.                   *)

(* A thread that was not started has done nothing yet. *)
Started(t) == \E i \in 1 .. started : Table[i] = t

NotBegun ==
    \A t \in Threads : ~Started(t) =>
        /\ ~running[t]
        /\ IF t = Logger THEN lpc = "none" ELSE ppc[t] = "none"

(* Main either logs or starts and stops its table, one entry at a time. *)
StageFits ==
    /\ stage = "starting" => started < Len(Table) /\ ppc[Main] = "idle"
    /\ stage = "up" => AllStarted /\ ppc[Main] \in {"idle", "reserve", "fill", "notify"}
    /\ stage \in {"stopping", "freed"} => ppc[Main] \in {"idle", "wakeup", "join"}
    /\ stage # "up" /\ ppc[Main] = "idle" => at[Main] = "out"
    /\ ppc[Main] \in {"wakeup", "join"} =>
          stage = "stopping" /\ toStop # <<>> /\ ~running[Head(toStop)]
    /\ ppc[Main] = "wakeup" => Head(toStop) = Logger
    /\ stage # "stopping" => toStop = <<>>
    /\ stage \in {"starting", "up"} => \A t \in Threads : Started(t) => running[t]

(* What is still to be stopped runs, and what was started and is not to be  *)
(* stopped any more has ended; the consumer is the last of a whole table.  *)
StopsInOrder ==
    /\ \A i \in 1 .. Len(toStop) :
          /\ Started(toStop[i])
          /\ i > 1 \/ ppc[Main] = "idle" => running[toStop[i]]
          /\ AllStarted => (toStop[i] = Logger <=> i = Len(toStop))
    /\ \A i, j \in 1 .. Len(toStop) : toStop[i] = toStop[j] => i = j
    /\ stage \in {"stopping", "freed"} =>
          \A t \in Threads : Started(t) =>
              Ended(t) \/ \E i \in 1 .. Len(toStop) : toStop[i] = t
    /\ AllStarted /\ toStop # <<>> => toStop[Len(toStop)] = Logger

(* Where a thread stands in its own code says where it stands in the event  *)
(* count and what it holds of the queue.                                   *)
Consuming(call) == lpc \in {"consume", "write", "commit"} /\ phase = call

ConsumerPlace ==
    /\ lpc \in {"recheck", "cancel", "break", "wait"} \/ Consuming("again")
          => at[Logger] = "prepared"
    /\ lpc \in {"none", "prepare", "exited"} \/ Consuming("try") \/ Consuming("drain")
          => at[Logger] = "out"
    /\ lpc = "loop" => at[Logger] \in {"out", "check", "futex", "asleep", "leaving"}
    /\ held[Logger] # Nil <=> lpc \in {"write", "commit"}
    /\ lpc = "cancel" => phase = "again"
    /\ lpc \in {"break", "exited"} \/ Consuming("drain") => ~running[Logger]

ProducersPlace ==
    /\ \A p \in Producers :
          /\ at[p] \in {"out", "wake1", "wakeAll"}
          /\ ppc[p] \in {"none", "done"} => at[p] = "out" /\ p # Main
          /\ ppc[p] \in {"wakeup", "join"} => p = Main
    /\ \A i \in 1 .. Len(tickets) : tickets[i] \in Producers =>
          /\ ppc[tickets[i]] = "fill"
          /\ \A j \in 1 .. Len(tickets) : tickets[j] = tickets[i] => j = i

(* What was accepted is what was delivered, what the consumer is about to   *)
(* write, and what is queued, in that order.                               *)
Taken == Len(delivered) + (IF lpc = "write" THEN 1 ELSE 0)
Message(ticket) == IF ticket \in Producers THEN Entry(ticket) ELSE ticket

InOrder ==
    /\ Len(accepted) = Taken + Len(tickets)
    /\ \A i \in 1 .. Len(delivered) : delivered[i] = accepted[i]
    /\ lpc = "write" => held[Logger] = accepted[Taken]
    /\ \A i \in 1 .. Len(tickets) : Message(tickets[i]) = accepted[Taken + i]

IInv ==
    /\ TypeOK /\ WaitersCounted
    /\ NotBegun /\ StageFits /\ StopsInOrder
    /\ ConsumerPlace /\ ProducersPlace /\ InOrder

(* Every notify is of a log call or the one of the stop, so the epoch does  *)
(* not come round as long as there are fewer of these than epochs.         *)
Notifying == {p \in Producers : ppc[p] \in {"reserve", "fill", "notify"}}
Woken == stage \in {"stopping", "freed"} /\ ~running[Logger] /\ ppc[Main] # "wakeup"

EpochsLogged ==
    /\ Epoch + Cardinality(Notifying) <= logged + (IF Woken THEN 1 ELSE 0)
    /\ key[Logger] <= Epoch

(* A consumer about to wait with the current key saw nothing to take and no *)
(* stop request, or whoever changed that is about to notify it; one that    *)
(* sleeps with an old key is about to be woken.                            *)
Waits == lpc = "wait" \/ (lpc = "loop" /\ at[Logger] \in {"check", "futex", "asleep"})

SawNoEntry ==
    lpc = "recheck" \/ Waits =>
        (key[Logger] = Epoch /\ Queue!Ready => \E p \in Producers : ppc[p] = "notify")
SawNoStop ==
    Waits /\ key[Logger] = Epoch /\ ~running[Logger] => ppc[Main] = "wakeup"
OldKeyWoken ==
    at[Logger] = "asleep" /\ key[Logger] # Epoch =>
        \E p \in Producers : at[p] \in {"wake1", "wakeAll"}

SleeperServed == SawNoEntry /\ SawNoStop /\ OldKeyWoken

=============================================================================
