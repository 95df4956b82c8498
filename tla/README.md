# A formal model of netto

netto is a small Linux daemon in C: a start/debug/stop command with a PID file, a
double-buffered configuration, a table of threads, and a logger whose producers
hand their messages to one consumer thread through a lock-free ring. This
directory holds TLA+ modules translated from its source, the TLC configurations
that check them, and TLAPS proofs about every part that is modelled. Paths below are relative to
`src/`; `mpmc_queue.c:64` is line 64 of `common/src/utils/mpmc_queue.c`, and so
on for `event_count.c`, `config.c`, `logger.c`, `thread_mgr.c`, `process.c`, `netto.c`.

## Inventory

| Component | State | Operations | What makes it correct |
|---|---|---|---|
| MPMC queue (`mpmc_queue.c`) | `enqueue_pos`, `dequeue_pos`, per slot a sequence number and a payload | enqueue, dequeue, reserve and commit on both sides | one thread per slot; first-in first-out in order of reservation; a refusal is true when it is given; calls return |
| Event count (`event_count.c`) | one 64-bit word: epoch and waiter count; the futex queue | notify, notify_all, prepare, cancel, wait | no lost wakeup; exact waiter count |
| Configuration (`config.c`) | two buffers, `active_idx`, two reference counts, writer mutex, event count | init, acquire, release, update | a held buffer does not change; what is loaded is what the file says; update waits for the readers of the replaced buffer and returns |
| Logger, message path (`logger.c:212-287,508-520`) | queue, event count, `running` of the consumer thread | log call, consumer loop, wakeup, drain | every accepted message is written once, in order, at the latest before the consumer ends |
| Logger, files (`logger.c:116-210,297-500,527-562`) | open file, tracked size, sorted list of backups; the disk | init, destroy, write, rotate, list, cleanup | the tracked size and the list agree with the disk; the file stays within its maximum; only the oldest backups are deleted |
| Thread manager (`thread_mgr.c`) | per entry `running` and a thread | start one/all with rollback, stop one/all | nothing outlives what it uses; stops return |
| Command and life cycle (`netto.c`, with `process.c`) | PID file, signal handlers, `g_runconf.running` | start, debug, stop, is_running, daemonize, initialize, main loop, finalize | one daemon; a stop ends the one it finds; a failed start leaves nothing half alive |
| Utilities (`file.c`, `nt_string.c`, `nt_time.c`), BPF stub, build files | none | pure functions, I/O | not modelled |

Interaction. `main` updates and acquires the configuration once, initialises the
logger with it, starts the thread table (one entry today, the log consumer),
logs, and sleeps until the signal handler clears `running`. Any thread may log:
it reserves a slot of the ring, fills it in place, commits it and notifies the
event count. The consumer takes entries, writes them to the log file, rotates
it, and sleeps on the event count. `config_update` sleeps on an event count of
its own until the last reader of the replaced buffer notifies it. The commands
meet the daemon in the PID file and in SIGTERM only; a debug command is an
instance that stays in the foreground and can be interrupted as well.

What is hard: the interleavings of the lock-free parts (a value read before a
compare-and-swap, a look at a condition before a sleep); the order of stops; one
failed call in a rotation or in a start; a kill at any point of a rotation; a full
disk that shows only later; two commands at once, and a start command that returns
long before its daemon is up. `PROJECT.json` lists each hazard at its line, with the
properties that would catch it, or why none does.

## Modules

| Module | Models | Composed from |
|---|---|---|
| `TicketQueue` | abstract promise of the ring: a bounded queue of reserved positions, filled in later | |
| `MpmcQueue` | `mpmc_queue.c`, one action per atomic operation | implements `TicketQueue` |
| `MCMpmcQueue` | symmetry for TLC | `MpmcQueue` |
| `MpmcQueueProofs` | proofs about `MpmcQueue` | `MpmcQueue`, TLAPS |
| `EventCount` | `event_count.c`, one action per atomic operation or system call | |
| `EventCountUsers` | the way this code uses an event count, with any number of posters and takers | `EventCount` |
| `EventCountProofs` | lemmas about the word of the event count, for every user of it | `EventCount`, TLAPS |
| `EventCountUsersProofs` | proofs about `EventCountUsers` | `EventCountUsers`, `EventCountProofs` |
| `LogPipeline` | `enqueue_daemon_log`, `daemon_log_consumer_thread`, and the thread table of `thread_mgr.c` from its start to the freeing of the queue | `TicketQueue`, `EventCount` |
| `LogPipelineProofs` | proofs about `LogPipeline` | `LogPipeline`, `EventCountProofs` |
| `ConfigRegister` | abstract promise of the configuration: a register with stable reads | |
| `ConfFile` | the lines of a configuration file, `netto_config_parser`, and what a file says | |
| `ConfigDbuf` | `config.c` | `EventCount`, `ConfFile`; implements `ConfigRegister` |
| `MCConfigDbuf` | configuration files for TLC | `ConfigDbuf` |
| `ConfFileProofs` | lemmas about reading a file line by line | `ConfFile`, TLAPS |
| `ConfigDbufProofs` | proofs about `ConfigDbuf` | `ConfigDbuf`, `ConfFileProofs`, `EventCountProofs` |
| `LogRotate` | the log file and its backups in `logger.c`, with the disk | |
| `LogRotateProofs` | proofs about `LogRotate` | `LogRotate`, TLAPS |
| `Netto` | `netto.c`, `daemonize` and `get_procname_comm`, `start/stop_thread_mgr_all` | |
| `NettoProofs` | proofs about `Netto` | `Netto`, TLAPS |

How state and actions correspond to the code:

* **MpmcQueue.** `enqueue_pos`, `dequeue_pos`, `seq[i]`, `data[i]` are the
  shared words; `pos[t]` is the local `pos` (later `res->pos`). A call goes
  `idle` → `seq` (position loaded) → `cas` (slot free or committed) → `write` or
  `read` → `commit` → `idle`; `reload` is the second load of the retry branch, and
  `CasFails` covers both a real and a spurious failure of the weak
  compare-exchange. `enqueue_mpmc` and reserve, write in place, commit are the same
  steps. `k & slot_mask` is `k % Cap`, as the capacity is a power of two; nothing
  in the model needs that it is one.
* **TicketQueue.** A position is a *ticket*: the producer that reserved it or,
  once committed, the entry. Only the head may be claimed, and only when
  committed. The refinement maps `tickets` to the positions between the counters,
  `held` to claimed slots and `out` to what consumers copied.
* **EventCount.** `val = epoch * WaiterMod + waiters` with wrapping addition,
  as in `event_count.c:61-64`. `EcNotify` is the fetch_add; `FutexWake` the
  system call that follows when the previous value had a waiter; `CheckEpoch` and
  `FutexWait` are the loop of `ec_wait`, the latter with the kernel's
  compare-and-sleep; `Interrupted` is a spurious return.
* **LogPipeline.** `lpc` walks the loop of `logger.c:217-241`; `phase` says which
  of its three `consume_one_daemon_log_entry` calls is running. `accepted` and
  `delivered` are histories, `logged` counts the log calls of all threads for their
  bound. A message is a log call: who makes it, and which of its calls it is. `Table` is the thread table: the consumer first, as in
  `netto.c:62`, then `Workers`, further threads that log, for which `thread_mgr.c`
  is written although the table has none today. `stage` and `toStop` say where
  `start_thread_mgr_all`, its rollback or `stop_thread_mgr_all` stands; the two
  ways down differ in the order of `toStop` only, and both end in
  `destroy_daemon_logger`.
* **ConfigDbuf.** Readers walk `config.c:87-104`; writers `config.c:127-158`, with
  `load_config` line by line into the inactive buffer: a line is a header, a pair
  or something to ignore (`ConfFile`), `curr_section` is the section read so far,
  `netto_config_parser` sets the keys it knows under `[log]`, and a rejected line
  ends the update with the fields before it set. A reader that takes itself out of
  the count and its notify are two steps (`config.c:100-103,115-118`), between which
  a writer may find the count at zero and be gone, or be about to sleep. `base` is a history: what the
  inactive buffer held before the load.
* **ConfigRegister.** `current` is the active buffer, `held` what each reader
  holds, `replaced` the readers of the buffer before. The refinement maps the
  swap to `Replace`, the second look of a reader to `Acquire`, its decrement to
  `Release`, and everything else to a stutter.
* **LogRotate.** One action per change of the disk. A backup is named by the
  second it was made in; `backups` maps names to the generation of the file.
  `max_log_size` and `max_backup` are chosen at each start, as the configuration
  file may have changed, and normalised as in `logger.c:143-144`. The size of
  `logfile` counts what stdio has buffered; `flushed` is the part that has been
  written out, and a crash, a close or a write on a full disk may leave any size
  from there on. `lost` are the bytes that were counted and never written.
  `stuck` says that a rename has failed. `forgotten` holds the backups a failed append
  or unlink left out of the list; the next scan finds them again.
* **Netto.** One process per start command, which becomes the daemon, per debug
  command and per stop command. A start command has returned to its caller once
  the first `fork` of `daemonize` is done; `NextStart` says how far the instances
  before must be when the next one is begun. Threads are a table of `NumThreads`
  entries.

## Runs

| Run | Instance | Shows |
|---|---|---|
| `mpmc_safety` | 2 producers, 2 consumers, 2 slots, 2 payloads, 4 positions and more under way | `SlotExclusive`, `SlotPhases`, `IInv`, `EntriesKept`, `FullOrOvertakenWhenRefused`, `EmptyWhenRefused`, `ImplementsTicketQueue` |
| `mpmc_live` | the same threads, 3 positions, 1 payload, fairness | `CallsReturn`, `EveryPositionConsumed` |
| `mpmc_cap1` | 1 slot | violates `NeverOverfull` |
| `event_count` | 2 posters, 2 takers, 3 items | `WaitersCounted`, `NoLostWakeup`, `IInv`, `AllTaken` |
| `log_pipeline` | main, a table of the consumer and two workers; 2 slots, 3 log calls in all | `IInv`, `DeliveredInOrder`, `DrainedOnExit`, `NoForgottenSleeper`, `NobodyInsideWhenFreed`, `EveryEntryDelivered`, `StopReturns` |
| `config` | 2 readers, 2 writers, one call each; 3 files of up to 5 lines | `CountsExact`, `HoldersCurrent`, `NoForgottenWriter`, `LoadFollowsFile`, `HeldConfigStable`, `IInv`, `ImplementsRegister`, `UpdateReturns`, `AcquireReturns` |
| `log_rotate` | size limits of 2 or 3 short lines and 1 or 2 backups, chosen anew at each start; 6 seconds | `IInv`, `SizeTracked`, `LogBounded`, `ListIsDisk`, `BackupsBounded`, `NewestKept` |
| `log_no_backup` | `max_backup` 0 | violates `BackupsBounded` |
| `log_same_second` | rotations may share a second | violates `NewestKept` |
| `netto` | 2 starts and a debug command, each given once those before have written their PID; 1 stop; a table of 2 threads | `LoggerOutlivesThreads`, `OneDaemon`, `IInv`, `TermEnds`, `StopEnds` |
| `netto_overlap` | 2 starts, the second given once the first has returned; 1 stop | violates `IsRunningSound` |
| `netto_init` | 1 start, 1 thread | violates `InitializeSucceeded` |

A type invariant is an invariant of each run of its module, by itself or as the
first part of `IInv`. Every property of a passing run has a mutant in `PROJECT.json`: a mapped
definition changed the way a bug in that code would, under which TLC finds the
property violated. The mutated forms stand before the definitions they replace
and are marked as mutants.

Why the bounds are enough:

* *Ring.* With two slots, positions up to 4 make every slot go through two full
  laps and start a third, so a thread can hold a position a lap or more old;
  two threads on each side give every race the code has a branch for.
  `MaxPos` only limits when an enqueue call may start. The proofs remove the bounds.
* *Event count.* Two waiters let one wake hit the wrong thread; a notify may run
  concurrently with another. `EpochMod` is larger than the number of notifies,
  which stands for "fewer than 2^32 notifies during one wait"; with as many
  notifies as epochs the wakeup can be lost, in the code as in the model.
* *Pipeline.* Three messages through two slots give full and empty queues, commits
  out of order, and a stop at any point. With three entries in the table the start
  can fail before the consumer, after it, and after a thread that logs, which then
  logs on while and after the rollback stops the consumer.
* *Configuration.* Two updates bring the active index back to its first value
  between a reader's two looks (ABA). Two readers let one leave while the other
  still counts. The three files have a pair before any header, a repeated key, another
  section, a key that is not known, an ignored line and a nameless header between
  them; the proofs hold for every file. More calls repeat these situations from the same states. All
  calls are bounded, so the system ends: the run switches the deadlock check off.
* *Rotation.* Limits of 2 or 3 short lines with lines of 1 or 2 give files that are
  full exactly or not, and restarts to a smaller and to a larger maximum. Two backups
  and six seconds give more rotations than backups, with
  crashes, restarts and every failing call at every step. `MaxFile` stops a
  tracked size that grows because its rotation keeps failing.
* *Netto.* Three instances let a stale PID file be read while another daemon runs; a
  table of two threads lets the second fail after the first was started. Every
  command is given at most once, so the system ends: deadlock check off.

**Symmetry** is used in `mpmc_safety` only, which has no liveness property.

**Fairness.** Every thread or process that is inside a call runs on (weak fairness
of its own steps: an operating system schedules runnable threads). No log call,
item, update, signal, crash, stop command or tick is ever obliged to happen. Two
assumptions are stronger. `MpmcQueue` has strong fairness on a
compare-and-swap that succeeds: without it a weak compare-exchange may fail for
ever, or one thread lose every race, which lock-freedom allows. `ConfigDbuf`
lets a reader that acquired a configuration release it (weak fairness of
`Release`), which `config_update` relies on; the only reader in the code does
(`netto.c:398-407`). In `LogPipeline` a worker returns once its `running` is
cleared, which is what `thread_mgr.c` expects of a thread function (it joins them). In
`LogPipeline` and `Netto` a thread that holds the thing another
waits for is never blocked itself, so weak fairness suffices there.

**Memory model.** Actions interleave single atomic operations, as if they were
sequentially consistent. The code uses weaker orders; the argument that this adds
no behaviour that matters here: (a) a slot's payload is published by the release
store of its sequence number and read after an acquire load of it; (b) relaxed
loads of the position counters and of `active_idx` may return old values, which
equals the same load done earlier, a step the interleaving also has, and each is
checked again (by the compare-and-swap or the second look); (c) a producer's
change before a notify and a waiter's look after `ec_prepare_wait` are ordered by
two read-modify-writes of the same word: whichever comes second acquires what the
first released, so either the waiter sees the change or the notifier sees the
waiter; (d) `refcnt` and `active_idx` in `config.c:92-95,144-150` are sequentially
consistent where a store and a load cross. This is an argument, not a check.

## Proofs

### The ring

`MpmcQueueProofs` proves, for any number of producers and consumers, any payloads
and any capacity:

| Theorem | Property |
|---|---|
| `TypeCorrect` | `TypeOK` |
| `Invariance` | `IInv`, the inductive invariant |
| `SlotsExclusive` | `SlotExclusive` |
| `PhasesHold` | `SlotPhases` |
| `NoOverfill` | `NeverOverfull` |
| `RefusedWhenFullOrOvertaken` | `FullOrOvertakenWhenRefused` |
| `RefusedOnlyWhenFull` | `FullWhenRefused`, for one consumer |
| `RefusedOnlyWhenEmpty` | `EmptyWhenRefused` |
| `EntriesFilled` | `EntriesKept` |
| `QueueImplemented` | `ImplementsTicketQueue`, the refinement of `TicketQueue` |

Assumptions: `CapAssumption` (a positive capacity), `MaxPosAssumption`,
`RolesAssumption` (producers and consumers are different threads, payloads are not
threads). All but `TypeCorrect` also assume `Cap # 1`: with one slot they are
false, which `mpmc_cap1` shows.

`SlotExclusive` is not inductive: it says nothing of what a thread that is still
looking believes. `IInv` adds, for the threads that own a slot, the window their
position is in and the sequence number the slot shows (`ProducersHold`,
`ConsumersHold`, `DistinctPositions`); for the slots, that every position of the
current lap is free, reserved, committed or claimed (`Window`, `QueuedSlots`,
`FreeSlots`); and for the threads that look, that a stale position is behind the
counter and its slot has moved on, while a slot seen free or committed stays so
as long as the counter equals the position (`ProducerViews`, `ConsumerViews`).
The last part is why the compare-and-swap on the counter alone is enough,
although the sequence number was read before it. The proof first shows that two
positions less than `Cap` apart have different slots (`SlotInjective`) and that a
position and the one a lap later share one (`SlotNextLap`), both from the
division with remainder, and then handles the actions one by one: those that
move no counter and no sequence number share one lemma for each side, and the four
that do (`EnqueueCasWins`, `EnqueueCommit`, `DequeueCasWins`, `DequeueCommit`)
have one each. `IInv` is also an invariant of `mpmc_safety`.

`QueueImplemented` is the refinement, one step at a time. The position a ticket
stands for is read by `TicketAt`: the producer that reserved it, or the data of its
slot. The first lemmas say that this reading is right, whoever holds the slot
(`ReservedTickets`); it rests on `EntriesKept`, which says that a slot that shows an
entry holds one, and is proved of `IInv` in a step of its own. Winning the
enqueue is `Reserve`, committing is `Commit`, winning the dequeue is `Claim`, the
copy is `Read`, the second commit `GiveBack`, and the loads and failures are
stutters. The abstract queue bounds what is queued together with what is still
held, which the code never counts: that a producer only wins when there is room
follows from the positions of the consumers inside, which lie less than a lap
behind and are all different (`HoldersFit`).

A refused producer has read the slot of `enqueue_pos` and no other (`RefusedSlot`):
its entry of the lap before is queued, or with a consumer. The ring is then full
(`NoneFree`), unless another consumer claimed a later position: that one may have
given its slot back. With one consumer the position it holds is always the last
one claimed (`ClaimedLast`, kept by every step), so a refusal means a full ring.
`FullWhenRefused` is what `mpmc_queue.c:198` says; it is proved for one consumer
and is false for two.
A refused dequeue likewise says nothing of what is committed behind an
uncommitted head: "empty" (`mpmc_queue.c:245`, `logger.c:506`) means that the entry
whose turn it is is not there yet. Its producer's own notify follows.

### The event count

`EventCountUsersProofs` proves, for any number of posters and takers and any width
of the two halves of the word:

| Theorem | Property |
|---|---|
| `TypeCorrect` | `TypeOK` |
| `Counted` | `WaitersCounted` |
| `Invariance` | `IInv`, the inductive invariant |
| `WakeupsKept` | `NoLostWakeup` |

`EcAssumption` says that there are fewer threads than the waiter count has values;
`UsersAssumption` that posters and takers are different threads. The last two
theorems also assume that there is a taker, and that fewer items are posted than
there are epochs (`MaxPosts < EpochMod`): with as many notifies between a taker's
`ec_prepare_wait` and its sleep, its key would be current again.

The arithmetic is in `EventCountProofs`. Quotient and remainder are determined by
their equation (`DivisionUnique`); from this, adding or taking back a waiter or an
epoch changes one half of the word and leaves the other as it is (`CountUp`,
`CountDown`, `CountSame`, `EpochKeptIn`, `EpochKeptOut`, `EpochUp`), although the
code does it with one wrapping addition. `EcTypeStep`, `WaitersStep` and
`EpochStep` lift this to every operation, for every module that uses the event
count.

`NoLostWakeup` is about the moment when everyone sleeps; what makes it true
happened before. `IInv` adds: every item posted has advanced the epoch or its
poster is about to (`EpochsPosted`, which bounds the epoch); no key is ahead of the
epoch (`KeysPast`), so an advance makes every key old; a taker that waits with the
current key saw no item, or a poster is about to notify (`FreshWaitersSawNone`);
and when all takers sleep, a wake is on its way or one of them has slept since the
last advance (`SomeoneFresh`). Sleepers with old keys do exist, since a notify
wakes one thread only; the last part is why that is enough.

### The configuration

`ConfigDbufProofs` proves, for any number of readers and writers, any fields and
values, and any number of calls:

| Theorem | Property |
|---|---|
| `TypeCorrect` | `TypeOK` |
| `BuffersKept` | `BufferInv`, the part of `IInv` about the buffers |
| `Invariance` | `IInv`, the inductive invariant |
| `Counted` | `CountsExact` |
| `ReplacedNotHeld` | `HoldersCurrent` |
| `HeldStable` | `HeldConfigStable` |
| `LoadedAsWritten` | `LoadFollowsFile` |
| `RegisterImplemented` | `ImplementsRegister`, the refinement of `ConfigRegister` |
| `WriterRemembered` | `NoForgottenWriter`, under `[][KeyStaysOld]_vars` |

The assumptions are `ConfigAssumption` and `EcAssumption`. `BufferInv` adds to the types
and the exact counts that one writer at a time is inside an update and owns the
mutex (`LockOwner`), that its `old_idx` is what it says (`OldIdxKnown`), and the
heart of the argument: a reader that has looked a second time holds the active
buffer, or the one a writer is still draining (`HeldIsActive`). A writer stops
draining only when it sees the count of the old buffer at zero, and a count of zero
means that nobody holds it (`ZeroMeansNobody`, from `CountsExact`). So the next
update, which writes into that buffer, changes nothing a reader holds.

`LoadedAsWritten` is about files of any length. `Says` is the meaning of a file
without a parser: the last line under the header of `[log]` that sets a key. The
lemmas of `ConfFileProofs` compare it with one step of the loop: `SectionStep` (the
section read so far stays the one the lines end in), `SaysStep` (one more line
either is the last to set a key, or changes nothing of what is said of it) and
`FollowsStep`, which joins them. `LoadInv` carries this through the load; other
writers do not disturb it because the mutex keeps them out (`LockOwner`), and
readers because they write to no buffer.

`RegisterImplemented` maps each action to one of `ConfigRegister` or to a stutter.
The hard case is `Swap`, which must find nobody holding the buffer it is about to
make active (`HeldIsActive`); the parse steps are stutters because nobody holds the
buffer they write.

`WriterRemembered` needs the rest of `IInv`, the exact count of the waiters
(`WaitersCounted`) and where a thread stands in the event count (`ReadersPlace`,
`WritersPlace`): only readers notify, and only the owner of the mutex waits, so a
notify meets one sleeper at most and wakes the right one. Two more invariants carry
the argument, one for each side of the race between the last reader and the writer's
sleep. A writer that waits with the current key either sees readers, or the last
of them has taken itself out and has yet to notify (`SawReaders`): it looked at the
count after it took its key, and whoever brings the count to zero notifies. A
writer asleep with an old key is about to be woken (`OldKeyWoken`): the notify
that made its key old found it counted as a waiter. The hypothesis `KeyStaysOld`
says that an old key does not become current again while its writer waits. That
takes as many notifies as there are epochs, 2^32 in the code, and the writer stuck
before its futex call all along; without it the statement is false, in the code
as in the model. Every behaviour of the run `config` satisfies it: each reader
notifies three times at most there, after its release and after one retry per
swap, and there are 16 epochs.

### The log pipeline

`LogPipelineProofs` proves, for any number of threads that log, any capacity of the
queue and any number of log calls:

| Theorem | Property |
|---|---|
| `Invariance` | `IInv`, the inductive invariant |
| `OrderKept` | `DeliveredInOrder` |
| `EverythingDrained` | `DrainedOnExit` |
| `FreedAlone` | `NobodyInsideWhenFreed` |
| `SleeperWoken` | `NoForgottenSleeper` |

The queue is the abstract one, in whose place the ring may stand by `QueueImplemented`
(`logger.c` uses one of far more than one slot). The assumptions are `PipelineAssumption` and
`EcAssumption`.

`IInv` describes three things that none of the properties says.
*The table*: a thread that was not started has done nothing (`NotBegun`), main's
place fits the stage of the table (`StageFits`), and what is still to be stopped runs
while what was started and is no longer on that list has ended, with the
consumer at its end when the whole table was started (`StopsInOrder`). *The
threads*: where one stands in its own code determines where it stands in the event
count and what it holds of the queue (`ConsumerPlace`, `ProducersPlace`). *The
messages*: what was accepted is what was delivered, the one the consumer is about
to write and what is queued, in that order (`InOrder`), from which `OrderKept` is
immediate.

`EverythingDrained` is proved of one step on top of `IInv`. The consumer ends when
its drain finds nothing; the case to exclude is a slot that is reserved and not
yet filled. By `StopsInOrder` the consumer is told to stop when it is the only one
left on the list, so every worker has returned and main is in the stop itself:
nobody is in a log call (`NobodyLogs`), hence no ticket is a producer
(`ProducersPlace`), and a queue whose head cannot be claimed is empty. After that
nobody logs any more. This is where the rollback of a failed start differs, and
where the proof needs `AllStarted`.

`SleeperWoken` follows the epoch. A consumer that waits with the current key saw
neither an entry nor the request to stop, or whoever changed that has yet to notify
(`SawNoEntry`, `SawNoStop`); one that sleeps with an old key is about to be woken
(`OldKeyWoken`). The second needs only one wake to be enough, since there is one
consumer. The hypothesis `MaxLogs + 1 < EpochMod` says that the epoch does not
come round: every notify is that of a log call or of the stop (`EpochsLogged`). The
code has 2^32 epochs; a daemon that logs more than that is safe as well, unless all
of them fall between two steps of the consumer, which the model does not count
separately.

### The life cycle

`NettoProofs` proves, for any number of commands of each kind and threads in the
table, with a crash of any instance at any point:

| Theorem | Property |
|---|---|
| `TypeCorrect` | `TypeOK` |
| `Invariance` | `IInv`, the inductive invariant |
| `LoggerOutlives` | `LoggerOutlivesThreads` |
| `RequestsKept` | `RequestKept` |
| `OneDaemonServes` | `OneDaemon` |

The assumption is `NettoAssumption`. `IInv` adds to the types that who reads the PID
file finds one (`PidRead`: it is never removed), that handlers are there from their
installation to the end (`HandlersKept`), and where threads may be alive
(`ThreadsJoined`: those that `finalize` has passed are joined). `RequestKept` is the
safety half of `TermEnds`: a signal that did not end an instance has cleared its
`running`, and nothing sets it again.

`OneDaemonServes` is about `NextStart = "written"` only: a command is given when
those before it have written their PID or have ended. `OneAtATime` is inductive on
top of `IInv` then: at most one instance is between its first look at the PID file
and its write; once one serves, the file names it, and nobody else gets past
`is_running`. With `"returned"`, what a user can see, it is false, as `netto_overlap`
shows: the start command returns at the first `fork`, long before the write.

### The log file

`LogRotateProofs` proves, for any limits a configuration may ask for and any sizes
of lines:

| Theorem | Property | Under |
|---|---|---|
| `SizesKnown` | `SizeInv`, the inductive invariant of the size | |
| `Tracked` | `SizeTracked` | |
| `Bounded` | `LogBounded` | |
| `Invariance` | `IInv`, the inductive invariant with the backups | |
| `TypeCorrect` | `TypeOK` | |
| `ListKept` | `ListIsDisk` | `SameSecond = FALSE` |
| `BackupsFew` | `BackupsBounded` | every `b` in `ConfBackups` is at least 1 |
| `NewestStay` | `NewestKept` | `SameSecond = FALSE` |

The two hypotheses are where the code needs them: `log_same_second` and
`log_no_backup` show what it does without. A theorem with an empty third column holds
whether or not two rotations fall in one second and for any number of backups.

The assumption is `RotateAssumption`: every line fits into an empty log file
(`logger.c:539` formats it in 2 KiB, the smallest maximum is 1 MiB). Without it
the line after a rotation could exceed the maximum by itself.

*The size.* Both properties speak of the moments between two lines; `SizeInv` says what holds
on the way. The size is known from `LimitsAndSize` or, when the start begins with a
rotation, from `Rename` on (`SizeKnown`); a line that has been measured keeps its
room until it is appended, since rotating, failing to list a backup and opening
the file add nothing to it (`RoomForLine`). A full disk cannot break the bound
either: `AppendFallsShort` counts what stdio took, which is at least what the file
got.

*The backups.* Names and files are tied by `NamesInOrder`: a later name is a later
file. That needs `FileBegun`, since a rename gives the backup the generation of the
log file: only a file that was begun is ever renamed, as its size reached a
maximum of at least one line, and a size without a file is 0. The list is tied to the
disk by `ListComplete`, in both directions of time: from the scan on, every backup
is listed unless a failed call left it out (`forgotten`) or the rename has only just
made it; and the list is short enough whenever no cleanup is under way, a `max_backup`
of the next start being enforced by that start's own cleanup. From this
`BackupsFew` follows by counting; two rotations in one second put a name into the
list twice, which makes it longer than the set of backups, never shorter.

`ListExact`, that nothing else is listed and the list ascends, is what two
rotations in one second break, hence the disjunct `SameSecond \/ ListExact` of
`IInv`. The head of an ascending list that is on disk is the oldest backup, and the rest
of it, `max_backup` or more names when the head is taken, are newer files by
`NamesInOrder`: that is `NewestStay`. The sort by which a scan begins the list is
proved correct for any finite set of names (`ByNameSorted`).

### Only model-checked

Every liveness property: they are out of the prover's reach.

Of `DrainedOnExit` and `EveryEntryDelivered`, the case of a failed start is left
out on purpose: the rollback (`thread_mgr.c:95`) stops the consumer first, so what
the other threads of the table log until they are stopped in turn is accepted and
never written. Today's table has no other thread. What does hold in the rollback is
checked: it comes to its end, full queue or not, and nobody is left inside.

## What the code does otherwise than it says

* **A ring of one slot overfills** (`mpmc_cap1`). `mpmc_queue.c:64` accepts
  `cap = 1`; the sequence number of a committed entry is then the one that marks the
  slot free for the next position, and a second enqueue overwrites the first.
  `mpmc_queue.h:131`: a full queue returns false at once.
* **A ring that has room may refuse an entry**, when several threads consume.
  Two slots, both filled: one consumer claims position 0 and is slow, another
  claims position 1 and gives it back; an enqueue is now refused (`mpmc_queue.c:221`)
  with slot 1 free, until the first consumer commits. `mpmc_queue.c:198` says of
  `false` that the queue is full, and `mpmc_queue.h:266-267` that a slot that is never
  committed costs the queue that one slot: free slots dwindle gradually. In fact one
  such slot stops the queue within a lap. This is the second disjunct
  (`Overtaken`) of `FullOrOvertakenWhenRefused`; without it `mpmc_safety` fails. The
  daemon's queue has one consumer and always uses up its slots before it refuses
  (`RefusedOnlyWhenFull`).
* **`max_backup = 0` keeps every backup** (`log_no_backup`). `logger.c:485`
  renames in any case, nothing deletes. `logger.c:82`, `logger.h:62`: no backup
  when 0.
* **Two rotations in a second** (`log_same_second`): the second replaces the first
  backup and is listed twice; the cleanup may then delete the newest backup instead of the
  oldest (`logger.c:388`).
* **`is_running` can miss a running daemon** (`netto_overlap`): a second start, given
  after the first command has returned (`process.c:143`), rewrites the PID file of the
  daemon that came up in the meantime. `netto.c:207`.
* **`initialize` returns 0 on failure** (`netto_init`) of the thread table, against
  `netto.c:367`: the daemon stays, without threads and logger.

## Not modelled, and why

* Wrap-around of `size_t` positions and of the epoch within one wait: far beyond
  what runs reach.
* What a log line looks like, and in a configuration file spaces (`trim`), the
  digits of a number and the 8 KiB limit of a line: a line of a file is what
  `load_config` makes of it. The time functions likewise.
* `mkdir_p`: it has no state of its own, and its failure ends `init_daemon_logger`
  before anything is changed.
* Write errors of the PID file are assumed away.
* A clock that goes back, and daylight saving time: names would sort in another
  order than they were made.
* PIDs given out twice, and processes of the same name that are not the daemon.
* The options `-h` and `-v`, and the functions of `process.c` nobody calls
  (`is_process_running`, `get_procname_cmdline`, `redirect_devnull`).
* A thread that updates the configuration while it holds one: it would wait for
  itself; the code leaves this to its callers, and the model to the assumption that
  readers and writers are different threads.
* The contents of the BPF stub; it passes every packet and nothing loads it.
* Freed memory: `NobodyInsideWhenFreed` and `LoggerOutlivesThreads` state the order
  that makes the use of the queue after its destruction impossible.

## Plan

Done, in this order: the ring with its abstract queue and its proofs; the event
count; the log pipeline on top of both; the configuration; rotation; the life
cycle; the proofs about the event count and the configuration; configuration files
with the proof that they are loaded as written; the register the configuration
implements, with its proof; the whole life of the thread table in the pipeline;
limits that change between starts and a full disk in the rotation, with proofs about
the size of the log file; the debug command and `daemonize`; the proof that the ring
implements the abstract queue; the proofs about the pipeline, the life cycle and the
backups. Left:

1. Positions of the ring that wrap, with the signed difference of
   `mpmc_queue.c:209`.
