----------------------------- MODULE ConfigDbuf ------------------------------
(***************************************************************************)
(* The double-buffered configuration of common/src/config.c.  Readers take *)
(* the active buffer with config_acquire, without a lock, and count        *)
(* themselves in refcnt while they hold it.  config_update fills the other *)
(* buffer, makes it active, and waits on the event count until nobody      *)
(* holds the one it replaced.                                              *)
(*                                                                         *)
(* A thread that holds a configuration does not call config_update: the    *)
(* update would wait for its own reference.  The code leaves this to its   *)
(* callers; here readers and writers are different threads.                *)
(***************************************************************************)
EXTENDS EventCount, ConfFile

CONSTANTS
    Readers, Writers,
    Files,      \* what the configuration file may hold when it is opened
    Default,    \* the zeroed value of a field
    None,       \* the mutex is free
    MaxReads,   \* bound: config_acquire calls per reader
    MaxUpdates  \* bound: config_update calls per writer

ASSUME ConfigAssumption ==
    /\ Readers \cap Writers = {}
    /\ EcThreads = Readers \cup Writers
    /\ Default \in Values
    /\ None \notin Writers
    /\ Files \subseteq Seq(Lines)
    /\ MaxReads \in Nat /\ MaxUpdates \in Nat

VARIABLES
    active_idx,
    refcnt,
    conf,         \* the two buffers
    writer_lock,
    rpc, ridx,    \* a reader's position; its idx, 0 when it has none
    reads,        \* config_acquire calls made
    wpc,          \* a writer's position
    file, line_no, curr_section, \* the file it loads, the lines read, and
                  \* the section they ended in
    old_idx,      \* old_idx of the last config_update of each writer
    updates,      \* config_update calls made
    base          \* history: what the buffer held before the load

readerVars == <<rpc, ridx, reads>>
loadVars == <<file, line_no, curr_section, base>>
writerVars == <<wpc, old_idx, updates, loadVars>>
sharedVars == <<active_idx, refcnt, conf, writer_lock>>
vars == <<sharedVars, readerVars, writerVars, ecVars>>

Idx == {0, 1}
Zeroed == [k \in Keys |-> Default]

\* Mutant: the active buffer is filled, not the other one.
OtherSame(i) == i

(* old_idx ^ 1 *)
Other(i) == 1 - i

Init ==
    /\ EcInit
    /\ active_idx = 0
    /\ refcnt = [i \in Idx |-> 0]
    /\ conf = [i \in Idx |-> Zeroed]
    /\ writer_lock = None
    /\ rpc = [r \in Readers |-> "idle"]
    /\ ridx = [r \in Readers |-> 0]
    /\ reads = [r \in Readers |-> 0]
    /\ wpc = [w \in Writers |-> "idle"]
    /\ file = [w \in Writers |-> <<>>]
    /\ line_no = [w \in Writers |-> 0]
    /\ curr_section = [w \in Writers |-> NoSection]
    /\ base = [w \in Writers |-> Zeroed]
    /\ old_idx = [w \in Writers |-> 0]
    /\ updates = [w \in Writers |-> 0]

RGoto(r, label) == rpc' = [rpc EXCEPT ![r] = label]
WGoto(w, label) == wpc' = [wpc EXCEPT ![w] = label]

-----------------------------------------------------------------------------
(* config_acquire. *)

AcquireCall(r) ==
    /\ rpc[r] = "idle" /\ at[r] = "out"
    /\ reads[r] < MaxReads
    /\ reads' = [reads EXCEPT ![r] = @ + 1]
    /\ RGoto(r, "load")
    /\ UNCHANGED <<sharedVars, ridx, writerVars, ecVars>>

LoadIdx(r) ==
    /\ rpc[r] = "load" /\ at[r] = "out"
    /\ ridx' = [ridx EXCEPT ![r] = active_idx]
    /\ RGoto(r, "count")
    /\ UNCHANGED <<sharedVars, reads, writerVars, ecVars>>

CountIn(r) ==
    /\ rpc[r] = "count"
    /\ refcnt' = [refcnt EXCEPT ![ridx[r]] = @ + 1]
    /\ RGoto(r, "check")
    /\ UNCHANGED <<active_idx, conf, writer_lock, ridx, reads, writerVars, ecVars>>

\* Mutant: the index is not checked again after counting.
CheckIdxNever(r) ==
    /\ rpc[r] = "check"
    /\ RGoto(r, "hold")
    /\ UNCHANGED <<sharedVars, ridx, reads, writerVars, ecVars>>

(* The buffer is taken if it is still active once the reader is counted. *)
CheckIdx(r) ==
    /\ rpc[r] = "check"
    /\ RGoto(r, IF active_idx = ridx[r] THEN "hold" ELSE "undo")
    /\ UNCHANGED <<sharedVars, ridx, reads, writerVars, ecVars>>

\* Mutant: the count after the subtraction is compared to one.
LastButOne(r) == refcnt[ridx[r]] = 2

(* prev == 1 *)
LastOut(r) == refcnt[ridx[r]] = 1

(* A reader takes itself out of the count. *)
CountOut(r) ==
    /\ refcnt' = [refcnt EXCEPT ![ridx[r]] = @ - 1]
    /\ ridx' = [ridx EXCEPT ![r] = 0]

\* Mutants: the count is not taken back; the retry keeps the index it had.
UndoAcquireCounted(r) ==
    /\ rpc[r] = "undo"
    /\ ridx' = [ridx EXCEPT ![r] = 0]
    /\ RGoto(r, "load")
    /\ UNCHANGED <<sharedVars, reads, writerVars, ecVars>>

UndoAcquireSameIdx(r) ==
    /\ rpc[r] = "undo" /\ at[r] = "out"
    /\ refcnt' = [refcnt EXCEPT ![ridx[r]] = @ - 1]
    /\ RGoto(r, "count")
    /\ UNCHANGED <<active_idx, conf, writer_lock, ridx, reads, writerVars, ecVars>>

UndoAcquire(r) ==
    /\ rpc[r] = "undo"
    /\ CountOut(r)
    /\ RGoto(r, IF LastOut(r) THEN "notify retry" ELSE "load")
    /\ UNCHANGED <<active_idx, conf, writer_lock, reads, writerVars, ecVars>>

(* config_release *)
Release(r) ==
    /\ rpc[r] = "hold"
    /\ CountOut(r)
    /\ RGoto(r, IF LastOut(r) THEN "notify return" ELSE "idle")
    /\ UNCHANGED <<active_idx, conf, writer_lock, reads, writerVars, ecVars>>

(* The last one notifies a writer that may be asleep. *)
Notifying(r) == rpc[r] \in {"notify retry", "notify return"}

Notify(r) ==
    /\ Notifying(r)
    /\ EcNotify(r)
    /\ RGoto(r, IF rpc[r] = "notify retry" THEN "load" ELSE "idle")
    /\ UNCHANGED <<sharedVars, ridx, reads, writerVars>>

-----------------------------------------------------------------------------
(* config_update. *)

UpdateCall(w) ==
    /\ wpc[w] = "idle"
    /\ updates[w] < MaxUpdates
    /\ updates' = [updates EXCEPT ![w] = @ + 1]
    /\ WGoto(w, "lock")
    /\ UNCHANGED <<sharedVars, readerVars, loadVars, old_idx, ecVars>>

NewIdx(w) == Other(old_idx[w])

Lock(w) ==
    /\ wpc[w] = "lock"
    /\ writer_lock = None
    /\ writer_lock' = w
    /\ old_idx' = [old_idx EXCEPT ![w] = active_idx]
    /\ base' = [base EXCEPT ![w] = conf[Other(active_idx)]]
    /\ WGoto(w, "open")
    /\ UNCHANGED <<active_idx, refcnt, conf, readerVars, file, line_no, curr_section,
                   updates, ecVars>>

(* load_config opens the file, which may fail, *)
Open(w) ==
    /\ wpc[w] = "open"
    /\ \/ WGoto(w, "unlock") /\ UNCHANGED file
       \/ WGoto(w, "parse") /\ \E f \in Files : file' = [file EXCEPT ![w] = f]
    /\ UNCHANGED <<sharedVars, readerVars, line_no, curr_section, old_idx, updates,
                   base, ecVars>>

ThisLine(w) == file[w][line_no[w] + 1]
MoreLines(w) == line_no[w] < Len(file[w])

(* reads it into the inactive buffer, a line at a time, *)
ReadLine(w) ==
    /\ wpc[w] = "parse" /\ MoreLines(w)
    /\ line_no' = [line_no EXCEPT ![w] = @ + 1]
    /\ curr_section' = [curr_section EXCEPT ![w] = NextSection(@, ThisLine(w))]
    /\ UNCHANGED <<active_idx, refcnt, writer_lock, readerVars, wpc, file, old_idx,
                   updates, base, ecVars>>

SkipLine(w) ==
    /\ ReadLine(w)
    /\ ~Parsed(curr_section[w], ThisLine(w))
    /\ UNCHANGED conf

ParseLine(w) ==
    /\ ReadLine(w)
    /\ Parsed(curr_section[w], ThisLine(w))
    /\ conf' = [conf EXCEPT ![NewIdx(w)] = Parser(@, curr_section[w], ThisLine(w))]

(* stops at a line that parser_fn rejects, leaving the fields set before   *)
(* it (netto_config_parser rejects none, another cfg_parser_fn may),       *)
ParseFails(w) ==
    /\ wpc[w] = "parse" /\ MoreLines(w)
    /\ Parsed(curr_section[w], ThisLine(w))
    /\ WGoto(w, "unlock")
    /\ UNCHANGED <<sharedVars, readerVars, loadVars, old_idx, updates, ecVars>>

\* Mutant: the buffers are swapped, and the replaced one is not awaited.
SwapNoWait(w) ==
    /\ wpc[w] = "parse" /\ ~MoreLines(w)
    /\ active_idx' = NewIdx(w)
    /\ WGoto(w, "unlock")
    /\ UNCHANGED <<refcnt, conf, writer_lock, readerVars, loadVars, old_idx, updates, ecVars>>

(* and else has the filled buffer made active. *)
Swap(w) ==
    /\ wpc[w] = "parse" /\ ~MoreLines(w)
    /\ active_idx' = NewIdx(w)
    /\ WGoto(w, "prepare")
    /\ UNCHANGED <<refcnt, conf, writer_lock, readerVars, loadVars, old_idx, updates, ecVars>>

Prepare(w) ==
    /\ wpc[w] = "prepare"
    /\ EcPrepareWait(w)
    /\ WGoto(w, "drain")
    /\ UNCHANGED <<sharedVars, readerVars, loadVars, old_idx, updates>>

CheckReaders(w) ==
    /\ wpc[w] = "drain"
    /\ WGoto(w, IF refcnt[old_idx[w]] = 0 THEN "cancel" ELSE "wait")
    /\ UNCHANGED <<sharedVars, readerVars, loadVars, old_idx, updates, ecVars>>

Cancel(w) ==
    /\ wpc[w] = "cancel"
    /\ EcCancelWait(w)
    /\ WGoto(w, "unlock")
    /\ UNCHANGED <<sharedVars, readerVars, loadVars, old_idx, updates>>

Wait(w) ==
    /\ wpc[w] = "wait"
    /\ EcWait(w)
    /\ WGoto(w, "prepare")
    /\ UNCHANGED <<sharedVars, readerVars, loadVars, old_idx, updates>>

(* The call returns and its local variables are gone. *)
Unlock(w) ==
    /\ wpc[w] = "unlock"
    /\ writer_lock' = None
    /\ WGoto(w, "idle")
    /\ file' = [file EXCEPT ![w] = <<>>]
    /\ line_no' = [line_no EXCEPT ![w] = 0]
    /\ curr_section' = [curr_section EXCEPT ![w] = NoSection]
    /\ base' = [base EXCEPT ![w] = Zeroed]
    /\ UNCHANGED <<active_idx, refcnt, conf, readerVars, old_idx, updates, ecVars>>

-----------------------------------------------------------------------------
InEventCount(t) == EcStep(t) /\ UNCHANGED <<sharedVars, readerVars, writerVars>>
Signal(t) == Interrupted(t) /\ UNCHANGED <<sharedVars, readerVars, writerVars>>

ReaderStep(r) ==
    \/ LoadIdx(r) \/ CountIn(r) \/ CheckIdx(r) \/ UndoAcquire(r) \/ Release(r)
    \/ Notify(r) \/ InEventCount(r)

WriterStep(w) ==
    \/ Lock(w) \/ Open(w) \/ SkipLine(w) \/ ParseLine(w) \/ ParseFails(w)
    \/ Swap(w) \/ Prepare(w) \/ CheckReaders(w) \/ Cancel(w) \/ Wait(w) \/ Unlock(w)
    \/ InEventCount(w)

Next ==
    \/ \E r \in Readers : AcquireCall(r) \/ ReaderStep(r)
    \/ \E w \in Writers : UpdateCall(w) \/ WriterStep(w) \/ Signal(w)

Spec == Init /\ [][Next]_vars

(* Threads inside a call run on, and a reader releases what it acquired.   *)
Fairness == /\ \A r \in Readers : WF_vars(ReaderStep(r))
            /\ \A w \in Writers : WF_vars(WriterStep(w))
FairSpec == Spec /\ Fairness

-----------------------------------------------------------------------------
ReaderLabels == {"idle", "load", "count", "check", "hold", "undo",
                 "notify retry", "notify return"}
WriterLabels == {"idle", "lock", "open", "parse", "prepare", "drain",
                 "cancel", "wait", "unlock"}

LoadTypeOK ==
    /\ file \in [Writers -> Seq(Lines)]
    /\ line_no \in [Writers -> Nat]
    /\ curr_section \in [Writers -> Sections]
    /\ base \in [Writers -> Contents]

TypeOK ==
    /\ EcTypeOK
    /\ active_idx \in Idx
    /\ refcnt \in [Idx -> Nat]
    /\ conf \in [Idx -> Contents]
    /\ writer_lock \in Writers \cup {None}
    /\ rpc \in [Readers -> ReaderLabels]
    /\ ridx \in [Readers -> Idx]
    /\ reads \in [Readers -> 0 .. MaxReads]
    /\ wpc \in [Writers -> WriterLabels]
    /\ old_idx \in [Writers -> Idx]
    /\ updates \in [Writers -> 0 .. MaxUpdates]
    /\ LoadTypeOK

Holding(r) == rpc[r] = "hold"
CountedIn(r) == rpc[r] \in {"check", "hold", "undo"}

(* refcnt[i] is the number of readers counted in buffer i, for an instant  *)
(* even of readers that came too late for it (config.c:90-103).            *)
CountedReaders(i) == {r \in Readers : CountedIn(r) /\ ridx[r] = i}
CountsExact == \A i \in Idx : refcnt[i] = Cardinality(CountedReaders(i))

(* A configuration does not change from config_acquire to config_release,  *)
(* however many updates run, succeed or fail in between.                   *)
HeldConfigStable ==
    [][\A r \in Readers :
          Holding(r) /\ Holding(r)' => conf'[ridx'[r]] = conf[ridx[r]]]_vars

(* While a file is loaded, and once it is active, the buffer is what it    *)
(* held before with what the file says: the last line under "log" that     *)
(* sets a key counts, and a key the file leaves out keeps the value of the *)
(* update before last, or of a load that failed (config.c:134,202-258).    *)
Loading(w) == wpc[w] \in {"parse", "prepare", "drain", "cancel", "wait"}

LoadFollowsFile ==
    \A w \in Writers : Loading(w) =>
        /\ Follows(file[w], line_no[w], base[w], conf[NewIdx(w)])
        /\ wpc[w] # "parse" => line_no[w] = Len(file[w])

(* The buffers behave as one configuration that changes in one step, with  *)
(* readers that keep what they acquired (config.c:85-161).                 *)
Current == conf[active_idx]
Holders == {r \in Readers : Holding(r)}
Held == [r \in Holders |-> conf[ridx[r]]]
HoldersOfReplaced == {r \in Holders : ridx[r] # active_idx}

Register == INSTANCE ConfigRegister WITH
    Initial <- Zeroed, current <- Current, held <- Held, replaced <- HoldersOfReplaced

ImplementsRegister == Register!Spec

(* When no update is under way nobody holds a replaced configuration: a    *)
(* config_update that has returned has waited for all its readers          *)
(* (config.c:145).                                                         *)
HoldersCurrent ==
    writer_lock = None => \A r \in Readers : Holding(r) => ridx[r] = active_idx

(* The writer never sleeps on a count of zero that no reader is about to   *)
(* notify it of, or to wake it for (config.c:101,116 against               *)
(* config.c:147-153).                                                      *)
NoForgottenWriter ==
    \A w \in Writers :
        at[w] = "asleep" /\ refcnt[old_idx[w]] = 0
            => \E r \in Readers : Notifying(r) \/ at[r] = "wake1"

(* config_update returns, provided every reader releases what it acquired. *)
UpdateReturns == \A w \in Writers : wpc[w] # "idle" ~> wpc[w] = "idle"

(* config_acquire returns: it only tries again after an update.            *)
AcquireReturns == \A r \in Readers : rpc[r] = "load" ~> Holding(r)

-----------------------------------------------------------------------------
(* The inductive invariant behind the safety properties. *)

Updating(w) == wpc[w] \in {"open", "parse", "prepare", "drain", "cancel", "wait", "unlock"}
Draining(w) == wpc[w] \in {"prepare", "drain", "wait"}

(* The mutex is held by the writer that is past its lock. *)
LockOwner == \A w \in Writers : Updating(w) <=> writer_lock = w

(* old_idx is the active buffer before the swap, the other one after it. *)
OldIdxKnown ==
    \A w \in Writers :
        /\ wpc[w] \in {"open", "parse"} => active_idx = old_idx[w]
        /\ Draining(w) \/ wpc[w] = "cancel" => active_idx = NewIdx(w)

(* A replaced buffer is held only while its writer waits for the readers. *)
HeldIsActive ==
    (\A w \in Writers : ~Draining(w)) => \A r \in Readers : Holding(r) => ridx[r] = active_idx

(* What config_update relies on when it writes into the inactive buffer,   *)
(* for every interleaving with readers and other writers (config.c:85-161). *)
BufferInv == TypeOK /\ CountsExact /\ LockOwner /\ OldIdxKnown /\ HeldIsActive

(* Where a thread stands in its own code says where it stands in the event  *)
(* count: only readers notify, and only the writer that drains waits.      *)
ReadersPlace ==
    \A r \in Readers :
        /\ at[r] \in {"out", "wake1"}
        /\ at[r] = "wake1" => rpc[r] \in {"idle", "load"}

WritersPlace ==
    \A w \in Writers :
        /\ wpc[w] = "prepare" => at[w] \in {"out", "check", "futex", "asleep", "leaving"}
        /\ wpc[w] \in {"drain", "cancel", "wait"} => at[w] = "prepared"
        /\ ~Draining(w) /\ wpc[w] # "cancel" => at[w] = "out"

IInv == BufferInv /\ WaitersCounted /\ ReadersPlace /\ WritersPlace

(* What keeps the writer from being forgotten: while its key is current the *)
(* readers it saw are there, or the last of them has yet to notify; when it *)
(* sleeps with an old key, the one who made it old has yet to wake it.     *)
Waits(w) ==
    wpc[w] = "wait" \/ (wpc[w] = "prepare" /\ at[w] \in {"check", "futex", "asleep"})

SawReaders ==
    \A w \in Writers :
        Waits(w) /\ key[w] = Epoch /\ refcnt[old_idx[w]] = 0
            => \E r \in Readers : Notifying(r)

OldKeyWoken ==
    \A w \in Writers :
        at[w] = "asleep" /\ key[w] # Epoch => \E r \in Readers : at[r] = "wake1"

(* The epoch does not come round to the key of a writer while it waits:    *)
(* that would take EpochMod notifies, 2^32 in the code.                    *)
KeyStaysOld ==
    \A w \in Writers : Waits(w) /\ key[w] # Epoch => key[w] # Epoch'

(* What a load relies on: it begins with nothing read, and then stands in  *)
(* the section of the lines read.                                          *)
LoadBegins ==
    \A w \in Writers :
        /\ wpc[w] \in {"idle", "lock", "open"} =>
              line_no[w] = 0 /\ curr_section[w] = NoSection
        /\ wpc[w] = "open" => base[w] = conf[NewIdx(w)]

SectionKnown ==
    \A w \in Writers : wpc[w] = "parse" =>
        /\ line_no[w] <= Len(file[w])
        /\ SectionIs(file[w], line_no[w], curr_section[w])

LoadInv == LoadBegins /\ SectionKnown /\ LoadFollowsFile

=============================================================================
