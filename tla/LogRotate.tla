------------------------------ MODULE LogRotate ------------------------------
(***************************************************************************)
(* The log file and its backups: init_daemon_logger, write_daemon_log,     *)
(* rotate_log and the list of backups of common/src/log/logger.c, one      *)
(* action per change of the disk, so that the daemon can be killed between *)
(* any two of them and started again, with another configuration.          *)
(*                                                                         *)
(* A backup is named after the second of its rotation; its name is that    *)
(* second here.  Generations are history: they number the log files in the *)
(* order they were begun, whatever their names.                            *)
(***************************************************************************)
EXTENDS Integers, Sequences, SequencesExt, FiniteSets, FiniteSetsExt

CONSTANTS
    ConfSizes,   \* sizes the configuration may ask for, in units of the
                 \* shortest line
    DefSize,     \* DEF_MAX_LOG_SIZE
    ConfBackups, \* numbers of backups it may ask for
    LineSizes,   \* sizes of a formatted line
    MaxTime,     \* bound: the clock stops here
    MaxFile,     \* bound: no line is written that takes curr_log_size past it
    SameSecond   \* may two rotations fall in one second?

(* What max_log_size may be, after init_daemon_logger has normalised it.    *)
Limits == {DefSize} \cup {m \in ConfSizes : m >= 1}

(* A formatted line is far shorter than a mebibyte. *)
ASSUME RotateAssumption ==
    /\ ConfSizes \subseteq Int /\ DefSize \in Nat \ {0}
    /\ ConfBackups \subseteq Int
    /\ \A m \in Limits : LineSizes \subseteq 1 .. m
    /\ MaxTime \in Nat \ {0} /\ MaxFile \in Nat
    /\ SameSecond \in BOOLEAN

VARIABLES
    now,        \* time(NULL)
    logfile,    \* the log file on disk: its size and generation, or Absent
    flushed,    \* the part of its size that stdio has written out
    backups,    \* the backups on disk: name |-> generation
    fp,         \* is the log file open?
    curr_log_size,
    max_log_size, max_backup, \* as the daemon was started with
    files,      \* g_daemon_logger.backups.files
    pc, line,   \* where the logger stands; the size of the line it writes
    gen,        \* history: generations begun
    forgotten,  \* history: backups on disk that a failed call left unlisted
    lost,       \* history: bytes counted in curr_log_size that stdio lost
    stuck,      \* history: has a rename failed since the log file was begun
                \* or the daemon started?
    last        \* second of the last rotation

disk == <<logfile, flushed, backups>>
limits == <<max_log_size, max_backup>>
memory == <<fp, curr_log_size, files>>
faults == <<lost, stuck>>
history == <<gen, forgotten, last>>
vars == <<now, disk, limits, memory, pc, line, faults, history>>

Absent == [size |-> 0, gen |-> 0]
Exists == logfile # Absent

Init ==
    /\ now = 1
    /\ logfile = Absent /\ flushed = 0
    /\ backups = <<>>
    /\ fp = FALSE /\ curr_log_size = 0 /\ files = <<>>
    /\ max_log_size = 0 /\ max_backup = 0
    /\ lost = 0 /\ stuck = FALSE
    /\ pc = "down" /\ line = 0
    /\ gen = 0 /\ forgotten = {} /\ last = 0

Names == DOMAIN backups
Without(name) == [n \in Names \ {name} |-> backups[n]]

(* fclose writes out what stdio buffered, or on a full disk a part of it;   *)
(* of a process that is killed, too, a part may have been written.         *)
FlushSome ==
    /\ \E s \in flushed .. logfile.size : logfile' = [logfile EXCEPT !.size = s]
    /\ flushed' = logfile'.size

Tick ==
    /\ now < MaxTime
    /\ now' = now + 1
    /\ UNCHANGED <<disk, limits, memory, pc, line, faults, history>>

-----------------------------------------------------------------------------
(* rotate_log and what it calls. *)

\* Mutant: the tracked size is not reset.
RenameKeepsSize ==
    /\ SameSecond \/ now > last
    /\ backups' = [n \in Names \cup {now} |->
                      IF n = now THEN logfile.gen ELSE backups[n]]
    /\ logfile' = Absent /\ flushed' = 0
    /\ last' = now
    /\ forgotten' = forgotten \ {now}
    /\ lost' = 0 /\ stuck' = FALSE
    /\ UNCHANGED curr_log_size

(* rename: an older backup of the same name is replaced. *)
Rename ==
    /\ SameSecond \/ now > last
    /\ backups' = [n \in Names \cup {now} |->
                      IF n = now THEN logfile.gen ELSE backups[n]]
    /\ logfile' = Absent /\ flushed' = 0
    /\ last' = now
    /\ forgotten' = forgotten \ {now}
    /\ curr_log_size' = 0
    /\ lost' = 0 /\ stuck' = FALSE

Rotate ==
    /\ pc = "rotate"
    /\ Rename
    /\ pc' = IF max_backup > 0 THEN "append" ELSE "open"
    /\ UNCHANGED <<now, limits, fp, files, line, gen>>

(* rename fails, rotate_log returns, and its caller goes on. *)
RotateFails ==
    /\ pc = "rotate"
    /\ pc' = "open"
    /\ stuck' = TRUE
    /\ UNCHANGED <<now, limits, disk, memory, line, lost, history>>

\* Mutant: the new backup is put at the front of the list.
AppendBackupFront ==
    /\ pc = "append"
    /\ files' = <<last>> \o files
    /\ pc' = "cleanup"
    /\ UNCHANGED <<now, limits, faults, disk, fp, curr_log_size, line, history>>

AppendBackup ==
    /\ pc = "append"
    /\ files' = Append(files, last)
    /\ pc' = "cleanup"
    /\ UNCHANGED <<now, limits, faults, disk, fp, curr_log_size, line, history>>

(* No memory for the name: the backup stays, outside the list. *)
AppendFails ==
    /\ pc = "append"
    /\ forgotten' = forgotten \cup {last}
    /\ pc' = "open"
    /\ UNCHANGED <<now, limits, faults, disk, memory, line, gen, last>>

\* Mutant: one backup too many is kept.
CleanupOneShort ==
    /\ pc \in {"cleanup", "initCleanup"}
    /\ IF Len(files) > max_backup + 1
       THEN /\ files' = Tail(files)
            /\ backups' = Without(Head(files))
            /\ forgotten' = forgotten \ {Head(files)}
            /\ UNCHANGED pc
       ELSE /\ pc' = IF pc = "cleanup" THEN "open" ELSE "initOpen"
            /\ UNCHANGED <<files, backups, forgotten>>
    /\ UNCHANGED <<now, limits, faults, logfile, flushed, fp, curr_log_size, line, gen, last>>

(* cleanup_old_backup_log_files: one unlink after the other, from the first *)
(* of the list on.                                                         *)
Cleanup ==
    /\ pc \in {"cleanup", "initCleanup"}
    /\ IF Len(files) > max_backup
       THEN /\ files' = Tail(files)
            /\ backups' = Without(Head(files))
            /\ forgotten' = forgotten \ {Head(files)}
            /\ UNCHANGED pc
       ELSE /\ pc' = IF pc = "cleanup" THEN "open" ELSE "initOpen"
            /\ UNCHANGED <<files, backups, forgotten>>
    /\ UNCHANGED <<now, limits, faults, logfile, flushed, fp, curr_log_size, line, gen, last>>

(* An unlink that fails is not noticed: its file leaves the list. *)
UnlinkFails ==
    /\ pc \in {"cleanup", "initCleanup"}
    /\ Len(files) > max_backup
    /\ files' = Tail(files)
    /\ forgotten' = forgotten \cup ({Head(files)} \cap Names)
    /\ UNCHANGED <<now, limits, faults, disk, fp, curr_log_size, pc, line, gen, last>>

-----------------------------------------------------------------------------
(* init_daemon_logger. *)

\* Mutant: the size of a log file that is kept is not taken over.
LimitsAndSizeForgotten ==
    /\ \E m \in ConfSizes, b \in ConfBackups :
          /\ max_log_size' = IF m < 1 THEN DefSize ELSE m
          /\ max_backup' = IF b < 1 THEN 0 ELSE b
    /\ pc' = IF logfile.size >= max_log_size' THEN "initRotate" ELSE "scan"
    /\ UNCHANGED curr_log_size

(* The limits come from the configuration, which may have changed since     *)
(* the last start; the log file is measured against the new one.           *)
LimitsAndSize ==
    /\ \E m \in ConfSizes, b \in ConfBackups :
          /\ max_log_size' = IF m < 1 THEN DefSize ELSE m
          /\ max_backup' = IF b < 1 THEN 0 ELSE b
    /\ \/ /\ logfile.size >= max_log_size'
          /\ pc' = "initRotate"
          /\ UNCHANGED curr_log_size
       \/ /\ logfile.size < max_log_size'
          /\ pc' = "scan"
          /\ curr_log_size' = logfile.size

Start ==
    /\ pc = "down"
    /\ LimitsAndSize
    /\ UNCHANGED <<now, disk, fp, files, line, faults, history>>

InitRotate ==
    /\ pc = "initRotate"
    /\ Rename
    /\ pc' = "scan"
    /\ UNCHANGED <<now, limits, fp, files, line, gen>>

(* The names as qsort leaves them: each after all that are smaller. *)
ByName(names) ==
    [i \in 1 .. Cardinality(names) |->
        CHOOSE n \in names : Cardinality({m \in names : m <= n}) = i]

\* Mutant: the names are taken in the order of the directory, not sorted.
ScanUnsorted ==
    /\ pc = "scan"
    /\ IF max_backup > 0
       THEN /\ files' = Reverse(ByName(Names))
            /\ forgotten' = {}
            /\ pc' = "initCleanup"
       ELSE pc' = "initOpen" /\ UNCHANGED <<files, forgotten>>
    /\ UNCHANGED <<now, limits, faults, disk, fp, curr_log_size, line, gen, last>>

(* get_backup_log_files: every backup on disk, by name. *)
Scan ==
    /\ pc = "scan"
    /\ IF max_backup > 0
       THEN /\ files' = ByName(Names)
            /\ forgotten' = {}
            /\ pc' = "initCleanup"
       ELSE pc' = "initOpen" /\ UNCHANGED <<files, forgotten>>
    /\ UNCHANGED <<now, limits, faults, disk, fp, curr_log_size, line, gen, last>>

\* Mutant: mode "w" instead of "a".
OpenLogTruncating ==
    /\ fp' = TRUE
    /\ logfile' = [size |-> 0, gen |-> gen + 1]
    /\ gen' = gen + 1
    /\ flushed' = logfile.size

(* fopen(log_path, "a") creates the file when there is none. *)
OpenLog ==
    /\ fp' = TRUE
    /\ logfile' = IF Exists THEN logfile ELSE [size |-> 0, gen |-> gen + 1]
    /\ gen' = IF Exists THEN gen ELSE gen + 1
    /\ flushed' = logfile.size

InitOpen ==
    /\ pc = "initOpen"
    /\ OpenLog
    /\ pc' = "idle"
    /\ UNCHANGED <<now, limits, faults, backups, curr_log_size, files, line, forgotten, last>>

(* destroy_daemon_logger: the file is closed, the structure zeroed. *)
Destroy ==
    /\ fp' = FALSE /\ curr_log_size' = 0 /\ files' = <<>>
    /\ max_log_size' = 0 /\ max_backup' = 0
    /\ pc' = "down" /\ line' = 0
    /\ lost' = 0 /\ stuck' = FALSE

(* A rename, a scan or an open that fails while the logger is initialised. *)
InitFails ==
    /\ pc \in {"initRotate", "scan", "initOpen"}
    /\ Destroy
    /\ UNCHANGED <<now, disk, history>>

-----------------------------------------------------------------------------
(* write_daemon_log. *)

Write(n) ==
    /\ pc = "idle"
    /\ curr_log_size + n <= MaxFile
    /\ line' = n
    /\ IF curr_log_size + n > max_log_size
       THEN pc' = "rotate" /\ fp' = FALSE /\ FlushSome
       ELSE pc' = "open" /\ UNCHANGED <<fp, logfile, flushed>>
    /\ lost' = lost + logfile.size - logfile'.size
    /\ UNCHANGED <<now, limits, stuck, backups, curr_log_size, files, history>>

Open ==
    /\ pc = "open"
    /\ IF fp THEN UNCHANGED <<fp, logfile, gen, flushed>> ELSE OpenLog
    /\ pc' = "append line"
    /\ UNCHANGED <<now, limits, faults, backups, curr_log_size, files, line, forgotten, last>>

(* The log file cannot be opened: the line is dropped. *)
OpenFails ==
    /\ pc = "open" /\ ~fp
    /\ pc' = "idle" /\ line' = 0
    /\ UNCHANGED <<now, limits, faults, disk, memory, history>>

AppendLine ==
    /\ pc = "append line"
    /\ logfile' = [logfile EXCEPT !.size = @ + line]
    /\ curr_log_size' = curr_log_size + line
    /\ pc' = "idle" /\ line' = 0
    /\ UNCHANGED <<now, limits, flushed, backups, fp, files, faults, history>>

(* The disk is full: fwrite takes part of the line, and of what stdio had   *)
(* buffered and counted a part never reaches the file.                     *)
AppendFallsShort ==
    /\ pc = "append line"
    /\ \E written \in 0 .. line : \E s \in flushed .. (logfile.size + written) :
          /\ logfile' = [logfile EXCEPT !.size = s]
          /\ flushed' = s
          /\ curr_log_size' = curr_log_size + written
          /\ lost' = lost + logfile.size + written - s
    /\ pc' = "idle" /\ line' = 0
    /\ UNCHANGED <<now, limits, backups, fp, files, stuck, history>>

-----------------------------------------------------------------------------
Stop ==
    /\ pc = "idle"
    /\ Destroy
    /\ FlushSome
    /\ UNCHANGED <<now, backups, history>>

(* The daemon is killed. *)
Crash ==
    /\ pc # "down"
    /\ Destroy
    /\ FlushSome
    /\ UNCHANGED <<now, backups, history>>

Next ==
    \/ Tick
    \/ Start \/ InitRotate \/ Scan \/ InitOpen \/ InitFails
    \/ \E n \in LineSizes : Write(n)
    \/ Rotate \/ RotateFails \/ AppendBackup \/ AppendFails
    \/ Cleanup \/ UnlinkFails
    \/ Open \/ OpenFails \/ AppendLine \/ AppendFallsShort
    \/ Stop \/ Crash

Spec == Init /\ [][Next]_vars

-----------------------------------------------------------------------------
TypeOK ==
    /\ now \in 1 .. MaxTime /\ last \in 0 .. MaxTime
    /\ logfile \in [size : Nat, gen : Nat] /\ flushed \in 0 .. logfile.size
    /\ Names \subseteq 1 .. MaxTime /\ \A n \in Names : backups[n] \in 1 .. gen
    /\ fp \in BOOLEAN /\ curr_log_size \in Nat
    /\ max_log_size \in Nat /\ max_backup \in Nat
    /\ lost \in 0 .. curr_log_size /\ stuck \in BOOLEAN
    /\ files \in Seq(1 .. MaxTime)
    /\ pc \in {"down", "initRotate", "scan", "initCleanup", "initOpen", "idle",
               "rotate", "append", "cleanup", "open", "append line"}
    /\ line \in LineSizes \cup {0}
    /\ gen \in Nat /\ forgotten \subseteq Names

(* The size the logger tracks is the size of the log file, through every   *)
(* failed rename, failed open, crash and restart, but for what stdio has   *)
(* lost of this file (logger.c:485,550,557): the logger never thinks the   *)
(* file smaller than it is.                                                *)
SizeTracked == pc = "idle" => curr_log_size = logfile.size + lost

(* The log file never outgrows the maximum in force, whatever it was when  *)
(* the file was begun, except while it cannot be renamed                   *)
(* (logger.c:160,543).                                                     *)
LogBounded == pc = "idle" /\ ~stuck => logfile.size <= max_log_size

(* Between two lines the list names the backups on disk, oldest first,     *)
(* apart from those a failed call has left out of it.                      *)
ListIsDisk ==
    pc = "idle" /\ max_backup > 0 =>
        /\ ToSet(files) = Names \ forgotten
        /\ \A i, j \in 1 .. Len(files) : i < j => files[i] < files[j]

(* No more than max_backup backups are kept, but for failed calls          *)
(* (logger.c:388), and none when it is 0 (logger.c:82, logger.h:62).       *)
BackupsBounded == pc = "idle" => Cardinality(Names \ forgotten) <= max_backup

(* A backup only disappears when max_backup newer ones are on disk: the    *)
(* newest are never deleted, whatever fails or crashes in between          *)
(* (logger.c:388).                                                         *)
NewestKept ==
    [][\A n \in Names :
          (n \notin DOMAIN backups' \/ backups'[n] # backups[n]) =>
              Cardinality({m \in DOMAIN backups' : backups'[m] > backups[n]}) >= max_backup]_vars

-----------------------------------------------------------------------------
(* The inductive invariant behind SizeTracked and LogBounded. *)

SizeTypes ==
    /\ logfile \in [size : Nat, gen : Nat] /\ gen \in Nat
    /\ flushed \in 0 .. logfile.size
    /\ curr_log_size \in Nat /\ lost \in Nat
    /\ line \in LineSizes \cup {0}
    /\ pc # "down" => max_log_size \in Limits

(* The size is known from the start on, or will be 0 after a rename. *)
SizeKnown ==
    IF pc \in {"down", "initRotate"}
    THEN curr_log_size = 0 /\ lost = 0
    ELSE curr_log_size = logfile.size + lost

(* On the way to the file a line has its room. *)
RoomForLine ==
    /\ pc \in {"scan", "initCleanup", "initOpen", "idle"} /\ ~stuck =>
          logfile.size <= max_log_size
    /\ pc \in {"append", "cleanup"} => curr_log_size = 0
    /\ pc \in {"open", "append line"} /\ ~stuck =>
          curr_log_size + line <= max_log_size

SizeInv == SizeTypes /\ SizeKnown /\ RoomForLine

(* Only a log file that was begun is opened or renamed; without one nothing *)
(* is counted.                                                             *)
FileBegun ==
    /\ logfile.gen \in {0, gen}
    /\ logfile.gen = 0 => logfile.size = 0 /\ lost = 0
    /\ fp => logfile.gen # 0 /\ pc \in {"idle", "open", "append line"}
    /\ pc = "append line" => fp
    /\ pc \in {"rotate", "initRotate"} => logfile.gen # 0

(* Later names belong to later files, and the log file is newer than all    *)
(* its backups.                                                            *)
NamesInOrder ==
    /\ last <= now
    /\ \A n \in Names : n <= last /\ (logfile.gen # 0 => backups[n] < logfile.gen)
    /\ \A n, m \in Names : n < m => backups[n] < backups[m]

(* From the scan on every backup is listed, but for those of failed calls   *)
(* and the one that was just made.                                         *)
Listing == {"initCleanup", "initOpen", "idle", "rotate", "append", "cleanup", "open",
            "append line"}
Unlisted == IF pc = "append" THEN forgotten \cup {last} ELSE forgotten

ListComplete ==
    /\ pc \notin Listing => files = <<>>
    /\ pc \in Listing /\ max_backup > 0 => Names \ Unlisted \subseteq ToSet(files)
    /\ pc \in Listing \ {"initCleanup", "cleanup"} => Len(files) <= max_backup
    /\ pc \in {"initCleanup", "cleanup", "append"} => max_backup > 0
    /\ pc = "append" => last \in Names \ forgotten

(* When no two rotations fall in one second, nothing else is listed, and    *)
(* the list is in the order of the names.                                  *)
ListExact ==
    /\ pc \in Listing /\ max_backup > 0 => ToSet(files) \subseteq Names \ Unlisted
    /\ \A i, j \in 1 .. Len(files) : i < j => files[i] < files[j]

IInv ==
    /\ TypeOK /\ SizeInv
    /\ FileBegun /\ NamesInOrder /\ ListComplete
    /\ SameSecond \/ ListExact

=============================================================================
