-------------------------------- MODULE Netto --------------------------------
(***************************************************************************)
(* The netto program from the outside: the commands start, debug and stop  *)
(* that meet in the PID file, and the life of each instance they begin,    *)
(* from is_running to finalize: daemons/netto/src/netto.c with daemonize   *)
(* and get_procname_comm of utils/process.c, and start_thread_mgr_all and   *)
(* stop_thread_mgr_all of threads/thread_mgr.c.                            *)
(*                                                                         *)
(* A start command and the daemon it becomes are one process here, named   *)
(* by the daemon's PID; the command has returned to its caller once it has *)
(* forked.  A debug command stays in the foreground.  A PID is not given   *)
(* out twice.                                                              *)
(***************************************************************************)
EXTENDS Integers, FiniteSets

CONSTANTS
    Starts,       \* processes running `netto start`
    Debugs,       \* processes running `netto debug`
    Stops,        \* processes running `netto stop`
    Absent,       \* no PID file
    Empty,        \* the PID file is truncated and not yet written
    NumThreads,   \* entries of g_threads, the log consumer first
    NextStart     \* a start or debug command is given "any" time, once those
                  \* before have "returned", or once they have "written" a PID

Instances == Starts \cup Debugs
Procs == Instances \cup Stops

ASSUME NettoAssumption ==
    /\ Starts \cap Debugs = {} /\ Instances \cap Stops = {}
    /\ {Absent, Empty} \cap Procs = {} /\ Absent # Empty
    /\ NumThreads \in Nat \ {0}
    /\ NextStart \in {"any", "returned", "written"}

VARIABLES
    pid_file,
    pc,        \* where each process stands
    seen,      \* the PID a process read in is_running
    handlers,  \* are the signal handlers of a process installed?
    running,   \* g_runconf.running of each instance
    signalled, \* history: SIGTERM or SIGINT was sent to it
    enabled,   \* its logger is initialised and enabled
    threads,   \* the state of each entry of its g_threads
    next       \* the entry the thread manager handles next

daemonVars == <<handlers, running, signalled, enabled, threads, next>>
vars == <<pid_file, pc, seen, daemonVars>>

Table == 0 .. (NumThreads - 1)

Init ==
    /\ pid_file = Absent
    /\ pc = [x \in Procs |-> "new"]
    /\ seen = [x \in Procs |-> Absent]
    /\ handlers = [p \in Instances |-> FALSE]
    /\ running = [p \in Instances |-> FALSE]
    /\ signalled = [p \in Instances |-> FALSE]
    /\ enabled = [p \in Instances |-> FALSE]
    /\ threads = [p \in Instances |-> [i \in Table |-> "none"]]
    /\ next = [p \in Instances |-> 0]

Goto(x, label) == pc' = [pc EXCEPT ![x] = label]

Ended == {"exited", "killed"}
Alive(p) == pc[p] \notin Ended \cup {"new"}

(* A command that has not returned; an instance on its way to its PID. *)
Deciding(x) == pc[x] \in {"open", "scan", "comm", "fork"}
Arriving(p) == Deciding(p) \/ pc[p] \in {"setsid", "fork again", "truncate", "write"}

MayBegin ==
    /\ NextStart = "returned" => ~ \E p \in Instances : Deciding(p)
    /\ NextStart = "written" => ~ \E p \in Instances : Arriving(p)

-----------------------------------------------------------------------------
Exit(x) == Goto(x, "exited")

(* main *)
Call(x) ==
    /\ pc[x] = "new"
    /\ x \in Instances => MayBegin
    /\ Goto(x, "open")
    /\ UNCHANGED <<pid_file, seen, daemonVars>>

(* chdir_to_executable, by which all commands mean the same PID file, fails. *)
CallFails(x) ==
    /\ pc[x] = "new"
    /\ x \in Instances => MayBegin
    /\ Exit(x)
    /\ UNCHANGED <<pid_file, seen, daemonVars>>

(* is_running.  When it answers false, a start forks, a debug command goes *)
(* on in its own process, and a stop has nothing to do.                    *)
AnswerNo(x) ==
    Goto(x, IF x \in Starts THEN "fork" ELSE IF x \in Debugs THEN "truncate" ELSE "exited")

OpenPidFile(x) ==
    /\ pc[x] = "open"
    /\ IF pid_file = Absent THEN AnswerNo(x) ELSE Goto(x, "scan")
    /\ UNCHANGED <<pid_file, seen, daemonVars>>

ScanPid(x) ==
    /\ pc[x] = "scan"
    /\ IF pid_file = Empty
       THEN AnswerNo(x) /\ UNCHANGED seen
       ELSE Goto(x, "comm") /\ seen' = [seen EXCEPT ![x] = pid_file]
    /\ UNCHANGED <<pid_file, daemonVars>>

\* Mutant: the name of the process is not looked up.
CheckNameNever(x) ==
    /\ pc[x] = "comm"
    /\ AnswerNo(x)
    /\ UNCHANGED <<pid_file, seen, daemonVars>>

(* get_procname_comm reads the name of a process that exists; those whose  *)
(* PID gets into the file are all named netto.                             *)
IsNetto(p) == Alive(p)

CheckName(x) ==
    /\ pc[x] = "comm"
    /\ IF IsNetto(seen[x])
       THEN Goto(x, IF x \in Instances THEN "exited" ELSE "kill")
       ELSE AnswerNo(x)
    /\ UNCHANGED <<pid_file, seen, daemonVars>>

-----------------------------------------------------------------------------
(* `netto stop`: SIGTERM ends a process without handlers at once; the       *)
(* handler clears running.  The command does not wait for the daemon.      *)
Kill(s) ==
    /\ pc[s] = "kill"
    /\ LET q == seen[s] IN
          /\ signalled' = [signalled EXCEPT ![q] = @ \/ Alive(q)]
          /\ running' = [running EXCEPT ![q] = @ /\ ~(Alive(q) /\ handlers[q])]
          /\ pc' = [pc EXCEPT ![s] = "exited",
                              ![q] = IF Alive(q) /\ ~handlers[q] THEN "killed" ELSE @]
    /\ UNCHANGED <<pid_file, seen, handlers, enabled, threads, next>>

-----------------------------------------------------------------------------
(* Ctrl+C on a debug command: the same handler as for SIGTERM. *)
Interrupt(d) ==
    /\ Alive(d) /\ ~signalled[d]
    /\ signalled' = [signalled EXCEPT ![d] = TRUE]
    /\ IF handlers[d]
       THEN running' = [running EXCEPT ![d] = FALSE] /\ UNCHANGED pc
       ELSE Goto(d, "killed") /\ UNCHANGED running
    /\ UNCHANGED <<pid_file, seen, handlers, enabled, threads, next>>

-----------------------------------------------------------------------------
(* daemonize: fork, upon which the command returns; setsid; fork again.    *)
(* Each may fail, and ends the process that called it.                     *)
Daemonize(p) ==
    /\ \/ pc[p] = "fork" /\ Goto(p, "setsid")
       \/ pc[p] = "setsid" /\ Goto(p, "fork again")
       \/ pc[p] = "fork again" /\ Goto(p, "truncate")
       \/ pc[p] \in {"fork", "setsid", "fork again"} /\ Exit(p)
    /\ UNCHANGED <<pid_file, seen, daemonVars>>

(* initialize sets running; write_pid_file: fopen with "w", *)
TruncatePidFile(p) ==
    /\ pc[p] = "truncate"
    /\ running' = [running EXCEPT ![p] = TRUE]
    /\ \/ Goto(p, "write") /\ pid_file' = Empty
       \/ Exit(p) /\ UNCHANGED pid_file
    /\ UNCHANGED <<seen, handlers, signalled, enabled, threads, next>>

(* then the PID at fclose. *)
WritePid(p) ==
    /\ pc[p] = "write"
    /\ pid_file' = p
    /\ Goto(p, "signals")
    /\ UNCHANGED <<seen, daemonVars>>

SetupSignals(p) ==
    /\ pc[p] = "signals"
    /\ \/ handlers' = [handlers EXCEPT ![p] = TRUE] /\ Goto(p, "config")
       \/ UNCHANGED handlers /\ Exit(p)
    /\ UNCHANGED <<pid_file, seen, running, signalled, enabled, threads, next>>

\* Mutant: running is set once the handlers are installed, not before.
LoadConfigSetsRunning(p) ==
    /\ pc[p] = "config"
    /\ Goto(p, "logger") \/ Exit(p)
    /\ running' = [running EXCEPT ![p] = TRUE]
    /\ UNCHANGED <<pid_file, seen, handlers, signalled, enabled, threads, next>>

LoadConfig(p) ==
    /\ pc[p] = "config"
    /\ Goto(p, "logger") \/ Exit(p)
    /\ UNCHANGED <<pid_file, seen, daemonVars>>

InitLogger(p) ==
    /\ pc[p] = "logger"
    /\ \/ enabled' = [enabled EXCEPT ![p] = TRUE] /\ Goto(p, "start threads")
       \/ UNCHANGED enabled /\ Exit(p)
    /\ next' = [next EXCEPT ![p] = 0]
    /\ UNCHANGED <<pid_file, seen, handlers, running, signalled, threads>>

(* start_thread_mgr_all: one entry after the other. *)
StartThread(p) ==
    /\ pc[p] = "start threads"
    /\ threads' = [threads EXCEPT ![p][next[p]] = "live"]
    /\ next' = [next EXCEPT ![p] = @ + 1]
    /\ Goto(p, IF next[p] + 1 = NumThreads THEN "run" ELSE "start threads")
    /\ UNCHANGED <<pid_file, seen, handlers, running, signalled, enabled>>

\* Mutant: the threads started before the one that failed are left running.
StartFailsNoRollback(p) ==
    /\ pc[p] = "start threads"
    /\ Goto(p, "run")
    /\ enabled' = [enabled EXCEPT ![p] = FALSE]
    /\ next' = [next EXCEPT ![p] = 0]
    /\ UNCHANGED <<pid_file, seen, handlers, running, signalled, threads>>

(* pthread_create fails: the entries before this one are stopped again. *)
StartFails(p) ==
    /\ pc[p] = "start threads"
    /\ Goto(p, "rollback")
    /\ UNCHANGED <<pid_file, seen, daemonVars>>

(* stop_thread_mgr_one clears the flag, wakes the thread and joins it; an   *)
(* entry that is not running is skipped.                                   *)
StopThread(p, i) ==
    threads' = [threads EXCEPT ![p][i] = IF @ = "live" THEN "joined" ELSE @]

(* The rollback runs from the first entry on. *)
LiveThreads(p) == {i \in Table : threads[p][i] = "live"}

Rollback(p) ==
    /\ pc[p] = "rollback"
    /\ \E i \in LiveThreads(p) :
          /\ \A j \in LiveThreads(p) : i <= j
          /\ StopThread(p, i)
    /\ UNCHANGED <<pid_file, pc, seen, handlers, running, signalled, enabled, next>>

(* initialize then destroys the logger, and returns 0 all the same *)
(* (netto.c:421-425).                                              *)
RolledBack(p) ==
    /\ pc[p] = "rollback"
    /\ LiveThreads(p) = {}
    /\ enabled' = [enabled EXCEPT ![p] = FALSE]
    /\ Goto(p, "run")
    /\ UNCHANGED <<pid_file, seen, handlers, running, signalled, threads, next>>

-----------------------------------------------------------------------------
(* The main loop polls running; then finalize stops the threads, the last  *)
(* entry first, and destroys the logger.                                   *)
LeaveLoop(p) ==
    /\ pc[p] = "run"
    /\ ~running[p]
    /\ next' = [next EXCEPT ![p] = NumThreads]
    /\ Goto(p, "finalize")
    /\ UNCHANGED <<pid_file, seen, handlers, running, signalled, enabled, threads>>

FinalizeThread(p) ==
    /\ pc[p] = "finalize" /\ next[p] > 0
    /\ next' = [next EXCEPT ![p] = @ - 1]
    /\ StopThread(p, next[p] - 1)
    /\ UNCHANGED <<pid_file, pc, seen, handlers, running, signalled, enabled>>

DestroyLogger(p) ==
    /\ pc[p] = "finalize" /\ next[p] = 0
    /\ enabled' = [enabled EXCEPT ![p] = FALSE]
    /\ Exit(p)
    /\ UNCHANGED <<pid_file, seen, handlers, running, signalled, threads, next>>

(* An instance dies between any two of its steps: its memory and its       *)
(* threads are gone, the PID file stays.                                   *)
Crash(p) ==
    /\ Alive(p)
    /\ Goto(p, "killed")
    /\ handlers' = [handlers EXCEPT ![p] = FALSE]
    /\ running' = [running EXCEPT ![p] = FALSE]
    /\ enabled' = [enabled EXCEPT ![p] = FALSE]
    /\ threads' = [threads EXCEPT ![p] = [i \in Table |-> "none"]]
    /\ next' = [next EXCEPT ![p] = 0]
    /\ UNCHANGED <<pid_file, seen, signalled>>

-----------------------------------------------------------------------------
CommandStep(x) == OpenPidFile(x) \/ ScanPid(x) \/ CheckName(x)

DaemonStep(p) ==
    \/ Daemonize(p) \/ TruncatePidFile(p) \/ WritePid(p) \/ SetupSignals(p)
    \/ LoadConfig(p) \/ InitLogger(p)
    \/ StartThread(p) \/ StartFails(p) \/ Rollback(p) \/ RolledBack(p)
    \/ LeaveLoop(p) \/ FinalizeThread(p) \/ DestroyLogger(p)

Next ==
    \/ \E x \in Procs : Call(x) \/ CallFails(x) \/ CommandStep(x)
    \/ \E s \in Stops : Kill(s)
    \/ \E p \in Instances : DaemonStep(p) \/ Crash(p)
    \/ \E d \in Debugs : Interrupt(d)

Spec == Init /\ [][Next]_vars

(* Every process that was begun runs on; nobody has to give a command. *)
Fairness == /\ \A x \in Procs : WF_vars(CommandStep(x))
            /\ \A s \in Stops : WF_vars(Kill(s))
            /\ \A p \in Instances : WF_vars(DaemonStep(p))
FairSpec == Spec /\ Fairness

-----------------------------------------------------------------------------
Labels == {"new", "open", "scan", "comm", "kill", "fork", "setsid", "fork again",
           "truncate", "write", "signals", "config", "logger", "start threads",
           "rollback", "run", "finalize", "exited", "killed"}

TypeOK ==
    /\ pid_file \in Instances \cup {Absent, Empty}
    /\ pc \in [Procs -> Labels]
    /\ seen \in [Procs -> Instances \cup {Absent}]
    /\ handlers \in [Instances -> BOOLEAN] /\ running \in [Instances -> BOOLEAN]
    /\ signalled \in [Instances -> BOOLEAN] /\ enabled \in [Instances -> BOOLEAN]
    /\ threads \in [Instances -> [Table -> {"none", "live", "joined"}]]
    /\ next \in [Instances -> 0 .. NumThreads]

(* No thread outlives the logger it logs to: the logger is only destroyed  *)
(* once every thread is joined, on the way out of a failed start as well   *)
(* (netto.c:421-423,431-438, thread_mgr.c:95-98,105-116).                  *)
LoggerOutlivesThreads ==
    \A p \in Instances : LiveThreads(p) # {} => enabled[p] /\ Alive(p)

(* Starts that do not overlap never give two daemons, whatever fails, is   *)
(* killed or is stopped in between (netto.c:124-129).                      *)
Serving(p) == pc[p] \in {"signals", "config", "logger", "start threads",
                         "rollback", "run", "finalize"}
OneDaemon == Cardinality({p \in Instances : Serving(p)}) <= 1

(* An instance that was sent SIGTERM or SIGINT ends, whatever it was doing. *)
TermEnds == \A p \in Instances : signalled[p] ~> pc[p] \in Ended

(* A stop command ends the instance whose PID file was written before it:  *)
(* its is_running finds it, and nobody clears the stop request             *)
(* (netto.c:130-141,249-254,373-375).                                      *)
StopEnds ==
    \A s \in Stops, p \in Instances :
        pc[s] = "open" /\ Serving(p) ~> pc[p] \in Ended

(* netto.c:207: is_running answers false when the daemon has ended or does *)
(* not exist.                                                              *)
IsRunningSound ==
    [][\A x \in Procs :
          \/ pc[x] \in {"open", "scan", "comm"} /\ pc'[x] \in {"fork", "truncate"}
          \/ x \in Stops /\ pc[x] \in {"open", "scan", "comm"} /\ pc'[x] = "exited"
          => ~ \E p \in Instances : pc[p] = "run"]_vars

(* netto.c:367: initialize returns 0 on success and -1 on failure, so a    *)
(* daemon whose main loop runs has a logger and its threads.               *)
InitializeSucceeded ==
    \A p \in Instances : pc[p] = "run" =>
        enabled[p] /\ \A i \in Table : threads[p][i] = "live"

-----------------------------------------------------------------------------
(* The inductive invariant behind the safety properties. *)

(* The PID file never goes away again, so who got past the open finds one,  *)
(* and asks for, or sends the signal to, an instance.                      *)
PidRead ==
    \A x \in Procs :
        /\ pc[x] = "scan" => pid_file # Absent
        /\ pc[x] \in {"comm", "kill"} => seen[x] \in Instances

(* Handlers stay once they are installed, and no step after that sets       *)
(* running again: a request to stop is kept.                               *)
Handling(p) == pc[p] \in {"config", "logger", "start threads", "rollback", "run", "finalize"}

HandlersKept ==
    \A p \in Instances :
        /\ Handling(p) => handlers[p]
        /\ handlers[p] => Handling(p) \/ pc[p] \in Ended

RequestKept ==
    \A p \in Instances : signalled[p] /\ pc[p] \notin Ended => handlers[p] /\ ~running[p]

(* Threads live between the start of the table and the join of each entry; *)
(* finalize has joined those from next on.                                 *)
Joined(p) ==
    /\ LiveThreads(p) # {} =>
          enabled[p] /\ pc[p] \in {"start threads", "rollback", "run", "finalize"}
    /\ pc[p] = "start threads" => enabled[p] /\ next[p] \in Table
    /\ pc[p] = "finalize" => \A i \in LiveThreads(p) : i < next[p]

ThreadsJoined == \A p \in Instances : Joined(p)

IInv == TypeOK /\ PidRead /\ HandlersKept /\ RequestKept /\ ThreadsJoined

(* One instance at a time is on its way to its PID; once one serves, the    *)
(* file names it and whoever asks asks for it.                             *)
OneAtATime ==
    /\ \A p, q \in Instances : Arriving(p) /\ Arriving(q) => p = q
    /\ \A p, q \in Instances : Serving(p) =>
          /\ pid_file = p
          /\ Serving(q) => q = p
          /\ pc[q] \notin {"fork", "setsid", "fork again", "truncate", "write"}
          /\ pc[q] = "comm" => seen[q] = p

=============================================================================
