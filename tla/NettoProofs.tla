----------------------------- MODULE NettoProofs -----------------------------
(***************************************************************************)
(* Proofs about Netto, for any number of commands and any thread table.    *)
(***************************************************************************)
EXTENDS Netto, FiniteSetTheorems, TLAPS

LEMMA Roles ==
  /\ \A p \in Instances : p \in Procs /\ p \notin Stops /\ p # Absent /\ p # Empty
  /\ \A s \in Stops : s \in Procs /\ s \notin Instances
  /\ \A d \in Debugs : d \in Instances
  /\ \A x \in Procs : x \in Instances \/ x \in Stops
  /\ Absent # Empty
  BY NettoAssumption DEF Instances, Procs

LEMMA TypeInit == Init => TypeOK
  BY NettoAssumption, Roles DEF Init, TypeOK, Labels, Table

(* The steps of a command. *)
LEMMA TypeCommand ==
  ASSUME TypeOK, PidRead, NEW x \in Procs, Call(x) \/ CallFails(x) \/ CommandStep(x)
  PROVE  TypeOK'
<1> USE DEF TypeOK, Labels, Goto, Exit, AnswerNo, daemonVars
<1>1. CASE Call(x) \/ CallFails(x)
  BY <1>1 DEF Call, CallFails
<1>2. CASE OpenPidFile(x)
  BY <1>2 DEF OpenPidFile
<1>3. CASE ScanPid(x)
  BY <1>3 DEF ScanPid, PidRead
<1>4. CASE CheckName(x)
  BY <1>4 DEF CheckName
<1> QED  BY <1>1, <1>2, <1>3, <1>4 DEF CommandStep

LEMMA BoolUpdate ==
  ASSUME NEW f \in [Instances -> BOOLEAN], NEW p \in Instances, NEW b \in BOOLEAN
  PROVE  [f EXCEPT ![p] = b] \in [Instances -> BOOLEAN]
  OBVIOUS

LEMMA TypeSignal ==
  ASSUME TypeOK, PidRead,
         (\E s \in Stops : Kill(s)) \/ (\E d \in Debugs : Interrupt(d))
  PROVE  TypeOK'
<1> USE Roles DEF Goto
<1>1. ASSUME NEW s \in Stops, Kill(s) PROVE TypeOK'
  <2>1. seen[s] \in Instances
    BY <1>1 DEF Kill, PidRead
  <2>2. pc' \in [Procs -> Labels]
    BY <1>1, <2>1 DEF Kill, TypeOK, Labels
  <2>3. signalled' \in [Instances -> BOOLEAN] /\ running' \in [Instances -> BOOLEAN]
    BY <1>1, <2>1, BoolUpdate DEF Kill, TypeOK, Alive
  <2> QED  BY <1>1, <2>2, <2>3 DEF Kill, TypeOK
<1>2. ASSUME NEW d \in Debugs, Interrupt(d) PROVE TypeOK'
  <2>1. d \in Instances /\ d \in Procs
    OBVIOUS
  <2>2. pc' \in [Procs -> Labels]
    BY <1>2, <2>1 DEF Interrupt, TypeOK, Labels
  <2>3. signalled' \in [Instances -> BOOLEAN] /\ running' \in [Instances -> BOOLEAN]
    BY <1>2, <2>1 DEF Interrupt, TypeOK
  <2> QED  BY <1>2, <2>2, <2>3 DEF Interrupt, TypeOK
<1> QED  BY <1>1, <1>2

(* Where the steps of an instance take it. *)
LEMMA DaemonMoves ==
  ASSUME TypeOK, NEW p \in Instances, DaemonStep(p) \/ Crash(p)
  PROVE  /\ \/ UNCHANGED pc
            \/ \E l \in Labels \ {"new", "open", "scan", "comm", "kill", "fork"} : Goto(p, l)
         /\ pc' \in [Procs -> Labels]
         /\ \A x \in Procs : x # p => pc'[x] = pc[x]
         /\ pc'[p] \notin {"scan", "comm", "kill"} \/ pc'[p] = pc[p]
<1>1. \/ UNCHANGED pc
      \/ \E l \in Labels \ {"new", "open", "scan", "comm", "kill", "fork"} : Goto(p, l)
  BY DEF Labels, Exit, daemonVars, DaemonStep, Daemonize, TruncatePidFile, WritePid,
         SetupSignals, LoadConfig, InitLogger, StartThread, StartFails, Rollback, RolledBack,
         LeaveLoop, FinalizeThread, DestroyLogger, Crash
<1>2. p \in Procs /\ pc \in [Procs -> Labels]  BY Roles DEF TypeOK
<1> QED  BY <1>1, <1>2 DEF Goto

LEMMA TypeDaemon ==
  ASSUME TypeOK, ThreadsJoined, NEW p \in Instances, DaemonStep(p) \/ Crash(p)
  PROVE  TypeOK'
<1>1. pc' \in [Procs -> Labels]
  BY DaemonMoves
<1>2. pid_file' \in Instances \cup {Absent, Empty} /\ seen' \in [Procs -> Instances \cup {Absent}]
  BY DEF TypeOK, daemonVars, DaemonStep, Daemonize, TruncatePidFile, WritePid, SetupSignals,
         LoadConfig, InitLogger, StartThread, StartFails, Rollback, RolledBack, LeaveLoop,
         FinalizeThread, DestroyLogger, Crash
<1>3. handlers' \in [Instances -> BOOLEAN] /\ running' \in [Instances -> BOOLEAN]
  BY DEF TypeOK, daemonVars, DaemonStep, Daemonize, TruncatePidFile, WritePid, SetupSignals,
         LoadConfig, InitLogger, StartThread, StartFails, Rollback, RolledBack, LeaveLoop,
         FinalizeThread, DestroyLogger, Crash
<1>4. signalled' \in [Instances -> BOOLEAN] /\ enabled' \in [Instances -> BOOLEAN]
  BY DEF TypeOK, daemonVars, DaemonStep, Daemonize, TruncatePidFile, WritePid, SetupSignals,
         LoadConfig, InitLogger, StartThread, StartFails, Rollback, RolledBack, LeaveLoop,
         FinalizeThread, DestroyLogger, Crash
<1>5. threads' \in [Instances -> [Table -> {"none", "live", "joined"}]]
  <2>0. threads \in [Instances -> [Table -> {"none", "live", "joined"}]]
    BY DEF TypeOK
  <2>1. CASE StartThread(p) \/ Crash(p)
    <3>1. \/ threads' = [threads EXCEPT ![p][next[p]] = "live"]
          \/ threads' = [threads EXCEPT ![p] = [i \in Table |-> "none"]]
      BY <2>1 DEF StartThread, Crash
    <3> QED  BY <2>0, <3>1
  <2>2. CASE Rollback(p) \/ FinalizeThread(p)
    <3>1. PICK i : StopThread(p, i)
      BY <2>2 DEF Rollback, FinalizeThread
    <3> QED  BY <2>0, <3>1 DEF StopThread
  <2>3. CASE threads' = threads
    BY <2>0, <2>3
  <2> QED
    BY <2>1, <2>2, <2>3
       DEF daemonVars, DaemonStep, Daemonize, TruncatePidFile, WritePid, SetupSignals,
           LoadConfig, InitLogger, StartFails, RolledBack, LeaveLoop, DestroyLogger
<1>6. next' \in [Instances -> 0 .. NumThreads]
  <2> USE NettoAssumption
  <2>1. CASE StartThread(p)
    <3>1. next[p] \in 0 .. (NumThreads - 1)
      BY <2>1 DEF StartThread, ThreadsJoined, Joined, Table
    <3>2. next[p] + 1 \in 0 .. NumThreads
      BY <3>1
    <3> QED  BY <2>1, <3>2 DEF StartThread, TypeOK
  <2>2. CASE FinalizeThread(p)
    <3>1. next[p] \in 0 .. NumThreads /\ next[p] > 0
      BY <2>2 DEF FinalizeThread, TypeOK
    <3>2. next[p] - 1 \in 0 .. NumThreads
      BY <3>1
    <3> QED  BY <2>2, <3>2 DEF FinalizeThread, TypeOK
  <2>3. CASE InitLogger(p) \/ LeaveLoop(p) \/ Crash(p)
    <3>1. 0 \in 0 .. NumThreads /\ NumThreads \in 0 .. NumThreads
      OBVIOUS
    <3>2. next' = [next EXCEPT ![p] = 0] \/ next' = [next EXCEPT ![p] = NumThreads]
      BY <2>3 DEF InitLogger, LeaveLoop, Crash
    <3> QED  BY <3>1, <3>2 DEF TypeOK
  <2>4. CASE next' = next
    BY <2>4 DEF TypeOK
  <2> QED
    BY <2>1, <2>2, <2>3, <2>4
       DEF daemonVars, DaemonStep, Daemonize, TruncatePidFile, WritePid, SetupSignals,
           LoadConfig, StartFails, Rollback, RolledBack, DestroyLogger
<1> QED  BY <1>1, <1>2, <1>3, <1>4, <1>5, <1>6 DEF TypeOK

-----------------------------------------------------------------------------
(* What a step does to the handlers, the requests and the threads. *)

(* SIGTERM or SIGINT reaches q. *)
Signalled(q) ==
  /\ UNCHANGED <<pid_file, seen, handlers, enabled, threads, next>>
  /\ \A p \in Instances : p # q =>
        pc'[p] = pc[p] /\ signalled'[p] = signalled[p] /\ running'[p] = running[p]
  /\ pc'[q] = IF Alive(q) /\ ~handlers[q] THEN "killed" ELSE pc[q]
  /\ Alive(q) /\ handlers[q] => ~running'[q]
  /\ running'[q] => running[q]
  /\ ~Alive(q) => signalled'[q] = signalled[q]

LEMMA SignalReaches ==
  ASSUME TypeOK, PidRead,
         (\E s \in Stops : Kill(s)) \/ (\E d \in Debugs : Interrupt(d))
  PROVE  \E q \in Instances : Signalled(q)
<1>0. /\ pc \in [Procs -> Labels] /\ signalled \in [Instances -> BOOLEAN]
      /\ running \in [Instances -> BOOLEAN] /\ handlers \in [Instances -> BOOLEAN]
  BY DEF TypeOK
<1>1. ASSUME NEW s \in Stops, Kill(s) PROVE Signalled(seen[s])
  <2>1. seen[s] \in Instances
    BY <1>1, Roles DEF Kill, PidRead
  <2>2. /\ UNCHANGED <<pid_file, seen, handlers, enabled, threads, next>>
        /\ signalled' = [signalled EXCEPT ![seen[s]] = @ \/ Alive(seen[s])]
        /\ running' = [running EXCEPT ![seen[s]] = @ /\ ~(Alive(seen[s]) /\ handlers[seen[s]])]
        /\ pc' = [pc EXCEPT ![s] = "exited",
                            ![seen[s]] = IF Alive(seen[s]) /\ ~handlers[seen[s]]
                                         THEN "killed" ELSE @]
    BY <1>1 DEF Kill
  <2>3. /\ \A p \in Instances : p # seen[s] => pc'[p] = pc[p]
        /\ pc'[seen[s]] = IF Alive(seen[s]) /\ ~handlers[seen[s]] THEN "killed" ELSE pc[seen[s]]
    BY <1>0, <2>1, <2>2, Roles
  <2>4. /\ \A p \in Instances : p # seen[s] =>
              signalled'[p] = signalled[p] /\ running'[p] = running[p]
        /\ running'[seen[s]] = (running[seen[s]] /\ ~(Alive(seen[s]) /\ handlers[seen[s]]))
        /\ signalled'[seen[s]] = (signalled[seen[s]] \/ Alive(seen[s]))
    BY <1>0, <2>1, <2>2, Zenon
  <2> QED  BY <1>0, <2>1, <2>2, <2>3, <2>4 DEF Signalled
<1>2. ASSUME NEW d \in Debugs, Interrupt(d) PROVE Signalled(d)
  BY <1>0, <1>2, Roles DEF Interrupt, Goto, Signalled
<1> QED
  <2>1. ASSUME NEW s \in Stops, Kill(s) PROVE seen[s] \in Instances
    BY <2>1, Roles DEF Kill, PidRead
  <2> QED  BY <1>1, <1>2, <2>1, Roles

LEMMA PidCommand ==
  ASSUME TypeOK, PidRead, NEW x \in Procs, Call(x) \/ CallFails(x) \/ CommandStep(x)
  PROVE  PidRead'
  BY Roles DEF TypeOK, PidRead, Goto, Exit, AnswerNo, CommandStep, Call, CallFails, OpenPidFile,
               ScanPid, CheckName

LEMMA PidSignal ==
  ASSUME TypeOK, PidRead,
         (\E s \in Stops : Kill(s)) \/ (\E d \in Debugs : Interrupt(d))
  PROVE  PidRead'
  BY Roles DEF TypeOK, PidRead, Goto, Kill, Interrupt

LEMMA PidDaemon ==
  ASSUME TypeOK, PidRead, NEW p \in Instances, DaemonStep(p) \/ Crash(p)
  PROVE  PidRead'
<1>1. pid_file' \in {pid_file, Empty, p} /\ seen' = seen
  BY DEF daemonVars, DaemonStep, Daemonize, TruncatePidFile, WritePid,
         SetupSignals, LoadConfig, InitLogger, StartThread, StartFails, Rollback,
         RolledBack, LeaveLoop, FinalizeThread, DestroyLogger, Crash
<1>2. /\ \A x \in Procs : x # p => pc'[x] = pc[x]
      /\ pc'[p] \notin {"scan", "comm", "kill"} \/ pc'[p] = pc[p]
  BY DaemonMoves
<1> QED  BY <1>1, <1>2, Roles DEF PidRead

(* A step of a command is about itself, and only reads the PID file. *)
LEMMA CommandMoves ==
  ASSUME TypeOK, NEW x \in Procs, Call(x) \/ CallFails(x) \/ CommandStep(x)
  PROVE  /\ UNCHANGED <<pid_file, daemonVars>>
         /\ \A y \in Procs : y # x => pc'[y] = pc[y] /\ seen'[y] = seen[y]
         /\ pc[x] \in {"new", "open", "scan", "comm"}
         /\ pc'[x] \in {"open", "scan", "comm", "kill", "fork", "truncate", "exited"}
<1>1. /\ UNCHANGED <<pid_file, daemonVars>>
      /\ pc[x] \in {"new", "open", "scan", "comm"}
      /\ \E l \in {"open", "scan", "comm", "kill", "fork", "truncate", "exited"} : Goto(x, l)
      /\ seen' = seen \/ seen' = [seen EXCEPT ![x] = pid_file]
  BY DEF Exit, AnswerNo, CommandStep, Call, CallFails, OpenPidFile, ScanPid, CheckName
<1>2. pc \in [Procs -> Labels] /\ seen \in [Procs -> Instances \cup {Absent}]
  BY DEF TypeOK
<1> QED  BY <1>1, <1>2 DEF Goto

LEMMA KeptCommand ==
  ASSUME IInv, NEW x \in Procs, Call(x) \/ CallFails(x) \/ CommandStep(x)
  PROVE  HandlersKept' /\ RequestKept' /\ ThreadsJoined'
<1>1. /\ UNCHANGED daemonVars
      /\ \A p \in Instances : p # x => pc'[p] = pc[p]
      /\ pc[x] \in {"new", "open", "scan", "comm"}
      /\ pc'[x] \in {"open", "scan", "comm", "kill", "fork", "truncate", "exited"}
  BY CommandMoves, Roles DEF IInv
<1>2. HandlersKept' /\ RequestKept'
  BY <1>1 DEF IInv, HandlersKept, RequestKept, Handling, Ended, daemonVars
<1>3. ThreadsJoined'
  BY <1>1 DEF IInv, ThreadsJoined, Joined, LiveThreads, daemonVars
<1> QED  BY <1>2, <1>3

LEMMA KeptSignal ==
  ASSUME IInv,
         (\E s \in Stops : Kill(s)) \/ (\E d \in Debugs : Interrupt(d))
  PROVE  HandlersKept' /\ RequestKept' /\ ThreadsJoined'
<1>1. PICK q \in Instances : Signalled(q)
  BY SignalReaches DEF IInv
<1>2. HandlersKept' /\ RequestKept'
  BY <1>1 DEF Signalled, IInv, HandlersKept, RequestKept, Handling, Ended, Alive
<1>3. ThreadsJoined'
  BY <1>1 DEF Signalled, IInv, ThreadsJoined, Joined, HandlersKept, Handling, LiveThreads, Ended, Alive
<1> QED  BY <1>2, <1>3

(* A step of an instance is about itself only. *)
LEMMA DaemonLocal ==
  ASSUME TypeOK, NEW p \in Instances, DaemonStep(p) \/ Crash(p),
         NEW q \in Instances, q # p
  PROVE  /\ pc'[q] = pc[q] /\ handlers'[q] = handlers[q] /\ running'[q] = running[q]
         /\ signalled'[q] = signalled[q] /\ enabled'[q] = enabled[q]
         /\ threads'[q] = threads[q] /\ next'[q] = next[q]
<1>1. pc'[q] = pc[q]
  BY DaemonMoves, Roles
<1>4. handlers'[q] = handlers[q] /\ running'[q] = running[q]
  BY DEF TypeOK, daemonVars, DaemonStep, Daemonize, TruncatePidFile, WritePid, SetupSignals,
         LoadConfig, InitLogger, StartThread, StartFails, Rollback, RolledBack, LeaveLoop,
         FinalizeThread, DestroyLogger, Crash
<1>2. signalled'[q] = signalled[q] /\ enabled'[q] = enabled[q] /\ next'[q] = next[q]
  BY DEF TypeOK, daemonVars, DaemonStep, Daemonize, TruncatePidFile, WritePid, SetupSignals,
         LoadConfig, InitLogger, StartThread, StartFails, Rollback, RolledBack, LeaveLoop,
         FinalizeThread, DestroyLogger, Crash
<1>3. threads'[q] = threads[q]
  BY DEF TypeOK, daemonVars, DaemonStep, Daemonize, TruncatePidFile, WritePid, SetupSignals,
         LoadConfig, InitLogger, StartThread, StartFails, Rollback, RolledBack, LeaveLoop,
         FinalizeThread, DestroyLogger, Crash, StopThread
<1> QED  BY <1>1, <1>2, <1>3, <1>4

LEMMA HandlersDaemon ==
  ASSUME IInv, NEW p \in Instances, DaemonStep(p) \/ Crash(p)
  PROVE  HandlersKept' /\ RequestKept'
<1>1. /\ Handling(p)' => handlers'[p]
      /\ handlers'[p] => Handling(p)' \/ pc'[p] \in Ended
  BY Roles DEF IInv, TypeOK, HandlersKept, Handling, Ended, Goto, Exit, daemonVars, DaemonStep,
               Daemonize, TruncatePidFile, WritePid, SetupSignals, LoadConfig, InitLogger,
               StartThread, StartFails, Rollback, RolledBack, LeaveLoop, FinalizeThread,
               DestroyLogger, Crash
<1>2. signalled'[p] /\ pc'[p] \notin Ended => handlers'[p] /\ ~running'[p]
  BY Roles DEF IInv, TypeOK, HandlersKept, RequestKept, Handling, Ended, Goto, Exit, daemonVars,
               DaemonStep, Daemonize, TruncatePidFile, WritePid, SetupSignals, LoadConfig,
               InitLogger, StartThread, StartFails, Rollback, RolledBack, LeaveLoop,
               FinalizeThread, DestroyLogger, Crash
<1> QED  BY <1>1, <1>2, DaemonLocal DEF IInv, HandlersKept, RequestKept, Handling

LEMMA JoinedDaemon ==
  ASSUME IInv, NEW p \in Instances, DaemonStep(p) \/ Crash(p)
  PROVE  Joined(p)'
<1>0. /\ pc \in [Procs -> Labels] /\ enabled \in [Instances -> BOOLEAN]
      /\ threads \in [Instances -> [Table -> {"none", "live", "joined"}]]
      /\ next \in [Instances -> 0 .. NumThreads]
      /\ p \in Procs /\ NumThreads \in Nat \ {0}
  BY Roles, NettoAssumption DEF IInv, TypeOK
<1>1. Joined(p)
  BY DEF IInv, ThreadsJoined
<1>a. next[p] \in Int /\ NumThreads \in Int /\ NumThreads > 0
  BY <1>0
<1>2. CASE Daemonize(p) \/ TruncatePidFile(p) \/ WritePid(p) \/ SetupSignals(p) \/ LoadConfig(p)
  <2>1. /\ UNCHANGED <<enabled, threads, next>>
        /\ pc[p] \notin {"start threads", "rollback", "run", "finalize"}
        /\ pc'[p] \notin {"start threads", "rollback", "run", "finalize"}
    BY <1>0, <1>2 DEF Goto, Exit, daemonVars, Daemonize, TruncatePidFile, WritePid, SetupSignals,
                      LoadConfig
  <2> QED  BY <1>1, <2>1 DEF Joined, LiveThreads
<1>3. CASE InitLogger(p)
  <2>1. /\ threads' = threads /\ pc[p] = "logger" /\ next'[p] = 0
        /\ \/ pc'[p] = "start threads" /\ enabled'[p]
           \/ pc'[p] = "exited"
    BY <1>0, <1>3 DEF Goto, Exit, InitLogger
  <2>2. 0 \in Table
    BY <1>a DEF Table
  <2>3. LiveThreads(p)' = {}
    BY <1>1, <2>1 DEF Joined, LiveThreads
  <2> QED  BY <2>1, <2>2, <2>3 DEF Joined
<1>4. CASE StartThread(p)
  <2>1. /\ enabled' = enabled /\ enabled[p] /\ next'[p] = next[p] + 1
        /\ next[p] \in Nat
        /\ pc'[p] = IF next[p] + 1 = NumThreads THEN "run" ELSE "start threads"
    <3>1. enabled[p] /\ next[p] \in Nat
      <4>1. pc[p] = "start threads"
        BY <1>4 DEF StartThread
      <4>2. enabled[p] /\ next[p] \in Table
        BY <1>1, <4>1 DEF Joined
      <4>3. next[p] \in Nat
        BY <4>2, <1>a DEF Table
      <4> QED  BY <4>2, <4>3
    <3> QED  BY <1>0, <1>4, <3>1 DEF Goto, StartThread
  <2>2. next[p] \in 0 .. (NumThreads - 1)
    BY <1>1, <1>4 DEF StartThread, Joined, Table
  <2>3. next[p] + 1 # NumThreads => next'[p] \in Table
    <3>1. ASSUME next[p] + 1 # NumThreads PROVE next[p] + 1 \in 0 .. (NumThreads - 1)
      BY <1>a, <2>2, <3>1
    <3> QED  BY <2>1, <3>1 DEF Table
  <2> QED  BY <2>1, <2>3 DEF Joined
<1>5. CASE StartFails(p)
  <2>1. UNCHANGED <<enabled, threads, next>> /\ pc[p] = "start threads" /\ pc'[p] = "rollback"
    BY <1>0, <1>5 DEF StartFails, Goto, daemonVars
  <2> QED  BY <1>1, <2>1 DEF Joined, LiveThreads
<1>6. CASE Rollback(p)
  <2>1. UNCHANGED <<enabled, next>> /\ pc[p] = "rollback" /\ pc'[p] = "rollback"
    BY <1>6 DEF Rollback
  <2>2. LiveThreads(p) # {}
    BY <1>6 DEF Rollback
  <2> QED  BY <1>1, <2>1, <2>2 DEF Joined
<1>7. CASE RolledBack(p)
  <2>1. threads' = threads /\ LiveThreads(p) = {} /\ pc'[p] = "run"
    BY <1>0, <1>7 DEF RolledBack, Goto
  <2> QED  BY <2>1 DEF Joined, LiveThreads
<1>8. CASE LeaveLoop(p)
  <2>1. /\ UNCHANGED <<enabled, threads>> /\ next'[p] = NumThreads
        /\ pc[p] = "run" /\ pc'[p] = "finalize"
    BY <1>0, <1>8 DEF LeaveLoop, Goto
  <2>2. \A i \in Table : i < NumThreads
    BY <1>0 DEF Table
  <2> QED  BY <1>1, <2>1, <2>2 DEF Joined, LiveThreads
<1>9. CASE FinalizeThread(p)
  <2>1. /\ enabled' = enabled /\ next'[p] = next[p] - 1
        /\ pc[p] = "finalize" /\ pc'[p] = "finalize" /\ StopThread(p, next[p] - 1)
    BY <1>0, <1>9 DEF FinalizeThread
  <2>2. LiveThreads(p)' = LiveThreads(p) \ {next[p] - 1}
    BY <1>0, <2>1 DEF LiveThreads, StopThread
  <2>3. \A i \in LiveThreads(p)' : i < next[p] - 1
    <3>1. ASSUME NEW i \in LiveThreads(p)' PROVE i < next[p] - 1
      <4>1. i < next[p] /\ i # next[p] - 1 /\ i \in 0 .. (NumThreads - 1)
        BY <1>1, <2>1, <2>2 DEF Joined, LiveThreads, Table
      <4> QED  BY <1>a, <4>1
    <3> QED  BY <3>1
  <2> QED  BY <1>1, <2>1, <2>2, <2>3 DEF Joined
<1>10. CASE DestroyLogger(p)
  <2>1. threads' = threads /\ pc[p] = "finalize" /\ next[p] = 0 /\ pc'[p] = "exited"
    BY <1>0, <1>10 DEF DestroyLogger, Exit, Goto
  <2>2. LiveThreads(p) = {}
    BY <1>0, <1>1, <2>1 DEF Joined, LiveThreads, Table
  <2> QED  BY <2>1, <2>2 DEF Joined, LiveThreads
<1>11. CASE Crash(p)
  <2>1. pc'[p] = "killed" /\ LiveThreads(p)' = {}
    BY <1>0, <1>11 DEF Crash, Goto, LiveThreads
  <2> QED  BY <2>1 DEF Joined
<1> QED
  BY <1>2, <1>3, <1>4, <1>5, <1>6, <1>7, <1>8, <1>9, <1>10, <1>11 DEF DaemonStep

LEMMA ThreadsDaemon ==
  ASSUME IInv, NEW p \in Instances, DaemonStep(p) \/ Crash(p)
  PROVE  ThreadsJoined'
<1>1. ASSUME NEW q \in Instances, q # p PROVE Joined(q)'
  <2>1. Joined(q)
    BY DEF IInv, ThreadsJoined
  <2>2. pc'[q] = pc[q] /\ enabled'[q] = enabled[q] /\ threads'[q] = threads[q] /\ next'[q] = next[q]
    BY <1>1, DaemonLocal DEF IInv
  <2> QED  BY <2>1, <2>2 DEF Joined, LiveThreads
<1> QED  BY <1>1, JoinedDaemon DEF ThreadsJoined

LEMMA InvInit == Init => IInv
<1> SUFFICES ASSUME Init PROVE IInv
  OBVIOUS
<1>1. \A p \in Instances : LiveThreads(p) = {}
  BY DEF Init, LiveThreads
<1>2. ThreadsJoined
  BY <1>1, Roles DEF Init, ThreadsJoined, Joined
<1>3. PidRead /\ HandlersKept /\ RequestKept
  BY Roles DEF Init, PidRead, HandlersKept, RequestKept, Handling
<1> QED  BY <1>2, <1>3, TypeInit DEF IInv

LEMMA InvStep == IInv /\ [Next]_vars => IInv'
<1> SUFFICES ASSUME IInv, [Next]_vars PROVE IInv'
  OBVIOUS
<1>1. CASE UNCHANGED vars
  BY <1>1 DEF vars, daemonVars, IInv, TypeOK, PidRead, HandlersKept, RequestKept, Handling,
              ThreadsJoined, Joined, LiveThreads
<1>2. ASSUME NEW x \in Procs, Call(x) \/ CallFails(x) \/ CommandStep(x) PROVE IInv'
  BY <1>2, TypeCommand, PidCommand, KeptCommand DEF IInv
<1>3. ASSUME (\E s \in Stops : Kill(s)) \/ (\E d \in Debugs : Interrupt(d)) PROVE IInv'
  BY <1>3, TypeSignal, PidSignal, KeptSignal DEF IInv
<1>4. ASSUME NEW p \in Instances, DaemonStep(p) \/ Crash(p) PROVE IInv'
  BY <1>4, TypeDaemon, PidDaemon, HandlersDaemon, ThreadsDaemon DEF IInv
<1> QED  BY <1>1, <1>2, <1>3, <1>4 DEF Next

(* The inductive invariant holds in every state. *)
THEOREM Invariance == Spec => []IInv
<1>1. Init => IInv  BY InvInit
<1> QED  BY <1>1, InvStep, PTL DEF Spec

-----------------------------------------------------------------------------
(* Commands that do not overlap. *)

(* A step by which instances only end, or go on serving, keeps it so. *)
LEMMA OneKept ==
  ASSUME OneAtATime, pid_file' = pid_file,
         \A p \in Instances :
            \/ pc'[p] = pc[p] /\ seen'[p] = seen[p]
            \/ pc'[p] \in {"exited", "killed"}
            \/ Serving(p) /\ Serving(p)'
  PROVE  OneAtATime'
<1>1. ASSUME NEW p \in Instances
      PROVE  /\ Arriving(p)' => Arriving(p)
             /\ Serving(p)' => Serving(p)
             /\ pc'[p] \in {"fork", "setsid", "fork again", "truncate", "write", "comm"}
                   => pc'[p] = pc[p] /\ seen'[p] = seen[p]
  BY <1>1 DEF Arriving, Deciding, Serving
<1> QED  BY <1>1 DEF OneAtATime

LEMMA OneCommand ==
  ASSUME NextStart = "written", IInv, OneAtATime,
         NEW x \in Procs, Call(x) \/ CallFails(x) \/ CommandStep(x)
  PROVE  OneAtATime'
<1>1. CASE x \in Stops
  <2>1. /\ pid_file' = pid_file
        /\ \A p \in Instances : pc'[p] = pc[p] /\ seen'[p] = seen[p]
    BY <1>1, CommandMoves, Roles DEF IInv
  <2> QED  BY <2>1, OneKept
<1>2. CASE x \in Instances
  <2>1. /\ pid_file' = pid_file
        /\ \A p \in Instances : p # x => pc'[p] = pc[p] /\ seen'[p] = seen[p]
    BY CommandMoves, Roles DEF IInv
  <2>2. ~Serving(x) /\ ~Serving(x)'
    BY CommandMoves DEF IInv, Serving
  <2>3. ASSUME NEW q \in Instances, Arriving(q)', Arriving(x)' PROVE q = x
    BY <1>2, <2>1, <2>3, Roles
       DEF IInv, TypeOK, OneAtATime, Goto, Exit, AnswerNo, CommandStep, Call, CallFails, MayBegin,
           OpenPidFile, ScanPid, CheckName, Arriving, Deciding
  <2>4. ASSUME NEW p \in Instances, Serving(p)
        PROVE  /\ pc'[x] \notin {"fork", "setsid", "fork again", "truncate", "write"}
               /\ pc'[x] = "comm" => seen'[x] = p
    <3>1. pid_file = p /\ pid_file # Absent /\ pid_file # Empty /\ Alive(p)
      BY <2>4, Roles DEF OneAtATime, Serving, Alive, Ended
    <3>2. pc[x] = "comm" => seen[x] = p
      BY <1>2, <2>4 DEF OneAtATime
    <3>3. /\ pc \in [Procs -> Labels] /\ seen \in [Procs -> Instances \cup {Absent}]
          /\ x \in Procs
      BY DEF IInv, TypeOK
    <3>4. CASE Call(x) \/ CallFails(x)
      BY <3>3, <3>4 DEF Call, CallFails, Goto, Exit
    <3>5. CASE OpenPidFile(x)
      BY <3>1, <3>3, <3>5 DEF OpenPidFile, Goto
    <3>6. CASE ScanPid(x)
      BY <3>1, <3>3, <3>6 DEF ScanPid, Goto
    <3>7. CASE CheckName(x)
      <4>1. Goto(x, "exited")
        BY <1>2, <3>1, <3>2, <3>7 DEF CheckName, IsNetto
      <4> QED  BY <3>3, <4>1 DEF Goto
    <3> QED  BY <3>4, <3>5, <3>6, <3>7 DEF CommandStep
  <2>5. ASSUME NEW p \in Instances, NEW q \in Instances, Arriving(p)', Arriving(q)'
        PROVE  p = q
    <3>1. CASE p # x /\ q # x
      BY <2>1, <2>5, <3>1 DEF OneAtATime, Arriving, Deciding
    <3> QED  BY <2>3, <2>5, <3>1
  <2>6. ASSUME NEW p \in Instances, Serving(p)', NEW q \in Instances
        PROVE  /\ pid_file' = p
               /\ Serving(q)' => q = p
               /\ pc'[q] \notin {"fork", "setsid", "fork again", "truncate", "write"}
               /\ pc'[q] = "comm" => seen'[q] = p
    <3>1. p # x /\ Serving(p)
      BY <2>1, <2>2, <2>6 DEF Serving
    <3>2. CASE q = x
      BY <2>1, <2>2, <2>4, <3>1, <3>2 DEF OneAtATime
    <3>3. CASE q # x
      BY <2>1, <3>1, <3>3 DEF OneAtATime, Serving
    <3> QED  BY <3>2, <3>3
  <2> QED  BY <2>5, <2>6 DEF OneAtATime
<1> QED  BY <1>1, <1>2, Roles

LEMMA OneSignal ==
  ASSUME IInv, OneAtATime,
         (\E s \in Stops : Kill(s)) \/ (\E d \in Debugs : Interrupt(d))
  PROVE  OneAtATime'
<1>1. PICK q \in Instances : Signalled(q)
  BY SignalReaches DEF IInv
<1>2. /\ pid_file' = pid_file /\ seen' = seen
      /\ \A p \in Instances : pc'[p] = pc[p] \/ pc'[p] = "killed"
  BY <1>1 DEF Signalled
<1> QED  BY <1>2, OneKept

LEMMA OneDaemonStep ==
  ASSUME IInv, OneAtATime, NEW p \in Instances, DaemonStep(p) \/ Crash(p)
  PROVE  OneAtATime'
<1>1. \A q \in Instances : q # p => pc'[q] = pc[q]
  BY DaemonLocal DEF IInv
<1>2. seen' = seen
  BY DEF daemonVars, DaemonStep, Daemonize, TruncatePidFile, WritePid, SetupSignals,
         LoadConfig, InitLogger, StartThread, StartFails, Rollback, RolledBack, LeaveLoop,
         FinalizeThread, DestroyLogger, Crash
<1>3. CASE Daemonize(p) \/ TruncatePidFile(p)
  <2>1. /\ pc[p] \in {"fork", "setsid", "fork again", "truncate"}
        /\ pc'[p] \in {"setsid", "fork again", "truncate", "write", "exited"}
    BY <1>3, Roles DEF IInv, TypeOK, Daemonize, TruncatePidFile, Goto, Exit
  <2>2. \A q \in Instances : ~Serving(q)
    BY <2>1 DEF OneAtATime
  <2> QED  BY <1>1, <1>2, <2>1, <2>2 DEF OneAtATime, Arriving, Deciding, Serving
<1>4. CASE WritePid(p)
  <2>1. pc[p] = "write" /\ pc'[p] = "signals" /\ pid_file' = p
    BY <1>4, Roles DEF IInv, TypeOK, WritePid, Goto
  <2>2. \A q \in Instances : ~Serving(q) /\ (q # p => ~Arriving(q))
    BY <2>1 DEF OneAtATime, Arriving
  <2> QED  BY <1>1, <1>2, <2>1, <2>2 DEF OneAtATime, Arriving, Deciding, Serving
<1>5. CASE ~(Daemonize(p) \/ TruncatePidFile(p) \/ WritePid(p))
  <2>1. /\ pid_file' = pid_file
        /\ \/ \E l \in {"exited", "killed"} : Goto(p, l)
           \/ /\ Serving(p)
              /\ \/ UNCHANGED pc
                 \/ \E l \in {"config", "logger", "start threads", "rollback", "run",
                              "finalize"} : Goto(p, l)
    BY <1>5 DEF Serving, Exit, daemonVars, DaemonStep, SetupSignals, LoadConfig, InitLogger,
                StartThread, StartFails, Rollback, RolledBack, LeaveLoop, FinalizeThread,
                DestroyLogger, Crash
  <2>3. p \in Procs /\ pc \in [Procs -> Labels]  BY Roles DEF IInv, TypeOK
  <2>4. pid_file' = pid_file /\ (pc'[p] \in {"exited", "killed"} \/ (Serving(p) /\ Serving(p)'))
    BY <2>1, <2>3 DEF Goto, Serving
  <2> QED  BY <1>1, <1>2, <2>4, OneKept
<1> QED  BY <1>3, <1>4, <1>5

LEMMA OneStep ==
  ASSUME NextStart = "written"
  PROVE  IInv /\ OneAtATime /\ [Next]_vars => OneAtATime'
<1> SUFFICES ASSUME IInv, OneAtATime, [Next]_vars PROVE OneAtATime'
  OBVIOUS
<1>1. CASE UNCHANGED vars
  BY <1>1 DEF vars, OneAtATime, Arriving, Deciding, Serving
<1> QED  BY <1>1, OneCommand, OneSignal, OneDaemonStep DEF Next

-----------------------------------------------------------------------------
(* Every variable keeps its type. *)
THEOREM TypeCorrect == Spec => []TypeOK
<1>1. IInv => TypeOK  BY DEF IInv
<1> QED  BY <1>1, Invariance, PTL

(* No thread outlives the logger it logs to, whatever fails, is killed or   *)
(* is interrupted (netto.c:421-438, thread_mgr.c:95-116).                  *)
THEOREM LoggerOutlives == Spec => []LoggerOutlivesThreads
<1>1. IInv => LoggerOutlivesThreads
  BY DEF IInv, ThreadsJoined, Joined, LoggerOutlivesThreads, Alive, Ended
<1> QED  BY <1>1, Invariance, PTL

(* A request to stop is never lost: an instance that was sent a signal has  *)
(* ended, or has its handlers installed and running cleared, for good       *)
(* (netto.c:249-254,373-375).                                              *)
THEOREM RequestsKept == Spec => []RequestKept
<1>1. IInv => RequestKept  BY DEF IInv
<1> QED  BY <1>1, Invariance, PTL

(* Starts that do not overlap never give two daemons (netto.c:124-129).    *)
THEOREM OneDaemonServes ==
  ASSUME NextStart = "written"
  PROVE  Spec => []OneDaemon
<1>1. Init => OneAtATime
  BY Roles DEF Init, OneAtATime, Arriving, Deciding, Serving
<1>2. OneAtATime => OneDaemon
  <2> SUFFICES ASSUME OneAtATime PROVE OneDaemon
    OBVIOUS
  <2> DEFINE S == {p \in Instances : Serving(p)}
  <2>1. CASE S = {}
    BY <2>1, FS_EmptySet DEF OneDaemon
  <2>2. CASE S # {}
    <3>1. PICK p : p \in S
      BY <2>2
    <3>2. S = {p}
      BY <3>1 DEF OneAtATime
    <3> QED  BY <3>2, FS_Singleton DEF OneDaemon
  <2> QED  BY <2>1, <2>2
<1>3. IInv /\ OneAtATime /\ [Next]_vars => OneAtATime'
  BY OneStep
<1> QED  BY <1>1, <1>2, <1>3, Invariance, PTL DEF Spec

=============================================================================
