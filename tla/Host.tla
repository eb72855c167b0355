-------------------------------- MODULE Host --------------------------------
(***************************************************************************)
(* The processes of the monitored host: they start and exit, and PIDs are  *)
(* used again.  External to the engine, which sees them through            *)
(* ProcessMonitor::getActiveProcesses.                                     *)
(***************************************************************************)
EXTENDS Naturals, FiniteSets

CONSTANTS Pids,         \* process IDs
          ProcNames,    \* executable names
          NoName,       \* the empty name
          MaxStarts     \* bound: processes started per PID

ASSUME HostAssumption ==
    /\ Pids \subseteq Nat /\ IsFiniteSet(Pids)
    /\ NoName \notin ProcNames
    /\ MaxStarts \in Nat

VARIABLES running,   \* PID -> name of the process that runs, or NoName
          starts     \* PID -> processes started so far; numbers them

hostVars == <<running, starts>>

HostInit ==
    /\ running = [p \in Pids |-> NoName]
    /\ starts = [p \in Pids |-> 0]

StartProcess(p, n) ==
    /\ running[p] = NoName
    /\ starts[p] < MaxStarts
    /\ running' = [running EXCEPT ![p] = n]
    /\ starts' = [starts EXCEPT ![p] = @ + 1]

ExitProcess(p) ==
    /\ running[p] # NoName
    /\ running' = [running EXCEPT ![p] = NoName]
    /\ UNCHANGED starts

HostStep ==
    \E p \in Pids : ExitProcess(p) \/ \E n \in ProcNames : StartProcess(p, n)

\* ProcessMonitor::getActiveProcesses: one Toolhelp snapshot, which lists each
\* PID once.  The list has the PIDs reached: none if the snapshot fails, some
\* if Process32Next fails half way.
getActiveProcesses(reached) ==
    [p \in {q \in reached : running[q] # NoName} |->
        [name |-> running[p], status |-> "RUNNING"]]
=============================================================================
