--------------------------- MODULE ProcessTracker ---------------------------
(***************************************************************************)
(* process::ProcessTracker: compares each process snapshot with the        *)
(* previous one.  A snapshot is a map from PID to metadata: rows that      *)
(* repeat a PID are skipped when it is indexed.  The events of an update   *)
(* are a set, for there is at most one per PID and every consumer handles  *)
(* them PID by PID.                                                        *)
(***************************************************************************)
EXTENDS Maps

VARIABLES trackedProcesses,  \* PID -> ProcessInfo
          seeded             \* has the first snapshot been taken?

Event(type, p, info) == [type |-> type, pid |-> p, info |-> info]

Init == trackedProcesses = EmptyMap /\ seeded = FALSE

Created(snap) ==
    {Event("CREATED", p, snap[p]) : p \in DOMAIN snap \ DOMAIN trackedProcesses}

Terminated(snap) ==
    {Event("TERMINATED", p, [trackedProcesses[p] EXCEPT !.status = "TERMINATED"]) :
        p \in DOMAIN trackedProcesses \ DOMAIN snap}

\* What update returns: nothing for the first snapshot.
Changes(snap) == IF seeded THEN Created(snap) \cup Terminated(snap) ELSE {}

\* Fault: metadata of a PID that was tracked before is not refreshed.
UpdateKeepsOld(snap) ==
    /\ trackedProcesses' = [p \in DOMAIN snap |-> IF p \in DOMAIN trackedProcesses
                                                  THEN trackedProcesses[p] ELSE snap[p]]
    /\ seeded' = TRUE

update(snap) == trackedProcesses' = snap /\ seeded' = TRUE

reset == trackedProcesses' = EmptyMap /\ seeded' = FALSE
=============================================================================
