-------------------------- MODULE TransferPipeline --------------------------
(***************************************************************************)
(* NetworkMonitor feeding a transfer tracker, as in the polling loops of   *)
(* docs/UPLOAD_TRACKING.md and docs/DOWNLOAD_TRACKING.md: collect a        *)
(* transfer snapshot, hand it to the tracker, wait, repeat.  Counter       *)
(* selects the tracker: "sent" is UploadTracker, "received" is             *)
(* DownloadTracker.  The question is whether the totals shown to the user  *)
(* are bytes that were really moved.                                       *)
(***************************************************************************)
EXTENDS NetworkMonitor, Functions

CONSTANT Counter

ASSUME CounterAssumption == Counter \in Directions

\* The trackers are fed by getConnectionTransferSnapshots.
ASSUME PollsTransfers == "transfers" \in Kinds

VARIABLES uploads,        \* activeUploads_
          closedUploads,  \* closedUploadStats_
          seeded,
          session,        \* history kept by the tracker module
          credited        \* history: bytes ever counted for a connection

trackerVars == <<uploads, closedUploads, seeded, session, credited>>
vars == <<monitorVars, trackerVars>>

Tracker == INSTANCE UploadTracker WITH
    Keys <- Conns, Names <- {NoName}, Times <- Clock, Snapshots <- {}, MaxTotal <- 0,
    activeUploads <- uploads, closedUploadStats <- closedUploads

Init == MonitorInit /\ Tracker!Init /\ credited = [c \in Conns |-> 0]

Environment == OsStep /\ UNCHANGED trackerVars

Collect == CollectStep /\ UNCHANGED trackerVars

Poll == Begin("transfers") /\ UNCHANGED trackerVars

\* Bytes the tracker adds for c when it is given the collected rows.
Gain(c) == IF c \in DOMAIN result \cap DOMAIN uploads
           THEN computeDelta(uploads[c].baseline, result[c].bytes[Counter])
           ELSE 0

\* update() with the rows just collected.  They have distinct keys, so they
\* are their own index by key.
Deliver ==
    /\ Return
    /\ Tracker!Apply(result, now)
    /\ credited' = [c \in Conns |-> credited[c] + Gain(c)]

\* The caller resets the tracker between two polls.
ResetTracker ==
    /\ phase = "idle"
    /\ Tracker!reset
    /\ UNCHANGED <<monitorVars, credited>>

Next == Environment \/ Collect \/ Poll \/ Deliver \/ ResetTracker

Spec == Init /\ [][Next]_vars

\* The polling loop runs on; the operating system promises nothing.
LiveSpec == Spec /\ WF_vars(Collect) /\ WF_vars(Poll) /\ WF_vars(Deliver)

-----------------------------------------------------------------------------
\* Every variable has its type; no total is negative.
TypeOK == MonitorTypeOK /\ Tracker!TypeOK /\ credited \in [Conns -> Nat]

\* The bytes counted for a connection, over all the sockets that ever had its
\* addresses and all the sessions the tracker saw, never exceed the bytes it
\* really moved, and no published total exceeds what was counted: stale rows,
\* sockets replaced between two polls or between a row and its counter, failed
\* tables and resets may lose bytes but never invent one (UploadTracker::update
\* and computeDelta over NetworkMonitor::getConnectionTransferSnapshots).
NeverOvercounts ==
    \A c \in Conns :
        /\ credited[c] <= traffic[c][Counter]
        /\ c \in DOMAIN uploads => uploads[c].cumulative <= credited[c]
        /\ c \in DOMAIN closedUploads => closedUploads[c].uploadedBytes <= credited[c]

\* A connection that was open during a whole collection in which its table was
\* read is tracked when the rows have been delivered, and one that was not open
\* at any time is not.
TrackedMeansSeen ==
    [][phase = "done" /\ phase' = "idle" =>
         /\ DOMAIN uploads' \subseteq seenOpen
         /\ {c \in openThroughout : TableOf[c] \notin failedTables} \subseteq DOMAIN uploads']_vars

\* A connection that is gone for good is eventually closed in the tracker.
GoneEventuallyClosed ==
    \A c \in Conns : <>[]~IsOpen(c) => <>[](c \notin DOMAIN uploads)

\* A connection that stays established is again and again tracked with its
\* present counter, so bytes that keep out of one poll are in a later one; all
\* it takes is that its table can be read time and again.
EventuallyCaughtUp ==
    \A c \in Conns :
        (/\ <>[](sockets[c].state = "ESTABLISHED")
         /\ []<>(phase = "done" /\ TableOf[c] \notin failedTables))
            => []<>(/\ c \in DOMAIN uploads
                    /\ uploads[c].baseline = sockets[c].bytes[Counter])

-----------------------------------------------------------------------------
(* Several connections may have the same addresses and ports: when a       *)
(* process closes its socket, another process may bind the ports again.    *)
(* A connection's key has the PID in it, ESTATS do not, so the row of one  *)
(* process may be completed with the counters of another.                  *)

At(tuple) == {c \in Conns : TupleOf[c] = tuple}

\* Bytes may be counted for the wrong process, but they are not invented: what
\* was counted for all the connections that ever had the same addresses and
\* ports never exceeds what they moved together, and neither do the totals
\* shown for those of them that are open (UploadTracker::update over
\* readTcp4Estats, which looks a socket up without its PID).
AddressesNeverOvercounted ==
    \A c \in Conns :
        LET conns == At(TupleOf[c])
            counted == [d \in conns |-> credited[d]]
            moved == [d \in conns |-> traffic[d][Counter]]
            shown == [d \in conns |-> IF d \in DOMAIN uploads THEN uploads[d].cumulative ELSE 0]
        IN  /\ SumFunction(counted) <= SumFunction(moved)
            /\ SumFunction(shown) <= SumFunction(counted)

\* It takes a socket that is replaced while the collection runs: the row of a
\* connection that was open throughout shows counters of its own, and no more
\* than they stand at when the rows are delivered.
OwnCountersUnlessReplaced ==
    phase = "done" =>
        \A c \in openThroughout \cap DOMAIN result, d \in Directions :
            result[c].bytes[d] <= sockets[c].bytes[d]
=============================================================================
