-------------------------- MODULE TransferTrackers --------------------------
(***************************************************************************)
(* The three transfer trackers side by side, as in the runtime integration *)
(* of docs/TRANSFER_RATE.md: each poll hands the same snapshot to          *)
(* UploadTracker, DownloadTracker and TransferRateTracker.  The three      *)
(* count independently; nothing in the code reconciles them.               *)
(***************************************************************************)
EXTENDS TransferRateTracker

VARIABLES activeUploads, closedUploadStats, uploadSeeded, uploadSession,
          activeDownloads, closedDownloadStats, downloadSeeded, downloadSession

uploadVars == <<activeUploads, closedUploadStats, uploadSeeded, uploadSession>>
downloadVars == <<activeDownloads, closedDownloadStats, downloadSeeded, downloadSession>>
allVars == <<vars, uploadVars, downloadVars>>

Upload == INSTANCE UploadTracker WITH
    Counter <- "sent", seeded <- uploadSeeded, session <- uploadSession

Download == INSTANCE DownloadTracker WITH
    seeded <- downloadSeeded, session <- downloadSession

TrackersInit == Init /\ Upload!Init /\ Download!Init

\* One poll: the trackers are updated one after the other in one thread, each
\* reading the clock for itself.
UpdateAll(rows) ==
    /\ \E t \in Times : Upload!update(rows, t)
    /\ \E t \in Times : Download!update(rows, t)
    /\ \E t \in Times : update(rows, t)

ResetAll == reset /\ Upload!reset /\ Download!reset

TrackersNext ==
    \/ \E rows \in Snapshots : UpdateAll(rows) /\ TotalsBounded'
    \/ ResetAll

TrackersSpec == TrackersInit /\ [][TrackersNext]_allVars

-----------------------------------------------------------------------------
\* The three trackers agree on which connections are active and closed, and on
\* the bytes of each ("from the same snapshots", NETWORK_MONITOR_ARCHITECTURE
\* .md:452), although each keeps its own baselines and its own seeding.
TrackersAgree ==
    /\ DOMAIN activeUploads = DOMAIN activeTransfers
    /\ DOMAIN activeDownloads = DOMAIN activeTransfers
    /\ \A k \in DOMAIN activeTransfers :
          /\ activeUploads[k].cumulative = activeTransfers[k].cumulative["sent"]
          /\ activeDownloads[k].cumulative = activeTransfers[k].cumulative["received"]
    /\ DOMAIN closedUploadStats = DOMAIN closedConnectionStats
    /\ DOMAIN closedDownloadStats = DOMAIN closedConnectionStats
    /\ \A k \in DOMAIN closedConnectionStats :
          /\ closedUploadStats[k].uploadedBytes = closedConnectionStats[k].bytes["sent"]
          /\ closedDownloadStats[k].uploadedBytes = closedConnectionStats[k].bytes["received"]
=============================================================================
