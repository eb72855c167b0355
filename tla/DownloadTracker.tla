--------------------------- MODULE DownloadTracker ---------------------------
(***************************************************************************)
(* network::DownloadTracker is UploadTracker line for line, over the       *)
(* counter of received bytes.                                              *)
(***************************************************************************)
EXTENDS SnapshotRows

CONSTANTS Keys, Names, NoName, Times, Snapshots, MaxTotal

VARIABLES activeDownloads,      \* key -> TrackedDownload
          closedDownloadStats,  \* key -> ConnectionDownloadStats
          seeded,
          session               \* history, see UploadTracker

Received == INSTANCE UploadTracker WITH
    Counter <- "received",
    activeUploads <- activeDownloads, closedUploadStats <- closedDownloadStats

vars == Received!vars

\* The same records with downloaded in place of uploaded bytes.
toStats(tracked, isActive) == Received!toStats(tracked, isActive)

activeDownloadStats == Received!activeUploadStats

update(rows, now) == Received!update(rows, now)

reset == Received!reset

Init == Received!Init

\* As for UploadTracker.
TypeOK == Received!TypeOK
=============================================================================
