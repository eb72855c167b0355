----------------------- MODULE MCTimelineEventHistory -----------------------
(***************************************************************************)
(* A small instance of TimelineEventHistory: a process whose name is not   *)
(* known at first and whose upload to r grows, and another one of the same *)
(* name that downloads from s.                                             *)
(***************************************************************************)
EXTENDS TimelineSummaries

Source(pid, name, type, remote, up, down) ==
    [pid |-> pid, name |-> name, type |-> type, remote |-> remote, uploadedBytes |-> up,
     downloadedBytes |-> down, description |-> NoText]

MCSources == {Source(1, NoName, "UPLOAD_ACTIVITY", "r", 1, 0),
              Source(1, "a", "UPLOAD_ACTIVITY", "r", 2, 0),
              Source(2, "a", "DOWNLOAD_ACTIVITY", "s", 0, 2)}
=============================================================================
