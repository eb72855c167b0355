--------------------------- MODULE TimelineQuery ---------------------------
(***************************************************************************)
(* process::TimelineQuery: lookups in the events it was constructed with.  *)
(* They are pure, so the events are a parameter here.  So are the          *)
(* timelines of process::ProcessTimelineBuilder: build() starts from       *)
(* reset() and computes them from nothing but the events it is given.      *)
(***************************************************************************)
EXTENDS TimelineOrder

byProcessId(events, pid) ==
    StableSort(Selected(events, {i \in DOMAIN events : events[i].pid = pid}))

byProcessName(events, name) ==
    StableSort(Selected(events, {i \in DOMAIN events : events[i].name = name}))

byEventType(events, type) ==
    StableSort(Selected(events, {i \in DOMAIN events : events[i].type = type}))

recent(events, count) ==
    IF count = 0 THEN StableSort(events) ELSE Newest(StableSort(events), count)

-----------------------------------------------------------------------------
(* ProcessTimelineBuilder.                                                 *)

globalTimeline(events) == StableSort(events)

processTimelines(events) ==
    LET timeline == globalTimeline(events)
    IN  [pid \in {events[i].pid : i \in DOMAIN events} |->
            Selected(timeline, {i \in DOMAIN timeline : timeline[i].pid = pid})]

getProcessTimeline(events, pid) ==
    IF pid \in DOMAIN processTimelines(events) THEN processTimelines(events)[pid] ELSE <<>>
=============================================================================
