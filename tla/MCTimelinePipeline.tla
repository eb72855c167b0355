------------------------- MODULE MCTimelinePipeline -------------------------
(***************************************************************************)
(* A small instance of TimelinePipeline: one PID, used by two processes    *)
(* one after the other, with two connections to one remote endpoint and    *)
(* one to another.  Callers collect either processes and connections or    *)
(* transfers.                                                              *)
(***************************************************************************)
EXTENDS TimelinePipeline

LOCAL INSTANCE TLC

CONSTANTS c1, c2, c3, a, b

TwoNames == {a, b}
NamesAlike == Permutations(TwoNames)
ThreeConns == {c1, c2, c3}
MCPidOf == [c \in Conns |-> 1]
MCRemoteOf == [c \in Conns |-> IF c = c3 THEN "s" ELSE "r"]
MCCounters == {[sent |-> n[1], received |-> n[2]] : n \in {<<0, 0>>, <<1, 0>>, <<1, 1>>}}
MCSourceSets == {{"processes", "connections"}, {"transfers"}}
=============================================================================
