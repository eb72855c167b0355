------------------------ MODULE MCConnectionPipeline ------------------------
(***************************************************************************)
(* Small instances of ConnectionPipeline: two endpoints, in a table each,  *)
(* so that one can fail without the other, or in one table, so that each   *)
(* can make the other's buffer too small; one or two handlers.             *)
(***************************************************************************)
EXTENDS ConnectionPipeline

CONSTANTS u1, u2, h1, h2

TwoConns == {u1, u2}
OneHandler == {h1}
TwoHandlers == {h1, h2}
TableEach == [c \in Conns |-> IF c = u1 THEN "udp4" ELSE "udp6"]
OneTable == [c \in Conns |-> "udp4"]
MCTupleOf == [c \in Conns |-> c]
MCClock == {1}
NoBytes == [d \in Directions |-> 0]
=============================================================================
