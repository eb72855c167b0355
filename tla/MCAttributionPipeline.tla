----------------------- MODULE MCAttributionPipeline -----------------------
(***************************************************************************)
(* Small instances of AttributionPipeline: two PIDs, each used twice.      *)
(***************************************************************************)
EXTENDS AttributionPipeline

CONSTANTS c1, c2

MCConns == {c1, c2}
MCPidOf == [c \in MCConns |-> IF c = c1 THEN 1 ELSE 2]
=============================================================================
