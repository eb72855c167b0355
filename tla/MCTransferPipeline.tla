------------------------- MODULE MCTransferPipeline -------------------------
(***************************************************************************)
(* Small instances of TransferPipeline.                                    *)
(***************************************************************************)
EXTENDS TransferPipeline

LOCAL INSTANCE TLC

CONSTANTS t1, t2

MCTableOf == [c \in Conns |-> "tcp4"]
MCClock == {1}

\* One connection whose addresses are used again by a second socket.
OneConn == {t1}
OwnTuple == [c \in Conns |-> c]

\* Bytes in the other direction do happen, so that a swap would show.
BothWays == [sent |-> 2, received |-> 1]

\* A connection of each of two processes, on the same addresses and ports.
TwoConns == {t1, t2}
OneTuple == [c \in Conns |-> "addresses"]
SentOnly == [sent |-> 2, received |-> 0]
ConnsAlike == Permutations(TwoConns)
=============================================================================
