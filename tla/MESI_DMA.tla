------------------------------ MODULE MESI_DMA ------------------------------
(***************************************************************************)
(* The DMA controller of MESI_CMP_directory-dma.sm: one request at a time, *)
(* straight to the directory.                                              *)
(***************************************************************************)
EXTENDS MESI_Network

CONSTANT NoAddr

VARIABLES
  dma,        \* the controller's state and the address it is busy with
  latest      \* latest[a]: the number of stores to a that have been performed

Init == dma = [st |-> "READY", addr |-> NoAddr, since |-> 0, got |-> 0]

\* READY takes the next request; in the busy states the queue waits.
RequestQueue(type, a) ==
  /\ dma.st = "READY"
  /\ dma' = [st |-> IF type = "DMA_READ" THEN "BUSY_RD" ELSE "BUSY_WR",
             addr |-> a, since |-> latest[a], got |-> 0]
  /\ net' = net (+) SetToBag({Request(type, DMA, Dir, a)})

\* The events of the response port that the busy states expect.
Expects(m) ==
  \/ dma.st = "BUSY_RD" /\ m.type = "DATA"
  \/ dma.st = "BUSY_WR" /\ m.type = "ACK"

\* dataCallback hands the data of the response to the DMA sequencer.
ResponseQueue ==
  \E m \in Arrived(DMA, "response") :
    /\ Expects(m)
    /\ dma' = [st |-> "READY", addr |-> NoAddr, since |-> 0,
               got |-> IF m.type = "DATA" THEN m.data ELSE 0]
    /\ net' = net (-) SetToBag({m})

\* Every event the response port can trigger has a transition.
Expected == \A m \in Arrived(DMA, "response") : Expects(m)
=============================================================================
