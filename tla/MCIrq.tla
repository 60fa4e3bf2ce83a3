------------------------------- MODULE MCIrq -------------------------------
(***************************************************************************)
(* Two banks of two bits, the cascade on the upper bit of bank 1, one read  *)
(* and one write DMA channel.  Two devices share a line of bank 0, a third  *)
(* is beside the cascade.                                                  *)
(***************************************************************************)
EXTENDS IrqProofs, TLC

CONSTANTS uart, mouse, key, rx, tx
MCIrqOf == (uart :> 1) @@ (mouse :> 1) @@ (key :> 2) @@ (rx :> 4) @@ (tx :> 5)
MCMaxRaise == [d \in {uart, mouse, key, tx} |-> 1] @@ [d \in {rx} |-> 2]
Off == [r \in Registers |-> {}]
MCReset == {Off}                                    \* nothing is enabled
=============================================================================
