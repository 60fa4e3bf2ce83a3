-------------------------------- MODULE Irq --------------------------------
(***************************************************************************)
(* irq.c: the interrupt table of the C library, its controllers and the    *)
(* devices behind them.  A thread calls request_irq; an interrupt runs to   *)
(* its end between any two of its accesses to a controller register, and    *)
(* devices raise their lines at any time.  The controllers and the devices  *)
(* are external: a status bit is the line of a level device, or a latch     *)
(* that a DMA channel sets and an acknowledgement clears, and reaches the   *)
(* processor only while its enable bit is set.                             *)
(***************************************************************************)
EXTENDS Integers, Sequences, FiniteSets, SequencesExt

CONSTANTS Banks,       \* number of board registers (5 in the source)
          BankBits,    \* bits of each (32)
          CascadeBit,  \* the bit of bank 1 behind which the DMA channels are
          DmaBase,     \* LS1GP_BOARD_DMA_IRQ_BASE
          DmaHalf,     \* read channels, as many as write channels (8)
          Devices,
          IrqOf,       \* the interrupt number of each device
          BootEnable,  \* what the enable registers may hold at power-up
          MaxRaise     \* bound: how often each device raises its line

BoardIrqs == 0 .. Banks * BankBits - 1
DmaIrqs == DmaBase .. DmaBase + 2 * DmaHalf - 1
Cascade == BankBits + CascadeBit

ASSUME IrqAssumption ==
  /\ Banks \in Nat \ {0, 1} /\ BankBits \in Nat /\ CascadeBit \in 0 .. BankBits - 1
  /\ {DmaBase, DmaHalf} \subseteq Nat /\ DmaBase >= Banks * BankBits
  /\ IrqOf \in [Devices -> (BoardIrqs \ {Cascade}) \cup DmaIrqs]
  /\ Devices # {} /\ MaxRaise \in [Devices -> Nat]
  \* a DMA channel is one device
  /\ \A d, e \in Devices : IrqOf[d] = IrqOf[e] /\ IrqOf[d] \in DmaIrqs => d = e

\* A register of a controller, and the bit of it that belongs to irq.
Rd == Banks      \* rd_inten and rd_intisr
Wr == Banks + 1  \* wr_inten and wr_intisr
Registers == 0 .. Wr
Register(irq) == IF irq \in BoardIrqs THEN irq \div BankBits
                 ELSE IF irq < DmaBase + DmaHalf THEN Rd ELSE Wr
Bit_Bug(irq) == IF irq \in BoardIrqs THEN irq ELSE irq - DmaBase  \* not cut down
Bit(irq) == IF irq \in BoardIrqs THEN irq % BankBits
            ELSE (irq - DmaBase) % DmaHalf

VARIABLES booted,  \* init_IRQ has run, and Status lets interrupts in
          en,      \* int_en of the banks, rd_inten, wr_inten
          latch,   \* rd_intisr, wr_intisr
          action,  \* irq_desc[irq].action: the devices on the list
          line,    \* a device wants its handler
          raised,  \* how often it has asked for it
          thread,  \* request_irq: [pc, dev, en], en the register it has read
          ctx      \* the interrupt being handled: [pc, bank, irq, next]

vars == <<booted, en, latch, action, line, raised, thread, ctx>>
Irqs == BoardIrqs \cup DmaIrqs
IdleThread == [pc |-> "idle", dev |-> CHOOSE d \in Devices : TRUE, en |-> {}]
NoCtx == [pc |-> "none", bank |-> 0, irq |-> 0, next |-> <<>>]

IrqInit ==
  /\ booted = FALSE /\ en \in BootEnable /\ latch = [r \in {Rd, Wr} |-> {}]
  /\ action = [i \in Irqs |-> <<>>]
  /\ line = [d \in Devices |-> FALSE] /\ raised = [d \in Devices |-> 0]
  /\ thread = IdleThread /\ ctx = NoCtx

-----------------------------------------------------------------------------
\* int_isr of a bank, and the status of the DMA controller with the write
\* channels above the read channels; both as the enable bits let them through.
DmaStatus == (latch[Rd] \cap en[Rd])
             \cup {b + DmaHalf : b \in latch[Wr] \cap en[Wr]}
int_isr(n) ==
  en[n] \cap ({Bit(IrqOf[d]) : d \in {e \in Devices : /\ line[e]
                                                      /\ Register(IrqOf[e]) = n}}
              \cup IF n = 1 /\ DmaStatus # {} THEN {CascadeBit} ELSE {})
Pending == {n \in 0 .. Banks - 1 : int_isr(n) # {}}

\* The lowest bit: ffs(status) - 1.
Lowest(bits) == CHOOSE b \in bits : \A c \in bits : b <= c

Requested(d) == \E i \in Irqs : d \in ToSet(action[i])

\* A device asks for its handler, or, a level device, no longer does; a DMA
\* channel latches its status.  A device that shares its line is silent until
\* it has a handler: with the line enabled for another and nobody to satisfy
\* it, the processor would do nothing but take interrupts.
Silent(d) == /\ ~Requested(d) /\ IrqOf[d] \in BoardIrqs
             /\ \E e \in Devices \ {d} : IrqOf[e] = IrqOf[d]
Raise(d) ==
  /\ ~line[d] /\ raised[d] < MaxRaise[d] /\ ~Silent(d)
  /\ line' = [line EXCEPT ![d] = TRUE] /\ raised' = [raised EXCEPT ![d] = @ + 1]
  /\ latch' = IF IrqOf[d] \in DmaIrqs
              THEN [latch EXCEPT ![Register(IrqOf[d])] = @ \cup {Bit(IrqOf[d])}]
              ELSE latch
  /\ UNCHANGED <<booted, en, action, thread, ctx>>

Withdraw(d) ==
  /\ line[d] /\ IrqOf[d] \in BoardIrqs
  /\ line' = [line EXCEPT ![d] = FALSE]
  /\ UNCHANGED <<booted, en, latch, action, raised, thread, ctx>>

-----------------------------------------------------------------------------
\* The thread runs while no interrupt does.
mask(irq) == en' = [en EXCEPT ![Register(irq)] = @ \ {Bit(irq)}]
unmask_Bug(irq) == en' = [en EXCEPT ![Register(irq)] = {Bit(irq)}]  \* = for |=
unmask(irq) == en' = [en EXCEPT ![Register(irq)] = @ \cup {Bit(irq)}]

\* Before the last line of init_IRQ Status keeps interrupts out: one step.
\* The chip of an irq is settled here; the cascade gets an action that does
\* nothing, and its bit is enabled.  int_clr is written, int_en is not.
init_IRQ ==
  /\ ~booted /\ booted' = TRUE
  /\ action' = [action EXCEPT ![Cascade] = <<"cascade">>]
  /\ unmask(Cascade)
  /\ UNCHANGED <<latch, line, raised, thread, ctx>>

request_irq(d) ==
  /\ booted /\ ctx.pc = "none" /\ thread.pc = "idle"
  /\ ~Requested(d)
  /\ thread' = [thread EXCEPT !.pc = "setup", !.dev = d]
  /\ UNCHANGED <<booted, en, latch, action, line, raised, ctx>>

\* setup_irq: the end of the list gets the action, the first one enables irq.
setup_irq ==
  LET irq == IrqOf[thread.dev]
  IN  /\ ctx.pc = "none" /\ thread.pc = "setup"
      /\ action' = [action EXCEPT ![irq] = Append(@, thread.dev)]
      /\ thread' = IF action[irq] = <<>> THEN [thread EXCEPT !.pc = "read"]
                   ELSE IdleThread
      /\ UNCHANGED <<booted, en, latch, line, raised, ctx>>

\* startup, enable, unmask: read the register, and write it with one bit more.
ReadEnable ==
  /\ ctx.pc = "none" /\ thread.pc = "read"
  /\ thread' = [thread EXCEPT !.pc = "write",
                              !.en = en[Register(IrqOf[thread.dev])]]
  /\ UNCHANGED <<booted, en, latch, action, line, raised, ctx>>

WriteEnable ==
  /\ ctx.pc = "none" /\ thread.pc = "write"
  /\ en' = [en EXCEPT ![Register(IrqOf[thread.dev])] =
              thread.en \cup {Bit(IrqOf[thread.dev])}]
  /\ thread' = IdleThread
  /\ UNCHANGED <<booted, latch, action, line, raised, ctx>>

-----------------------------------------------------------------------------
\* The interrupt runs with the others held off, to its end.
In(pc) == ctx.pc = pc /\ UNCHANGED <<booted, raised, thread>>

\* The processor enters the handler.
TakeInterrupt ==
  /\ booted /\ In("none") /\ Pending # {}
  /\ ctx' = [NoCtx EXCEPT !.pc = "cause"] /\ UNCHANGED <<en, latch, action, line>>

\* Cause is read; the lowest bank asks first, unless all lines have gone again.
plat_irq_dispatch ==
  /\ In("cause")
  /\ ctx' = IF Pending = {} THEN NoCtx
            ELSE [ctx EXCEPT !.pc = "bank", !.bank = Lowest(Pending)]
  /\ UNCHANGED <<en, latch, action, line>>

\* The order in which handle_level_irq works; it begins by masking.
Flow_Bug == [mask |-> "handler", handler |-> "ack", ack |-> "unmask"]
Flow == [mask |-> "ack", ack |-> "handler", handler |-> "unmask"]
Level(irq) == [ctx EXCEPT !.pc = "mask", !.irq = irq]

\* The number of a bit of a bank; ffs counts bits from 1.
IrqNumber_Bug(n, b) == n * BankBits + b + 1
IrqNumber(n, b) == n * BankBits + b

\* The line may have gone by now; DMA channels ask through a bit of bank 1.
ls1b_board_hw_irqdispatch ==
  LET bits == int_isr(ctx.bank)
      b == Lowest(bits)
  IN  /\ In("bank")
      /\ ctx' = IF bits = {} THEN NoCtx
                ELSE IF ctx.bank = 1 /\ b = CascadeBit
                THEN [ctx EXCEPT !.pc = "dma"]
                ELSE Level(IrqNumber(ctx.bank, b))
      /\ UNCHANGED <<en, latch, action, line>>

ls1gp_board_dma_irqdispatch ==
  /\ In("dma")
  /\ ctx' = IF DmaStatus = {} THEN NoCtx
            ELSE Level(DmaBase + Lowest(DmaStatus))
  /\ UNCHANGED <<en, latch, action, line>>

Mask ==
  /\ In("mask") /\ mask(ctx.irq)
  /\ ctx' = [ctx EXCEPT !.pc = Flow["mask"], !.next = action[ctx.irq]]
  /\ UNCHANGED <<latch, action, line>>

\* The acknowledgement clears a latch; the line of a level device stays.
Ack ==
  /\ In("ack")
  /\ latch' = IF ctx.irq \in DmaIrqs
              THEN [latch EXCEPT ![Register(ctx.irq)] = @ \ {Bit(ctx.irq)}]
              ELSE latch
  /\ ctx' = [ctx EXCEPT !.pc = Flow["ack"]]
  /\ UNCHANGED <<en, action, line>>

\* handle_IRQ_event: a turn of its loop; the handler satisfies its device.
Following_Bug(list) == <<>>  \* the list is not walked
Following(list) == Tail(list)
handle_IRQ_event ==
  /\ In("handler")
  /\ line' = IF Head(ctx.next) \in Devices
             THEN [line EXCEPT ![Head(ctx.next)] = FALSE] ELSE line
  /\ ctx' = LET rest == Following(ctx.next)
            IN  [ctx EXCEPT !.next = rest,
                            !.pc = IF rest = <<>> THEN Flow["handler"] ELSE @]
  /\ UNCHANGED <<en, latch, action>>

Unmask ==
  /\ In("unmask") /\ unmask(ctx.irq) /\ ctx' = NoCtx
  /\ UNCHANGED <<latch, action, line>>

Interrupt == \/ TakeInterrupt \/ plat_irq_dispatch \/ ls1b_board_hw_irqdispatch
             \/ ls1gp_board_dma_irqdispatch
             \/ Mask \/ Ack \/ handle_IRQ_event \/ Unmask
Thread == init_IRQ \/ setup_irq \/ ReadEnable \/ WriteEnable
IrqNext == \/ \E d \in Devices : Raise(d) \/ Withdraw(d) \/ request_irq(d)
           \/ Thread \/ Interrupt

\* The processor takes a pending interrupt, and goes on with what it does.
IrqSpec == IrqInit /\ [][IrqNext]_vars /\ WF_vars(Interrupt) /\ WF_vars(Thread)

-----------------------------------------------------------------------------
IrqTypeOK ==
  /\ booted \in BOOLEAN
  /\ \A r \in Registers : en[r] \subseteq 0 .. IF r \in {Rd, Wr}
                                               THEN DmaHalf - 1 ELSE BankBits - 1
  /\ \A r \in {Rd, Wr} : latch[r] \subseteq 0 .. DmaHalf - 1
  /\ \A i \in Irqs : ToSet(action[i]) \subseteq Devices \cup {"cascade"}
  /\ line \in [Devices -> BOOLEAN] /\ \A d \in Devices : raised[d] \in 0 .. MaxRaise[d]
  /\ thread.pc \in {"idle", "setup", "read", "write"}
  /\ ctx.pc \in {"none", "cause", "bank", "dma", "mask", "ack", "handler",
                "unmask"}
  /\ ctx.irq \in Irqs /\ ctx.bank \in 0 .. Banks - 1

(* handle_IRQ_event takes the first action before it tests for one: an irq  *)
(* that reaches the processor has been requested, and its number is one of   *)
(* the table (IrqTypeOK).                                                   *)
ActionFound == IrqTypeOK /\ (ctx.pc = "handler" => ctx.next # <<>>)

(* Between calls, exactly what has been requested is enabled: no interrupt  *)
(* in the middle of the read-modify-write of an enable register, and no     *)
(* masking by a handler, leaves a bit lost or a bit too many.              *)
EnableKept ==
  booted /\ thread.pc = "idle" /\ ctx.pc = "none" =>
    \A i \in Irqs : Bit(i) \in en[Register(i)] <=> action[i] # <<>>

(* A DMA channel that has finished is in its status register until a        *)
(* handler that will see it is on its way: it is acknowledged first, so a   *)
(* transfer that ends while the handler runs is latched again.             *)
DmaKept ==
  \A d \in Devices :
    line[d] /\ IrqOf[d] \in DmaIrqs =>
      \/ Bit(IrqOf[d]) \in latch[Register(IrqOf[d])]
      \/ ctx.pc = "handler" /\ d \in ToSet(ctx.next)

(* A device with a handler is served, also one that shares its number with  *)
(* others, and one behind the cascade.                                      *)
Served == \A d \in Devices : (line[d] /\ Requested(d)) ~> ~line[d]
=============================================================================
