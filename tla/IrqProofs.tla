----------------------------- MODULE IrqProofs -----------------------------
(***************************************************************************)
(* The interrupt table for any number of banks, bits, channels and devices: *)
(* the enable bits and the actions agree, and an interrupt finds an action. *)
(* What makes this inductive is the bit a handler has masked, and the word   *)
(* request_irq has read but not yet written back.                          *)
(***************************************************************************)
EXTENDS Irq, WellFoundedInduction, TLAPS

\* The boot code leaves nothing enabled: init_IRQ itself does not see to it.
ASSUME BootAssumption == BootEnable \subseteq {[r \in Registers |-> {}]}

-----------------------------------------------------------------------------
\* Numbers, registers and bits.
Width(r) == IF r \in {Rd, Wr} THEN DmaHalf ELSE BankBits

LEMMA Constants ==
  /\ Banks \in Nat /\ Banks > 1 /\ BankBits \in Nat \ {0}
  /\ CascadeBit \in 0 .. BankBits - 1 /\ DmaBase \in Nat /\ DmaHalf \in Nat
  /\ Banks * BankBits \in Nat /\ Banks * BankBits <= DmaBase
<1>1. CascadeBit \in 0 .. BankBits - 1 /\ Banks \in Nat \ {0, 1} /\ BankBits \in Nat
  BY IrqAssumption
<1>2. BankBits > 0
  BY <1>1
<1> QED BY <1>1, <1>2, IrqAssumption

\* The number of a bit of a bank is the number of that bit of that bank.
LEMMA BoardNumber ==
  ASSUME NEW n \in 0 .. Banks - 1, NEW b \in 0 .. BankBits - 1
  PROVE  /\ IrqNumber(n, b) \in BoardIrqs
         /\ Register(IrqNumber(n, b)) = n /\ Bit(IrqNumber(n, b)) = b
<1> DEFINE i == n * BankBits + b
<1>1. i \in 0 .. Banks * BankBits - 1
  BY Constants
<1>2. i \div BankBits = n /\ i % BankBits = b
  BY Constants
<1> QED BY <1>1, <1>2 DEF BoardIrqs, Register, Bit, IrqNumber

LEMMA DmaNumber ==
  ASSUME NEW b \in 0 .. 2 * DmaHalf - 1
  PROVE  /\ DmaBase + b \in DmaIrqs \ BoardIrqs
         /\ Register(DmaBase + b) = IF b < DmaHalf THEN Rd ELSE Wr
         /\ Bit(DmaBase + b) = IF b < DmaHalf THEN b ELSE b - DmaHalf
<1>1. DmaBase + b \in DmaIrqs \ BoardIrqs
  BY Constants DEF DmaIrqs, BoardIrqs
<1>2. Register(DmaBase + b) = IF b < DmaHalf THEN Rd ELSE Wr
  BY <1>1, Constants DEF Register
<1>3. Bit(DmaBase + b) = b % DmaHalf
  BY <1>1, Constants DEF Bit
<1>4. b % DmaHalf = IF b < DmaHalf THEN b ELSE b - DmaHalf
  BY Constants
<1> QED BY <1>1, <1>2, <1>3, <1>4

\* Every number of the table is one of the two.
LEMMA Numbers ==
  ASSUME NEW i \in Irqs
  PROVE  \/ \E n \in 0 .. Banks - 1, b \in 0 .. BankBits - 1 : i = IrqNumber(n, b)
         \/ \E b \in 0 .. 2 * DmaHalf - 1 : i = DmaBase + b
<1>1. CASE i \in BoardIrqs
  <2>1. i \in Nat /\ i < Banks * BankBits
    BY <1>1, Constants DEF BoardIrqs
  <2>2. i = (i \div BankBits) * BankBits + (i % BankBits)
    BY <2>1, Constants
  <2>3. i % BankBits \in 0 .. BankBits - 1 /\ i \div BankBits \in 0 .. Banks - 1
    BY <2>1, Constants
  <2> QED BY <2>2, <2>3 DEF IrqNumber
<1>2. CASE i \in DmaIrqs
  <2>1. i - DmaBase \in 0 .. 2 * DmaHalf - 1 /\ i = DmaBase + (i - DmaBase)
    BY <1>2, Constants DEF DmaIrqs
  <2> QED BY <2>1
<1> QED BY <1>1, <1>2 DEF Irqs

LEMMA Places ==
  ASSUME NEW i \in Irqs
  PROVE  Register(i) \in Registers /\ Bit(i) \in 0 .. Width(Register(i)) - 1
<1>1. CASE \E n \in 0 .. Banks - 1, b \in 0 .. BankBits - 1 : i = IrqNumber(n, b)
  <2>1. PICK n \in 0 .. Banks - 1, b \in 0 .. BankBits - 1 : i = IrqNumber(n, b)
    BY <1>1
  <2>2. Register(i) = n /\ Bit(i) = b
    BY <2>1, BoardNumber
  <2>3. n \in Registers /\ Width(n) = BankBits
    BY Constants DEF Registers, Width, Rd, Wr
  <2> QED BY <2>2, <2>3
<1>2. CASE \E b \in 0 .. 2 * DmaHalf - 1 : i = DmaBase + b
  <2>1. PICK b \in 0 .. 2 * DmaHalf - 1 : i = DmaBase + b
    BY <1>2
  <2>2. /\ Register(i) = IF b < DmaHalf THEN Rd ELSE Wr
        /\ Bit(i) = IF b < DmaHalf THEN b ELSE b - DmaHalf
    BY <2>1, DmaNumber
  <2>3. Register(i) \in {Rd, Wr} /\ Bit(i) \in 0 .. DmaHalf - 1
    BY <2>2, Constants
  <2>4. {Rd, Wr} \subseteq Registers
    BY Constants DEF Registers, Rd, Wr
  <2> QED BY <2>3, <2>4 DEF Width
<1> QED BY <1>1, <1>2, Numbers

\* No two numbers share a bit.
LEMMA Distinct ==
  ASSUME NEW i \in Irqs, NEW j \in Irqs, Register(i) = Register(j), Bit(i) = Bit(j)
  PROVE  i = j
<1>1. ASSUME NEW k \in Irqs
      PROVE  \/ /\ Register(k) \in 0 .. Banks - 1
                /\ k = Register(k) * BankBits + Bit(k)
             \/ Register(k) = Rd /\ k = DmaBase + Bit(k)
             \/ Register(k) = Wr /\ k = DmaBase + DmaHalf + Bit(k)
  <2>1. CASE \E n \in 0 .. Banks - 1, b \in 0 .. BankBits - 1 : k = IrqNumber(n, b)
    BY <2>1, BoardNumber DEF IrqNumber
  <2>2. CASE \E b \in 0 .. 2 * DmaHalf - 1 : k = DmaBase + b
    <3>1. PICK b \in 0 .. 2 * DmaHalf - 1 : k = DmaBase + b
      BY <2>2
    <3>2. /\ Register(k) = IF b < DmaHalf THEN Rd ELSE Wr
          /\ Bit(k) = IF b < DmaHalf THEN b ELSE b - DmaHalf
      BY <3>1, DmaNumber
    <3> QED BY <3>1, <3>2, Constants
  <2> QED BY <2>1, <2>2, Numbers
<1>2. Rd \notin 0 .. Banks - 1 /\ Wr \notin 0 .. Banks - 1 /\ Rd # Wr
  BY Constants DEF Rd, Wr
<1> QED BY <1>1, <1>2

LEMMA CascadePlace == Cascade \in Irqs /\ Register(Cascade) = 1 /\ Bit(Cascade) = CascadeBit
<1>1. 1 \in 0 .. Banks - 1 /\ CascadeBit \in 0 .. BankBits - 1
  BY Constants
<1>2. IrqNumber(1, CascadeBit) = Cascade
  BY Constants DEF IrqNumber, Cascade
<1> QED BY <1>1, <1>2, BoardNumber DEF Irqs

\* ffs finds a bit of a status that is not 0.
LEMMA LowestIsIn ==
  ASSUME NEW S \in SUBSET Nat, S # {}
  PROVE  Lowest(S) \in S
<1> DEFINE R == {ss \in Nat \X Nat : ss[1] < ss[2]}
<1>0. IsWellFoundedOn(R, Nat)
  <2>1. R = OpToRel(<, Nat)
    BY Zenon DEF OpToRel
  <2> QED BY <2>1, NatLessThanWellFounded
<1>1. PICK x \in S : \A y \in S : ~(<<y, x>> \in R)
  <2> HIDE DEF R
  <2> QED BY <1>0, WFMin
<1>2. ASSUME NEW y \in S
      PROVE  x <= y
  <2>1. <<y, x>> \notin R
    BY <1>1
  <2>2. ~(y < x)
    BY <2>1
  <2> QED BY <2>2
<1> QED BY <1>2 DEF Lowest

-----------------------------------------------------------------------------
Action == Devices \cup {"cascade"}
Masked == {"ack", "handler", "unmask"}
ThreadPc == {"idle", "setup", "read", "write"}
CtxPc == {"none", "cause", "bank", "dma", "mask", "ack", "handler", "unmask"}
Asked(i) == thread.pc \in {"read", "write"} /\ IrqOf[thread.dev] = i
MaskedNow(i) == ctx.pc \in Masked /\ ctx.irq = i

Types ==
  /\ booted \in BOOLEAN
  /\ en \in [Registers -> SUBSET Nat]
  /\ \A r \in Registers : en[r] \subseteq 0 .. Width(r) - 1
  /\ latch \in [{Rd, Wr} -> SUBSET (0 .. DmaHalf - 1)]
  /\ action \in [Irqs -> Seq(Action)]
  /\ line \in [Devices -> BOOLEAN]
  /\ raised \in [Devices -> Nat] /\ \A d \in Devices : raised[d] <= MaxRaise[d]
  /\ thread \in [pc : ThreadPc, dev : Devices, en : SUBSET Nat]
  /\ ctx \in [pc : CtxPc, bank : 0 .. Banks - 1, irq : Irqs, next : Seq(Action)]

\* Before init_IRQ nothing has happened but lines rising and falling.
Unborn == ~booted => /\ thread.pc = "idle" /\ ctx.pc = "none"
                     /\ en = [r \in Registers |-> {}]
                     /\ action = [i \in Irqs |-> <<>>]

\* A number is enabled when it has an action, except while request_irq has
\* still to enable it and while its handler has it masked.
EnabledInv ==
  booted => \A i \in Irqs : Bit(i) \in en[Register(i)]
                            <=> action[i] # <<>> /\ ~Asked(i) /\ ~MaskedNow(i)

\* The word request_irq has read is the register as it will be found.
ThreadInv ==
  /\ thread.pc \in {"read", "write"} => action[IrqOf[thread.dev]] # <<>>
  /\ thread.pc = "write" =>
       thread.en = en[Register(IrqOf[thread.dev])]
                   \cup IF /\ ctx.pc \in Masked
                           /\ Register(ctx.irq) = Register(IrqOf[thread.dev])
                        THEN {Bit(ctx.irq)} ELSE {}

CtxInv ==
  /\ ctx.pc = "mask" => Bit(ctx.irq) \in en[Register(ctx.irq)]
  /\ ctx.pc \in Masked => action[ctx.irq] # <<>> /\ ~Asked(ctx.irq)
  /\ ctx.pc \in {"ack", "handler"} => ctx.next # <<>>
  /\ ctx.pc = "ack" => ctx.next = action[ctx.irq]

\* The list of a DMA channel has its device alone.
ChannelInv == \A i \in DmaIrqs : \A k \in DOMAIN action[i] :
                action[i][k] \in Devices /\ IrqOf[action[i][k]] = i

IInv == Types /\ Unborn /\ EnabledInv /\ ThreadInv /\ CtxInv /\ ChannelInv /\ DmaKept

-----------------------------------------------------------------------------
LEMMA IdleType == IdleThread \in [pc : ThreadPc, dev : Devices, en : SUBSET Nat]
<1>1. \E d \in Devices : TRUE
  BY IrqAssumption
<1>2. (CHOOSE d \in Devices : TRUE) \in Devices
  BY <1>1
<1> QED BY <1>2 DEF IdleThread, ThreadPc

LEMMA NoCtxType ==
  NoCtx \in [pc : CtxPc, bank : 0 .. Banks - 1, irq : Irqs, next : Seq(Action)]
<1>1. 0 \in 0 .. Banks - 1 /\ 0 \in 0 .. BankBits - 1
  BY Constants
<1>2. IrqNumber(0, 0) = 0
  BY Constants DEF IrqNumber
<1>3. 0 \in Irqs
  BY <1>1, <1>2, BoardNumber DEF Irqs
<1> QED BY <1>1, <1>3 DEF NoCtx, CtxPc

LEMMA DeviceIrq == \A d \in Devices : IrqOf[d] \in Irqs
  BY IrqAssumption DEF Irqs

LEMMA InitIInv ==
  ASSUME IrqInit
  PROVE  IInv
<1>1. en = [r \in Registers |-> {}]
  BY BootAssumption DEF IrqInit
<1>2. Types
  <2>1. en \in [Registers -> SUBSET Nat] /\ \A r \in Registers : en[r] \subseteq 0 .. Width(r) - 1
    BY <1>1
  <2>2. thread \in [pc : ThreadPc, dev : Devices, en : SUBSET Nat]
    BY IdleType DEF IrqInit
  <2>3. ctx \in [pc : CtxPc, bank : 0 .. Banks - 1, irq : Irqs, next : Seq(Action)]
    BY NoCtxType DEF IrqInit
  <2>4. raised \in [Devices -> Nat] /\ \A d \in Devices : raised[d] <= MaxRaise[d]
    BY IrqAssumption DEF IrqInit
  <2>5. action \in [Irqs -> Seq(Action)]
    BY DEF IrqInit
  <2>6. /\ latch \in [{Rd, Wr} -> SUBSET (0 .. DmaHalf - 1)]
        /\ line \in [Devices -> BOOLEAN] /\ booted \in BOOLEAN
    BY DEF IrqInit
  <2> QED BY <2>1, <2>2, <2>3, <2>4, <2>5, <2>6 DEF Types
<1>3. Unborn
  BY <1>1 DEF IrqInit, Unborn, IdleThread, NoCtx
<1>4. EnabledInv /\ ThreadInv /\ CtxInv
  BY DEF IrqInit, EnabledInv, ThreadInv, CtxInv, IdleThread, NoCtx, Masked
<1>5. ChannelInv /\ DmaKept
  BY DEF IrqInit, ChannelInv, DmaKept, Irqs
<1> QED BY <1>2, <1>3, <1>4, <1>5 DEF IInv

LEMMA ChannelPlace ==
  ASSUME NEW i \in DmaIrqs
  PROVE  i \in Irqs \ BoardIrqs /\ Register(i) \in {Rd, Wr} /\ Bit(i) \in 0 .. DmaHalf - 1
<1>1. i - DmaBase \in 0 .. 2 * DmaHalf - 1 /\ i = DmaBase + (i - DmaBase)
  BY Constants DEF DmaIrqs
<1>2. /\ Register(i) \in {Rd, Wr} /\ i \in Irqs \ BoardIrqs
      /\ Bit(i) = IF i - DmaBase < DmaHalf THEN i - DmaBase
                  ELSE i - DmaBase - DmaHalf
  BY <1>1, DmaNumber DEF Irqs
<1> QED BY <1>1, <1>2, Constants

\* Nothing but the devices moves.
LEMMA DevicesKeep ==
  ASSUME IInv, NEW d \in Devices, Raise(d) \/ Withdraw(d)
  PROVE  IInv'
<1>1. UNCHANGED <<booted, en, action, thread, ctx>>
  BY DEF Raise, Withdraw
<1>2. latch' \in [{Rd, Wr} -> SUBSET (0 .. DmaHalf - 1)]
  <2>1. CASE IrqOf[d] \in DmaIrqs /\ Raise(d)
    <3>1. Register(IrqOf[d]) \in {Rd, Wr} /\ Bit(IrqOf[d]) \in 0 .. DmaHalf - 1
      BY <2>1, ChannelPlace
    <3> QED BY <2>1, <3>1 DEF IInv, Types, Raise
  <2>2. CASE ~(IrqOf[d] \in DmaIrqs /\ Raise(d))
    BY <2>2 DEF IInv, Types, Raise, Withdraw
  <2> QED BY <2>1, <2>2
<1>3. line' \in [Devices -> BOOLEAN]
  BY DEF IInv, Types, Raise, Withdraw
<1>4. raised' \in [Devices -> Nat] /\ \A e \in Devices : raised'[e] <= MaxRaise[e]
  <2>1. \A e \in Devices : MaxRaise[e] \in Nat
    BY IrqAssumption
  <2>2. CASE Raise(d)
    BY <2>1, <2>2 DEF IInv, Types, Raise
  <2>3. CASE Withdraw(d)
    BY <2>3 DEF IInv, Types, Withdraw
  <2> QED BY <2>2, <2>3
<1>5. Types'
  BY <1>1, <1>2, <1>3, <1>4 DEF IInv, Types
<1>6. Unborn' /\ EnabledInv' /\ ThreadInv' /\ CtxInv' /\ ChannelInv'
  BY <1>1 DEF IInv, Unborn, EnabledInv, ThreadInv, CtxInv, ChannelInv, Asked, MaskedNow
<1>7. DmaKept'
  <2> SUFFICES ASSUME NEW e \in Devices, line'[e], IrqOf[e] \in DmaIrqs
               PROVE  \/ Bit(IrqOf[e]) \in latch'[Register(IrqOf[e])]
                      \/ ctx'.pc = "handler" /\ e \in ToSet(ctx'.next)
    BY DEF DmaKept
  <2>1. Register(IrqOf[e]) \in {Rd, Wr}
    BY ChannelPlace
  <2>2. CASE e = d
    <3>1. Raise(d)
      BY <2>2 DEF Withdraw, IInv, Types
    <3> QED BY <2>1, <2>2, <3>1 DEF Raise, IInv, Types
  <2>3. CASE e # d
    <3>1. line[e]
      BY <2>3 DEF Raise, Withdraw, IInv, Types
    <3>2. latch[Register(IrqOf[e])] \subseteq latch'[Register(IrqOf[e])]
      <4>1. CASE Raise(d)
        BY <2>1, <4>1 DEF Raise, IInv, Types
      <4>2. CASE Withdraw(d)
        BY <4>2 DEF Withdraw
      <4> QED BY <4>1, <4>2
    <3> QED BY <1>1, <3>1, <3>2 DEF IInv, DmaKept
  <2> QED BY <2>2, <2>3
<1> QED BY <1>5, <1>6, <1>7 DEF IInv

LEMMA BootKeeps ==
  ASSUME IInv, init_IRQ
  PROVE  IInv'
<1>1. /\ ~booted /\ booted' /\ UNCHANGED <<latch, line, raised, thread, ctx>>
      /\ action' = [action EXCEPT ![Cascade] = <<"cascade">>]
      /\ en' = [en EXCEPT ![1] = @ \cup {CascadeBit}]
  BY CascadePlace DEF init_IRQ, unmask
<1>2. /\ thread.pc = "idle" /\ ctx.pc = "none"
      /\ en = [r \in Registers |-> {}] /\ action = [i \in Irqs |-> <<>>]
  BY <1>1 DEF IInv, Unborn
<1>3. 1 \in Registers /\ CascadeBit \in 0 .. Width(1) - 1
  BY CascadePlace, Places
<1>4. Types'
  <2>1. en' \in [Registers -> SUBSET Nat] /\ \A r \in Registers : en'[r] \subseteq 0 .. Width(r) - 1
    BY <1>1, <1>2, <1>3, Constants
  <2>2. action' \in [Irqs -> Seq(Action)]
    <3>1. <<"cascade">> \in Seq(Action)
      BY DEF Action
    <3> QED BY <1>1, <3>1 DEF IInv, Types
  <2> QED BY <1>1, <2>1, <2>2 DEF IInv, Types
<1>5. EnabledInv'
  <2> SUFFICES ASSUME NEW i \in Irqs
               PROVE  Bit(i) \in en'[Register(i)] <=> action'[i] # <<>>
    BY <1>1, <1>2 DEF EnabledInv, Asked, MaskedNow, Masked
  <2>1. CASE i = Cascade
    BY <1>1, <1>2, <1>3, <2>1, CascadePlace
  <2>2. CASE i # Cascade
    <3>1. ~(Register(i) = 1 /\ Bit(i) = CascadeBit)
      BY <2>2, CascadePlace, Distinct
    <3>2. Bit(i) \notin en'[Register(i)]
      BY <1>1, <1>2, <1>3, <3>1, Places
    <3>3. action'[i] = <<>>
      BY <1>1, <1>2, <2>2
    <3> QED BY <3>2, <3>3
  <2> QED BY <2>1, <2>2
<1>6. Unborn' /\ ThreadInv' /\ CtxInv'
  BY <1>1, <1>2 DEF Unborn, ThreadInv, CtxInv, Masked
<1>7. ChannelInv'
  <2>1. Cascade \notin DmaIrqs
    BY Constants DEF Cascade, DmaIrqs
  <2> QED BY <1>1, <1>2, <2>1 DEF ChannelInv, Irqs
<1>8. DmaKept'
  BY <1>1 DEF IInv, DmaKept
<1> QED BY <1>4, <1>5, <1>6, <1>7, <1>8 DEF IInv

-----------------------------------------------------------------------------
\* request_irq, between two interrupts.
LEMMA RequestKeeps ==
  ASSUME IInv, NEW d \in Devices, request_irq(d)
  PROVE  IInv'
<1>1. /\ UNCHANGED <<booted, en, latch, action, line, raised, ctx>>
      /\ booted /\ ctx.pc = "none" /\ thread.pc = "idle"
      /\ thread'.pc = "setup" /\ thread' \in [pc : ThreadPc, dev : Devices, en : SUBSET Nat]
  BY DEF request_irq, IInv, Types, ThreadPc
<1>2. Types'
  BY <1>1 DEF IInv, Types
<1>3. Unborn' /\ EnabledInv' /\ ThreadInv' /\ CtxInv' /\ ChannelInv'
  BY <1>1 DEF IInv, Unborn, EnabledInv, ThreadInv, CtxInv, ChannelInv, Asked, MaskedNow, Masked
<1>4. DmaKept'
  BY <1>1 DEF IInv, DmaKept
<1> QED BY <1>2, <1>3, <1>4 DEF IInv

LEMMA SetupKeeps ==
  ASSUME IInv, setup_irq
  PROVE  IInv'
<1> DEFINE irq == IrqOf[thread.dev]
<1>1. thread.dev \in Devices /\ irq \in Irqs /\ booted
  BY DeviceIrq DEF IInv, Types, setup_irq, Unborn
<1>2. /\ UNCHANGED <<booted, en, latch, line, raised, ctx>>
      /\ ctx.pc = "none" /\ thread.pc = "setup"
      /\ action' = [action EXCEPT ![irq] = Append(@, thread.dev)]
      /\ thread' = IF action[irq] = <<>> THEN [thread EXCEPT !.pc = "read"] ELSE IdleThread
  BY DEF setup_irq
<1>3. action[irq] \in Seq(Action) /\ thread.dev \in Action
  BY <1>1 DEF IInv, Types, Action
<1>4. action'[irq] \in Seq(Action) /\ action'[irq] # <<>>
  <2>1. action'[irq] = Append(action[irq], thread.dev)
    BY <1>1, <1>2 DEF IInv, Types
  <2>2. Len(Append(action[irq], thread.dev)) = Len(action[irq]) + 1
    BY <1>3
  <2>3. Len(action[irq]) \in Nat
    BY <1>3
  <2> QED BY <1>3, <2>1, <2>2, <2>3
<1>5. \A i \in Irqs : i # irq => action'[i] = action[i]
  BY <1>2 DEF IInv, Types
<1>6. Types'
  <2>1. action' \in [Irqs -> Seq(Action)]
    BY <1>1, <1>2, <1>3 DEF IInv, Types
  <2>2. thread' \in [pc : ThreadPc, dev : Devices, en : SUBSET Nat]
    BY <1>2, IdleType DEF IInv, Types, ThreadPc
  <2> QED BY <1>2, <2>1, <2>2 DEF IInv, Types
<1>7. EnabledInv'
  <2> SUFFICES ASSUME NEW i \in Irqs
               PROVE  Bit(i) \in en[Register(i)] <=> action'[i] # <<>> /\ ~Asked(i)'
    BY <1>1, <1>2 DEF EnabledInv, MaskedNow, Masked
  <2>1. Bit(i) \in en[Register(i)] <=> action[i] # <<>>
    BY <1>1, <1>2 DEF IInv, EnabledInv, Asked, MaskedNow, Masked
  <2>2. CASE i = irq /\ action[irq] = <<>>
    <3>1. Asked(i)'
      BY <1>2, <2>2 DEF Asked, IInv, Types
    <3> QED BY <2>1, <2>2, <3>1
  <2>3. CASE i = irq /\ action[irq] # <<>>
    <3>1. ~Asked(i)'
      BY <1>2, <2>3 DEF Asked, IdleThread
    <3> QED BY <1>4, <2>1, <2>3, <3>1
  <2>4. CASE i # irq
    <3>1. ~Asked(i)'
      BY <1>2, <2>4 DEF Asked, IdleThread, IInv, Types
    <3> QED BY <1>5, <2>1, <2>4, <3>1
  <2> QED BY <2>2, <2>3, <2>4
<1>8. ThreadInv'
  <2>1. thread'.pc # "write" /\ (thread'.pc = "read" => thread'.dev = thread.dev)
    BY <1>2 DEF IInv, Types, IdleThread
  <2> QED BY <1>2, <1>4, <2>1 DEF ThreadInv, IdleThread
<1>9. Unborn' /\ CtxInv'
  BY <1>1, <1>2 DEF Unborn, CtxInv, Masked
<1>10. ChannelInv'
  <2> SUFFICES ASSUME NEW i \in DmaIrqs, NEW k \in DOMAIN action'[i]
               PROVE  action'[i][k] \in Devices /\ IrqOf[action'[i][k]] = i
    BY DEF ChannelInv
  <2>0. i \in Irqs
    BY DEF Irqs
  <2>1. CASE i = irq
    <3>1. action'[i] = Append(action[i], thread.dev)
      BY <1>1, <1>2, <2>1 DEF IInv, Types
    <3>2. \/ k \in DOMAIN action[i] /\ action'[i][k] = action[i][k]
          \/ action'[i][k] = thread.dev
      BY <1>3, <2>1, <3>1
    <3> QED BY <1>1, <2>1, <3>2 DEF IInv, ChannelInv
  <2>2. CASE i # irq
    BY <1>5, <2>0, <2>2 DEF IInv, ChannelInv
  <2> QED BY <2>1, <2>2
<1>11. DmaKept'
  BY <1>2 DEF IInv, DmaKept
<1> QED BY <1>6, <1>7, <1>8, <1>9, <1>10, <1>11 DEF IInv

LEMMA ReadKeeps ==
  ASSUME IInv, ReadEnable
  PROVE  IInv'
<1>1. thread.dev \in Devices /\ IrqOf[thread.dev] \in Irqs
  BY DeviceIrq DEF IInv, Types
<1>2. en[Register(IrqOf[thread.dev])] \in SUBSET Nat
  BY <1>1, Places DEF IInv, Types
<1>3. /\ UNCHANGED <<booted, en, latch, action, line, raised, ctx>>
      /\ ctx.pc = "none" /\ thread.pc = "read" /\ thread'.pc = "write"
      /\ thread'.dev = thread.dev /\ thread'.en = en[Register(IrqOf[thread.dev])]
      /\ thread' \in [pc : ThreadPc, dev : Devices, en : SUBSET Nat]
  BY <1>2 DEF ReadEnable, IInv, Types, ThreadPc
<1>4. Types'
  BY <1>3 DEF IInv, Types
<1>5. Unborn' /\ EnabledInv' /\ ThreadInv' /\ CtxInv' /\ ChannelInv'
  BY <1>3 DEF IInv, Unborn, EnabledInv, ThreadInv, CtxInv, ChannelInv, Asked, MaskedNow, Masked
<1>6. DmaKept'
  BY <1>3 DEF IInv, DmaKept
<1> QED BY <1>4, <1>5, <1>6 DEF IInv

LEMMA WriteKeeps ==
  ASSUME IInv, WriteEnable
  PROVE  IInv'
<1> DEFINE irq == IrqOf[thread.dev]
<1>1. irq \in Irqs /\ booted
  BY DeviceIrq DEF IInv, Types, WriteEnable, Unborn
<1>2. Register(irq) \in Registers /\ Bit(irq) \in 0 .. Width(Register(irq)) - 1
  BY <1>1, Places
<1>3. /\ UNCHANGED <<booted, latch, action, line, raised, ctx>>
      /\ ctx.pc = "none" /\ thread.pc = "write" /\ thread' = IdleThread
      /\ thread.en = en[Register(irq)] /\ action[irq] # <<>>
      /\ en' = [en EXCEPT ![Register(irq)] = en[Register(irq)] \cup {Bit(irq)}]
  BY DEF WriteEnable, IInv, ThreadInv, Masked
<1>4. Types'
  <2>1. en' \in [Registers -> SUBSET Nat] /\ \A r \in Registers : en'[r] \subseteq 0 .. Width(r) - 1
    BY <1>2, <1>3 DEF IInv, Types
  <2> QED BY <1>3, <2>1, IdleType DEF IInv, Types
<1>5. EnabledInv'
  <2> SUFFICES ASSUME NEW i \in Irqs
               PROVE  Bit(i) \in en'[Register(i)] <=> action[i] # <<>>
    BY <1>3 DEF EnabledInv, Asked, IdleThread, MaskedNow, Masked
  <2>1. Bit(i) \in en[Register(i)] <=> action[i] # <<>> /\ i # irq
    BY <1>1, <1>3 DEF IInv, EnabledInv, Asked, MaskedNow, Masked
  <2>2. Bit(i) \in en'[Register(i)] <=> Bit(i) \in en[Register(i)] \/ i = irq
    <3>1. i # irq => ~(Register(i) = Register(irq) /\ Bit(i) = Bit(irq))
      BY <1>1, Distinct
    <3> QED BY <1>2, <1>3, <3>1, Places DEF IInv, Types
  <2> QED BY <1>3, <2>1, <2>2
<1>6. Unborn' /\ ThreadInv' /\ CtxInv' /\ ChannelInv'
  BY <1>1, <1>3 DEF IInv, Unborn, ThreadInv, CtxInv, ChannelInv, IdleThread, Masked
<1>7. DmaKept'
  BY <1>3 DEF IInv, DmaKept
<1> QED BY <1>4, <1>5, <1>6, <1>7 DEF IInv

-----------------------------------------------------------------------------
\* The interrupt up to its number: it moves ctx alone, and outside Masked.
LEMMA CtxMoves ==
  ASSUME IInv, booted, UNCHANGED <<booted, en, latch, action, line, raised, thread>>,
         ctx' \in [pc : CtxPc, bank : 0 .. Banks - 1, irq : Irqs, next : Seq(Action)],
         ctx.pc \notin Masked, ctx'.pc \notin Masked,
         ctx'.pc = "mask" => Bit(ctx'.irq) \in en[Register(ctx'.irq)]
  PROVE  IInv'
<1>1. Types'
  BY DEF IInv, Types
<1>2. Unborn' /\ EnabledInv' /\ ThreadInv' /\ CtxInv' /\ ChannelInv'
  BY DEF IInv, Unborn, EnabledInv, ThreadInv, CtxInv, ChannelInv, Asked, MaskedNow, Masked
<1>3. DmaKept'
  BY DEF IInv, DmaKept, Masked
<1> QED BY <1>1, <1>2, <1>3 DEF IInv

LEMMA Running == IInv /\ ctx.pc # "none" => booted
  BY DEF IInv, Unborn, Types

LEMMA TakeKeeps ==
  ASSUME IInv, TakeInterrupt
  PROVE  IInv'
<1>1. ctx' \in [pc : CtxPc, bank : 0 .. Banks - 1, irq : Irqs, next : Seq(Action)] /\ ctx'.pc = "cause"
  BY NoCtxType DEF TakeInterrupt, CtxPc, NoCtx
<1> QED BY <1>1, CtxMoves DEF TakeInterrupt, In, Masked

LEMMA CauseKeeps ==
  ASSUME IInv, plat_irq_dispatch
  PROVE  IInv'
<1>1. ctx.pc = "cause" /\ booted /\ UNCHANGED <<booted, en, latch, action, line, raised, thread>>
  BY Running DEF plat_irq_dispatch, In
<1>2. Pending # {} => Lowest(Pending) \in 0 .. Banks - 1
  <2>1. Pending \in SUBSET Nat /\ Pending \subseteq 0 .. Banks - 1
    BY Constants DEF Pending
  <2> QED BY <2>1, LowestIsIn
<1>3. /\ ctx' \in [pc : CtxPc, bank : 0 .. Banks - 1, irq : Irqs, next : Seq(Action)]
      /\ ctx'.pc \in {"none", "bank"}
  <2>1. CASE Pending = {}
    <3>1. ctx' = NoCtx
      BY <2>1 DEF plat_irq_dispatch
    <3> QED BY <3>1, NoCtxType DEF NoCtx
  <2>2. CASE Pending # {}
    BY <1>2, <2>2 DEF plat_irq_dispatch, IInv, Types, CtxPc
  <2> QED BY <2>1, <2>2
<1> QED BY <1>1, <1>3, CtxMoves DEF Masked

LEMMA BankKeeps ==
  ASSUME IInv, ls1b_board_hw_irqdispatch
  PROVE  IInv'
<1> DEFINE bits == int_isr(ctx.bank)
<1> DEFINE b == Lowest(bits)
<1>1. ctx.pc = "bank" /\ booted /\ UNCHANGED <<booted, en, latch, action, line, raised, thread>>
  BY Running DEF ls1b_board_hw_irqdispatch, In
<1>2. /\ ctx.bank \in 0 .. Banks - 1 /\ ctx.bank \in Registers
      /\ bits \subseteq en[ctx.bank] /\ bits \subseteq 0 .. BankBits - 1
  <2>1. ctx.bank \in 0 .. Banks - 1
    BY DEF IInv, Types
  <2>2. ctx.bank \in Registers /\ Width(ctx.bank) = BankBits
    BY <2>1, Constants DEF Registers, Width, Rd, Wr
  <2> QED BY <2>1, <2>2 DEF IInv, Types, int_isr
<1>3. CASE bits = {}
  <2>1. ctx' = NoCtx
    BY <1>3 DEF ls1b_board_hw_irqdispatch
  <2> QED BY <1>1, <2>1, NoCtxType, CtxMoves DEF NoCtx, Masked
<1>4. CASE bits # {} /\ ctx.bank = 1 /\ b = CascadeBit
  <2>1. ctx' = [ctx EXCEPT !.pc = "dma"]
    BY <1>4 DEF ls1b_board_hw_irqdispatch
  <2>2. /\ ctx' \in [pc : CtxPc, bank : 0 .. Banks - 1, irq : Irqs, next : Seq(Action)]
        /\ ctx'.pc = "dma"
    BY <2>1 DEF IInv, Types, CtxPc
  <2> QED BY <1>1, <2>2, CtxMoves DEF Masked
<1>5. CASE bits # {} /\ ~(ctx.bank = 1 /\ b = CascadeBit)
  <2> DEFINE i == IrqNumber(ctx.bank, b)
  <2>1. ctx' = [ctx EXCEPT !.pc = "mask", !.irq = i]
    BY <1>5 DEF ls1b_board_hw_irqdispatch, Level
  <2>2. b \in bits
    <3>1. bits \in SUBSET Nat
      BY <1>2, Constants
    <3> HIDE DEF bits
    <3> QED BY <1>5, <3>1, LowestIsIn
  <2>3. b \in 0 .. BankBits - 1 /\ b \in en[ctx.bank]
    BY <1>2, <2>2
  <2>4. i \in Irqs /\ Register(i) = ctx.bank /\ Bit(i) = b
    BY <1>2, <2>3, BoardNumber DEF Irqs
  <2>5. /\ ctx' \in [pc : CtxPc, bank : 0 .. Banks - 1, irq : Irqs, next : Seq(Action)]
        /\ ctx'.pc = "mask" /\ ctx'.irq = i
    <3> HIDE DEF i, b
    <3> QED BY <2>1, <2>4 DEF IInv, Types, CtxPc
  <2> HIDE DEF i, b
  <2> QED BY <1>1, <2>3, <2>4, <2>5, CtxMoves DEF Masked
<1> QED BY <1>3, <1>4, <1>5

LEMMA DmaKeeps ==
  ASSUME IInv, ls1gp_board_dma_irqdispatch
  PROVE  IInv'
<1> DEFINE b == Lowest(DmaStatus)
<1>1. ctx.pc = "dma" /\ booted /\ UNCHANGED <<booted, en, latch, action, line, raised, thread>>
  BY Running DEF ls1gp_board_dma_irqdispatch, In
<1>2. CASE DmaStatus = {}
  <2>1. ctx' = NoCtx
    BY <1>2 DEF ls1gp_board_dma_irqdispatch
  <2> QED BY <1>1, <2>1, NoCtxType, CtxMoves DEF NoCtx, Masked
<1>3. CASE DmaStatus # {}
  <2>1. ctx' = [ctx EXCEPT !.pc = "mask", !.irq = DmaBase + b]
    BY <1>3 DEF ls1gp_board_dma_irqdispatch, Level
  <2>2. latch[Rd] \subseteq 0 .. DmaHalf - 1 /\ latch[Wr] \subseteq 0 .. DmaHalf - 1
    BY DEF IInv, Types
  <2>3. b \in DmaStatus
    <3>1. DmaStatus \in SUBSET Nat
      BY <2>2, Constants DEF DmaStatus
    <3> QED BY <1>3, <3>1, LowestIsIn
  <2> HIDE DEF b
  <2>4. \/ b \in en[Rd] /\ b \in 0 .. DmaHalf - 1
        \/ b - DmaHalf \in en[Wr] /\ b - DmaHalf \in 0 .. DmaHalf - 1
    <3>1. CASE b \in latch[Rd] \cap en[Rd]
      BY <2>2, <3>1
    <3>2. CASE \E x \in latch[Wr] \cap en[Wr] : b = x + DmaHalf
      <4>1. PICK x \in latch[Wr] \cap en[Wr] : b = x + DmaHalf
        BY <3>2
      <4>2. b - DmaHalf = x
        BY <2>2, <4>1, Constants
      <4> QED BY <2>2, <4>2
    <3> QED BY <2>3, <3>1, <3>2 DEF DmaStatus
  <2>5. b \in 0 .. 2 * DmaHalf - 1
    <3>1. CASE b \in 0 .. DmaHalf - 1
      BY <3>1, Constants
    <3>2. CASE b - DmaHalf \in 0 .. DmaHalf - 1 /\ b \notin 0 .. DmaHalf - 1
      <4>1. b \in Nat
        BY <2>2, <2>3, Constants DEF DmaStatus
      <4> QED BY <3>2, <4>1, Constants
    <3> QED BY <2>4, <3>1, <3>2
  <2>6. /\ DmaBase + b \in Irqs
        /\ Bit(DmaBase + b) \in en[Register(DmaBase + b)]
    <3>1. /\ DmaBase + b \in Irqs
          /\ Register(DmaBase + b) = IF b < DmaHalf THEN Rd ELSE Wr
          /\ Bit(DmaBase + b) = IF b < DmaHalf THEN b ELSE b - DmaHalf
      BY <2>5, DmaNumber DEF Irqs
    <3>2. b \in en[Rd] /\ b \in 0 .. DmaHalf - 1 => b < DmaHalf
      BY Constants
    <3>3. b - DmaHalf \in 0 .. DmaHalf - 1 => ~(b < DmaHalf)
      BY <2>5, Constants
    <3> QED BY <2>4, <3>1, <3>2, <3>3
  <2>7. /\ ctx' \in [pc : CtxPc, bank : 0 .. Banks - 1, irq : Irqs, next : Seq(Action)]
        /\ ctx'.pc = "mask" /\ ctx'.irq = DmaBase + b
    BY <2>1, <2>6 DEF IInv, Types, CtxPc
  <2> QED BY <1>1, <2>6, <2>7, CtxMoves DEF Masked
<1> QED BY <1>2, <1>3

-----------------------------------------------------------------------------
\* handle_level_irq.
LEMMA MaskKeeps ==
  ASSUME IInv, Mask
  PROVE  IInv'
<1> DEFINE irq == ctx.irq
<1>1. /\ UNCHANGED <<booted, raised, thread, latch, action, line>> /\ booted
      /\ ctx.pc = "mask" /\ irq \in Irqs
      /\ en' = [en EXCEPT ![Register(irq)] = en[Register(irq)] \ {Bit(irq)}]
      /\ ctx' = [ctx EXCEPT !.pc = "ack", !.next = action[irq]]
  BY Running DEF Mask, mask, In, Flow, IInv, Types
<1>2. /\ Register(irq) \in Registers /\ Bit(irq) \in 0 .. Width(Register(irq)) - 1
      /\ Bit(irq) \in en[Register(irq)]
  BY <1>1, Places DEF IInv, CtxInv
<1>3. action[irq] # <<>> /\ ~Asked(irq)
  BY <1>1, <1>2 DEF IInv, EnabledInv, MaskedNow, Masked
<1>4. /\ ctx' \in [pc : CtxPc, bank : 0 .. Banks - 1, irq : Irqs, next : Seq(Action)]
      /\ ctx'.pc = "ack" /\ ctx'.irq = irq /\ ctx'.next = action[irq]
  BY <1>1 DEF IInv, Types, CtxPc
<1>5. \A i \in Irqs : Bit(i) \in en'[Register(i)] <=> Bit(i) \in en[Register(i)] /\ i # irq
  <2> TAKE i \in Irqs
  <2>1. i # irq => ~(Register(i) = Register(irq) /\ Bit(i) = Bit(irq))
    BY <1>1, Distinct
  <2> QED BY <1>1, <1>2, <2>1, Places DEF IInv, Types
<1>6. Types'
  <2>1. en' \in [Registers -> SUBSET Nat] /\ \A r \in Registers : en'[r] \subseteq 0 .. Width(r) - 1
    BY <1>1, <1>2 DEF IInv, Types
  <2> QED BY <1>1, <1>4, <2>1 DEF IInv, Types
<1>7. EnabledInv'
  <2>1. \A i \in Irqs : Bit(i) \in en[Register(i)] <=> action[i] # <<>> /\ ~Asked(i)
    BY <1>1 DEF IInv, EnabledInv, MaskedNow, Masked
  <2> QED BY <1>1, <1>4, <1>5, <2>1 DEF EnabledInv, Asked, MaskedNow, Masked
<1>8. ThreadInv'
  <2>1. thread.pc = "write" => thread.en = en[Register(IrqOf[thread.dev])]
    BY <1>1 DEF IInv, ThreadInv, Masked
  <2>2. IrqOf[thread.dev] \in Irqs
    BY DeviceIrq DEF IInv, Types
  <2>3. en[Register(IrqOf[thread.dev])]
          = en'[Register(IrqOf[thread.dev])]
            \cup IF Register(irq) = Register(IrqOf[thread.dev]) THEN {Bit(irq)} ELSE {}
    BY <1>1, <1>2, <2>2, Places DEF IInv, Types
  <2> QED BY <1>1, <1>4, <2>1, <2>3 DEF IInv, ThreadInv, Masked
<1>9. Unborn' /\ CtxInv' /\ ChannelInv'
  BY <1>1, <1>3, <1>4 DEF IInv, Unborn, CtxInv, ChannelInv, Asked
<1>10. DmaKept'
  BY <1>1 DEF IInv, DmaKept
<1> QED BY <1>6, <1>7, <1>8, <1>9, <1>10 DEF IInv

\* From Ack to the turn that ends the list the number stays masked.
LEMMA StillMasked ==
  ASSUME IInv, booted, UNCHANGED <<booted, en, action, thread>>,
         ctx.pc \in Masked, ctx'.pc \in Masked, ctx'.irq = ctx.irq
  PROVE  Unborn' /\ EnabledInv' /\ ThreadInv' /\ ChannelInv'
<1>1. ThreadInv'
  BY DEF IInv, ThreadInv
<1>2. EnabledInv'
  BY DEF IInv, EnabledInv, Asked, MaskedNow
<1> QED BY <1>1, <1>2 DEF IInv, Unborn, ChannelInv

LEMMA AckKeeps ==
  ASSUME IInv, Ack
  PROVE  IInv'
<1> DEFINE irq == ctx.irq
<1>1. /\ UNCHANGED <<booted, raised, thread, en, action, line>> /\ booted
      /\ ctx.pc = "ack" /\ irq \in Irqs
      /\ ctx' = [ctx EXCEPT !.pc = "handler"]
      /\ latch' = IF irq \in DmaIrqs
                  THEN [latch EXCEPT ![Register(irq)] = latch[Register(irq)] \ {Bit(irq)}]
                  ELSE latch
  BY Running DEF Ack, In, Flow, IInv, Types
<1>2. /\ ctx' \in [pc : CtxPc, bank : 0 .. Banks - 1, irq : Irqs, next : Seq(Action)]
      /\ ctx'.pc = "handler" /\ ctx'.irq = irq /\ ctx'.next = ctx.next
  BY <1>1 DEF IInv, Types, CtxPc
<1>3. ctx.next # <<>> /\ ctx.next = action[irq] /\ ~Asked(irq)
  BY <1>1 DEF IInv, CtxInv, Masked
<1>4. Types'
  <2>1. latch' \in [{Rd, Wr} -> SUBSET (0 .. DmaHalf - 1)]
    BY <1>1, ChannelPlace DEF IInv, Types
  <2> QED BY <1>1, <1>2, <2>1 DEF IInv, Types
<1>5. Unborn' /\ EnabledInv' /\ ThreadInv' /\ ChannelInv'
  BY <1>1, <1>2, StillMasked DEF Masked
<1>6. CtxInv'
  BY <1>1, <1>2, <1>3 DEF CtxInv, Asked
<1>7. DmaKept'
  <2> SUFFICES ASSUME NEW d \in Devices, line[d], IrqOf[d] \in DmaIrqs
               PROVE  \/ Bit(IrqOf[d]) \in latch'[Register(IrqOf[d])]
                      \/ d \in ToSet(ctx.next)
    BY <1>1, <1>2 DEF DmaKept
  <2>1. Bit(IrqOf[d]) \in latch[Register(IrqOf[d])]
    BY <1>1 DEF IInv, DmaKept
  <2>2. CASE IrqOf[d] = irq
    <3>1. action[irq] \in Seq(Action) /\ 1 \in DOMAIN action[irq]
      BY <1>1, <1>3 DEF IInv, Types
    <3>2. action[irq][1] \in Devices /\ IrqOf[action[irq][1]] = irq
      BY <2>2, <3>1 DEF IInv, ChannelInv
    <3>3. action[irq][1] = d
      BY <2>2, <3>2, IrqAssumption
    <3> QED BY <1>3, <3>1, <3>3 DEF ToSet
  <2>3. CASE IrqOf[d] # irq
    <3>1. irq \in DmaIrqs => ~(/\ Register(IrqOf[d]) = Register(irq)
                               /\ Bit(IrqOf[d]) = Bit(irq))
      BY <2>3, Distinct, ChannelPlace
    <3> QED BY <1>1, <2>1, <3>1, ChannelPlace DEF IInv, Types
  <2> QED BY <2>2, <2>3
<1> QED BY <1>4, <1>5, <1>6, <1>7 DEF IInv

LEMMA HandlerKeeps ==
  ASSUME IInv, handle_IRQ_event
  PROVE  IInv'
<1> DEFINE h == Head(ctx.next)
           rest == Tail(ctx.next)
<1>1. /\ UNCHANGED <<booted, raised, thread, en, latch, action>> /\ booted
      /\ ctx.pc = "handler"
      /\ line' = IF h \in Devices THEN [line EXCEPT ![h] = FALSE] ELSE line
      /\ ctx' = [ctx EXCEPT !.next = rest, !.pc = IF rest = <<>> THEN "unmask" ELSE @]
  BY Running DEF handle_IRQ_event, Following, In, Flow
<1>2. ctx.next \in Seq(Action) /\ ctx.next # <<>> /\ rest \in Seq(Action)
  BY <1>1 DEF IInv, Types, CtxInv
<1>3. /\ ctx' \in [pc : CtxPc, bank : 0 .. Banks - 1, irq : Irqs, next : Seq(Action)]
      /\ ctx'.pc = IF rest = <<>> THEN "unmask" ELSE "handler"
      /\ ctx'.irq = ctx.irq /\ ctx'.next = rest
  <2> HIDE DEF rest
  <2> QED BY <1>1, <1>2 DEF IInv, Types, CtxPc
<1>4. Types'
  BY <1>1, <1>3 DEF IInv, Types
<1>5. Unborn' /\ EnabledInv' /\ ThreadInv' /\ ChannelInv'
  BY <1>1, <1>3, StillMasked DEF Masked
<1>6. CtxInv'
  BY <1>1, <1>3 DEF IInv, CtxInv, Asked, Masked
<1>7. DmaKept'
  <2> SUFFICES ASSUME NEW d \in Devices, line'[d], IrqOf[d] \in DmaIrqs
               PROVE  \/ Bit(IrqOf[d]) \in latch[Register(IrqOf[d])]
                      \/ ctx'.pc = "handler" /\ d \in ToSet(ctx'.next)
    BY <1>1 DEF DmaKept
  <2>1. line[d] /\ d # h
    BY <1>1 DEF IInv, Types
  <2>2. ASSUME d \in ToSet(ctx.next)
        PROVE  d \in ToSet(rest)
    <3>1. PICK k \in DOMAIN ctx.next : ctx.next[k] = d
      BY <2>2 DEF ToSet
    <3>2. k # 1 /\ k \in 1 .. Len(ctx.next)
      BY <1>2, <2>1, <3>1
    <3>3. k - 1 \in DOMAIN rest /\ rest[k - 1] = d
      BY <1>2, <3>1, <3>2
    <3> QED BY <3>3 DEF ToSet
  <2>3. d \in ToSet(rest) => rest # <<>>
    BY DEF ToSet
  <2> HIDE DEF rest
  <2> QED BY <1>1, <1>3, <2>1, <2>2, <2>3 DEF IInv, DmaKept
<1> QED BY <1>4, <1>5, <1>6, <1>7 DEF IInv

LEMMA UnmaskKeeps ==
  ASSUME IInv, Unmask
  PROVE  IInv'
<1> DEFINE irq == ctx.irq
<1>1. /\ UNCHANGED <<booted, raised, thread, latch, action, line>> /\ booted
      /\ ctx.pc = "unmask" /\ irq \in Irqs /\ ctx' = NoCtx
      /\ en' = [en EXCEPT ![Register(irq)] = en[Register(irq)] \cup {Bit(irq)}]
  BY Running DEF Unmask, unmask, In, IInv, Types
<1>2. Register(irq) \in Registers /\ Bit(irq) \in 0 .. Width(Register(irq)) - 1
  BY <1>1, Places
<1>3. action[irq] # <<>> /\ ~Asked(irq)
  BY <1>1 DEF IInv, CtxInv, Masked
<1>4. \A i \in Irqs : Bit(i) \in en'[Register(i)] <=> Bit(i) \in en[Register(i)] \/ i = irq
  <2> TAKE i \in Irqs
  <2>1. i # irq => ~(Register(i) = Register(irq) /\ Bit(i) = Bit(irq))
    BY <1>1, Distinct
  <2> QED BY <1>1, <1>2, <2>1, Places DEF IInv, Types
<1>5. Types'
  <2>1. en' \in [Registers -> SUBSET Nat] /\ \A r \in Registers : en'[r] \subseteq 0 .. Width(r) - 1
    BY <1>1, <1>2 DEF IInv, Types
  <2> QED BY <1>1, <2>1, NoCtxType DEF IInv, Types
<1>6. EnabledInv'
  <2>1. \A i \in Irqs : Bit(i) \in en[Register(i)] <=> action[i] # <<>> /\ ~Asked(i) /\ i # irq
    BY <1>1 DEF IInv, EnabledInv, MaskedNow, Masked
  <2> QED BY <1>1, <1>3, <1>4, <2>1 DEF EnabledInv, Asked, MaskedNow, Masked, NoCtx
<1>7. ThreadInv'
  <2>1. IrqOf[thread.dev] \in Irqs
    BY DeviceIrq DEF IInv, Types
  <2>2. en'[Register(IrqOf[thread.dev])]
          = en[Register(IrqOf[thread.dev])]
            \cup IF Register(irq) = Register(IrqOf[thread.dev]) THEN {Bit(irq)} ELSE {}
    BY <1>1, <1>2, <2>1, Places DEF IInv, Types
  <2> QED BY <1>1, <2>2 DEF IInv, ThreadInv, Masked, NoCtx
<1>8. Unborn' /\ CtxInv' /\ ChannelInv'
  BY <1>1 DEF IInv, Unborn, CtxInv, ChannelInv, NoCtx, Masked
<1>9. DmaKept'
  BY <1>1 DEF IInv, DmaKept
<1> QED BY <1>5, <1>6, <1>7, <1>8, <1>9 DEF IInv

-----------------------------------------------------------------------------
LEMMA NextKeeps == IInv /\ [IrqNext]_vars => IInv'
<1> SUFFICES ASSUME IInv, [IrqNext]_vars PROVE IInv'
  OBVIOUS
<1>1. CASE \E d \in Devices : Raise(d) \/ Withdraw(d) \/ request_irq(d)
  BY <1>1, DevicesKeep, RequestKeeps
<1>2. CASE Thread
  BY <1>2, BootKeeps, SetupKeeps, ReadKeeps, WriteKeeps DEF Thread
<1>3. CASE Interrupt
  BY <1>3, TakeKeeps, CauseKeeps, BankKeeps, DmaKeeps, MaskKeeps, AckKeeps,
     HandlerKeeps, UnmaskKeeps DEF Interrupt
<1>4. CASE UNCHANGED vars
  BY <1>4 DEF vars, IInv, Types, Unborn, EnabledInv, ThreadInv, CtxInv, ChannelInv,
     DmaKept, Asked, MaskedNow
<1> QED BY <1>1, <1>2, <1>3, <1>4 DEF IrqNext

LEMMA Inductive == IrqSpec => []IInv
  BY InitIInv, NextKeeps, PTL DEF IrqSpec

LEMMA TypesAreTypes == Types => IrqTypeOK
<1> SUFFICES ASSUME Types PROVE IrqTypeOK
  OBVIOUS
<1>1. \A i \in Irqs : ToSet(action[i]) \subseteq Devices \cup {"cascade"}
  BY DEF Types, Action, ToSet
<1>2. \A d \in Devices : raised[d] \in 0 .. MaxRaise[d]
  BY IrqAssumption DEF Types
<1> QED BY <1>1, <1>2 DEF Types, IrqTypeOK, Width, ThreadPc, CtxPc

(* The bits of the enable registers agree with the actions whenever no call  *)
(* is in progress, on any board: the read-modify-write of request_irq        *)
(* (irq.c:25-30) and the masking of handlers never undo each other.          *)
THEOREM EnableBitsKept == IrqSpec => []EnableKept
<1>1. IInv => EnableKept
  BY DEF IInv, EnabledInv, EnableKept, Asked, MaskedNow, Masked
<1> QED BY <1>1, Inductive, PTL

(* handle_IRQ_event never runs on an empty list, and every number it gets    *)
(* is one of the table (irq.c:52-56).                                       *)
THEOREM ActionsFound == IrqSpec => []ActionFound
<1>1. IInv => ActionFound
  BY TypesAreTypes DEF IInv, CtxInv, ActionFound
<1> QED BY <1>1, Inductive, PTL

(* A transfer that has ended is latched, or its handler is about to see it.  *)
THEOREM TransfersKept == IrqSpec => []DmaKept
<1>1. IInv => DmaKept
  BY DEF IInv
<1> QED BY <1>1, Inductive, PTL
=============================================================================
