----------------------------- MODULE CpuProofs -----------------------------
(***************************************************************************)
(* Theorems about the pipeline of Cpu, for every word size, register set,  *)
(* program and arithmetic, and about its staying in step with the machine   *)
(* of MipsRef (LockStep).                                                  *)
(***************************************************************************)
EXTENDS LockStep, CpuUnits, TLAPS

-----------------------------------------------------------------------------
(* Words.                                                                  *)

(* Adding, subtracting, selecting a byte lane, addressing data_ram and      *)
(* scaling a branch offset all stay within their ranges.                    *)
LEMMA WordArithmetic ==
  ASSUME NEW a \in Word, NEW b \in Word
  PROVE  /\ Add(a, b) \in Word /\ Sub(a, b) \in Word
         /\ a % 4 \in 0 .. 3
         /\ (a \div 4) % DataWords \in 0 .. DataWords - 1
         /\ (4 * a) % Mod \in Word
  <1>1. Add(a, b) \in Word /\ Sub(a, b) \in Word
    BY CpuAssumption DEF Word, Add, Sub
  <1>2. a % 4 \in 0 .. 3
    BY CpuAssumption DEF Word
  <1>3. (a \div 4) % DataWords \in 0 .. DataWords - 1
    BY CpuAssumption DEF Word
  <1>4. (4 * a) % Mod \in Word
    BY CpuAssumption DEF Word
  <1> QED
    BY <1>1, <1>2, <1>3, <1>4

(* The constants the design adds to a pc are words, and so are the sums.    *)
LEMMA SmallWords == /\ {0, 4, 8} \subseteq Word
                    /\ \A a \in Word :
                         {Add(a, 4), Sub(a, 4), Sub(a, 8)} \subseteq Word
  BY CpuAssumption DEF Word, Add, Sub

(* A zero word of inst_ram is an instruction.                               *)
LEMMA NopTyped == Nop \in Instr
  BY SmallWords, CpuAssumption DEF Nop, Instr, Name

(* inst_ram answers every address with an instruction.                      *)
LEMMA FetchTyped ==
  ASSUME TypeOK, NEW a \in Word
  PROVE  Fetch(a) \in Instr
  BY NopTyped DEF Fetch, TypeOK

-----------------------------------------------------------------------------
(* The wires.                                                              *)

\* CP0 as a record of its fields.
CP0Type == [badVAddr : Word, count : Word, im : ImField, exl : BOOLEAN,
            bd : BOOLEAN, code : 0 .. 31, ip : IpField, epc : Word]

(* With the mtc0 in WB latched, CP0 still holds what its widths allow, and  *)
(* mfc0 reads a word.                                                       *)
LEMMA CP0Typed ==
  ASSUME TypeOK
  PROVE  /\ CP0_now \in CP0Type
         /\ \A rd : CP0_read(rd) \in Word
         /\ CP0_out_data \in Word
  <1>1. WB.b \in Word /\ cp0 \in CP0Type
    BY DEF TypeOK, CP0Type
  <1>2. ImOf(WB.b) \in ImField /\ IpOf(WB.b) \in IpField
    BY <1>1 DEF ImField, IpField
  <1>3. CP0_now \in CP0Type
    BY <1>1, <1>2 DEF CP0_now, CP0Type
  <1>4. ASSUME NEW rd PROVE CP0_read(rd) \in Word
    BY <1>3, UnitAssumption DEF CP0_read, CP0Type
  <1>5. CP0_out_data \in Word
    BY <1>4, SmallWords DEF CP0_out_data
  <1> QED
    BY <1>3, <1>4, <1>5

(* What WB writes, and what regfile.v and HILO_regfile.v answer, are words. *)
LEMMA WriteBackTyped ==
  ASSUME TypeOK
  PROVE  /\ out_HI_data \in Word /\ out_LO_data \in Word
         /\ writeData \in Word
         /\ \A r \in Reg : readData(r) \in Word
  <1>1. out_HI_data \in Word /\ out_LO_data \in Word
    BY DEF TypeOK, out_HI_data, out_LO_data
  <1>2. CP0_out_data \in Word
    BY CP0Typed
  <1>3. /\ WB.alu \in Word /\ Add(WB.fourPC, 4) \in Word
        /\ WB.name \in Load => LoadExt(WB.name, WB.alu % 4, WB.rdata) \in Word
    BY SmallWords, WordArithmetic, UnitAssumption DEF TypeOK
  <1>4. writeData \in Word
    BY <1>1, <1>2, <1>3, Zenon DEF writeData
  <1>5. \A r \in Reg : readData(r) \in Word
    BY <1>4, SmallWords DEF readData, TypeOK
  <1> QED
    BY <1>1, <1>4, <1>5

(* The forwarding paths of the ALU hand over words.                         *)
LEMMA ForwardTyped ==
  ASSUME TypeOK
  PROVE  /\ in_mem_HI_data \in Word /\ in_mem_LO_data \in Word
         /\ MEM_forward_data \in Word
         /\ \A r \in Reg, v \in Word : Forwarded(r, v) \in Word
  <1>1. in_mem_HI_data \in Word /\ in_mem_LO_data \in Word
    BY DEF TypeOK, in_mem_HI_data, in_mem_LO_data
  <1>2. MEM_forward_data \in Word
    <2>1. MEM.alu \in Word
      BY DEF TypeOK
    <2> QED
      BY <2>1, WriteBackTyped, CP0Typed, Zenon DEF MEM_forward_data
  <1>3. \A r \in Reg, v \in Word : Forwarded(r, v) \in Word
    BY <1>2, WriteBackTyped DEF Forwarded
  <1> QED
    BY <1>1, <1>2, <1>3

(* Operands, result and product of EX are words.                            *)
LEMMA ExecuteTyped ==
  ASSUME TypeOK
  PROVE  /\ data1 \in Word /\ data2 \in Word /\ alu_data2 \in Word
         /\ aluResult \in Word /\ EXE_forward_data \in Word
         /\ Product \in [hi : Word, lo : Word]
  <1>1. /\ EX.a \in Word /\ EX.b \in Word /\ alu_latch \in Word
        /\ EX.instr.rs \in Reg /\ EX.instr.rt \in Reg
        /\ EX.instr.imm \in Word /\ MEM.b \in Word
    BY DEF TypeOK, Instr
  <1>2. data1 \in Word /\ data2 \in Word
    BY <1>1, ForwardTyped DEF data1, data2
  <1>3. alu_data2 \in Word
    BY <1>1, <1>2, UnitAssumption DEF alu_data2, Immediate
  <1>4. aluResult \in Word
    BY <1>1, <1>2, <1>3, UnitAssumption DEF aluResult, AluActive
  <1>5. EXE_forward_data \in Word
    BY <1>1, <1>4, WriteBackTyped, ForwardTyped, CP0Typed, Zenon
    DEF EXE_forward_data
  <1>6. Product \in [hi : Word, lo : Word]
    <2>1. CASE EX.name \in MulDiv
      BY <2>1, <1>2, <1>3, UnitAssumption DEF Product
    <2>2. CASE EX.name \notin MulDiv
      BY <2>2, SmallWords DEF Product
    <2> QED
      BY <2>1, <2>2
  <1> QED
    BY <1>2, <1>3, <1>4, <1>5, <1>6

(* ID issues a name of decode_list.v, and compares and jumps to words.      *)
LEMMA DecodeTyped ==
  ASSUME TypeOK
  PROVE  /\ inst_name \in Name
         /\ \A r \in Reg : Compare_Data(r) \in Word
         /\ Compare_Data1 \in Word /\ Compare_Data2 \in Word
         /\ error_addr \in Word
  <1>1. ID.instr \in Instr /\ MEM.alu \in Word
    BY DEF TypeOK
  <1>2. inst_name \in Name
    <2>1. ID.instr.op \in Name /\ "NOP" \in Name
      BY <1>1 DEF Instr, Name
    <2> QED
      BY <2>1 DEF inst_name
  <1>3. \A r \in Reg : Compare_Data(r) \in Word
    BY ExecuteTyped, ForwardTyped, WriteBackTyped DEF Compare_Data
  <1>4. Compare_Data1 \in Word /\ Compare_Data2 \in Word
    BY <1>1, <1>3 DEF Compare_Data1, Compare_Data2, Instr
  <1>5. error_addr \in Word
    BY <1>1, <1>4, CP0Typed DEF error_addr, CP0Type
  <1> QED
    BY <1>2, <1>3, <1>4, <1>5

(* exception.v reports a code of five bits, a word to restart at and a mask *)
(* of four.                                                                 *)
LEMMA ExcTyped ==
  ASSUME TypeOK
  PROVE  Exc \in [raised : BOOLEAN, code : 0 .. 31, pc : Word,
                 mask : SUBSET (0 .. 3)]
  <1> DEFINE FaultType == [raised : BOOLEAN, code : 0 .. 31, pc : Word,
                           mask : SUBSET (0 .. 3)]
  <1>1. /\ \A p \in Word, c \in {0, 4, 5, 8, 9, 10, 12},
            m \in {{}, {2, 3}, {1, 2, 3}, {0, 1, 2, 3}} :
              Fault(c, p, m) \in FaultType
        /\ NoFault \in FaultType
    BY SmallWords DEF Fault, NoFault
  <1>2. ID_pc \in Word /\ EX_pc \in Word /\ MEM_pc \in Word
    BY SmallWords DEF TypeOK, ID_pc, EX_pc, MEM_pc, RestartPC
  <1>3. error_addr \in Word /\ Add(ID_pc, 4) \in Word
    BY <1>2, DecodeTyped, SmallWords
  <1> HIDE DEF FaultType
  <1>4. Exc \in FaultType
    BY <1>1, <1>2, <1>3 DEF Exc
  <1> QED
    BY <1>4 DEF FaultType

(* npc.v always answers with a word.                                        *)
LEMMA NpcTyped ==
  ASSUME TypeOK
  PROVE  NPC \in Word
  <1>1. PC \in Word /\ ID.instr.imm \in Word
    BY DEF TypeOK, Instr
  <1>2. /\ Add(PC, 4) \in Word
        /\ Add(PC, (4 * SignExt(ID.instr.imm)) % Mod) \in Word
    BY <1>1, SmallWords, WordArithmetic, UnitAssumption
  <1>3. CP0_now.epc \in Word /\ ExcVector \in Word
    BY CP0Typed, CpuAssumption DEF CP0Type
  <1> QED
    BY <1>1, <1>2, <1>3, DecodeTyped DEF NPC

-----------------------------------------------------------------------------
(* Type correctness: one step per register or latch.                       *)

(* A clock edge that leaves a word in PC keeps every register and latch     *)
(* within its width.                                                        *)
LEMMA PipeTyped ==
  ASSUME TypeOK, Pipe, PC' \in Word
  PROVE  TypeOK'
  <1>1. \A w \in DOMAIN inst_ram' : inst_ram'[w] \in Instr
    BY DEF Pipe, TypeOK
  <1>2. last_PC' \in Word
    BY DEF Pipe, TypeOK
  <1>3. ID' \in [instr : Instr, fourPC : Word]
    BY FetchTyped, SmallWords DEF Pipe, TypeOK
  <1>4. EX' \in [name : Name, instr : Instr, fourPC : Word, a : Word, b : Word]
    <2>1. /\ ID.instr \in Instr /\ ID.fourPC \in Word
          /\ ID.instr.rs \in Reg /\ ID.instr.rt \in Reg
          /\ ID.instr.imm \in Word
      BY DEF TypeOK, Instr
    <2> QED
      BY <2>1, DecodeTyped, WriteBackTyped DEF Pipe, NextEX
  <1>5. MEM' \in [name : Name, instr : Instr, fourPC : Word, alu : Word,
                  a : Word, b : Word, hi : Word, lo : Word]
    BY ExecuteTyped DEF Pipe, NextMEM, TypeOK
  <1>6. WB' \in [name : Name, instr : Instr, fourPC : Word, alu : Word,
                 b : Word, hi : Word, lo : Word, rdata : Word]
    <2>1. data_ram[RamWord] \in Word
      BY WordArithmetic DEF TypeOK, RamWord
    <2> QED
      BY <2>1, ForwardTyped DEF Pipe, NextWB, TypeOK
  <1>7. alu_latch' \in Word
    BY ExecuteTyped DEF Pipe
  <1>8. registers' \in [Reg -> Word]
    BY WriteBackTyped DEF Pipe, TypeOK
  <1>9. HI' \in Word /\ LO' \in Word
    BY WriteBackTyped DEF Pipe
  <1>10. data_ram' \in [0 .. DataWords - 1 -> Word]
    <2>1. RamWord \in 0 .. DataWords - 1 /\ MEM.alu % 4 \in 0 .. 3
      BY WordArithmetic DEF TypeOK, RamWord
    <2>2. MEM_memWrite =>
            StoreLanes(MEM.name, MEM.alu % 4, data_ram[RamWord], MEM.b)
              \in Word
      BY <2>1, UnitAssumption DEF TypeOK, MEM_memWrite
    <2> QED
      BY <2>1, <2>2 DEF Pipe, NextRam, TypeOK
  <1>11. cp0' \in CP0Type
    BY CP0Typed, ExcTyped, DecodeTyped DEF Pipe, NextCP0, CP0Type, if_exc
  <1>12. kill' \subseteq 0 .. 3
    BY ExcTyped DEF Pipe, NextKill
  <1> QED
    BY <1>1, <1>2, <1>3, <1>4, <1>5, <1>6, <1>7, <1>8, <1>9, <1>10, <1>11,
       <1>12
    DEF TypeOK, CP0Type

(* Every step keeps the types, whatever the fairness.                       *)
LEMMA TypeInit == Init => TypeOK
  <1> SUFFICES ASSUME Init PROVE TypeOK
    OBVIOUS
  <1>1. \A w \in DOMAIN inst_ram : inst_ram[w] \in Instr
    BY CpuAssumption DEF Init
  <1>2. PC \in Word /\ last_PC \in Word
    BY SmallWords, CpuAssumption DEF Init
  <1>3. /\ 0 \in Word /\ 0 \in ImField /\ 0 \in IpField /\ "NOP" \in Name
        /\ Nop \in Instr
    BY SmallWords, NopTyped DEF ImField, IpField, Name
  <1> QED
    BY <1>1, <1>2, <1>3 DEF Init, TypeOK

LEMMA TypeStep == TypeOK /\ [Next]_vars => TypeOK'
  <1> SUFFICES ASSUME TypeOK, [Next]_vars PROVE TypeOK'
    OBVIOUS
  <1>1. CASE Advance
    BY <1>1, NpcTyped, PipeTyped DEF Advance
  <1>2. CASE Stall
    <2>1. PC' \in Word
      BY <1>2 DEF Stall, TypeOK
    <2> QED
      BY <1>2, <2>1, PipeTyped DEF Stall
  <1>3. CASE TakeException
    BY <1>3, NpcTyped, PipeTyped DEF TakeException
  <1>4. CASE UNCHANGED vars
    BY <1>4 DEF TypeOK, vars
  <1> QED
    BY <1>1, <1>2, <1>3, <1>4 DEF Next

(* Every register and latch of the design keeps its width and range, for    *)
(* every program and word size.                                             *)
THEOREM TypeCorrect == Spec => []TypeOK
  BY TypeInit, TypeStep, PTL DEF Spec

-----------------------------------------------------------------------------
(* Loads.  LoadHeld and NoLoadForwarded are not inductive: which slots may  *)
(* hold a load depends on how the flush mask has moved.  A slot the mask    *)
(* reached while it was in ID holds a bubble or a trap, and the mask never  *)
(* flushes ID without EX.                                                  *)

Bubble == Trap \cup {"NOP"}
MaskInv ==
  /\ 3 \in kill => 2 \in kill
  /\ 2 \in kill /\ 3 \notin kill => EX.name \in Bubble
  /\ 1 \in kill /\ 2 \notin kill => MEM.name \in Bubble
\* A slot is named after its instruction word, or is a bubble.
NameInv == EX.name # "NOP" => EX.name = EX.instr.op
LoadInv == MaskInv /\ NameInv /\ LoadHeld

(* The names of flushed and stalled slots are not loads.                    *)
LEMMA NotLoad == \A n \in Bubble : n \notin Load
  BY DEF Bubble, Trap, Load

\* A fresh mask always flushes ID and EX; the old one loses its top slot.
LEMMA NextKillCases ==
  \/ {2, 3} \subseteq NextKill
  \/ NextKill = {b \in 0 .. 2 : b + 1 \in kill}
  BY DEF NextKill, Exc, Fault, NoFault

(* decode.v issues a bubble or a trap from a stalled or flushed slot, and   *)
(* otherwise the word in ID under its own name.                             *)
LEMMA StalledName ==
  /\ stall_info \/ 3 \in kill => inst_name \in Bubble
  /\ inst_name \notin Bubble => inst_name = ID.instr.op
  BY DEF inst_name, Bubble

(* pipe_stall_info never flushes ID without EX, and the slots a flush has   *)
(* reached in ID stay bubbles as the mask moves with them.                  *)
LEMMA MaskStep ==
  ASSUME MaskInv, Pipe
  PROVE  MaskInv'
  <1>1. kill' = NextKill /\ EX'.name = inst_name /\ MEM'.name = EX.name
    BY DEF Pipe, NextEX, NextMEM
  <1>2. CASE {2, 3} \subseteq NextKill
    BY <1>1, <1>2 DEF MaskInv
  <1>3. CASE NextKill = {b \in 0 .. 2 : b + 1 \in kill}
    <2>1. 3 \notin kill' /\ (2 \in kill' <=> 3 \in kill)
          /\ (1 \in kill' <=> 2 \in kill)
      BY <1>1, <1>3
    <2> QED
      BY <1>1, <2>1, StalledName DEF MaskInv
  <1> QED
    BY <1>2, <1>3, NextKillCases

(* A clock edge keeps a load in EX or MEM behind its own copy in ID.        *)
LEMMA HeldStep ==
  ASSUME LoadInv, Pipe
  PROVE  LoadHeld'
  <1>1. /\ kill' = NextKill /\ EX' = NextEX /\ MEM' = NextMEM
        /\ ID'.instr = IF Hazard(ID.instr, NextEX, NextMEM, NextKill)
                       THEN ID.instr ELSE Fetch(PC)
    BY DEF Pipe
  <1>2. ASSUME EX'.name \in Load, 3 \notin kill'
        PROVE  ID'.instr = EX'.instr
    <2>1. NextEX.name \in Load /\ NextEX.instr = ID.instr
      BY <1>1, <1>2 DEF NextEX
    <2>2. Hazard(ID.instr, NextEX, NextMEM, NextKill)
      BY <1>1, <1>2, <2>1 DEF Hazard
    <2> QED
      BY <1>1, <2>1, <2>2
  <1>3. ASSUME MEM'.name \in Load, 1 \notin kill', 3 \notin kill'
        PROVE  ID'.instr = MEM'.instr /\ EX'.name = "NOP"
    <2>1. /\ EX.name \in Load
          /\ NextMEM.name = EX.name /\ NextMEM.instr = EX.instr
      BY <1>1, <1>3 DEF NextMEM
    <2>2. NextKill = {b \in 0 .. 2 : b + 1 \in kill}
      BY <1>1, <1>3, NextKillCases
    <2>3. 2 \notin kill
      BY <1>1, <1>3, <2>2
    <2>4. 3 \notin kill
      BY <2>3 DEF LoadInv, MaskInv
    <2>5. ID.instr = EX.instr
      BY <2>1, <2>4 DEF LoadInv, LoadHeld
    <2>6. stall_info
      BY <2>1, <2>4, <2>5 DEF stall_info, Hazard
    <2>7. ID.instr.op \notin Trap
      BY <2>1, <2>5, NotLoad DEF LoadInv, NameInv, Bubble, Load
    <2>8. inst_name = "NOP"
      BY <2>6, <2>7 DEF inst_name
    <2>9. Hazard(ID.instr, NextEX, NextMEM, NextKill)
      BY <1>1, <1>3, <2>1, <2>5 DEF Hazard
    <2> QED
      BY <1>1, <2>1, <2>5, <2>8, <2>9 DEF NextEX
  <1> QED
    BY <1>2, <1>3 DEF LoadHeld

(* The strengthening of LoadHeld by the reach of the flush mask and the     *)
(* naming of slots is an invariant of the pipeline.                         *)
LEMMA LoadInit == Init => LoadInv
  BY DEF Init, LoadInv, MaskInv, NameInv, LoadHeld, Load

LEMMA LoadStep == LoadInv /\ [Next]_vars => LoadInv'
  <1> SUFFICES ASSUME LoadInv, [Next]_vars PROVE LoadInv'
    OBVIOUS
  <1>1. CASE Next
    <2>1. Pipe
      BY <1>1 DEF Next, Advance, Stall, TakeException
    <2>2. MaskInv'
      BY <2>1, MaskStep DEF LoadInv
    <2>3. LoadHeld'
      BY <2>1, HeldStep
    <2>4. NameInv'
      BY <2>1 DEF Pipe, NextEX, NameInv, inst_name
    <2> QED
      BY <2>2, <2>3, <2>4 DEF LoadInv
  <1>2. CASE UNCHANGED vars
    BY <1>2 DEF LoadInv, MaskInv, NameInv, LoadHeld, vars
  <1> QED
    BY <1>1, <1>2

LEMMA LoadInvariant == Spec => []LoadInv
  BY LoadInit, LoadStep, PTL DEF Spec

(* A load holds itself in ID, behind a bubble, until it is past MEM: the     *)
(* hold of hazard_detection_unit.v outlasts every flush that can meet it.   *)
THEOREM LoadsAreHeld == Spec => []LoadHeld
  <1>1. LoadInv => LoadHeld
    BY DEF LoadInv
  <1> QED
    BY <1>1, LoadInvariant, PTL

(* No instruction that completes is in EX while a load is in MEM, so the    *)
(* ALU path of forwarding_unit.v never hands a load's address to it.        *)
THEOREM LoadsAreNotForwarded == Spec => []NoLoadForwarded
  <1>1. LoadInv => NoLoadForwarded
    <2> SUFFICES ASSUME LoadInv, EX.name # "NOP", 2 \notin kill,
                        MEM.name \in Load
                 PROVE  FALSE
      BY DEF NoLoadForwarded
    <2>1. 3 \notin kill
      BY DEF LoadInv, MaskInv
    <2>2. CASE 1 \in kill
      BY <2>2, NotLoad DEF LoadInv, MaskInv
    <2>3. CASE 1 \notin kill
      BY <2>1, <2>3 DEF LoadInv, LoadHeld
    <2> QED
      BY <2>2, <2>3
  <1> QED
    BY <1>1, LoadInvariant, PTL

(* stall_info is never up for a second edge once the load has left EX, for  *)
(* every program: the pipeline cannot hang on its own hazard detection.     *)
THEOREM StallsEnd == Spec => StallEnds
  <1>1. LoadInv /\ [Next]_vars
          => [stall_info /\ EX.name \notin Load => ~stall_info']_vars
    <2> SUFFICES ASSUME LoadInv, Next, stall_info, EX.name \notin Load
                 PROVE  ~stall_info'
      OBVIOUS
    <2>1. Pipe
      BY DEF Next, Advance, Stall, TakeException
    <2>2. MEM.name \in Load /\ 1 \notin kill /\ 3 \notin kill
      BY DEF stall_info, Hazard
    <2>3. MEM'.name = "NOP"
      BY <2>1, <2>2 DEF Pipe, NextMEM, LoadInv, LoadHeld
    <2>4. EX'.name \in Bubble
      BY <2>1, StalledName DEF Pipe, NextEX
    <2> QED
      BY <2>3, <2>4, NotLoad DEF stall_info, Hazard, Bubble, Load
  <1> QED
    BY <1>1, LoadInvariant, PTL DEF Spec, StallEnds

-----------------------------------------------------------------------------
(* The pipeline stays in step: each path by which an operand may reach an    *)
(* instruction brings what the reference has before it.                     *)

\* The reference behind instruction i in state s, when that is uneventful.
After(s, i) == IF i.op = "MTC0" THEN Mips!RefMtc0(s, i) ELSE Mips!ExecPlain(s, i)

\* What is in a stage takes the reference from s to t: a bubble, or an
\* instruction like those of Within.
Takes(stage, s, t) ==
  \/ stage.name = "NOP" /\ t = s
  \/ /\ stage.name = stage.instr.op /\ t = After(s, stage.instr)
     /\ Uneventful(s, stage.instr) /\ Regular(stage.instr)
     /\ stage.fourPC = Add(s.pc, 4)

State(s) == /\ s.pc \in Word
            /\ s.regs = [r \in Reg |-> s.regs[r]] /\ s.regs[0] = 0

\* The word in ID, and the two pcs while a load holds it.
Fetched ==
  /\ ID.fourPC = Add(before.id.pc, 4)
  /\ EX.name \in Load => PC = before.id.npc /\ last_PC = before.id.pc
  /\ MEM.name \in Load => PC = before.id.pc /\ last_PC = before.id.npc
  /\ EX.name \notin Load /\ MEM.name \notin Load =>
       PC = before.id.npc /\ ID.instr = Fetch(before.id.pc)

\* EX has its operands as they were before the two instructions ahead of it.
Read == EX.name # "NOP" =>
  /\ EX.a = IF EX.name \in ShiftImm THEN EX.instr.imm ELSE before.wb.regs[EX.instr.rs]
  /\ EX.b = before.wb.regs[EX.instr.rt]
  /\ 31 \in {EX.instr.rs, EX.instr.rt} => MEM.name \notin Link

\* What the ALU and the multiplier have made of the operands.
Computed == MEM.name # "NOP" =>
  /\ MEM.name \in AluOps => MEM.alu = Mips!RefAddr(before.mem, MEM.instr)
  /\ MEM.a = Mips!RefRs(before.mem, MEM.instr)
  /\ MEM.b = before.mem.regs[MEM.instr.rt]
  /\ MEM.name \in MulDiv => /\ MEM.hi = Mips!RefProduct(before.mem, MEM.instr).hi
                            /\ MEM.lo = Mips!RefProduct(before.mem, MEM.instr).lo

\* What WB is about to write.
Answered == WB.name # "NOP" =>
  /\ WB.name \in AluOps => WB.alu = Mips!RefAddr(before.wb, WB.instr)
  /\ WB.b = before.wb.regs[WB.instr.rt]
  /\ WB.name \in HiWrite => WB.hi = before.mem.hi
  /\ WB.name \in LoWrite => WB.lo = before.mem.lo
  /\ WB.name \in Load =>
       WB.rdata = before.wb.mem[Mips!RefWord(before.wb, WB.instr)]

Retired == /\ registers = before.wb.regs /\ HI = before.wb.hi /\ LO = before.wb.lo
           /\ cp0 = before.wb.cp0 /\ data_ram = before.mem.mem

Agreed == /\ kill = {}
          /\ State(before.id) /\ State(before.ex) /\ State(before.mem) /\ State(before.wb)
          /\ Takes(EX, before.ex, before.id)
          /\ Takes(MEM, before.mem, before.ex)
          /\ Takes(WB, before.wb, before.mem)
          /\ Fetched /\ Read /\ Computed /\ Answered /\ Retired

LockInv == /\ TypeOK /\ LoadInv /\ phase \in {"reset", "agreed", "departed"}
           /\ phase = "reset" => Init /\ LockInit
           /\ phase = "agreed" => Agreed

-----------------------------------------------------------------------------
\* MipsRef has the names of MipsDefs.
LEMMA SameNames ==
  /\ Mips!AddSub = AddSub /\ Mips!MulDiv = MulDiv /\ Mips!ShiftImm = ShiftImm
  /\ Mips!Branch = Branch /\ Mips!Jump = Jump /\ Mips!JumpReg = JumpReg
  /\ Mips!Load = Load /\ Mips!Store = Store /\ Mips!Link = Link
  /\ Mips!UsesImm = UsesImm /\ Mips!ZeroExtended = ZeroExtended /\ Mips!RegWrite = RegWrite
  /\ \A n, i : Mips!Dest(n, i) = Dest(n, i)
  /\ \A n : Mips!Size(n) = Size(n)
<1>1. /\ Mips!AddSub = AddSub /\ Mips!MulDiv = MulDiv /\ Mips!ShiftImm = ShiftImm
      /\ Mips!Branch = Branch /\ Mips!Jump = Jump /\ Mips!JumpReg = JumpReg
      /\ Mips!Load = Load /\ Mips!Store = Store /\ Mips!Link = Link
      /\ Mips!ZeroExtended = ZeroExtended /\ Mips!AluImm = AluImm /\ Mips!AluReg = AluReg
  BY DEF Mips!AddSub, AddSub, Mips!MulDiv, MulDiv, Mips!ShiftImm, ShiftImm, Mips!Branch, Branch,
         Mips!Jump, Jump, Mips!JumpReg, JumpReg, Mips!Load, Load, Mips!Store, Store, Mips!Link,
         Link, Mips!ZeroExtended, ZeroExtended, Mips!AluImm, AluImm, Mips!AluReg, AluReg
<1>2. Mips!UsesImm = UsesImm /\ Mips!RegWrite = RegWrite
  BY <1>1 DEF Mips!UsesImm, UsesImm, Mips!RegWrite, RegWrite
<1>3. \A n, i : Mips!Dest(n, i) = Dest(n, i)
  BY <1>1 DEF Mips!Dest, Dest
<1>4. \A n : Mips!Size(n) = Size(n)
  BY DEF Mips!Size, Size
<1> QED BY <1>1, <1>2, <1>3, <1>4

\* The kinds of names.
LEMMA Kinds ==
  /\ "NOP" \notin RegWrite \cup HiWrite \cup LoWrite \cup Load \cup Store \cup MulDiv
                  \cup AluOps \cup Branch \cup Jump \cup Link \cup Trap \cup AddSub
                  \cup JumpReg \cup ShiftImm
  /\ \A n \in HiWrite \cup LoWrite \cup Store \cup {"MTC0"} : n \notin RegWrite
  /\ \A n \in RegWrite :
       n \in AluOps \/ n \in Link \/ n \in {"MFHI", "MFLO", "MFC0"}
  /\ \A n \in AluOps : n \notin Link \cup {"MFHI", "MFLO", "MFC0"}
  /\ \A n \in Link : n \notin {"MFHI", "MFLO", "MFC0"}
  /\ \A n \in Load : n \in RegWrite /\ n \in AluOps /\ n \notin Branch \cup Jump \cup Link
  /\ Store \subseteq AluOps /\ AddSub \subseteq AluOps
  /\ JumpReg \subseteq Jump /\ Load \cap Store = {}
  /\ \A n \in MulDiv : n \in HiWrite \cap LoWrite /\ n \notin UsesImm \cup ShiftImm
  /\ \A n \in HiWrite : n \in MulDiv \/ n = "MTHI"
  /\ \A n \in LoWrite : n \in MulDiv \/ n = "MTLO"
  /\ "MTHI" \notin ShiftImm \cup MulDiv /\ "MTLO" \notin ShiftImm \cup MulDiv
  /\ "MTHI" # "MTLO" /\ ZeroExtended \subseteq UsesImm /\ UsesImm \cap ShiftImm = {}
  BY DEF RegWrite, HiWrite, LoWrite, Load, Store, MulDiv, AluOps, AluReg, AluImm, Branch, Jump,
         Link, Trap, AddSub, JumpReg, ShiftImm, UsesImm, ZeroExtended

-----------------------------------------------------------------------------
\* What an instruction does to the reference.
LEMMA Effect ==
  ASSUME NEW s, NEW i
  PROVE  /\ After(s, i).pc = s.npc
         /\ After(s, i).npc = Mips!RefTarget(s, i)
         /\ After(s, i).regs = Mips!RefRegs(s, i)
         /\ After(s, i).hi = Mips!RefHi(s, i)
         /\ After(s, i).lo = Mips!RefLo(s, i)
         /\ After(s, i).mem = Mips!RefMem(s, i)
         /\ After(s, i).out = Mips!RefOut(s, i)
         /\ i.op = "MTC0" =>
              After(s, i).cp0 = Mips!RefMoved(s.cp0, i.rd, s.regs[i.rt])
         /\ i.op # "MTC0" => After(s, i).cp0 = s.cp0
  BY DEF After, Mips!RefMtc0, Mips!ExecPlain

\* What it leaves alone, and the register it writes.
LEMMA Changes ==
  ASSUME NEW s, NEW i, State(s), Regular(i)
  PROVE  /\ i.op \in RegWrite =>
              /\ Dest(i.op, i) # 0
              /\ \A r \in Reg : After(s, i).regs[r] =
                   IF r = Dest(i.op, i) THEN Mips!RefResult(s, i) ELSE s.regs[r]
         /\ i.op \notin RegWrite => After(s, i).regs = s.regs
         /\ After(s, i).regs = [r \in Reg |-> After(s, i).regs[r]]
         /\ After(s, i).regs[0] = 0
         /\ i.op \notin HiWrite => After(s, i).hi = s.hi
         /\ i.op \notin LoWrite => After(s, i).lo = s.lo
         /\ i.op \notin Store => After(s, i).mem = s.mem
         /\ i.op # "MTC0" => After(s, i).cp0 = s.cp0
<1>1. i.op \in RegWrite => Dest(i.op, i) # 0
  BY DEF Regular
<1>2. i.op \in RegWrite =>
        Mips!RefRegs(s, i) = [r \in Reg |-> IF r = Dest(i.op, i) /\ r # 0
                                THEN Mips!RefResult(s, i) ELSE s.regs[r]]
  BY SameNames DEF Mips!RefRegs
<1>3. i.op \notin RegWrite => Mips!RefRegs(s, i) = s.regs
  BY SameNames DEF Mips!RefRegs
<1>4. i.op \in RegWrite =>
        \A r \in Reg : Mips!RefRegs(s, i)[r] =
          IF r = Dest(i.op, i) THEN Mips!RefResult(s, i) ELSE s.regs[r]
  BY <1>1, <1>2
<1>5. Mips!RefRegs(s, i) = [r \in Reg |-> Mips!RefRegs(s, i)[r]]
  <2>1. CASE i.op \in RegWrite
    BY <1>2, <2>1
  <2>2. CASE i.op \notin RegWrite
    BY <1>3, <2>2 DEF State
  <2> QED BY <2>1, <2>2
<1>6. Mips!RefRegs(s, i)[0] = 0
  BY <1>1, <1>3, <1>4, CpuAssumption DEF State
<1>7. i.op \notin HiWrite => Mips!RefHi(s, i) = s.hi
  BY SameNames DEF Mips!RefHi, HiWrite
<1>8. i.op \notin LoWrite => Mips!RefLo(s, i) = s.lo
  BY SameNames DEF Mips!RefLo, LoWrite
<1>9. i.op \notin Store => Mips!RefMem(s, i) = s.mem
  BY SameNames DEF Mips!RefMem
<1> QED BY <1>1, <1>3, <1>4, <1>5, <1>6, <1>7, <1>8, <1>9, Effect

\* The same of what is in a stage, under the name it has there.
LEMMA StageEffect ==
  ASSUME NEW stage, NEW s, NEW t, State(s), Takes(stage, s, t)
  PROVE  /\ stage.name # "NOP" =>
              /\ stage.name = stage.instr.op /\ t = After(s, stage.instr)
              /\ Uneventful(s, stage.instr) /\ Regular(stage.instr)
              /\ stage.fourPC = Add(s.pc, 4)
         /\ stage.name \in RegWrite =>
              /\ Dest(stage.name, stage.instr) # 0
              /\ \A r \in Reg : t.regs[r] = IF r = Dest(stage.name, stage.instr)
                                THEN Mips!RefResult(s, stage.instr) ELSE s.regs[r]
         /\ stage.name \notin RegWrite => t.regs = s.regs
         /\ stage.name \notin HiWrite => t.hi = s.hi
         /\ stage.name \notin LoWrite => t.lo = s.lo
         /\ stage.name \notin Store => t.mem = s.mem
         /\ stage.name # "MTC0" => t.cp0 = s.cp0
<1>1. CASE stage.name = "NOP" /\ t = s
  BY <1>1, Kinds
<1>2. CASE /\ stage.name = stage.instr.op /\ t = After(s, stage.instr)
           /\ Uneventful(s, stage.instr) /\ Regular(stage.instr)
           /\ stage.fourPC = Add(s.pc, 4)
  <2> DEFINE i == stage.instr
             n == stage.name
  <2>1. n = i.op /\ t = After(s, i) /\ State(s) /\ Regular(i)
    BY <1>2
  <2> HIDE DEF n, i
  <2>2. i.op \in RegWrite =>
          \A r \in Reg : After(s, i).regs[r] =
            IF r = Dest(i.op, i) THEN Mips!RefResult(s, i) ELSE s.regs[r]
    BY <2>1, Changes
  <2>4. n \in RegWrite =>
          \A r \in Reg : t.regs[r] =
            IF r = Dest(n, i) THEN Mips!RefResult(s, i) ELSE s.regs[r]
    BY <2>1, <2>2
  <2>3. /\ n \in RegWrite => Dest(n, i) # 0
        /\ n \notin RegWrite => After(s, i).regs = s.regs
        /\ n \notin HiWrite => After(s, i).hi = s.hi
        /\ n \notin LoWrite => After(s, i).lo = s.lo
        /\ n \notin Store => After(s, i).mem = s.mem
        /\ n # "MTC0" => After(s, i).cp0 = s.cp0
    BY <2>1, Changes
  <2> QED BY <1>2, <2>1, <2>3, <2>4 DEF n, i
<1> QED BY <1>1, <1>2 DEF Takes

\* An uneventful instruction is none of those that raise, and its address is
\* in order.
LEMMA Nothing ==
  ASSUME NEW s, NEW i, Uneventful(s, i)
  PROVE  /\ s.pc % 4 = 0 /\ i.op \notin Trap \cup {"RI", "ERET"}
         /\ i.op \in Load \cup Store => Mips!RefAddr(s, i) % Size(i.op) = 0
         /\ i.op \in AddSub \cup Load \cup Store =>
              ~AluOverflow(i.op, Mips!RefRs(s, i), Mips!RefRt(s, i))
<1>1. Mips!RefFault(s, i) = 32
  BY DEF Uneventful, Mips!NoCode
<1>2. s.pc % 4 = 0
  BY <1>1 DEF Mips!RefFault
<1>3. i.op \notin {"RI", "BREAK", "SYSCALL"}
  BY <1>1 DEF Mips!RefFault
<1>4. i.op \in AddSub => ~AluOverflow(i.op, Mips!RefRs(s, i), Mips!RefRt(s, i))
  BY <1>1, SameNames DEF Mips!RefFault
<1>5. i.op \in Load \cup Store => Mips!RefAddr(s, i) % Size(i.op) = 0
  BY <1>1, SameNames DEF Mips!RefFault
<1> QED BY <1>2, <1>3, <1>4, <1>5 DEF Uneventful, Trap

-----------------------------------------------------------------------------
\* What an mtc0 in WB has done to CP0 already.
LEMMA MovedNow ==
  ASSUME kill = {}
  PROVE  /\ WB.name # "MTC0" => CP0_now = cp0
         /\ WB.name = "MTC0" => CP0_now = Mips!RefMoved(cp0, WB.instr.rd, WB.b)
<1>1. WB.name # "MTC0" => CP0_now = cp0
  BY DEF CP0_now
<1>2. WB.name = "MTC0" => CP0_now = Mips!RefMoved(cp0, WB.instr.rd, WB.b)
  BY DEF CP0_now, Mips!RefMoved
<1> QED BY <1>1, <1>2

\* The instruction in WB ends as the reference has it.
LEMMA EndsInWB ==
  ASSUME TypeOK, Agreed
  PROVE  /\ out_HI_data = before.mem.hi /\ out_LO_data = before.mem.lo
         /\ CP0_now = before.mem.cp0
         /\ WB_regWrite <=> WB.name \in RegWrite
<1>1. /\ State(before.wb) /\ Takes(WB, before.wb, before.mem) /\ Answered /\ kill = {}
      /\ HI = before.wb.hi /\ LO = before.wb.lo /\ cp0 = before.wb.cp0
  BY DEF Agreed, Retired
<1>2. /\ WB.name \notin HiWrite => before.mem.hi = before.wb.hi
      /\ WB.name \notin LoWrite => before.mem.lo = before.wb.lo
      /\ WB.name # "MTC0" => before.mem.cp0 = before.wb.cp0
  BY <1>1, StageEffect
<1>3. out_HI_data = before.mem.hi /\ out_LO_data = before.mem.lo
  BY <1>1, <1>2, Kinds DEF out_HI_data, out_LO_data, Answered
<1>4. CP0_now = before.mem.cp0
  <2>1. CASE WB.name # "MTC0"
    BY <1>1, <1>2, <2>1, MovedNow
  <2>2. CASE WB.name = "MTC0"
    <3>1. before.mem = After(before.wb, WB.instr) /\ WB.instr.op = "MTC0"
      BY <1>1, <2>2, StageEffect
    <3>2. before.mem.cp0 = Mips!RefMoved(before.wb.cp0, WB.instr.rd,
                                         before.wb.regs[WB.instr.rt])
      BY <3>1, Effect
    <3>3. WB.b = before.wb.regs[WB.instr.rt]
      BY <1>1, <2>2 DEF Answered
    <3> QED BY <1>1, <2>2, <3>2, <3>3, MovedNow
  <2> QED BY <2>1, <2>2
<1>5. WB_regWrite <=> WB.name \in RegWrite
  BY <1>1 DEF WB_regWrite
<1> QED BY <1>3, <1>4, <1>5

\* The link of the instruction at pc.
LEMMA LinkAddress ==
  ASSUME NEW pc \in Word
  PROVE  /\ Add(Add(pc, 4), 4) = Mips!Plus(pc, 8)
         /\ Sub(Add(pc, 4), 4) = pc
<1> DEFINE a == (pc + 4) % Mod
<1>1. pc \in Nat /\ pc < Mod /\ Mod \in Nat /\ Mod > 8
  BY CpuAssumption DEF Word
<1>2. CASE pc + 8 < Mod
  <2>1. a = pc + 4 /\ (a + 4) % Mod = pc + 8 /\ (pc + 8) % Mod = pc + 8
        /\ (a + Mod - 4) % Mod = pc
    BY <1>1, <1>2
  <2> QED BY <2>1 DEF Add, Sub, Mips!Plus
<1>3. CASE pc + 4 < Mod /\ pc + 8 >= Mod
  <2>1. a = pc + 4 /\ (a + 4) % Mod = pc + 8 - Mod /\ (pc + 8) % Mod = pc + 8 - Mod
        /\ (a + Mod - 4) % Mod = pc
    BY <1>1, <1>3
  <2> QED BY <2>1 DEF Add, Sub, Mips!Plus
<1>4. CASE pc + 4 >= Mod
  <2>1. a = pc + 4 - Mod
    BY <1>1, <1>4
  <2>2. (a + 4) % Mod = pc + 8 - Mod /\ (pc + 8) % Mod = pc + 8 - Mod
    BY <1>1, <1>4, <2>1
  <2>3. (a + Mod - 4) % Mod = pc
    BY <1>1, <1>4, <2>1
  <2> QED BY <2>2, <2>3 DEF Add, Sub, Mips!Plus
<1> QED BY <1>1, <1>2, <1>3, <1>4

\* The word that goes to the registers, and to whoever reads them meanwhile.
LEMMA WritesBack ==
  ASSUME TypeOK, Agreed, WB.name \in RegWrite
  PROVE  writeData = Mips!RefResult(before.wb, WB.instr)
<1>1. /\ State(before.wb) /\ Takes(WB, before.wb, before.mem) /\ Answered /\ kill = {}
      /\ HI = before.wb.hi /\ LO = before.wb.lo /\ cp0 = before.wb.cp0
  BY DEF Agreed, Retired
<1>2. /\ WB.name # "NOP" /\ WB.name = WB.instr.op /\ Regular(WB.instr)
      /\ WB.fourPC = Add(before.wb.pc, 4)
  BY <1>1, StageEffect, Kinds
<1>3. WB.name \notin HiWrite /\ WB.name \notin LoWrite /\ WB.name # "MTC0"
  BY Kinds
<1>4. out_HI_data = before.wb.hi /\ out_LO_data = before.wb.lo /\ CP0_now = before.wb.cp0
  BY <1>1, <1>3, MovedNow DEF out_HI_data, out_LO_data
<1>5. CASE WB.name \in Load
  <2>1. /\ WB.alu = Mips!RefAddr(before.wb, WB.instr)
        /\ WB.rdata = before.wb.mem[Mips!RefWord(before.wb, WB.instr)]
        /\ WB.name \notin Link /\ WB.name \notin {"MFHI", "MFLO", "MFC0"}
    BY <1>1, <1>2, <1>5, Kinds DEF Answered
  <2>2. writeData = LoadExt(WB.name, WB.alu % 4, WB.rdata)
    BY <1>5, <2>1 DEF writeData
  <2>3. Mips!RefResult(before.wb, WB.instr) =
          LoadExt(WB.instr.op, Mips!RefAddr(before.wb, WB.instr) % 4,
                  before.wb.mem[Mips!RefWord(before.wb, WB.instr)])
    <3>1. WB.instr.op \in Mips!Load
      BY <1>2, <1>5, SameNames
    <3>2. \A n \in Mips!Load : n \notin {"MFHI", "MFLO", "MFC0"} /\ n \notin Mips!Link
      BY DEF Mips!Load, Mips!Link
    <3> QED BY <3>1, <3>2 DEF Mips!RefResult
  <2> QED BY <1>2, <2>1, <2>2, <2>3
<1>6. CASE WB.name \in Link
  <2>1. WB.name \notin Load /\ WB.name \notin {"MFHI", "MFLO", "MFC0"}
    BY <1>6, Kinds
  <2>2. before.wb.pc \in Word
    BY <1>1 DEF State
  <2> QED BY <1>2, <1>6, <2>1, <2>2, LinkAddress, SameNames DEF writeData, Mips!RefResult
<1>7. CASE WB.name = "MFC0"
  <2>1. WB.instr.rd \in {8, 9, 12, 13, 14}
    BY <1>2, <1>7 DEF Regular
  <2>2. CP0_out_data = Mips!RefCP0(before.wb.cp0, WB.instr.rd)
    BY <1>4, <2>1 DEF CP0_out_data, CP0_read, Mips!RefCP0
  <2> QED BY <1>2, <1>7, <2>2, SameNames, Kinds DEF writeData, Mips!RefResult
<1>8. CASE WB.name \in {"MFHI", "MFLO"}
  BY <1>2, <1>4, <1>8, SameNames, Kinds DEF writeData, Mips!RefResult
<1>9. CASE WB.name \in AluOps /\ WB.name \notin Load
  <2>1. /\ WB.alu = Mips!RefAddr(before.wb, WB.instr)
        /\ WB.name \notin Link /\ WB.name \notin {"MFHI", "MFLO", "MFC0"}
    BY <1>1, <1>2, <1>9, Kinds DEF Answered
  <2> QED BY <1>2, <1>9, <2>1, SameNames DEF writeData, Mips!RefResult, Mips!RefAddr
<1> QED BY <1>5, <1>6, <1>7, <1>8, <1>9, Kinds

\* regfile.v reads the registers as they are behind WB.
LEMMA RegistersAgree ==
  ASSUME TypeOK, Agreed
  PROVE  /\ [r \in Reg |-> IF WB_regWrite /\ r = WB_writeDataReg
                           THEN writeData ELSE registers[r]] = before.mem.regs
         /\ \A r \in Reg : readData(r) = before.mem.regs[r]
<1>1. /\ State(before.wb) /\ State(before.mem) /\ Takes(WB, before.wb, before.mem)
      /\ registers = before.wb.regs
  BY DEF Agreed, Retired
<1>2. ASSUME NEW r \in Reg
      PROVE  before.mem.regs[r] = IF WB_regWrite /\ r = WB_writeDataReg
                                  THEN writeData ELSE registers[r]
  <2>1. CASE WB.name \in RegWrite
    <3>1. before.mem.regs[r] = IF r = Dest(WB.name, WB.instr)
            THEN Mips!RefResult(before.wb, WB.instr) ELSE before.wb.regs[r]
      BY <1>1, <2>1, StageEffect
    <3>2. WB_regWrite /\ writeData = Mips!RefResult(before.wb, WB.instr)
      BY <2>1, EndsInWB, WritesBack
    <3> QED BY <1>1, <3>1, <3>2 DEF WB_writeDataReg
  <2>2. CASE WB.name \notin RegWrite
    <3>1. before.mem.regs = before.wb.regs /\ ~WB_regWrite
      BY <1>1, <2>2, StageEffect, EndsInWB
    <3> QED BY <1>1, <3>1
  <2> QED BY <2>1, <2>2
<1>3. before.mem.regs = [r \in Reg |-> before.mem.regs[r]] /\ before.mem.regs[0] = 0
  BY <1>1 DEF State
<1>4. \A r \in Reg : readData(r) = before.mem.regs[r]
  BY <1>2, <1>3 DEF readData
<1>5. [r \in Reg |-> IF WB_regWrite /\ r = WB_writeDataReg
                     THEN writeData ELSE registers[r]] = before.mem.regs
  BY <1>2, <1>3
<1> QED BY <1>4, <1>5

-----------------------------------------------------------------------------
\* What the instruction in MEM leaves in HI, LO and CP0, and that it raises nothing.
LEMMA InMEM ==
  ASSUME TypeOK, Agreed
  PROVE  /\ MEM.name \in HiWrite => in_mem_HI_data = before.ex.hi
         /\ MEM.name \in LoWrite => in_mem_LO_data = before.ex.lo
         /\ MEM.name \notin HiWrite => before.ex.hi = out_HI_data
         /\ MEM.name \notin LoWrite => before.ex.lo = out_LO_data
         /\ MEM.name # "MTC0" => before.ex.cp0 = CP0_now
         /\ MEM.name \in Load \cup Store => ~Misaligned
<1>1. /\ State(before.mem) /\ Takes(MEM, before.mem, before.ex) /\ Computed
  BY DEF Agreed
<1>2. /\ MEM.name \notin HiWrite => before.ex.hi = before.mem.hi
      /\ MEM.name \notin LoWrite => before.ex.lo = before.mem.lo
      /\ MEM.name # "MTC0" => before.ex.cp0 = before.mem.cp0
      /\ MEM.name # "NOP" => /\ MEM.name = MEM.instr.op
                             /\ before.ex = After(before.mem, MEM.instr)
                             /\ Uneventful(before.mem, MEM.instr)
  BY <1>1, StageEffect
<1>3. ASSUME MEM.name # "NOP"
      PROVE  /\ before.ex.hi = Mips!RefHi(before.mem, MEM.instr)
             /\ before.ex.lo = Mips!RefLo(before.mem, MEM.instr)
  BY <1>2, <1>3, Effect
<1>4. MEM.name \in {"MTHI", "MTLO"} => MEM.a = before.mem.regs[MEM.instr.rs]
  BY <1>1, <1>2, SameNames, Kinds DEF Computed, Mips!RefRs
<1>5. MEM.name \in HiWrite => in_mem_HI_data = before.ex.hi
  <2>1. CASE MEM.name = "MTHI"
    BY <1>2, <1>3, <1>4, <2>1 DEF in_mem_HI_data, Mips!RefHi
  <2>2. CASE MEM.name \in MulDiv
    BY <1>1, <1>2, <1>3, <2>2, SameNames, Kinds DEF in_mem_HI_data, Mips!RefHi, Computed
  <2> QED BY <2>1, <2>2, Kinds
<1>6. MEM.name \in LoWrite => in_mem_LO_data = before.ex.lo
  <2>1. CASE MEM.name = "MTLO"
    BY <1>2, <1>3, <1>4, <2>1 DEF in_mem_LO_data, Mips!RefLo
  <2>2. CASE MEM.name \in MulDiv
    BY <1>1, <1>2, <1>3, <2>2, SameNames, Kinds DEF in_mem_LO_data, Mips!RefLo, Computed
  <2> QED BY <2>1, <2>2, Kinds
<1>7. MEM.name \in Load \cup Store => ~Misaligned
  <2> SUFFICES ASSUME MEM.name \in Load \cup Store PROVE ~Misaligned
    OBVIOUS
  <2>1. MEM.name # "NOP" /\ MEM.name \in AluOps
    BY Kinds
  <2>2. MEM.alu = Mips!RefAddr(before.mem, MEM.instr)
    BY <1>1, <2>1 DEF Computed
  <2>3. Mips!RefAddr(before.mem, MEM.instr) % Size(MEM.instr.op) = 0
    BY <1>2, <2>1, Nothing
  <2> QED BY <1>2, <2>1, <2>2, <2>3 DEF Misaligned
<1> QED BY <1>2, <1>5, <1>6, <1>7, EndsInWB

\* It forwards what the reference has for its result, unless that is the datum
\* of a load or a link.
LEMMA ForwardsFromMEM ==
  ASSUME TypeOK, Agreed, MEM.name \in RegWrite, MEM.name \notin Load, MEM.name \notin Link
  PROVE  MEM_forward_data = Mips!RefResult(before.mem, MEM.instr)
<1>1. /\ State(before.mem) /\ Takes(MEM, before.mem, before.ex) /\ Computed
  BY DEF Agreed
<1>2. MEM.name # "NOP" /\ MEM.name = MEM.instr.op /\ Regular(MEM.instr)
  BY <1>1, StageEffect, Kinds
<1>3. CASE MEM.name \in {"MFHI", "MFLO"}
  BY <1>2, <1>3, EndsInWB, SameNames, Kinds DEF MEM_forward_data, Mips!RefResult
<1>4. CASE MEM.name = "MFC0"
  <2>1. MEM.instr.rd \in {8, 9, 12, 13, 14}
    BY <1>2, <1>4 DEF Regular
  <2>2. CP0_read(MEM.instr.rd) = Mips!RefCP0(before.mem.cp0, MEM.instr.rd)
    BY <2>1, EndsInWB DEF CP0_read, Mips!RefCP0
  <2> QED BY <1>2, <1>4, <2>2, SameNames, Kinds DEF MEM_forward_data, Mips!RefResult
<1>5. CASE MEM.name \in AluOps
  <2>1. MEM.alu = Mips!RefAddr(before.mem, MEM.instr) /\ MEM.name \notin {"MFHI", "MFLO", "MFC0"}
    BY <1>1, <1>2, <1>5, Kinds DEF Computed
  <2>2. MEM.instr.op \notin Mips!Link /\ MEM.instr.op \notin Mips!Load
    BY <1>2, SameNames
  <2> QED BY <1>2, <2>1, <2>2 DEF MEM_forward_data, Mips!RefResult, Mips!RefAddr
<1> QED BY <1>3, <1>4, <1>5, Kinds

\* What a reader behind MEM is given by the paths from MEM and WB.
LEMMA BehindMEM ==
  ASSUME TypeOK, Agreed, MEM.name \notin Load, NEW r \in Reg, r = 31 => MEM.name \notin Link
  PROVE  /\ MEM.name \in RegWrite /\ MEM_writeDataReg = r =>
              MEM_forward_data = before.ex.regs[r]
         /\ ~(MEM.name \in RegWrite /\ MEM_writeDataReg = r) =>
              before.ex.regs[r] = before.mem.regs[r]
<1>1. State(before.mem) /\ Takes(MEM, before.mem, before.ex)
  BY DEF Agreed
<1>2. CASE MEM.name \in RegWrite
  <2>1. before.ex.regs[r] = IF r = Dest(MEM.name, MEM.instr)
          THEN Mips!RefResult(before.mem, MEM.instr) ELSE before.mem.regs[r]
    BY <1>1, <1>2, StageEffect
  <2>2. MEM_writeDataReg = r => MEM.name \notin Link
    BY Kinds DEF MEM_writeDataReg, Dest, AluImm, Load, Link
  <2> QED BY <1>2, <2>1, <2>2, ForwardsFromMEM DEF MEM_writeDataReg
<1>3. CASE MEM.name \notin RegWrite
  BY <1>1, <1>3, StageEffect
<1> QED BY <1>2, <1>3

-----------------------------------------------------------------------------
\* A register read two edges ago is brought up to date by forwarding_unit.v.
LEMMA Forwards ==
  ASSUME TypeOK, LoadInv, Agreed, EX.name # "NOP",
         NEW r \in Reg, NEW v, r = 31 => MEM.name \notin Link
  PROVE  /\ v = before.wb.regs[r] => Forwarded(r, v) = before.ex.regs[r]
         /\ r = 0 => Forwarded(r, v) = v
<1>1. kill = {} /\ MEM.name \notin Load
  <2>1. kill = {}
    BY DEF Agreed
  <2>2. MEM.name \in Load => EX.name = "NOP"
    BY <2>1 DEF LoadInv, LoadHeld
  <2> QED BY <2>1, <2>2
<1>2. /\ State(before.wb) /\ Takes(WB, before.wb, before.mem)
      /\ State(before.mem) /\ Takes(MEM, before.mem, before.ex)
  BY DEF Agreed
<1>3. /\ WB.name \in RegWrite => WB_writeDataReg # 0
      /\ MEM.name \in RegWrite => MEM_writeDataReg # 0
  BY <1>2, StageEffect DEF WB_writeDataReg, MEM_writeDataReg
<1>4. WB_regWrite <=> WB.name \in RegWrite
  BY EndsInWB
<1>5. before.mem.regs[r] = IF WB_regWrite /\ WB_writeDataReg = r
                           THEN writeData ELSE before.wb.regs[r]
  <2>1. CASE WB.name \in RegWrite
    <3>1. before.mem.regs[r] = IF r = Dest(WB.name, WB.instr)
            THEN Mips!RefResult(before.wb, WB.instr) ELSE before.wb.regs[r]
      BY <1>2, <2>1, StageEffect
    <3> QED BY <1>4, <2>1, <3>1, WritesBack DEF WB_writeDataReg
  <2>2. CASE WB.name \notin RegWrite
    <3>1. before.mem.regs = before.wb.regs
      BY <1>2, <2>2, StageEffect
    <3> QED BY <1>4, <2>2, <3>1
  <2> QED BY <2>1, <2>2
<1>6. /\ MEM.name \in RegWrite /\ MEM_writeDataReg = r =>
           MEM_forward_data = before.ex.regs[r]
      /\ ~(MEM.name \in RegWrite /\ MEM_writeDataReg = r) =>
           before.ex.regs[r] = before.mem.regs[r]
  BY <1>1, BehindMEM
<1> QED BY <1>3, <1>4, <1>5, <1>6 DEF Forwarded

\* Operands by forwarding, immediates and shift amounts: those of the reference.
LEMMA Operands ==
  ASSUME TypeOK, LoadInv, Agreed, EX.name # "NOP"
  PROVE  /\ data1 = Mips!RefRs(before.ex, EX.instr)
         /\ data2 = before.ex.regs[EX.instr.rt]
         /\ alu_data2 = Mips!RefRt(before.ex, EX.instr)
<1>1. /\ State(before.ex) /\ Takes(EX, before.ex, before.id) /\ Read
  BY DEF Agreed
<1>2. EX.name = EX.instr.op /\ Regular(EX.instr)
  BY <1>1, StageEffect
<1>3. EX.instr.rs \in Reg /\ EX.instr.rt \in Reg
  BY DEF TypeOK, Instr
<1>4. /\ EX.b = before.wb.regs[EX.instr.rt]
      /\ 31 \in {EX.instr.rs, EX.instr.rt} => MEM.name \notin Link
  BY <1>1 DEF Read
<1>5. data2 = before.ex.regs[EX.instr.rt]
  BY <1>3, <1>4, Forwards DEF data2
<1>6. data1 = Mips!RefRs(before.ex, EX.instr)
  <2>1. CASE EX.name \in ShiftImm
    <3>1. EX.instr.rs = 0 /\ EX.a = EX.instr.imm
      BY <1>1, <1>2, <2>1 DEF Regular, Read
    <3>2. data1 = EX.instr.imm
      BY <1>3, <3>1, Forwards DEF data1
    <3> QED BY <1>2, <2>1, <3>2, SameNames DEF Mips!RefRs
  <2>2. CASE EX.name \notin ShiftImm
    <3>1. EX.a = before.wb.regs[EX.instr.rs]
      BY <1>1, <2>2 DEF Read
    <3>2. data1 = before.ex.regs[EX.instr.rs]
      BY <1>3, <1>4, <3>1, Forwards DEF data1
    <3> QED BY <1>2, <2>2, <3>2, SameNames DEF Mips!RefRs
  <2> QED BY <2>1, <2>2
<1>7. alu_data2 = Mips!RefRt(before.ex, EX.instr)
  BY <1>2, <1>5, SameNames, Kinds DEF alu_data2, Immediate, Mips!RefRt
<1> QED BY <1>5, <1>6, <1>7

\* What the instruction in EX computes, and that it raises nothing.
LEMMA InEX ==
  ASSUME TypeOK, LoadInv, Agreed
  PROVE  /\ EX.name \in AluOps => aluResult = Mips!RefAddr(before.ex, EX.instr)
         /\ EX.name \in MulDiv => Product = Mips!RefProduct(before.ex, EX.instr)
         /\ ~overflow
<1>1. /\ State(before.ex) /\ Takes(EX, before.ex, before.id) /\ kill = {}
  BY DEF Agreed
<1>2. EX.name # "NOP" => EX.name = EX.instr.op /\ Uneventful(before.ex, EX.instr)
  BY <1>1, StageEffect
<1>3. CASE EX.name # "NOP"
  <2>1. EX.name \in AluOps => aluResult = Mips!RefAddr(before.ex, EX.instr)
    BY <1>1, <1>2, <1>3, Operands DEF aluResult, AluActive, Mips!RefAddr
  <2>2. EX.name \in MulDiv => Product = Mips!RefProduct(before.ex, EX.instr)
    <3> SUFFICES ASSUME EX.name \in MulDiv
                 PROVE  Product = Mips!RefProduct(before.ex, EX.instr)
      OBVIOUS
    <3>1. data1 = before.ex.regs[EX.instr.rs] /\ alu_data2 = before.ex.regs[EX.instr.rt]
      BY <1>2, <1>3, Operands, SameNames, Kinds DEF Mips!RefRs, alu_data2
    <3> QED BY <1>2, <1>3, <3>1 DEF Product, Mips!RefProduct
  <2>3. ~overflow
    BY <1>2, <1>3, Operands, Nothing DEF overflow
  <2> QED BY <2>1, <2>2, <2>3
<1>4. CASE EX.name = "NOP"
  BY <1>4, Kinds DEF overflow
<1> QED BY <1>3, <1>4

-----------------------------------------------------------------------------
\* The instruction in EX gives ID what the reference has for its result, unless
\* that is the datum of a load, a link, or what an mtc0 in MEM is changing.
LEMMA ForwardsFromEX ==
  ASSUME TypeOK, LoadInv, Agreed,
         EX.name \in RegWrite, EX.name \notin Load, EX.name \notin Link,
         EX.name = "MFC0" /\ MEM.name = "MTC0" =>
           MEM.instr.rd = EX.instr.rd /\ EX.instr.rd \in {9, 14}
  PROVE  EXE_forward_data = Mips!RefResult(before.ex, EX.instr)
<1>1. /\ State(before.ex) /\ Takes(EX, before.ex, before.id)
      /\ State(before.mem) /\ Takes(MEM, before.mem, before.ex) /\ Computed
  BY DEF Agreed
<1>2. EX.name # "NOP" /\ EX.name = EX.instr.op /\ Regular(EX.instr)
  BY <1>1, StageEffect, Kinds
<1>3. CASE EX.name = "MFHI"
  <2>1. EXE_forward_data = before.ex.hi
    BY <1>3, InMEM DEF EXE_forward_data
  <2> QED BY <1>2, <1>3, <2>1, SameNames, Kinds DEF Mips!RefResult
<1>4. CASE EX.name = "MFLO"
  <2>1. EXE_forward_data = before.ex.lo
    BY <1>4, InMEM DEF EXE_forward_data
  <2> QED BY <1>2, <1>4, <2>1, SameNames, Kinds DEF Mips!RefResult
<1>5. CASE EX.name = "MFC0"
  <2>1. EX.instr.rd \in {8, 9, 12, 13, 14}
    BY <1>2, <1>5 DEF Regular
  <2>2. EXE_forward_data = Mips!RefCP0(before.ex.cp0, EX.instr.rd)
    <3>1. CASE MEM.name # "MTC0"
      BY <1>5, <2>1, <3>1, InMEM DEF EXE_forward_data, CP0_read, Mips!RefCP0
    <3>2. CASE MEM.name = "MTC0"
      <4>1. /\ before.ex = After(before.mem, MEM.instr) /\ MEM.instr.op = "MTC0"
            /\ MEM.b = before.mem.regs[MEM.instr.rt]
        BY <1>1, <3>2, StageEffect DEF Computed
      <4>2. before.ex.cp0 = Mips!RefMoved(before.mem.cp0, EX.instr.rd, MEM.b)
        BY <1>5, <3>2, <4>1, Effect
      <4>3. DOMAIN before.mem.cp0 = {"badVAddr", "count", "im", "exl", "bd", "code", "ip", "epc"}
        BY EndsInWB, CP0Typed DEF CP0Type
      <4>4. Mips!RefCP0(before.ex.cp0, EX.instr.rd) = MEM.b
        BY <1>5, <3>2, <4>2, <4>3 DEF Mips!RefMoved, Mips!RefCP0
      <4> QED BY <1>5, <3>2, <4>4 DEF EXE_forward_data
    <3> QED BY <3>1, <3>2
  <2> QED BY <1>2, <1>5, <2>2, SameNames, Kinds DEF Mips!RefResult
<1>6. CASE EX.name \in AluOps
  <2>1. aluResult = Mips!RefAddr(before.ex, EX.instr) /\ EX.name \notin {"MFHI", "MFLO", "MFC0"}
    BY <1>6, InEX, Kinds
  <2>2. EX.instr.op \notin Mips!Link /\ EX.instr.op \notin Mips!Load
    BY <1>2, SameNames
  <2> QED BY <1>2, <2>1, <2>2 DEF EXE_forward_data, Mips!RefResult, Mips!RefAddr
<1> QED BY <1>3, <1>4, <1>5, <1>6, Kinds

\* ID waits exactly while a load is in EX or in MEM, and then holds that load.
LEMMA Stalls ==
  ASSUME LoadInv, Agreed
  PROVE  /\ stall_info <=> EX.name \in Load \/ MEM.name \in Load
         /\ EX.name \in Load => ID.instr = EX.instr /\ MEM.name \notin Load
         /\ MEM.name \in Load => ID.instr = MEM.instr /\ EX.name = "NOP"
         /\ stall_info => ID.instr.op \in Load /\ inst_name = "NOP"
         /\ ~stall_info => inst_name = ID.instr.op
<1>1. /\ kill = {} /\ State(before.ex) /\ Takes(EX, before.ex, before.id)
      /\ State(before.mem) /\ Takes(MEM, before.mem, before.ex)
  BY DEF Agreed
<1>2. /\ EX.name \in Load => ID.instr = EX.instr
      /\ MEM.name \in Load => ID.instr = MEM.instr /\ EX.name = "NOP"
  BY <1>1 DEF LoadInv, LoadHeld
<1>3. /\ EX.name # "NOP" => EX.name = EX.instr.op
      /\ MEM.name # "NOP" => MEM.name = MEM.instr.op
  BY <1>1, StageEffect
<1>4. stall_info <=> EX.name \in Load \/ MEM.name \in Load
  BY <1>1, <1>2 DEF stall_info, Hazard
<1>5. stall_info => ID.instr.op \in Load
  BY <1>2, <1>3, <1>4, Kinds
<1>6. stall_info => inst_name = "NOP"
  BY <1>5, Kinds DEF inst_name, Load, Trap
<1>7. ~stall_info => inst_name = ID.instr.op
  BY <1>1 DEF inst_name
<1> QED BY <1>2, <1>4, <1>5, <1>6, <1>7, Kinds

\* A register that the branch and jump unit or the software interrupt looks at
\* is seen as it is behind the instructions ahead.
LEMMA Compared ==
  ASSUME TypeOK, LoadInv, Agreed, ~stall_info, InTime(ID.instr),
         NEW r \in LookedAt(ID.instr)
  PROVE  Compare_Data(r) = before.id.regs[r]
<1>1. /\ State(before.ex) /\ Takes(EX, before.ex, before.id)
  BY DEF Agreed
<1>2. r \in {ID.instr.rs, ID.instr.rt} /\ ID.instr.rs \in Reg /\ ID.instr.rt \in Reg
  BY DEF LookedAt, TypeOK, Instr
<1>3. r = 31 => EX.name \notin Link /\ MEM.name \notin Link
  BY <1>2 DEF InTime
<1>4. EX.name \notin Load /\ MEM.name \notin Load
  BY Stalls
<1>5. /\ MEM.name \in RegWrite /\ MEM_writeDataReg = r =>
           MEM_forward_data = before.ex.regs[r]
      /\ ~(MEM.name \in RegWrite /\ MEM_writeDataReg = r) =>
           before.ex.regs[r] = before.mem.regs[r]
  BY <1>2, <1>3, <1>4, BehindMEM
<1>6. readData(r) = before.mem.regs[r]
  BY <1>2, RegistersAgree
<1>7. CASE EX.name \in RegWrite /\ EX_register_d = r
  <2>1. EX.name \notin Link
    BY <1>3, <1>7 DEF EX_register_d, Dest, AluImm, Load, Link
  <2>2. EX.name = "MFC0" => EX.instr.rt = r
    BY <1>7 DEF EX_register_d, Dest
  <2>3. EX.name = "MFC0" /\ MEM.name = "MTC0" =>
          MEM.instr.rd = EX.instr.rd /\ EX.instr.rd \in {9, 14}
    BY <2>2 DEF InTime
  <2>4. EXE_forward_data = Mips!RefResult(before.ex, EX.instr)
    BY <1>4, <1>7, <2>1, <2>3, ForwardsFromEX
  <2>5. before.id.regs[r] = IF r = Dest(EX.name, EX.instr)
          THEN Mips!RefResult(before.ex, EX.instr) ELSE before.ex.regs[r]
    BY <1>1, <1>2, <1>7, StageEffect
  <2> QED BY <1>7, <2>4, <2>5 DEF Compare_Data, EX_register_d
<1>8. CASE ~(EX.name \in RegWrite /\ EX_register_d = r)
  <2>1. before.id.regs[r] = before.ex.regs[r]
    <3>1. CASE EX.name \in RegWrite
      <4>1. before.id.regs[r] = IF r = Dest(EX.name, EX.instr)
              THEN Mips!RefResult(before.ex, EX.instr) ELSE before.ex.regs[r]
        BY <1>1, <1>2, <3>1, StageEffect
      <4> QED BY <1>8, <3>1, <4>1 DEF EX_register_d
    <3>2. CASE EX.name \notin RegWrite
      BY <1>1, <3>2, StageEffect
    <3> QED BY <3>1, <3>2
  <2> QED BY <1>5, <1>6, <1>8, <2>1 DEF Compare_Data
<1> QED BY <1>7, <1>8

\* Nothing is raised while ID waits or holds an instruction like those of Within.
LEMMA Quiet ==
  ASSUME TypeOK, LoadInv, Agreed, stall_info \/ Within(before.id, ID.instr)
  PROVE  /\ ~if_exc /\ ~AdelFetch /\ ~AdelLoad /\ ~Ades /\ ~eret /\ NextKill = {}
         /\ NextCP0 = before.mem.cp0
<1>1. kill = {}
  BY DEF Agreed
<1>2. ~overflow /\ ~AdelLoad /\ ~Ades
  BY InEX, InMEM DEF AdelLoad, Ades, MEM_memRead, MEM_memWrite
<1>3. /\ inst_name \notin Trap \cup {"RI", "ERET"}
      /\ ~(inst_name \in Jump /\ Compare_Data1 % 4 # 0) /\ ~soft_input
  <2>1. CASE stall_info
    BY <2>1, Stalls, Kinds DEF Trap, soft_input
  <2>2. CASE ~stall_info /\ Within(before.id, ID.instr)
    <3>1. /\ inst_name = ID.instr.op /\ Uneventful(before.id, ID.instr) /\ InTime(ID.instr)
      BY <2>2, Stalls DEF Within
    <3>2. \/ inst_name \in Jump
          \/ inst_name = "MTC0" /\ ID.instr.rd = 13
          => Compare_Data1 = before.id.regs[ID.instr.rs]
      <4>1. \/ inst_name \in Jump
            \/ inst_name = "MTC0" /\ ID.instr.rd = 13
            => ID.instr.rs \in LookedAt(ID.instr)
        BY <3>1 DEF LookedAt
      <4> QED BY <2>2, <3>1, <4>1, Compared DEF Compare_Data1
    <3>3. inst_name \notin Trap \cup {"RI", "ERET"}
      BY <3>1, Nothing
    <3>4. ~(inst_name \in Jump /\ Compare_Data1 % 4 # 0)
      BY <3>1, <3>2 DEF Uneventful
    <3>5. ~soft_input
      BY <3>1, <3>2 DEF Uneventful, soft_input
    <3> QED BY <3>3, <3>4, <3>5
  <2> QED BY <2>1, <2>2
<1>4. ~eret /\ ~if_npc_wrong /\ ~AdelFetch
  BY <1>3 DEF eret, if_npc_wrong, AdelFetch
<1>5. Exc = NoFault
  BY <1>2, <1>3, <1>4 DEF Exc, Trap
<1>6. ~if_exc /\ NextKill = {} /\ ~if_in_delay_dolt
  BY <1>1, <1>2, <1>3, <1>4, <1>5 DEF if_exc, NextKill, NoFault, if_in_delay_dolt
<1>7. NextCP0 = CP0_now
  BY <1>4, <1>6, CP0Typed DEF NextCP0, CP0Type
<1> QED BY <1>2, <1>4, <1>6, <1>7, EndsInWB

-----------------------------------------------------------------------------
\* npc.v goes where the reference goes.
LEMMA Target ==
  ASSUME TypeOK, LoadInv, Agreed, ~stall_info, Within(before.id, ID.instr)
  PROVE  NPC = Mips!RefTarget(before.id, ID.instr)
<1>1. /\ inst_name = ID.instr.op /\ InTime(ID.instr)
      /\ EX.name \notin Load /\ MEM.name \notin Load
  BY Stalls DEF Within
<1>2. PC = before.id.npc
  BY <1>1 DEF Agreed, Fetched
<1>3. ~if_exc /\ ~eret
  BY Quiet
<1>4. inst_name \in Branch \cup Jump => Compare_Data1 = before.id.regs[ID.instr.rs]
  <2>1. inst_name \in Branch \cup Jump => ID.instr.rs \in LookedAt(ID.instr)
    BY <1>1 DEF LookedAt
  <2> QED BY <1>1, <2>1, Compared DEF Compare_Data1
<1>5. inst_name \in Branch => Compare_Data2 = before.id.regs[ID.instr.rt]
  <2>1. inst_name \in Branch => ID.instr.rt \in LookedAt(ID.instr)
    BY <1>1 DEF LookedAt
  <2> QED BY <1>1, <2>1, Compared DEF Compare_Data2
<1>6. Taken <=> Mips!RefTaken(before.id, ID.instr)
  <2>1. CASE inst_name \in Branch
    BY <1>1, <1>4, <1>5, <2>1
       DEF Taken, Mips!RefTaken, Branch, Negative, Mips!IsNegative
  <2>2. CASE inst_name \notin Branch
    BY <1>1, <2>2 DEF Taken, Mips!RefTaken, Branch
  <2> QED BY <2>1, <2>2
<1>7. CASE inst_name \in JumpReg
  BY <1>1, <1>3, <1>4, <1>7, SameNames, Kinds DEF NPC, Mips!RefTarget
<1>8. CASE inst_name \in Jump /\ inst_name \notin JumpReg
  BY <1>1, <1>3, <1>8, SameNames DEF NPC, Mips!RefTarget
<1>9. CASE inst_name \notin Jump
  <2>1. NPC = IF Taken THEN Add(PC, (4 * SignExt(ID.instr.imm)) % Mod) ELSE Add(PC, 4)
    BY <1>3, <1>9, Kinds DEF NPC
  <2>2. Mips!RefTarget(before.id, ID.instr) =
          IF Mips!RefTaken(before.id, ID.instr)
          THEN Mips!Plus(before.id.npc, (4 * SignExt(ID.instr.imm)) % Mod)
          ELSE Mips!Plus(before.id.npc, 4)
    BY <1>1, <1>9, SameNames, Kinds DEF Mips!RefTarget
  <2>3. \A a, b : Add(a, b) = Mips!Plus(a, b)
    BY DEF Add, Mips!Plus
  <2> QED BY <1>2, <1>6, <2>1, <2>2, <2>3
<1> QED BY <1>7, <1>8, <1>9

\* The word in ID is the one the reference executes.
LEMMA Executes ==
  ASSUME TypeOK, LoadInv, Agreed, ~stall_info, Within(before.id, ID.instr)
  PROVE  Mips!Exec(inst_ram, before.id) = After(before.id, ID.instr)
<1>1. Uneventful(before.id, ID.instr) /\ EX.name \notin Load /\ MEM.name \notin Load
  BY Stalls DEF Within
<1>2. ID.instr = Fetch(before.id.pc)
  BY <1>1 DEF Agreed, Fetched
<1>3. before.id.pc % 4 = 0 /\ before.id.pc \in Nat
  BY <1>1, Nothing, CpuAssumption DEF Agreed, State, Word
<1>4. Mips!FetchFrom(inst_ram, before.id.pc) = ID.instr
  <2>1. before.id.pc - (before.id.pc % 4) = before.id.pc
    BY <1>3
  <2> QED BY <1>2, <2>1 DEF Fetch, Nop, Mips!FetchFrom
<1>5. /\ Mips!RefFault(before.id, ID.instr) = Mips!NoCode
      /\ ID.instr.op # "ERET" /\ ~Mips!RefSoftInt(before.id, ID.instr)
  BY <1>1 DEF Uneventful, Mips!RefSoftInt
<1> QED BY <1>4, <1>5 DEF Mips!Exec, After

-----------------------------------------------------------------------------
\* The clock edge, while the two stay in step.
LEMMA Edge ==
  ASSUME TypeOK, LoadInv, Agreed, Next, Follow, phase = "agreed", phase' = "agreed"
  PROVE  /\ stall_info \/ Within(before.id, ID.instr)
         /\ Pipe
         /\ stall_info => PC' = last_PC /\ before'.id = before.id
         /\ ~stall_info => PC' = NPC /\ before'.id = After(before.id, ID.instr)
         /\ before'.ex = before.id /\ before'.mem = before.ex /\ before'.wb = before.mem
<1>1. stall_info \/ Within(before.id, ID.instr)
  BY DEF Follow, Issues
<1>2. Pipe
  BY DEF Next, Advance, Stall, TakeException
<1>3. ~if_exc
  BY <1>1, Quiet
<1>4. PC' = IF stall_info THEN last_PC ELSE NPC
  BY <1>3 DEF Next, Advance, Stall, TakeException
<1>5. /\ before'.id = IF stall_info THEN before.id ELSE Mips!Exec(inst_ram, before.id)
      /\ before'.ex = before.id /\ before'.mem = before.ex /\ before'.wb = before.mem
  BY DEF Follow, Issues
<1> QED BY <1>1, <1>2, <1>4, <1>5, Executes

\* Every stage takes over what the one before it stood for.
LEMMA TakesStep ==
  ASSUME TypeOK, LoadInv, Agreed, Next, Follow, phase = "agreed", phase' = "agreed"
  PROVE  /\ Takes(EX, before.ex, before.id)'
         /\ Takes(MEM, before.mem, before.ex)'
         /\ Takes(WB, before.wb, before.mem)'
<1>1. /\ Takes(EX, before.ex, before.id) /\ Takes(MEM, before.mem, before.ex)
      /\ ID.fourPC = Add(before.id.pc, 4)
  BY DEF Agreed, Fetched
<1>2. /\ EX'.name = inst_name /\ EX'.instr = ID.instr /\ EX'.fourPC = ID.fourPC
      /\ MEM'.name = EX.name /\ MEM'.instr = EX.instr /\ MEM'.fourPC = EX.fourPC
      /\ WB'.name = MEM.name /\ WB'.instr = MEM.instr /\ WB'.fourPC = MEM.fourPC
  BY Edge DEF Pipe, NextEX, NextMEM, NextWB
<1>3. Takes(EX, before.ex, before.id)'
  <2>1. CASE stall_info
    BY <1>2, <2>1, Edge, Stalls DEF Takes
  <2>2. CASE ~stall_info
    <3>1. inst_name = ID.instr.op /\ Uneventful(before.id, ID.instr) /\ Regular(ID.instr)
      BY <2>2, Edge, Stalls DEF Within
    <3> QED BY <1>1, <1>2, <2>2, <3>1, Edge DEF Takes
  <2> QED BY <2>1, <2>2
<1>4. Takes(MEM, before.mem, before.ex)'
  BY <1>1, <1>2, Edge DEF Takes
<1>5. Takes(WB, before.wb, before.mem)'
  BY <1>1, <1>2, Edge DEF Takes
<1> QED BY <1>3, <1>4, <1>5

\* The reference keeps a word for its pc and zero in register 0.
LEMMA StateStep ==
  ASSUME TypeOK, LoadInv, Agreed, Next, Follow, phase = "agreed", phase' = "agreed"
  PROVE  State(before.id)' /\ State(before.ex)' /\ State(before.mem)' /\ State(before.wb)'
<1>1. State(before.id) /\ State(before.ex) /\ State(before.mem)
  BY DEF Agreed
<1>2. State(before'.id)
  <2>1. CASE stall_info
    BY <1>1, <2>1, Edge
  <2>2. CASE ~stall_info
    <3>1. before'.id = After(before.id, ID.instr) /\ Regular(ID.instr)
      BY <2>2, Edge DEF Within
    <3>2. before'.id.pc \in Word
      <4>1. PC = before.id.npc
        BY <2>2, Stalls DEF Agreed, Fetched
      <4> QED BY <3>1, <4>1, Effect DEF TypeOK
    <3>3. /\ before'.id.regs = [r \in Reg |-> before'.id.regs[r]]
          /\ before'.id.regs[0] = 0
      BY <1>1, <3>1, Changes
    <3> QED BY <3>2, <3>3 DEF State
  <2> QED BY <2>1, <2>2
<1>3. State(before'.ex) /\ State(before'.mem) /\ State(before'.wb)
  BY <1>1, Edge
<1> QED BY <1>2, <1>3 DEF State

\* The word fetched is the one at the pc of the reference, and while a load holds
\* ID the two pcs swap until the word behind it can be fetched again.
LEMMA FetchedStep ==
  ASSUME TypeOK, LoadInv, Agreed, Next, Follow, phase = "agreed", phase' = "agreed"
  PROVE  Fetched'
<1>1. Fetched
  BY DEF Agreed
<1>2. /\ EX'.name = inst_name /\ MEM'.name = EX.name /\ last_PC' = PC /\ inst_ram' = inst_ram
      /\ ID'.instr = IF Hazard(ID.instr, NextEX, NextMEM, NextKill) THEN ID.instr ELSE Fetch(PC)
      /\ ID'.fourPC = IF stall_info THEN ID.fourPC ELSE Add(PC, 4)
  BY Edge DEF Pipe, NextEX, NextMEM
<1>3. NextKill = {}
  BY Edge, Quiet
<1>4. Hazard(ID.instr, NextEX, NextMEM, NextKill) => inst_name \in Load \/ EX.name \in Load
  BY DEF Hazard, NextEX, NextMEM
<1>5. \A a : Fetch(a)' = Fetch(a)
  BY <1>2 DEF Fetch
<1>6. CASE ~stall_info
  <2>1. PC = before.id.npc /\ EX.name \notin Load /\ MEM.name \notin Load
    BY <1>1, <1>6, Stalls DEF Fetched
  <2>2. before'.id.pc = before.id.npc /\ before'.id.npc = Mips!RefTarget(before.id, ID.instr)
    BY <1>6, Edge, Effect
  <2>3. PC' = before'.id.npc
    BY <1>6, <2>2, Edge, Target
  <2>4. EX'.name \notin Load => ID'.instr = Fetch(before'.id.pc)
    BY <1>2, <1>4, <2>1, <2>2
  <2> QED BY <1>2, <1>5, <1>6, <2>1, <2>2, <2>3, <2>4 DEF Fetched
<1>7. CASE stall_info /\ EX.name \in Load
  <2>1. /\ EX'.name \notin Load /\ MEM'.name \in Load
        /\ before'.id = before.id /\ PC' = last_PC
    BY <1>2, <1>7, Edge, Stalls, Kinds
  <2> QED BY <1>1, <1>2, <1>7, <2>1 DEF Fetched
<1>8. CASE stall_info /\ EX.name \notin Load
  <2>1. /\ MEM.name \in Load /\ EX'.name \notin Load /\ MEM'.name \notin Load
        /\ before'.id = before.id /\ PC' = last_PC
    BY <1>2, <1>8, Edge, Stalls, Kinds
  <2>2. ID'.instr = Fetch(PC)
    BY <1>2, <1>4, <2>1
  <2> QED BY <1>1, <1>2, <1>5, <1>8, <2>1, <2>2 DEF Fetched
<1> QED BY <1>6, <1>7, <1>8

\* What decode hands to EX was read behind WB.
LEMMA ReadStep ==
  ASSUME TypeOK, LoadInv, Agreed, Next, Follow, phase = "agreed", phase' = "agreed"
  PROVE  Read'
<1> SUFFICES ASSUME EX'.name # "NOP"
             PROVE  /\ EX'.a = IF EX'.name \in ShiftImm THEN EX'.instr.imm
                               ELSE before'.wb.regs[EX'.instr.rs]
                    /\ EX'.b = before'.wb.regs[EX'.instr.rt]
                    /\ 31 \in {EX'.instr.rs, EX'.instr.rt} => MEM'.name \notin Link
  BY DEF Read
<1>1. /\ EX'.name = inst_name /\ EX'.instr = ID.instr /\ MEM'.name = EX.name
      /\ EX'.a = IF inst_name \in ShiftImm THEN ID.instr.imm ELSE readData(ID.instr.rs)
      /\ EX'.b = readData(ID.instr.rt)
  BY Edge DEF Pipe, NextEX, NextMEM
<1>2. ID.instr.rs \in Reg /\ ID.instr.rt \in Reg /\ before'.wb = before.mem
  BY Edge DEF TypeOK, Instr
<1>3. InTime(ID.instr)
  BY <1>1, Edge, Stalls DEF Within
<1>4. 31 \in {EX'.instr.rs, EX'.instr.rt} => MEM'.name \notin Link
  BY <1>1, <1>3 DEF InTime
<1> QED BY <1>1, <1>2, <1>4, RegistersAgree

\* EX hands on what it computed.
LEMMA ComputedStep ==
  ASSUME TypeOK, LoadInv, Agreed, Next, Follow, phase = "agreed", phase' = "agreed"
  PROVE  Computed'
<1>1. /\ MEM'.name = EX.name /\ MEM'.instr = EX.instr /\ MEM'.alu = aluResult
      /\ MEM'.a = data1 /\ MEM'.b = data2
      /\ MEM'.hi = Product.hi /\ MEM'.lo = Product.lo /\ before'.mem = before.ex
  BY Edge DEF Pipe, NextMEM
<1>2. ASSUME EX.name # "NOP"
      PROVE  /\ EX.name \in AluOps => aluResult = Mips!RefAddr(before.ex, EX.instr)
             /\ data1 = Mips!RefRs(before.ex, EX.instr)
             /\ data2 = before.ex.regs[EX.instr.rt]
             /\ EX.name \in MulDiv => Product = Mips!RefProduct(before.ex, EX.instr)
  BY <1>2, Operands, InEX
<1> QED BY <1>1, <1>2 DEF Computed

\* MEM hands on the answer of the RAM, and HI and LO.
LEMMA AnsweredStep ==
  ASSUME TypeOK, LoadInv, Agreed, Next, Follow, phase = "agreed", phase' = "agreed"
  PROVE  Answered'
<1>1. /\ WB'.name = MEM.name /\ WB'.instr = MEM.instr /\ WB'.alu = MEM.alu /\ WB'.b = MEM.b
      /\ WB'.hi = in_mem_HI_data /\ WB'.lo = in_mem_LO_data
      /\ WB'.rdata = IF MEM_memRead /\ data_sram_en THEN data_ram[RamWord] ELSE WB.rdata
      /\ before'.wb = before.mem /\ before'.mem = before.ex
  BY Edge DEF Pipe, NextWB
<1>2. Computed /\ kill = {} /\ data_ram = before.mem.mem
  BY DEF Agreed, Retired
<1>3. data_sram_en
  BY Edge, Quiet DEF data_sram_en
<1>4. ASSUME MEM.name # "NOP"
      PROVE  /\ MEM.name \in AluOps => MEM.alu = Mips!RefAddr(before.mem, MEM.instr)
             /\ MEM.b = before.mem.regs[MEM.instr.rt]
  BY <1>2, <1>4 DEF Computed
<1>5. ASSUME MEM.name \in Load
      PROVE  WB'.rdata = before.mem.mem[Mips!RefWord(before.mem, MEM.instr)]
  <2>1. MEM.alu = Mips!RefAddr(before.mem, MEM.instr)
    BY <1>4, <1>5, Kinds
  <2> QED BY <1>1, <1>2, <1>3, <1>5, <2>1 DEF MEM_memRead, RamWord, Mips!RefWord
<1>6. /\ MEM.name \in HiWrite => in_mem_HI_data = before.ex.hi
      /\ MEM.name \in LoWrite => in_mem_LO_data = before.ex.lo
  BY InMEM
<1> QED BY <1>1, <1>4, <1>5, <1>6 DEF Answered

\* The registers take what WB writes and the RAM what MEM stores.
LEMMA RetiredStep ==
  ASSUME TypeOK, LoadInv, Agreed, Next, Follow, phase = "agreed", phase' = "agreed"
  PROVE  Retired'
<1>1. /\ registers' = [r \in Reg |-> IF WB_regWrite /\ r = WB_writeDataReg
                                     THEN writeData ELSE registers[r]]
      /\ HI' = out_HI_data /\ LO' = out_LO_data /\ cp0' = NextCP0 /\ data_ram' = NextRam
      /\ before'.wb = before.mem /\ before'.mem = before.ex
  BY Edge DEF Pipe
<1>2. registers' = before.mem.regs
  BY <1>1, RegistersAgree
<1>3. HI' = before.mem.hi /\ LO' = before.mem.lo /\ cp0' = before.mem.cp0
  BY <1>1, EndsInWB, Edge, Quiet
<1>4. data_ram' = before.ex.mem
  <2>1. /\ Takes(MEM, before.mem, before.ex) /\ State(before.mem) /\ Computed
        /\ kill = {} /\ data_ram = before.mem.mem
    BY DEF Agreed, Retired
  <2>2. CASE MEM.name \notin Store
    BY <1>1, <2>1, <2>2, StageEffect DEF NextRam, MEM_memWrite
  <2>3. CASE MEM.name \in Store
    <3>1. MEM.name # "NOP" /\ MEM.name \in AluOps
      BY <2>3, Kinds
    <3>2. MEM.name = MEM.instr.op /\ before.ex = After(before.mem, MEM.instr)
      BY <2>1, <3>1, StageEffect
    <3>3. MEM.alu = Mips!RefAddr(before.mem, MEM.instr) /\ MEM.b = before.mem.regs[MEM.instr.rt]
      BY <2>1, <3>1 DEF Computed
    <3>4. MEM_memWrite /\ data_sram_en
      BY <2>1, <2>3, Edge, Quiet DEF MEM_memWrite, data_sram_en
    <3>5. RamWord = Mips!RefWord(before.mem, MEM.instr)
      BY <3>3 DEF RamWord, Mips!RefWord
    <3>6. NextRam = Mips!RefMem(before.mem, MEM.instr)
      BY <2>1, <2>3, <3>2, <3>3, <3>4, <3>5, SameNames DEF NextRam, Mips!RefMem
    <3> QED BY <1>1, <3>2, <3>6, Effect
  <2> QED BY <2>2, <2>3
<1> QED BY <1>1, <1>2, <1>3, <1>4 DEF Retired

\* So the two stay in step over an edge.
LEMMA AgreedStep ==
  ASSUME TypeOK, LoadInv, Agreed, Next, Follow, phase = "agreed", phase' = "agreed"
  PROVE  Agreed'
<1>1. kill' = {}
  BY Edge, Quiet DEF Pipe
<1> QED BY <1>1, TakesStep, StateStep, FetchedStep, ReadStep, ComputedStep, AnsweredStep,
           RetiredStep DEF Agreed

\* The edge behind reset: nothing is in flight, and the reference waits at the
\* address before the reset vector.
LEMMA FirstEdge ==
  ASSUME Init, LockInit, Next, Follow, TypeOK, phase = "reset"
  PROVE  Agreed'
<1>1. /\ EX.name = "NOP" /\ MEM.name = "NOP" /\ WB.name = "NOP" /\ kill = {}
      /\ ID.instr = Nop /\ PC = Sub(ResetPC, 4) /\ inst_ram' = inst_ram
  BY DEF Init, Next, Advance, Stall, TakeException, Pipe
<1>2. /\ before.id = Start /\ before.ex = Start /\ before.mem = Start /\ before.wb = Start
      /\ before'.id = Start /\ before'.ex = Start /\ before'.mem = Start /\ before'.wb = Start
  BY DEF LockInit, Follow, Issues
<1>3. ~stall_info /\ inst_name = "NOP"
  BY <1>1, Kinds DEF stall_info, Hazard, inst_name, Nop
<1>4. ~overflow /\ ~AdelLoad /\ ~Ades
  BY <1>1, Kinds DEF overflow, AdelLoad, Ades, MEM_memRead, MEM_memWrite
<1>5. ~eret /\ ~if_npc_wrong /\ ~AdelFetch /\ ~soft_input
  BY <1>3, Kinds DEF eret, if_npc_wrong, AdelFetch, soft_input
<1>6. ~if_exc /\ NextKill = {} /\ ~if_in_delay_dolt
  <2>1. Exc = NoFault
    BY <1>3, <1>4, <1>5 DEF Exc
  <2> QED BY <1>1, <1>3, <1>4, <1>5, <2>1, Kinds
          DEF if_exc, NextKill, NoFault, if_in_delay_dolt
<1>7. Pipe /\ PC' = NPC
  BY <1>3, <1>6 DEF Next, Advance, Stall, TakeException
<1>8. NPC = ResetPC
  <2>1. NPC = Add(PC, 4)
    BY <1>3, <1>5, <1>6, Kinds DEF NPC, Taken, JumpReg, Jump
  <2>2. Add(Sub(ResetPC, 4), 4) = ResetPC
    BY CpuAssumption DEF Add, Sub, Word
  <2> QED BY <1>1, <2>1, <2>2
<1>9. /\ EX'.name = "NOP" /\ MEM'.name = "NOP" /\ WB'.name = "NOP" /\ kill' = {}
      /\ ID'.instr = Fetch(PC) /\ ID'.fourPC = Add(PC, 4)
      /\ HI' = out_HI_data /\ LO' = out_LO_data /\ cp0' = NextCP0 /\ data_ram' = NextRam
      /\ registers' = [r \in Reg |-> IF WB_regWrite /\ r = WB_writeDataReg
                                     THEN writeData ELSE registers[r]]
  BY <1>1, <1>3, <1>6, <1>7, Kinds DEF Pipe, NextEX, NextMEM, NextWB, Hazard
<1>10. /\ Start.pc = Sub(ResetPC, 4) /\ Start.npc = ResetPC
       /\ Start.regs = [r \in Reg |-> 0] /\ Start.hi = 0 /\ Start.lo = 0
       /\ Start.mem = [w \in 0 .. DataWords - 1 |-> 0]
       /\ Start.cp0 = [badVAddr |-> 0, count |-> 0, im |-> 0, exl |-> FALSE,
                       bd |-> FALSE, code |-> 0, ip |-> 0, epc |-> 0]
  BY DEF Start, Mips!ArchInit
<1>11. State(Start)
  BY <1>10, CpuAssumption, SmallWords, WordArithmetic DEF State
<1>12. /\ HI' = 0 /\ LO' = 0 /\ data_ram' = [w \in 0 .. DataWords - 1 |-> 0]
       /\ registers' = [r \in Reg |-> 0] /\ cp0' = Start.cp0
  <2>1. HI' = 0 /\ LO' = 0
    BY <1>1, <1>9, Kinds DEF out_HI_data, out_LO_data, Init
  <2>2. data_ram' = [w \in 0 .. DataWords - 1 |-> 0]
    BY <1>1, <1>9, Kinds DEF NextRam, MEM_memWrite, Init
  <2>3. registers' = [r \in Reg |-> 0]
    BY <1>1, <1>9, Kinds DEF WB_regWrite, Init
  <2>4. cp0' = Start.cp0
    <3>1. CP0_now = Start.cp0
      BY <1>1, <1>10 DEF CP0_now, Init
    <3>2. NextCP0 = CP0_now
      BY <1>5, <1>6, CP0Typed DEF NextCP0, CP0Type
    <3> QED BY <1>9, <3>1, <3>2
  <2> QED BY <2>1, <2>2, <2>3, <2>4
<1>13. Fetched'
  <2>1. \A a : Fetch(a)' = Fetch(a)
    BY <1>1 DEF Fetch
  <2> QED BY <1>1, <1>2, <1>7, <1>8, <1>9, <1>10, <2>1, Kinds DEF Fetched
<1>14. Takes(EX, before.ex, before.id)' /\ Takes(MEM, before.mem, before.ex)'
       /\ Takes(WB, before.wb, before.mem)'
  BY <1>2, <1>9 DEF Takes
<1>15. Read' /\ Computed' /\ Answered'
  BY <1>9 DEF Read, Computed, Answered
<1>16. Retired'
  BY <1>2, <1>10, <1>12 DEF Retired
<1>17. State(before.id)' /\ State(before.ex)' /\ State(before.mem)' /\ State(before.wb)'
  BY <1>2, <1>11 DEF State
<1> QED BY <1>9, <1>13, <1>14, <1>15, <1>16, <1>17 DEF Agreed

-----------------------------------------------------------------------------
\* What is compared at an edge follows from what the stages hold.
LEMMA Compares ==
  ASSUME TypeOK, Agreed
  PROVE  /\ registers = before.wb.regs /\ HI = before.wb.hi /\ LO = before.wb.lo
         /\ cp0 = before.wb.cp0 /\ data_ram = before.mem.mem
         /\ IF WB_regWrite
            THEN before.mem.out = [pc |-> Sub(WB.fourPC, 4), wnum |-> WB_writeDataReg,
                                   wdata |-> writeData]
            ELSE before.mem = before.wb \/ before.mem.out = Mips!NoWrite
<1>1. Retired /\ State(before.wb) /\ Takes(WB, before.wb, before.mem)
  BY DEF Agreed
<1>2. ASSUME WB_regWrite
      PROVE  before.mem.out = [pc |-> Sub(WB.fourPC, 4), wnum |-> WB_writeDataReg,
                               wdata |-> writeData]
  <2>1. WB.name \in RegWrite /\ WB.name # "NOP"
    BY <1>2, EndsInWB, Kinds
  <2>2. /\ WB.name = WB.instr.op /\ before.mem = After(before.wb, WB.instr)
        /\ WB.fourPC = Add(before.wb.pc, 4) /\ Dest(WB.name, WB.instr) # 0
    BY <1>1, <2>1, StageEffect
  <2>3. before.mem.out = Mips!RefOut(before.wb, WB.instr)
    BY <2>2, Effect
  <2>4. writeData = Mips!RefResult(before.wb, WB.instr)
    BY <2>1, WritesBack
  <2>5. Sub(WB.fourPC, 4) = before.wb.pc
    BY <1>1, <2>2, LinkAddress DEF State
  <2> QED BY <2>1, <2>2, <2>3, <2>4, <2>5, SameNames DEF Mips!RefOut, WB_writeDataReg
<1>3. ASSUME ~WB_regWrite
      PROVE  before.mem = before.wb \/ before.mem.out = Mips!NoWrite
  <2>1. WB.name \notin RegWrite
    BY <1>3, EndsInWB
  <2>2. CASE before.mem = before.wb
    BY <2>2
  <2>3. CASE before.mem # before.wb
    <3>1. WB.name = WB.instr.op /\ before.mem = After(before.wb, WB.instr)
      BY <1>1, <2>3 DEF Takes
    <3>2. before.mem.out = Mips!RefOut(before.wb, WB.instr)
      BY <3>1, Effect
    <3> QED BY <2>1, <3>1, <3>2, SameNames DEF Mips!RefOut
  <2> QED BY <2>2, <2>3
<1> QED BY <1>1, <1>2, <1>3 DEF Retired

\* The invariant holds over every edge, whichever way the two go.
LEMMA LockInvStep == LockInv /\ [Next /\ Follow]_lockVars => LockInv'
<1> SUFFICES ASSUME LockInv, [Next /\ Follow]_lockVars PROVE LockInv'
  OBVIOUS
<1>1. TypeOK /\ LoadInv /\ phase \in {"reset", "agreed", "departed"}
  BY DEF LockInv
<1>2. CASE Next /\ Follow
  <2>1. TypeOK' /\ LoadInv'
    BY <1>1, <1>2, TypeStep, LoadStep
  <2>2. phase' \in {"agreed", "departed"} /\ (phase' = "agreed" => phase \in {"reset", "agreed"})
    BY <1>1, <1>2 DEF Follow
  <2>3. ASSUME phase' = "agreed" PROVE Agreed'
    <3>1. CASE phase = "reset"
      BY <1>1, <1>2, <3>1, FirstEdge DEF LockInv
    <3>2. CASE phase = "agreed"
      BY <1>1, <1>2, <2>3, <3>2, AgreedStep DEF LockInv
    <3> QED BY <2>2, <2>3, <3>1, <3>2
  <2> QED BY <2>1, <2>2, <2>3 DEF LockInv
<1>3. CASE UNCHANGED lockVars
  <2>1. UNCHANGED vars /\ before' = before /\ phase' = phase
    BY <1>3 DEF lockVars
  <2>2. TypeOK' /\ LoadInv'
    BY <1>1, <2>1, TypeStep, LoadStep
  <2>3. phase = "reset" => (Init /\ LockInit)'
    BY <2>1 DEF LockInv, vars, Init, LockInit
  <2>4. phase = "agreed" => Agreed'
    <3>1. Agreed' <=> Agreed
      BY <2>1 DEF vars, Agreed, Takes, Fetched, Fetch, Read, Computed, Answered, Retired
    <3> QED BY <3>1 DEF LockInv
  <2> QED BY <1>1, <2>1, <2>2, <2>3, <2>4 DEF LockInv
<1> QED BY <1>2, <1>3

\* Whatever is in flight, the CPU's registers, HI, LO, CP0 and RAM are those of
\* a machine that executes one instruction at a time, and the debug port shows
\* its writes, up to the first instruction that raises or departs from Within.
THEOREM StaysInStep == LockSpec => []InStep
<1>1. Init /\ LockInit => LockInv
  BY TypeInit, LoadInit DEF LockInit, LockInv
<1>2. LockInv => InStep
  <2> SUFFICES ASSUME LockInv, phase = "agreed"
               PROVE  /\ registers = before.wb.regs /\ HI = before.wb.hi /\ LO = before.wb.lo
                      /\ cp0 = before.wb.cp0 /\ data_ram = before.mem.mem
                      /\ IF WB_regWrite
                         THEN before.mem.out = [pc |-> Sub(WB.fourPC, 4),
                                                wnum |-> WB_writeDataReg, wdata |-> writeData]
                         ELSE before.mem = before.wb \/ before.mem.out = Mips!NoWrite
    BY DEF InStep
  <2> QED BY Compares DEF LockInv
<1> QED BY <1>1, <1>2, LockInvStep, PTL DEF LockSpec
=============================================================================
