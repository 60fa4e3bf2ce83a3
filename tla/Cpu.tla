-------------------------------- MODULE Cpu --------------------------------
(***************************************************************************)
(* The five-stage pipeline of mycpu_top: datapath.v and the units it wires *)
(* together, one clock edge per step.  The variables are the registers,    *)
(* latches and RAMs of the design; the wires are state functions under the *)
(* names they have in datapath.v.                                          *)
(*                                                                         *)
(* An operator whose name ends in _Bug is a plausible mistake in the        *)
(* definition after it; nothing uses it but the mutation of that definition. *)
(*                                                                         *)
(* Words are 0..Mod-1.  What the ALU, the multiplier, the byte lanes and   *)
(* the sign extension compute is left to constant operators: the pipeline  *)
(* only routes their results.                                              *)
(***************************************************************************)
EXTENDS MipsDefs, FiniteSets

CONSTANTS
  Mod,              \* 2^32 in the design: words are 0 .. Mod-1
  Reg,              \* the register numbers programs use, with 0
  DataWords,        \* words of data_ram; the address bits above are dropped
  Programs,         \* the contents inst_ram may be loaded with
  ResetPC,          \* 32'hbfc0_0000
  ExcVector,        \* 32'hbfc0_0380
  AluResult(_, _, _),     \* alu.v, result, by name and operands
  AluOverflow(_, _, _),   \* alu.v, overflow
  MulDivResult(_, _, _),  \* multiply.v: [hi, lo]
  SignExt(_), ZeroExt(_), \* signext.v on the 16-bit field
  LoadExt(_, _, _),       \* lane select and extension: name, lane, word
  StoreLanes(_, _, _, _), \* byte enables: name, lane, old word, datum
  ImOf(_), IpOf(_),       \* the bits mtc0 sets in Status and in Cause
  StatusWord(_, _), CauseWord(_, _, _)  \* Status and Cause read as words

Word == 0 .. Mod - 1
Add_Bug(a, b) == a + b  \* the carry kept
Add(a, b) == (a + b) % Mod
Sub(a, b) == (a + Mod - b) % Mod

\* An instruction word: decoded name and fields.  imm is the 16-bit field of
\* an immediate, the shift amount, or the word address target of J and JAL
\* (already placed in the current region).
Instr == [op : Name, rs : Reg, rt : Reg, rd : 0 .. 31, imm : Word]
Nop == [op |-> "NOP", rs |-> 0, rt |-> 0, rd |-> 0, imm |-> 0]

ASSUME CpuAssumption ==
  /\ Mod \in Nat /\ Mod > 8
  /\ Reg \subseteq 0 .. 31 /\ 0 \in Reg
  /\ DataWords \in Nat \ {0}
  /\ ResetPC \in Word /\ ExcVector \in Word
  /\ \A p \in Programs : \A a \in DOMAIN p : p[a] \in Instr

VARIABLES
  inst_ram,     \* the program
  PC, last_PC,  \* pc.v
  ID,           \* if_id.v and the latch test_instruction
  EX, MEM, WB,  \* id_ex.v, ex_mem.v, mem_wb.v (data_sram_rdata in WB)
  alu_latch,    \* alu.v: result keeps its value when no case applies
  registers, HI, LO, data_ram,
  cp0,          \* CP0.v
  kill          \* pipe_stall_info: 3 flushes ID, 2 EX, 1 MEM, 0 WB

vars == <<inst_ram, PC, last_PC, ID, EX, MEM, WB, alu_latch, registers, HI,
          LO, data_ram, cp0, kill>>

-----------------------------------------------------------------------------
(* Write-back stage.                                                       *)

WB_regWrite == WB.name \in RegWrite /\ 0 \notin kill

\* The HI and LO latches are transparent while a writer is in WB.
out_HI_data == IF WB.name \in HiWrite /\ 0 \notin kill THEN WB.hi ELSE HI
out_LO_data == IF WB.name \in LoWrite /\ 0 \notin kill THEN WB.lo ELSE LO

CP0_now_Bug == cp0  \* read before the mtc0 in WB has been latched
\* The CP0 registers with the mtc0 in WB already latched: CP0_write is not
\* masked by the flush, only EPC looks at it (pause).
CP0_now ==
  LET v == WB.b
  IN  IF WB.name # "MTC0" THEN cp0
      ELSE CASE WB.instr.rd = 9  -> [cp0 EXCEPT !.count = v]
             [] WB.instr.rd = 12 -> [cp0 EXCEPT !.im = ImOf(v)]
             [] WB.instr.rd = 13 -> [cp0 EXCEPT !.ip = IpOf(v)]
             [] WB.instr.rd = 14 /\ kill = {} -> [cp0 EXCEPT !.epc = v]
             [] OTHER -> cp0

\* What mfc0 reads; the forwarding paths fall back to EPC, WB to zero.
CP0_read(rd) ==
  CASE rd = 8  -> CP0_now.badVAddr
    [] rd = 9  -> CP0_now.count
    [] rd = 12 -> StatusWord(CP0_now.im, CP0_now.exl)
    [] rd = 13 -> CauseWord(CP0_now.bd, CP0_now.code, CP0_now.ip)
    [] OTHER   -> CP0_now.epc
CP0_out_data == IF WB.instr.rd \in {8, 9, 12, 13, 14}
                THEN CP0_read(WB.instr.rd) ELSE 0

\* The link one word short: the delay slot itself.
writeData_Bug ==
  CASE WB.name = "MFHI"   -> out_HI_data
    [] WB.name = "MFLO"   -> out_LO_data
    [] WB.name = "MFC0"   -> CP0_out_data
    [] WB.name \in Link   -> WB.fourPC
    [] WB.name \in Load   -> LoadExt(WB.name, WB.alu % 4, WB.rdata)
    [] OTHER              -> WB.alu
writeData ==
  CASE WB.name = "MFHI"   -> out_HI_data
    [] WB.name = "MFLO"   -> out_LO_data
    [] WB.name = "MFC0"   -> CP0_out_data
    [] WB.name \in Link   -> Add(WB.fourPC, 4)
    [] WB.name \in Load   -> LoadExt(WB.name, WB.alu % 4, WB.rdata)
    [] OTHER              -> WB.alu
WB_writeDataReg == Dest(WB.name, WB.instr)

-----------------------------------------------------------------------------
(* Memory stage.                                                           *)

MEM_memRead == MEM.name \in Load /\ 1 \notin kill
MEM_memWrite == MEM.name \in Store /\ 1 \notin kill
MEM_writeDataReg == Dest(MEM.name, MEM.instr)
Misaligned == MEM.alu % Size(MEM.name) # 0

in_mem_HI_data_Bug == MEM.hi  \* mthi takes the idle multiplier
in_mem_HI_data == IF MEM.name = "MTHI" THEN MEM.a ELSE MEM.hi
in_mem_LO_data == IF MEM.name = "MTLO" THEN MEM.a ELSE MEM.lo

\* The write enable that guards this path is wb_ctrl.v with if_work tied to
\* 0: a flushed instruction in MEM still forwards.
MEM_forward_data ==
  CASE MEM.name = "MFHI" -> out_HI_data
    [] MEM.name = "MFLO" -> out_LO_data
    [] MEM.name = "MFC0" -> CP0_read(MEM.instr.rd)
    [] OTHER             -> MEM.alu

-----------------------------------------------------------------------------
(* Execute stage.                                                          *)

\* forwarding_unit_alu and the muxes behind it.
Forwarded(r, v) ==
  IF MEM.name \in RegWrite /\ MEM_writeDataReg # 0 /\ MEM_writeDataReg = r
  THEN MEM_forward_data
  ELSE IF WB_regWrite /\ WB_writeDataReg # 0 /\ WB_writeDataReg = r
  THEN writeData
  ELSE v
data1 == Forwarded(EX.instr.rs, EX.a)
data2 == Forwarded(EX.instr.rt, EX.b)
Immediate(n, i) == IF n \in ZeroExtended THEN ZeroExt(i.imm)
                   ELSE SignExt(i.imm)
alu_data2 == IF EX.name \in UsesImm THEN Immediate(EX.name, EX.instr)
             ELSE data2

\* A flushed slot gets aluOp 1111, like every name outside AluOps.
AluActive == EX.name \in AluOps /\ 2 \notin kill
aluResult == IF AluActive THEN AluResult(EX.name, data1, alu_data2)
             ELSE alu_latch
overflow == /\ AluActive /\ EX.name \in AddSub \cup Load \cup Store
            /\ AluOverflow(EX.name, data1, alu_data2)

EX_register_d == Dest(EX.name, EX.instr)
\* mfhi in EX does not look at a writer in MEM.
EXE_forward_data_Bug ==
  CASE EX.name = "MFHI" -> out_HI_data
    [] EX.name = "MFLO" -> out_LO_data
    [] EX.name = "MFC0" -> CP0_read(EX.instr.rd)
    [] OTHER            -> aluResult
EXE_forward_data ==
  CASE EX.name = "MFHI" -> IF MEM.name \in HiWrite THEN in_mem_HI_data
                           ELSE out_HI_data
    [] EX.name = "MFLO" -> IF MEM.name \in LoWrite THEN in_mem_LO_data
                           ELSE out_LO_data
    [] EX.name = "MFC0" -> IF MEM.name = "MTC0" THEN MEM.b
                           ELSE CP0_read(EX.instr.rd)
    [] OTHER            -> aluResult

-----------------------------------------------------------------------------
(* Decode stage.                                                           *)

\* One stage looked at; or every writer in MEM taken for a load.
Hazard_Bug(id, ex, mem, k) ==
  3 \notin k /\ ex.name \in Load /\ ex.instr.rt \in {id.rs, id.rt}
HazardAny_Bug(id, ex, mem, k) ==
  3 \notin k /\ mem.name \in RegWrite /\ mem.instr.rt \in {id.rs, id.rt}
\* hazard_detection: a load one or two stages ahead whose rt is a field of
\* the instruction held in ID.
Hazard(id, ex, mem, k) ==
  /\ 3 \notin k
  /\ \/ ex.name \in Load /\ ex.instr.rt \in {id.rs, id.rt}
     \/ /\ mem.name \in Load /\ 1 \notin k
        /\ mem.instr.rt \in {id.rs, id.rt}
stall_info == Hazard(ID.instr, EX, MEM, kill)

\* A held instruction issues in every cycle.
inst_name_Bug == IF 3 \in kill /\ ID.instr.op \notin Trap THEN "NOP"
                 ELSE ID.instr.op
\* decode.v: a stalled or flushed slot is a NOP, unless it is a trap.
inst_name == IF (stall_info \/ 3 \in kill) /\ ID.instr.op \notin Trap
             THEN "NOP" ELSE ID.instr.op

\* The value before the write in progress.
readData_Bug(r) == IF r = 0 THEN 0 ELSE registers[r]
\* regfile.v: the write in progress is seen before register 0 is tested.
readData(r) == IF WB_regWrite /\ r = WB_writeDataReg THEN writeData
               ELSE IF r = 0 THEN 0 ELSE registers[r]

\* forwarding_unit_branch: no test for register 0.
Compare_Data(r) ==
  IF EX.name \in RegWrite /\ EX_register_d = r THEN EXE_forward_data
  ELSE IF MEM.name \in RegWrite /\ MEM_writeDataReg = r
  THEN MEM_forward_data
  ELSE readData(r)
Compare_Data1 == Compare_Data(ID.instr.rs)
Compare_Data2 == Compare_Data(ID.instr.rt)

eret == inst_name = "ERET"
if_npc_wrong == \/ inst_name \in Jump /\ Compare_Data1 % 4 # 0
                \/ eret /\ CP0_now.epc % 4 # 0
soft_input_Bug == FALSE  \* no software interrupts
soft_input == /\ ~CP0_now.exl /\ inst_name = "MTC0" /\ ID.instr.rd = 13
              /\ IpOf(Compare_Data1) # 0

-----------------------------------------------------------------------------
(* exception.v: which fault wins, its pc and the slots it flushes.         *)

AdelFetch == if_npc_wrong
AdelLoad == ~if_npc_wrong /\ MEM_memRead /\ Misaligned
Ades == MEM_memWrite /\ Misaligned
error_addr == IF if_npc_wrong
              THEN IF CP0_now.epc % 4 # 0 THEN CP0_now.epc ELSE Compare_Data1
              ELSE MEM.alu

RestartPC_Bug(fourPC, older) == Sub(fourPC, 4)  \* delay slots forgotten
\* The pc to restart at: that of the branch when the older slot holds one.
RestartPC(fourPC, older) ==
  Sub(fourPC, IF older.name \in Branch \cup Jump THEN 8 ELSE 4)
ID_pc == RestartPC(ID.fourPC, EX)
EX_pc == RestartPC(EX.fourPC, MEM)
MEM_pc == RestartPC(MEM.fourPC, WB)

Fault(code, pc, mask) ==
  [raised |-> TRUE, code |-> code, pc |-> pc, mask |-> mask]
NoFault == [raised |-> FALSE, code |-> 0, pc |-> 0, mask |-> {}]
Exc ==
  IF AdelLoad THEN Fault(4, MEM_pc, {0, 1, 2, 3})
  ELSE IF Ades THEN Fault(5, MEM_pc, {0, 1, 2, 3})
  ELSE IF overflow THEN Fault(12, EX_pc, {1, 2, 3})
  ELSE IF AdelFetch THEN Fault(4, error_addr, IF eret THEN {2, 3} ELSE {})
  ELSE IF inst_name = "RI" THEN Fault(10, ID_pc, {2, 3})
  ELSE IF inst_name = "BREAK" THEN Fault(9, ID_pc, {2, 3})
  ELSE IF soft_input THEN Fault(0, Add(ID_pc, 4), {2, 3})
  ELSE IF inst_name = "SYSCALL" THEN Fault(8, ID_pc, {2, 3})
  ELSE NoFault
if_exc == Exc.raised

if_in_delay_dolt ==
  \/ /\ EX.name \in Branch \cup Jump
     /\ AdelFetch \/ inst_name \in Trap \cup {"RI"} \/ soft_input
  \/ MEM.name \in Branch \cup Jump /\ overflow
  \/ WB.name \in Branch \cup Jump /\ (AdelLoad \/ Ades)

-----------------------------------------------------------------------------
(* npc.v.                                                                  *)

Negative(v) == v >= Mod \div 2
Taken ==
  CASE inst_name = "BEQ"  -> Compare_Data1 = Compare_Data2
    [] inst_name = "BNE"  -> Compare_Data1 # Compare_Data2
    [] inst_name = "BGTZ" -> Compare_Data1 # 0 /\ ~Negative(Compare_Data1)
    [] inst_name = "BLEZ" -> Compare_Data1 = 0 \/ Negative(Compare_Data1)
    [] inst_name \in {"BLTZ", "BLTZAL"} -> Negative(Compare_Data1)
    [] inst_name \in {"BGEZ", "BGEZAL"} -> ~Negative(Compare_Data1)
    [] OTHER -> FALSE
NPC == IF if_exc THEN ExcVector
       ELSE IF inst_name \in JumpReg THEN Compare_Data1
       ELSE IF inst_name \in Jump THEN ID.instr.imm
       ELSE IF Taken THEN Add(PC, (4 * SignExt(ID.instr.imm)) % Mod)
       ELSE IF eret THEN CP0_now.epc
       ELSE Add(PC, 4)

-----------------------------------------------------------------------------
(* The clock edge.                                                         *)

\* inst_ram answers in the cycle after the address; beyond the program it
\* holds zero words.
Fetch(a) == LET w == a - (a % 4)
            IN  IF w \in DOMAIN inst_ram THEN inst_ram[w] ELSE Nop

NextKill_Bug == Exc.mask  \* the flush lasts one cycle
\* exception.v: a new mask replaces the old one, else the old one moves on.
NextKill == IF Exc.mask # {} THEN Exc.mask
            ELSE {b \in 0 .. 2 : b + 1 \in kill}

NextEX == [name |-> inst_name, instr |-> ID.instr, fourPC |-> ID.fourPC,
           a |-> IF inst_name \in ShiftImm THEN ID.instr.imm
                 ELSE readData(ID.instr.rs),
           b |-> readData(ID.instr.rt)]

\* Idle, multiply.v leaves its outputs to the last operation; none is read.
Product == IF EX.name \in MulDiv
           THEN MulDivResult(EX.name, data1, alu_data2)
           ELSE [hi |-> 0, lo |-> 0]
NextMEM == [name |-> EX.name, instr |-> EX.instr, fourPC |-> EX.fourPC,
            alu |-> aluResult, a |-> data1, b |-> data2,
            hi |-> Product.hi, lo |-> Product.lo]

data_sram_en_Bug == TRUE  \* a faulting store is not stopped
\* data_sram_en is off while any address fault is signalled.
data_sram_en == ~AdelFetch /\ ~AdelLoad /\ ~Ades
RamWord == (MEM.alu \div 4) % DataWords
NextWB == [name |-> MEM.name, instr |-> MEM.instr, fourPC |-> MEM.fourPC,
           alu |-> MEM.alu, b |-> MEM.b,
           hi |-> in_mem_HI_data, lo |-> in_mem_LO_data,
           rdata |-> IF MEM_memRead /\ data_sram_en
                     THEN data_ram[RamWord] ELSE WB.rdata]
NextRam == IF MEM_memWrite /\ data_sram_en
           THEN [data_ram EXCEPT ![RamWord] =
                   StoreLanes(MEM.name, MEM.alu % 4, @, MEM.b)]
           ELSE data_ram

\* CP0.v at the edge.  The test of EXL around the update is commented out in
\* the source; BD is only ever set here, and cleared by eret.  A write to EPC
\* in WB is still open at the edge: it wins over a fault that flushes nothing.
NextCP0 ==
  LET c == CP0_now
      clear == eret /\ ~if_exc
      open == WB.name = "MTC0" /\ WB.instr.rd = 14 /\ NextKill = {}
  IN  [c EXCEPT
        !.epc  = IF if_exc /\ ~open THEN Exc.pc ELSE @,
        !.code = IF if_exc THEN Exc.code ELSE @,
        !.badVAddr = IF if_exc /\ Exc.code \in {4, 5} THEN error_addr ELSE @,
        !.exl  = IF if_exc THEN TRUE ELSE IF clear THEN FALSE ELSE @,
        !.bd   = IF if_in_delay_dolt THEN TRUE
                 ELSE IF clear THEN FALSE ELSE @]

\* What every edge does to the stages behind fetch.  The word in ID is held
\* while it conflicts with the loads that have just moved on: until the RAM
\* answers, ID still sees the word it had, so a load always holds itself.
Pipe ==
  /\ kill' = NextKill
  /\ EX' = NextEX /\ MEM' = NextMEM /\ WB' = NextWB
  /\ ID' = [instr  |-> IF Hazard(ID.instr, NextEX, NextMEM, NextKill)
                       THEN ID.instr ELSE Fetch(PC),
            fourPC |-> IF stall_info THEN ID.fourPC ELSE Add(PC, 4)]
  /\ registers' = [r \in Reg |-> IF WB_regWrite /\ r = WB_writeDataReg
                                 THEN writeData ELSE registers[r]]
  /\ HI' = out_HI_data /\ LO' = out_LO_data
  /\ alu_latch' = aluResult
  /\ data_ram' = NextRam
  /\ cp0' = NextCP0
  /\ last_PC' = PC
  /\ UNCHANGED inst_ram

\* pc.v: PC_write is 1, is 0 (a load is waiting), or an exception overrides.
Advance == ~if_exc /\ ~stall_info /\ PC' = NPC /\ Pipe
Stall == ~if_exc /\ stall_info /\ PC' = last_PC /\ Pipe
TakeException == if_exc /\ PC' = NPC /\ Pipe

Next == Advance \/ Stall \/ TakeException

\* The first cycle after reset: nothing in flight, registers cleared.
Init ==
  /\ inst_ram \in Programs
  /\ PC = Sub(ResetPC, 4) /\ last_PC = Sub(ResetPC, 4)
  /\ ID = [instr |-> Nop, fourPC |-> 0]
  /\ EX = [name |-> "NOP", instr |-> Nop, fourPC |-> 0, a |-> 0, b |-> 0]
  /\ MEM = [name |-> "NOP", instr |-> Nop, fourPC |-> 0, alu |-> 0,
            a |-> 0, b |-> 0, hi |-> 0, lo |-> 0]
  /\ WB = [name |-> "NOP", instr |-> Nop, fourPC |-> 0, alu |-> 0,
           b |-> 0, hi |-> 0, lo |-> 0, rdata |-> 0]
  /\ alu_latch = 0
  /\ registers = [r \in Reg |-> 0] /\ HI = 0 /\ LO = 0
  /\ data_ram = [w \in 0 .. DataWords - 1 |-> 0]
  /\ cp0 = [badVAddr |-> 0, count |-> 0, im |-> 0, exl |-> FALSE,
            bd |-> FALSE, code |-> 0, ip |-> 0, epc |-> 0]
  /\ kill = {}

Spec == Init /\ [][Next]_vars /\ WF_vars(Next)

-----------------------------------------------------------------------------
(* Properties of the pipeline alone.                                       *)

\* The values the fields of Status and Cause take.
ImField == {ImOf(v) : v \in Word} \cup {0}
IpField == {IpOf(v) : v \in Word} \cup {0}

\* Type invariant: every register and latch holds what its width allows.
TypeOK ==
  /\ \A w \in DOMAIN inst_ram : inst_ram[w] \in Instr
  /\ PC \in Word /\ last_PC \in Word
  /\ ID \in [instr : Instr, fourPC : Word]
  /\ EX \in [name : Name, instr : Instr, fourPC : Word, a : Word, b : Word]
  /\ MEM \in [name : Name, instr : Instr, fourPC : Word, alu : Word,
              a : Word, b : Word, hi : Word, lo : Word]
  /\ WB \in [name : Name, instr : Instr, fourPC : Word, alu : Word,
             b : Word, hi : Word, lo : Word, rdata : Word]
  /\ alu_latch \in Word
  /\ registers \in [Reg -> Word] /\ HI \in Word /\ LO \in Word
  /\ data_ram \in [0 .. DataWords - 1 -> Word]
  /\ cp0 \in [badVAddr : Word, count : Word, im : ImField, exl : BOOLEAN,
              bd : BOOLEAN, code : 0 .. 31, ip : IpField, epc : Word]
  /\ kill \subseteq 0 .. 3

(* A load is never overtaken: while it is in EX, and while it is in MEM     *)
(* without having faulted, ID still holds the load itself and everything    *)
(* between them is a bubble (the two-cycle hold of hazard_detection_unit.v  *)
(* and the test_instruction latch of datapath.v).                           *)
LoadHeld ==
  /\ EX.name \in Load /\ 3 \notin kill => ID.instr = EX.instr
  /\ MEM.name \in Load /\ {1, 3} \cap kill = {} =>
       ID.instr = MEM.instr /\ EX.name = "NOP"

(* No instruction that will complete ever computes while a load is still in *)
(* MEM, where forwarding_unit.v would hand it the load's address instead of *)
(* its datum: the ALU path has no case for a load in MEM.                   *)
NoLoadForwarded ==
  EX.name # "NOP" /\ 2 \notin kill => MEM.name \notin Load

(* A stall ends: once the load has left EX, the held instruction moves on   *)
(* after the next edge, whatever is fetched or flushed meanwhile.           *)
StallEnds == [][stall_info /\ EX.name \notin Load => ~stall_info']_vars
=============================================================================
