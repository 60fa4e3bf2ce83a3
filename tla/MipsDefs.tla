------------------------------ MODULE MipsDefs ------------------------------
(***************************************************************************)
(* The 57 instruction names of decode_list.v and what the four control     *)
(* units (decode_ctrl.v, exe_ctrl.v, mem_ctrl.v, wb_ctrl.v) derive from    *)
(* them.  The RTL encodes a name in eight bits, class in [7:4]; here a name *)
(* is a string and a class is a set of names.  "NOP" is 8'hFF (sll 0 and    *)
(* every bubble), "RI" is 8'hFE (an encoding decode.v does not know).       *)
(***************************************************************************)
EXTENDS Naturals

\* exe_ctrl.v: names that drive the ALU with aluOp ADD or SUB, the two
\* operations alu.v watches for overflow (loads and stores add their offset
\* with the same aluOp).
AddSub == {"ADD", "ADDI", "SUB"}

\* Register-register and register-immediate names of classes 0000..0010.
AluReg == {"ADD", "ADDU", "SUB", "SUBU", "SLT", "SLTU", "AND", "NOR", "OR",
           "XOR", "SLL", "SLLV", "SRA", "SRAV", "SRL", "SRLV"}
AluImm == {"ADDI", "ADDIU", "SLTI", "SLTIU", "ANDI", "LUI", "ORI", "XORI"}
MulDiv == {"MULT", "MULTU", "DIV", "DIVU"}

\* Names whose first ALU operand is the shift amount field (sll_info).
ShiftImm == {"SLL", "SRA", "SRL"}

\* Class 0011, class 0100 and the halves of class 0111.
Branch == {"BEQ", "BNE", "BGEZ", "BGTZ", "BLEZ", "BLTZ", "BLTZAL", "BGEZAL"}
Jump == {"J", "JAL", "JR", "JALR"}
JumpReg == {"JR", "JALR"}
Load == {"LB", "LBU", "LH", "LHU", "LW"}
Store == {"SB", "SH", "SW"}

\* Names that write the return address: regDst = 2'b10, register 31.
Link == {"BLTZAL", "BGEZAL", "JAL", "JALR"}

\* The two names decode.v keeps even in a stalled or flushed slot.
Trap == {"SYSCALL", "BREAK"}

Name == AluReg \cup AluImm \cup MulDiv \cup Branch \cup Jump \cup Load
        \cup Store \cup Trap
        \cup {"MFHI", "MFLO", "MTHI", "MTLO", "ERET", "MFC0", "MTC0",
              "NOP", "RI"}

\* exe_ctrl.v: the names for which the ALU computes (any other leaves the
\* result latch of alu.v alone: its case has no default).
AluOps == AluReg \cup AluImm \cup Load \cup Store

\* decode_ctrl.v, aluSrc: the second ALU operand is the extended immediate.
UsesImm == AluImm \cup Load \cup Store

\* decode_ctrl.v, extType 2'b01: the immediate is zero-extended.
ZeroExtended == {"ANDI", "ORI", "XORI"}

\* wb_ctrl.v, regwrite.
RegWrite == AluReg \cup AluImm \cup Load \cup Link
            \cup {"MFHI", "MFLO", "MFC0"}

\* wb_ctrl.v, HI_write and LO_write.
HiWrite == MulDiv \cup {"MTHI"}
LoWrite == MulDiv \cup {"MTLO"}

\* decode_ctrl.v regDst and the mux of datapath.v: the destination register.
Dest(n, i) == IF n \in AluImm \cup Load \cup {"MFC0"} THEN i.rt
              ELSE IF n \in Link THEN 31
              ELSE i.rd

\* mem_ctrl.v, data_size: the bytes one access moves.
Size(n) == IF n \in {"LW", "SW"} THEN 4
           ELSE IF n \in {"LH", "LHU", "SH"} THEN 2
           ELSE 1
=============================================================================
