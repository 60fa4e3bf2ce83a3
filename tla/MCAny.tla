------------------------------- MODULE MCAny -------------------------------
(***************************************************************************)
(* The pipeline running every program: words of 4 bits, so that a program  *)
(* is four instruction words, the exception vector being the third.  The   *)
(* alphabet has loads, stores, branches and every kind of fault, and they  *)
(* meet in every order, flushed slots included.  Extending CpuUnits makes   *)
(* TLC evaluate what the proofs assume of Alu.tla.                         *)
(***************************************************************************)
EXTENDS CpuUnits

Units == INSTANCE Alu WITH Width <- 4, ShiftBits <- 2, Words <- Mod
MCAluResult(n, a, b) == Units!alu_result(n, a, b)
MCAluOverflow(n, a, b) == Units!alu_overflow(n, a, b)
MCMulDiv(n, a, b) == Units!multiply(n, a, b)
MCSignExt(v) == Units!signedext(v)
MCZeroExt(v) == Units!unsignedext(v)
MCLoadExt(n, l, w) == Units!dm_data_read(n, l, w)
MCStoreLanes(n, l, w, v) == Units!dm_write(n, l, w, v)

\* IM and IP are two bits; Cause keeps the low bits of the code.
MCImOf(v) == v \div 4
MCIpOf(v) == v % 4
MCStatusWord(im, exl) == im * 4 + (IF exl THEN 2 ELSE 0)
MCCauseWord(bd, code, ip) == (IF bd THEN 8 ELSE 0) + (code % 2) * 4 + ip

Word4(op, rs, rt, rd, imm) ==
  [op |-> op, rs |-> rs, rt |-> rt, rd |-> rd, imm |-> imm]
Alphabet == {Word4("ADDIU", 0, 1, 0, 1), Word4("ADD", 1, 1, 1, 0),
             Word4("LW", 0, 1, 0, 0), Word4("LH", 1, 1, 0, 1),
             Word4("SB", 0, 1, 0, 1), Word4("SW", 1, 1, 0, 0),
             Word4("BNE", 1, 0, 0, 2), Word4("JR", 1, 0, 0, 0),
             Word4("SYSCALL", 0, 0, 0, 0), Word4("RI", 0, 0, 0, 0),
             Word4("MTC0", 1, 1, 13, 0), Word4("ERET", 0, 0, 0, 0)}
MCPrograms == [{0, 4, 8, 12} -> Alphabet]
=============================================================================
