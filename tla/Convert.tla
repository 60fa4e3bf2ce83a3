------------------------------ MODULE Convert ------------------------------
(***************************************************************************)
(* convert.c: the build step that turns a program into the images the RAMs  *)
(* of the design are initialised with, a line for each word: eight          *)
(* hexadecimal digits in a .coe, 32 bits in a .mif.  A file is a sequence of *)
(* bytes.  All loops of a run share one buffer, which the last, short fread *)
(* of a file fills only in part.                                           *)
(***************************************************************************)
EXTENDS Integers, Sequences

WordAt == 1 .. 4

\* feof says so only after a read that met the end: the line of the short
\* read is written as well, and it may have read nothing.
Lines_Bug(file) == Len(file) \div 4  \* break in front of the last output
Lines(file) == Len(file) \div 4 + 1

\* The buffer when line k is written; mem is what it held before the file.
Buffer(file, mem, k) ==
  [i \in WordAt |-> LET at == 4 * (k - 1) + i
                    IN  IF at <= Len(file) THEN file[at]
                        ELSE IF k > 1 THEN file[at - 4] ELSE mem[i]]
Afterwards(file, mem) == Buffer(file, mem, Len(file) \div 4 + 1)

\* The lines of a .coe and of a .mif: the byte of the highest address first.
coe(file, mem) ==
  [k \in 1 .. Lines(file) |-> [d \in 1 .. 8 |->
     LET byte == Buffer(file, mem, k)[4 - (d - 1) \div 2]
     IN  IF d % 2 = 1 THEN byte \div 16 ELSE byte % 16]]
binary_out(buffer) ==
  [d \in 1 .. 32 |-> (buffer[4 - (d - 1) \div 8] \div 2 ^ (7 - ((d - 1) % 8))) % 2]
mif(file, mem) == [k \in 1 .. Lines(file) |-> binary_out(Buffer(file, mem, k))]

\* The images a run leaves: of the memory game, one file; of the functional
\* test, instructions and data.  mem is the buffer uninitialised.
game_images(bin, mem) ==
  [coe |-> coe(bin, mem), mif |-> mif(bin, Afterwards(bin, mem))]
func_images(bin, data, mem) ==
  LET mem1 == Afterwards(bin, mem)
      mem2 == Afterwards(data, mem1)
      mem3 == Afterwards(data, mem2)
  IN  [inst_coe |-> coe(bin, mem), data_coe |-> coe(data, mem1),
       data_mif |-> mif(data, mem2), inst_mif |-> mif(bin, mem3)]
=============================================================================
