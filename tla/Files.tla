------------------------------- MODULE Files -------------------------------
(***************************************************************************)
(* The files of stdio.c: texts in memory behind a table of SIZE streams that *)
(* all callers share.  A caller has one stream open at a time; it knows the  *)
(* text it asked for and what it has read of it.                            *)
(***************************************************************************)
EXTENDS Integers, Sequences, FiniteSetsExt

CONSTANTS SIZE,     \* streams in the table
          Texts,    \* what a file may hold
          NoText,   \* NULL
          Newline,  \* the character that ends a line
          MaxRead,  \* bound on size * nmemb of one fread
          Caller

ASSUME FilesAssumption == /\ SIZE \in Nat \ {0} /\ MaxRead \in Nat
                          /\ \A t \in Texts : t \in Seq(Nat) /\ t # NoText

VARIABLES files,  \* stream -> [str, pos]; str NoText is a free one
          open    \* caller -> [stream, text, got]; stream -1 is none

fvars == <<files, open>>

Stream == 0 .. SIZE - 1
Closed == [str |-> NoText, pos |-> 0]
None == [stream |-> -1, text |-> <<>>, got |-> <<>>]
HasOpen(c) == open[c].stream # -1
Free_Bug == {i \in Stream : files[i].pos = 0}
Free == {i \in Stream : files[i].str = NoText}

-----------------------------------------------------------------------------
\* With every stream taken, fopen writes behind the table: callers keep away.
fopen(c, str) ==
  /\ ~HasOpen(c) /\ Free # {}
  /\ files' = [files EXCEPT ![Min(Free)] = [str |-> str, pos |-> 0]]
  /\ open' = [open EXCEPT ![c] = [stream |-> Min(Free), text |-> str,
                                  got |-> <<>>]]

\* The characters left in the stream of c, and n of them handed over.
Left(c) == LET f == files[open[c].stream] IN Len(f.str) - f.pos
Deliver(c, n) ==
  LET i == open[c].stream
      from == files[i].pos
  IN  /\ files' = [files EXCEPT ![i].pos = from + n]
      /\ open' = [open EXCEPT ![c].got =
                    @ \o SubSeq(files[i].str, from + 1, from + n)]

fread(c, total) == HasOpen(c) /\ Deliver(c, Min({total, Left(c)}))
getc(c) == HasOpen(c) /\ Deliver(c, Min({1, Left(c)}))

\* Up to and with the next newline, or all that is left, whatever the size of
\* the caller's buffer.
LineEnd(c) ==
  LET f == files[open[c].stream]
  IN  Min({Left(c)} \cup {n \in 1 .. Left(c) : f.str[f.pos + n] = Newline})
fgets(c) == HasOpen(c) /\ Deliver(c, LineEnd(c))

fclose(c) ==
  /\ HasOpen(c)
  /\ files' = [files EXCEPT ![open[c].stream] = Closed]
  /\ open' = [open EXCEPT ![c] = None]

FilesInit == files = [i \in Stream |-> Closed] /\ open = [c \in Caller |-> None]
FilesNext == \E c \in Caller : \/ \E str \in Texts : fopen(c, str)
                               \/ \E n \in 0 .. MaxRead : fread(c, n)
                               \/ getc(c)
                               \/ fgets(c)
                               \/ fclose(c)
FilesSpec == FilesInit /\ [][FilesNext]_fvars

-----------------------------------------------------------------------------
(* A stream delivers the text it was opened with from the start, in order,   *)
(* each character once, whatever other callers open, read and close beside   *)
(* it (fopen and fclose share one table, stdio.c:22-25 and 68).              *)
InOrder ==
  \A c \in Caller : HasOpen(c) =>
    /\ files[open[c].stream].str = open[c].text
    /\ files[open[c].stream].pos = Len(open[c].got)
    /\ open[c].got = SubSeq(open[c].text, 1, Len(open[c].got))
=============================================================================
