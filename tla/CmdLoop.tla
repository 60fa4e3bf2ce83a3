------------------------------ MODULE CmdLoop ------------------------------
(***************************************************************************)
(* cmdline.c: the command prompt.  A step is a character of the keyboard, or *)
(* one of the buffer while the loop at the end of a line splits it in place; *)
(* then the command it names runs.  argv holds positions of cmdbuffer and    *)
(* both outlive the line, because an empty line runs the last command again. *)
(* Nothing in the code keeps a line inside its arrays: where it writes       *)
(* behind one of them the state is "overrun", and the model ends.            *)
(***************************************************************************)
EXTENDS Integers, Sequences

CONSTANTS Letters,   \* the characters a name or an argument is made of
          CMD_BUFF,  \* the cells of cmdbuffer (64)
          V_NUM,     \* the cells of argv (8)
          cmd        \* the table: [cmdname, repeat], exit the first

Nul == "nul"         \* the character NUL
Space == "space"
Backspace == "backspace"
Enter == "enter"
Control == "control"  \* any other character: it is not put into the buffer
NoWord == -1         \* NULL in argv

ASSUME CmdAssumption ==
  /\ CMD_BUFF \in Nat \ {0} /\ V_NUM \in Nat \ {0}
  /\ Letters \cap {Nul, Space, Backspace, Enter, Control} = {}
  /\ Space # Nul /\ cmd \in Seq([cmdname : Seq(Letters) \ {<<>>}, repeat : Nat])
  \* Every command but exit may be repeated, and no two have one name.
  /\ Len(cmd) > 0 /\ \A k \in 2 .. Len(cmd) : cmd[k].repeat # 0
  /\ \A k, l \in DOMAIN cmd : cmd[k].cmdname = cmd[l].cmdname => k = l

VARIABLES cmdbuffer, cp,
          argv, argc,
          ran,     \* the command the last line named, with its arguments
          typed,   \* the characters of this line that have not been erased
          spoiled, \* something has been erased since the last line with words
          last,    \* the last line that was not empty
          scan,    \* the splitting loop: [i, p0, c0]
          state    \* "prompt", "split", "left" (exit), "fault" (NULL dereferenced),
                   \* "overrun" (a write behind cmdbuffer or argv)

cmdvars == <<cmdbuffer, cp, argv, argc, ran, typed, spoiled, last, scan, state>>
Nothing == [name |-> <<>>, args |-> <<>>]

CmdInit ==
  /\ cmdbuffer = [i \in 0 .. CMD_BUFF - 1 |-> Nul] /\ cp = 0
  /\ argv = [i \in 0 .. V_NUM - 1 |-> NoWord] /\ argc = 0
  /\ ran = Nothing /\ typed = <<>> /\ spoiled = FALSE /\ last = <<>>
  /\ scan = [i |-> 0, p0 |-> 0, c0 |-> Nul] /\ state = "prompt"

\* The string that begins at position a: it ends in front of the first NUL.
String(buf, a) ==
  LET end == CHOOSE e \in a .. CMD_BUFF - 1 : /\ buf[e] = Nul
                                              /\ \A i \in a .. e - 1 : buf[i] # Nul
  IN  [i \in 1 .. end - a |-> buf[a + i - 1]]

-----------------------------------------------------------------------------
Printable(c) ==
  /\ state = "prompt" /\ cp < CMD_BUFF
  /\ cmdbuffer' = [cmdbuffer EXCEPT ![cp] = c] /\ cp' = cp + 1
  /\ typed' = Append(typed, c)
  /\ UNCHANGED <<argv, argc, ran, spoiled, last, scan, state>>

Erase_Bug ==  \* one step further than the line goes
  /\ state = "prompt"
  /\ cp' = cp - 1 /\ cmdbuffer' = [cmdbuffer EXCEPT ![cp - 1] = Nul]
  /\ typed' = SubSeq(typed, 1, cp - 1) /\ spoiled' = TRUE
  /\ UNCHANGED <<argv, argc, ran, last, scan, state>>
Erase ==
  /\ state = "prompt" /\ cp > 0
  /\ cp' = cp - 1 /\ cmdbuffer' = [cmdbuffer EXCEPT ![cp - 1] = Nul]
  /\ typed' = SubSeq(typed, 1, cp - 1) /\ spoiled' = TRUE
  /\ UNCHANGED <<argv, argc, ran, last, scan, state>>

Entry(name) == IF \E k \in DOMAIN cmd : cmd[k].cmdname = name
               THEN CHOOSE k \in DOMAIN cmd : cmd[k].cmdname = name ELSE 0

\* The command is looked up by argv[0]; exit leaves the loop.
Run(buf, av, ac) ==
  LET name == String(buf, av[0])
      args == [i \in 1 .. ac |-> String(buf, av[i - 1])]
      k == Entry(name)
  IN  /\ argv' = IF k > 1 /\ cmd[k].repeat = 0 THEN [av EXCEPT ![0] = NoWord] ELSE av
      /\ state' = IF k = 1 THEN "left" ELSE "prompt"
      /\ ran' = [name |-> name, args |-> args]

\* The line is cut at its spaces: a word is noted when the next one begins,
\* the last one at the end, unless a space ends the line.
FirstArgc_Bug == argc  \* not counted anew
FirstArgc == 0
BeginSplit ==
  /\ state = "prompt" /\ cp > 0
  /\ scan' = [i |-> 0, p0 |-> 0, c0 |-> Nul] /\ argc' = FirstArgc /\ state' = "split"
  /\ UNCHANGED <<cmdbuffer, cp, argv, ran, typed, spoiled, last>>
Note(p) == argv' = [argv EXCEPT ![argc] = p] /\ argc' = argc + 1
SplitChar ==
  LET c == cmdbuffer[scan.i]
  IN  /\ state = "split" /\ scan.i < cp
      /\ \/ /\ c = Space /\ cmdbuffer' = [cmdbuffer EXCEPT ![scan.i] = Nul]
            /\ scan' = [scan EXCEPT !.i = @ + 1, !.c0 = c]
            /\ UNCHANGED <<argv, argc>>
         \/ /\ c # Space /\ scan.c0 = Space /\ argc < V_NUM /\ Note(scan.p0)
            /\ scan' = [i |-> scan.i + 1, p0 |-> scan.i, c0 |-> c]
            /\ UNCHANGED cmdbuffer
         \/ /\ c # Space /\ scan.c0 # Space
            /\ scan' = [scan EXCEPT !.i = @ + 1, !.c0 = c]
            /\ UNCHANGED <<cmdbuffer, argv, argc>>
      /\ UNCHANGED <<cp, ran, typed, spoiled, last, state>>
Closes_Bug(c0) == FALSE  \* the last word waits for a space
Closes(c0) == c0 # Space
EndAt_Bug(buf) == buf  \* an older, longer line shows behind this one
EndAt(buf) == [buf EXCEPT ![cp] = Nul]

EndOfLine ==
  LET buf == EndAt(cmdbuffer)
      av == IF Closes(scan.c0) THEN [argv EXCEPT ![argc] = scan.p0] ELSE argv
      ac == IF Closes(scan.c0) THEN argc + 1 ELSE argc
  IN  /\ state = "split" /\ scan.i = cp /\ cp < CMD_BUFF /\ ac <= V_NUM
      /\ cmdbuffer' = buf /\ argc' = ac /\ cp' = 0
      /\ typed' = <<>> /\ spoiled' = FALSE /\ last' = typed
      /\ IF av[0] # NoWord THEN Run(buf, av, ac)
         ELSE state' = "fault" /\ argv' = av /\ UNCHANGED ran
      /\ UNCHANGED scan

LineArgc_Bug == 0  \* counted anew for an empty line
LineArgc == argc
EmptyLine ==
  /\ state = "prompt" /\ cp = 0 /\ argv[0] # NoWord
  /\ Run(cmdbuffer, argv, LineArgc) /\ argc' = LineArgc
  /\ UNCHANGED <<cmdbuffer, cp, typed, spoiled, last, scan>>

\* No bound is tested before a write: of a key, of a word noted, of the NUL
\* that ends the line.  Behind the array it is undefined.
Overrun ==
  /\ \/ state = "prompt" /\ cp = CMD_BUFF
     \/ /\ state = "split" /\ scan.i < cp /\ argc = V_NUM
        /\ cmdbuffer[scan.i] # Space /\ scan.c0 = Space
     \/ /\ state = "split" /\ scan.i = cp
        /\ cp = CMD_BUFF \/ (Closes(scan.c0) /\ argc = V_NUM)
  /\ state' = "overrun"
  /\ UNCHANGED <<cmdbuffer, cp, argv, argc, ran, typed, spoiled, last, scan>>

\* cmdloop: one turn of its inner loop.
Key(c) == \/ c \in Letters \cup {Space} /\ Printable(c)
          \/ c = Backspace /\ Erase
          \/ c = Enter /\ (BeginSplit \/ EmptyLine)
          \/ c = Control /\ UNCHANGED cmdvars
Keys == Letters \cup {Space, Backspace, Enter, Control}
CmdNext == (\E c \in Keys : Key(c)) \/ SplitChar \/ EndOfLine \/ Overrun
CmdSpec == CmdInit /\ [][CmdNext]_cmdvars

-----------------------------------------------------------------------------
CmdTypeOK ==
  /\ cp \in 0 .. CMD_BUFF /\ argc \in 0 .. V_NUM /\ spoiled \in BOOLEAN
  /\ cmdbuffer \in [0 .. CMD_BUFF - 1 -> Letters \cup {Space, Nul}]
  /\ argv \in [0 .. V_NUM - 1 -> {NoWord} \cup 0 .. CMD_BUFF - 1]
  /\ typed \in Seq(Letters \cup {Space}) /\ Len(typed) = cp
  /\ last \in Seq(Letters \cup {Space})
  /\ scan.i \in 0 .. CMD_BUFF /\ scan.p0 \in 0 .. CMD_BUFF - 1
  /\ scan.c0 \in Letters \cup {Space, Nul}
  /\ state \in {"prompt", "split", "left", "fault", "overrun"}

\* ws are the words of a line in their order: its longest stretches without a
\* space, each from its first character on.
Starts(line) == {i \in DOMAIN line : line[i] # Space /\ (i = 1 \/ line[i - 1] = Space)}
IsWord(line, i, w) ==
  \E j \in i .. Len(line) :
     /\ w = SubSeq(line, i, j)
     /\ \A k \in i .. j : line[k] # Space
     /\ j = Len(line) \/ line[j + 1] = Space
Spells(line, ws) ==
  \E from \in [DOMAIN ws -> DOMAIN line] :
    /\ \A m, n \in DOMAIN ws : m < n => from[m] < from[n]
    /\ {from[n] : n \in DOMAIN ws} = Starts(line)
    /\ \A n \in DOMAIN ws : IsWord(line, from[n], ws[n])

\* A space in front of a line makes an empty first word, one behind it takes
\* the last word away: lines that have neither.
Clean(line) == line # <<>> /\ line[1] # Space /\ line[Len(line)] # Space

(* A line that leaves a cell for its NUL and has no more words than argv has *)
(* cells runs the command it spells with the words behind it, whatever was  *)
(* typed and erased on the way and whatever longer line was there before it. *)
LineRuns ==
  [][Clean(typed) /\ typed' = <<>> /\ ~spoiled'
       => Spells(typed, ran'.args) /\ ran'.name = ran'.args[1]]_cmdvars

(* At an empty prompt cmdbuffer and argv still spell the last line, so that *)
(* Enter alone repeats it; erasing to the start of a line ends this.        *)
Remembers ==
  /\ CmdTypeOK
  /\ state = "prompt" /\ cp = 0 /\ ~spoiled /\ Clean(last) =>
       Spells(last, [i \in 1 .. argc |-> String(cmdbuffer, argv[i - 1])])

FaultsOnBlank ==
  state = "fault" => /\ ran = Nothing /\ last # <<>> /\ last[Len(last)] = Space
                     /\ \A i, j \in Starts(last) : i = j

\* More words than argv has cells, the empty one in front of a space with them.
TooMany(line) ==
  \E from \in [0 .. V_NUM -> Starts(line) \cup {1}] :
    \A m, n \in 0 .. V_NUM : m < n => from[m] < from[n]
OverrunsWhenLong == state = "overrun" => Len(typed) = CMD_BUFF \/ TooMany(typed)

(* NULL is compared with a name only for a first line that ends in a space  *)
(* (later ones find argv[0] set), and an array is overrun only by a line     *)
(* that fills cmdbuffer, with no cell left for its NUL, or has more words   *)
(* than argv has cells, whatever was typed, erased and run before.          *)
StaysDefined == FaultsOnBlank /\ OverrunsWhenLong
=============================================================================
