------------------------------ MODULE MCLibc -------------------------------
(***************************************************************************)
(* The C library against what its functions promise.  A behaviour sweeps one *)
(* family of functions over its inputs, a text that grows letter by letter   *)
(* or a number that counts up, or is a session: of callers that share the    *)
(* table of streams, or of a thread at a CP0 register.                      *)
(***************************************************************************)
EXTENDS Format, Files, CStringSpec, C0, Convert

CONSTANTS MaxText,  \* the longest text of each family
          Alphabet  \* the letters of each

\* What the run takes.
MCTexts == {<<>>, <<65>>, <<65, 10, 66>>}
MCAlphabet == [strings  |-> {97, 200, NUL}, tokens |-> {97, 98, 32, 44},
               numerals |-> {32, 43, 45, 48, 50, 57, 97, Lower_x, Upper_X},
               images |-> {0, 31, 160}]
MCMaxText == [strings |-> 5, tokens |-> 6, numerals |-> 5, images |-> 7]

VARIABLES job,   \* the family
          text,  \* its input, if that is a text
          n      \* and if it is a number

vars == <<job, text, n, files, open, cvars>>

Texted == DOMAIN Alphabet
Init == /\ job \in Texted \cup {"numbers", "files", "registers"}
        /\ text = <<>> /\ n = 0 /\ FilesInit
        /\ IF job = "registers" THEN C0Init ELSE C0Idle
Grow == /\ job \in Texted /\ Len(text) < MaxText[job]
        /\ \E c \in Alphabet[job] : text' = Append(text, c)
        /\ UNCHANGED <<job, n, fvars, cvars>>
Count == /\ job = "numbers" /\ n < Mod - 1 /\ n' = n + 1
         /\ UNCHANGED <<job, text, fvars, cvars>>
Session == job = "files" /\ FilesNext /\ UNCHANGED <<job, text, n, cvars>>
Accesses == job = "registers" /\ C0Next /\ UNCHANGED <<job, text, n, fvars>>
Next == Grow \/ Count \/ Session \/ Accesses
Spec == Init /\ [][Next]_vars

-----------------------------------------------------------------------------
(* The family "strings": the text and a NUL are memory from address 1 on,   *)
(* twice, so that strings share their tails and copies have room.           *)
Memory == text \o <<NUL>>
Blocks == LET m == Memory \o Memory
          IN  job = "strings" => /\ StringsCompare(Memory) /\ SecondsAgree(Memory)
                             /\ BlocksMove(m) /\ StringsCopy(m)

-----------------------------------------------------------------------------
(* The family "tokens": the text, cut at blanks and commas.                 *)
\* Behind it in memory is another string, and the separators.
Behind == <<NUL, 97, NUL, 32, 44, NUL>>
\* The calls strtok(text, sep), strtok(NULL, sep), ... until one returns NULL.
RECURSIVE Cut(_, _, _, _)
Cut(m, t, p, tok) ==
  LET r == strtok(m, t, p, tok)
  IN  IF r.ret = NULL THEN <<>>
      ELSE <<Str(r.mem, r.ret)>> \o Cut(r.mem, r.t, NULL, tok)

\* The longest stretches without a separator.
IsSep(c) == c \in {32, 44}
Starts(s) == {i \in DOMAIN s : ~IsSep(s[i]) /\ (i = 1 \/ IsSep(s[i - 1]))}
Words(s) == LET starts == SetToSortSeq(Starts(s), <)
            IN  [k \in DOMAIN starts |->
                   SubSeq(s, starts[k], Skip(s, starts[k], LAMBDA c : ~IsSep(c)) - 1)]

(* A run of strtok calls returns the words of the text, each once, in order, *)
(* then NULL: the static pointer (strtok.c:37) is where the last call ended. *)
Tokens ==
  job = "tokens" =>
    Cut(text \o Behind, 0, 1, Len(text) + 4) = Words(text)

(* Strings are compared, moved and cut as above: by string.c and strtok.c,    *)
(* and by the second definitions in memcpy.c and strcpy.c.  Those in memcmp.c *)
(* and strncmp.c find the same ones equal, and order them alike as long as   *)
(* no character is above 127.                                               *)
Strings == Blocks /\ Tokens

-----------------------------------------------------------------------------
(* The family "numerals": texts for strtoul.                                *)
Value_(digits, base) ==
  FoldLeft(LAMBDA v, c : Min({v * base + DigitOf(c), Mod}), 0, digits)
\* The base of the digits: base 0 asks the text for it.
Base(j, base) == IF base # 0 THEN base
                 ELSE IF At(text, j) # Zero THEN 10
                 ELSE IF At(text, j + 1) \in X THEN 16 ELSE 8
\* The marks of base 16: "0X" is none when the caller asks for that base.
Marks(base) == {Lower_x} \cup (IF base = 0 THEN {Upper_X} ELSE {})
Numeral(base) ==
  LET i == Skip(text, 1, LAMBDA c : c = Blank)
      j == IF At(text, i) \in {Plus, Minus} THEN i + 1 ELSE i
      b == Base(j, base)
      k == IF b = 16 /\ At(text, j) = Zero /\ At(text, j + 1) \in Marks(base)
           THEN j + 2 ELSE j
      end == Skip(text, k, LAMBDA c : DigitOf(c) < b)
  IN  [end |-> end, neg |-> At(text, i) = Minus,
       val |-> Value_(SubSeq(text, k, end - 1), b)]

(* strtoul reads the number the text begins with, and stops behind it; one  *)
(* that does not fit sticks at the largest (strtoul.c:47, 59-76).  0X is a   *)
(* prefix in base 0, not in base 16: there the number is the 0 (line 43).    *)
Numerals ==
  job = "numerals" => \A base \in {0, 8, 10, 16} :
    LET want == Numeral(base)
        r == strtoul(text, base)
    IN  /\ r.end = want.end
        /\ r.val = IF want.val = Mod THEN Mod - 1
                   ELSE IF want.neg THEN Neg(want.val) ELSE want.val

(* A number printed is read back as itself: what btoa prints by atob, strtoul *)
(* and sscanf's reader, what printbase prints by atob and strtoul at several   *)
(* widths, printhex by atob, and what sscanf's printers print by its readers. *)
(* The most negative number is left out for int_to_dec: it stays negative     *)
(* there when negated, and what is printed are no digits (sscanf.c:266-287).  *)
RoundTrip ==
  job = "numbers" =>
    /\ \A base \in {2, 8, 10, 16} :
         /\ atob(btoa(n, base), base) = [ok |-> TRUE, val |-> n]
         /\ strtoul(btoa(n, base), base).val = n
         /\ \A w \in 1 .. 4 :
              atob(printbase(n, w, base, FALSE), base) = [ok |-> TRUE, val |-> n]
    /\ dec_to_signed(btoa(n, -10), 1).val = n
    /\ strtoul(btoa(n, -10), 10).val = n
    /\ strtoul(printbase(n, 1, 10, TRUE), 10).val = n
    /\ atob(printhex(n, 2), 16).val = n
    /\ hex_to_unsigned(unsigned_to(n, 16, TRUE, Blank, 4, 9), 1).val = n
    /\ atob(printhex(n \div HalfWord, 1) \o <<Dot>> \o printhex(n % HalfWord, 1), 16).val = n
    /\ n # Mod \div 2 => dec_to_signed(signed_to(n, 10, FALSE, Blank, 6, 9), 1).val = n

(* Numbers are read and written as above, also at the largest and, but for    *)
(* int_to_dec, at the most negative one.                                    *)
Numeric == Numerals /\ RoundTrip

-----------------------------------------------------------------------------
(* Conversions of a number, with a flag and a width, of vsprintf.           *)
Flag == {<<>>, <<Minus>>, <<Zero>>, <<Tilde>>}
Directive(flag, width, c) ==
  <<Percent>> \o flag \o (IF width = 0 THEN <<>> ELSE <<Zero + width>>) \o <<c>>
Plain(c) == <<Percent, c>>
Printed(c, v) == vsprintf(Plain(c), <<v>>)
Comma == <<44>>
Other == Directive(<<Minus>>, 3, Lower_x)
\* With the zero flag the zeros go in front of the sign.
SignHidden(flag, c) == flag = <<Zero>> /\ c = cd /\ n >= Mod \div 2

\* out is what f prints of n, other what a second conversion prints of 45.
Agrees(flag, width, c, f, out, other) ==
  LET both == vsprintf(f \o Comma \o Other, <<n, 45>>)
  IN  /\ Len(out) = Max({width, Len(Printed(c, n))})
      /\ SignHidden(flag, c) \/ sscanf(out, Plain(c)) = [ret |-> 1, out |-> <<n>>]
      /\ both = out \o Comma \o other
      /\ SignHidden(flag, c) \/ flag = <<Tilde>> \/ flag = <<Minus>> \/
           sscanf(both, Plain(c) \o Comma \o Plain(Lower_x))
             = [ret |-> 2, out |-> <<45>>]
      /\ vsprintf(Other \o Comma \o f, <<45, n>>) = other \o Comma \o out
      /\ flag = <<>> /\ (c = cd => n # Mod \div 2) => print_arg(Tail(f), 9, n) = out
      /\ flag = <<>> /\ width = 0 /\ c \in {cd, cu, Lower_x} =>
           printf(f \o <<NL>>, <<n>>) = newprintf(f \o <<NL>>, <<n>>)

(* What vsprintf prints is at least width wide and reads back as the number  *)
(* printed, unless zeros are put in front of its sign, and the flags of one   *)
(* conversion are gone at the next.  Of a list of two, sscanf reads and       *)
(* counts both, but the second overwrites the first: parse_arg is handed a    *)
(* copy of the argument list (sscanf.c:366, 485).  Without a flag print_arg   *)
(* prints the same, but for the most negative number, and with neither flag   *)
(* nor width printf does.                                                   *)
Formats ==
  job = "numbers" => \A flag \in Flag, width \in {0, 2, 5}, c \in {cd, cu, Lower_x, cX} :
    LET f == Directive(flag, width, c)
    IN  Agrees(flag, width, c, f, vsprintf(f, <<n>>), vsprintf(Other, <<45>>))

-----------------------------------------------------------------------------
(* The family "images": a program and its data, cut off the text.           *)
Junk == [i \in WordAt |-> 255]
\* The bytes of the lines of an image, from the lowest address.
FromCoe(image) == FlattenSeq([k \in DOMAIN image |->
  [i \in WordAt |-> 16 * image[k][9 - 2 * i] + image[k][10 - 2 * i]]])
FromMif(image) == FlattenSeq([k \in DOMAIN image |->
  [i \in WordAt |-> FoldLeft(LAMBDA v, b : 2 * v + b, 0,
                             SubSeq(image[k], 33 - 8 * i, 40 - 8 * i))]])

(* The RAMs get every byte of a file at its address, also of a last word     *)
(* that is not full, and one word at most behind it (convert.c:58-64); the   *)
(* two images of a file hold the same, also behind its end, once the program *)
(* has a whole word.                                                        *)
Images ==
  job = "images" => \A cut \in 0 .. Len(text) :
    LET bin == SubSeq(text, 1, cut)
        data == SubSeq(text, cut + 1, Len(text))
        f == func_images(bin, data, Junk)
        g == game_images(bin, Junk)
        Holds(bytes, file) == /\ IsPrefix(file, bytes)
                              /\ Len(bytes) \in Len(file) .. Len(file) + 4
    IN  /\ Holds(FromCoe(f.inst_coe), bin) /\ Holds(FromCoe(f.data_coe), data)
        /\ Holds(FromMif(f.inst_mif), bin) /\ FromMif(f.data_mif) = FromCoe(f.data_coe)
        /\ cut >= 4 => FromMif(f.inst_mif) = FromCoe(f.inst_coe)
        /\ FromCoe(g.coe) = FromCoe(f.inst_coe) /\ FromMif(g.mif) = FromCoe(g.coe)
=============================================================================
