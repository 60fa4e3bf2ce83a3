------------------------------- MODULE Format -------------------------------
(***************************************************************************)
(* Formatted output and input of the C library: vsprintf.c (without its      *)
(* floating point and quad parts, which are not compiled) with str_fmt.c,    *)
(* printf.c, and sscanf and print_arg of sscanf.c.  An argument is a word, a  *)
(* string, or NULLString.                                                   *)
(***************************************************************************)
EXTENDS Numbers

NULLString == <<-1>>
Percent == 37
Star == 42
Tilde == 126
NL == 10
CR == 13
Null_ == <<40, 110, 117, 108, 108, 41>>   \* "(null)"
cc == 99
cd == 100
ci == 105
cl == 108
cp == 112
cs == 115
cu == 117
cX == Upper_X

Fill(n, c) == [k \in 1 .. n |-> c]
Upper(s) == [k \in DOMAIN s |-> IF s[k] \in 97 .. 122 THEN s[k] - 32 ELSE s[k]]

\* str_fmt: blanks or zeros up to size.  C divides towards zero.
str_fmt_Bug(p, size, fmt) ==
  IF fmt = "LJUST" THEN Fill(size - Len(p), Blank) \o p ELSE p
str_fmt(p, size, fmt) ==
  LET gap == Max({0, size - Len(p)})
  IN  CASE fmt = "RJUST"  -> Fill(gap, Blank) \o p
        [] fmt = "LJUST"  -> p \o Fill(gap, Blank)
        [] fmt = "RJUST0" -> Fill(gap, Zero) \o p
        [] fmt = "CENTER" -> Fill(gap - gap \div 2, Blank) \o p
                             \o Fill(gap \div 2, Blank)

-----------------------------------------------------------------------------
\* The base of each conversion of vsprintf that prints a number.
BaseOf == (100 :> -10) @@ (117 :> 10) @@ (120 :> 16) @@ (88 :> 16)
          @@ (112 :> 16) @@ (111 :> 8) @@ (98 :> 2)
Conversions == DOMAIN BaseOf \cup {cl, cs, cc, 101, 102, 103, Percent}

\* The flags of one conversion; a number after a dot truncates.
RECURSIVE Flags(_, _)
Set(f, n) == IF f.dot THEN [f EXCEPT !.trunc = n] ELSE [f EXCEPT !.width = n]
Flags(s, f) ==
  LET c == At(s, f.at)
      after == Skip(s, f.at, IsDigit)
      one == [f EXCEPT !.at = @ + 1]
  IN  CASE c \in Conversions \/ f.at > Len(s) -> f
        [] c = Minus -> Flags(s, [one EXCEPT !.fmt = "LJUST"])
        [] c = Zero  -> Flags(s, [one EXCEPT !.fmt = "RJUST0"])
        [] c = Tilde -> Flags(s, [one EXCEPT !.fmt = "CENTER"])
        [] c = Star  -> Flags(s, [Set(one, f.args[1]) EXCEPT !.args = Tail(@)])
        [] c = Dot   -> Flags(s, [one EXCEPT !.dot = TRUE])
        [] c \in 49 .. 57 ->
             Flags(s, Set([f EXCEPT !.at = after],
                          atob(SubSeq(s, f.at, after - 1), 10).val))
        [] OTHER -> Flags(s, one)

\* The text of a conversion: what is written before the field, and the field.
Field(c, f) ==
  CASE c = Percent -> [pre |-> <<Percent>>, text |-> <<>>]
    [] c = cs -> [pre |-> <<>>, text |-> IF f.args[1] = NULLString THEN Null_
                                         ELSE f.args[1]]
    [] c = cc -> [pre |-> <<>>, text |-> <<f.args[1]>>]
    [] c \in DOMAIN BaseOf ->
         LET t == btoa(f.args[1], BaseOf[c])
         IN  [pre |-> IF c = cp THEN <<Zero, Lower_x>> ELSE <<>>,
              text |-> IF c = cX THEN Upper(t) ELSE t]
Trunc(t, n) == IF n = 0 THEN t ELSE SubSeq(t, 1, Min({n, Len(t)}))

\* One or two l may stand before the conversion of a number.
Longs(s, at) == Skip(s, at, LAMBDA c : c = cl)

Sized(text, c, f) ==
  IF c = cp THEN str_fmt(text, 8, "RJUST0")
  ELSE IF f.width = 0 THEN text ELSE str_fmt(text, f.width, f.fmt)
Written(field, c, f) == field.pre \o Sized(Trunc(field.text, f.trunc), c, f)

RECURSIVE vsprintf(_, _), Conversion(_, _)
vsprintf(s, args) ==
  IF s = <<>> THEN <<>>
  ELSE IF s[1] # Percent THEN <<s[1]>> \o vsprintf(Tail(s), args)
  ELSE Conversion(s, Flags(s, [at |-> 2, fmt |-> "RJUST", width |-> 0, trunc |-> 0,
                               dot |-> FALSE, args |-> args]))
Conversion(s, f) ==
  LET at == Min({Longs(s, f.at), f.at + 2})
      c == s[at]
  IN  Written(Field(c, f), c, f)
      \o vsprintf(From(s, at + 1), IF c = Percent THEN f.args ELSE Tail(f.args))

-----------------------------------------------------------------------------
\* putstring sends a carriage return before each newline; so does printf.
RECURSIVE putstring(_)
Sent(c) == IF c = NL THEN <<CR, NL>> ELSE <<c>>
putstring(s) == IF s = <<>> THEN <<>> ELSE Sent(s[1]) \o putstring(Tail(s))

\* newprintf formats with vsprintf, printf does the conversions itself.  The
\* width of printf ends at a zero: "%10d" is width 1, then width 0.
newprintf(s, args) == putstring(vsprintf(s, args))

PrintBase == [c \in {cu, cl} |-> 10] @@ (111 :> 8) @@ (98 :> 2) @@ (cp :> 16)
             @@ (Lower_x :> 16)
RECURSIVE Width(_, _, _)
Width(s, i, w) ==   \* i: the character behind the percent sign
  LET from == IF At(s, i) = Zero THEN i + 1 ELSE i
      end == Skip(s, from, LAMBDA c : c \in 49 .. 57)
  IN  IF ~IsDigit(At(s, i)) THEN [at |-> i, w |-> w]
      ELSE Width(s, end, FoldLeft(LAMBDA v, c : v * 10 + c - Zero, 0,
                                  SubSeq(s, from, end - 1)))

RECURSIVE printf(_, _)
printf(s, args) ==
  IF s = <<>> THEN <<>>
  ELSE IF s[1] # Percent THEN Sent(s[1]) \o printf(Tail(s), args)
  ELSE LET d == Width(s, 2, 1)
           c == At(s, d.at)
           rest == From(s, IF c = cl THEN d.at + 2 ELSE d.at + 1)
       IN  CASE c = cs -> putstring(args[1]) \o printf(rest, Tail(args))
             [] c = cc -> <<args[1]>> \o printf(rest, Tail(args))
             [] c = cd -> printbase(args[1], d.w, 10, TRUE) \o printf(rest, Tail(args))
             [] c \in DOMAIN PrintBase ->
                  printbase(args[1], d.w, PrintBase[c], FALSE)
                  \o printf(rest, Tail(args))
             [] c = Percent -> <<Percent>> \o printf(rest, args)
             [] OTHER -> <<Percent>> \o printf(From(s, d.at), args)

-----------------------------------------------------------------------------
\* The letter of a conversion, behind the digits of its width.
Specifier(f) ==
  LET digits == Skip(f, skip_spaces(f, 1), IsDigit)
  IN  At(f, IF digits = skip_spaces(f, 1) THEN 1 ELSE digits)
WidthOf(f) == dec_to_unsigned(f, 1).val

\* parse_arg reads one conversion at position at of s.  It is handed the
\* argument list by value: what it takes from it, the next one takes again.
Stored(r, at) == [end |-> r.end, stored |-> r.end # at, val |-> r.val]
CharsAt(s, at, n) == [end |-> at + n, stored |-> TRUE, val |-> SubSeq(s, at, at + n - 1)]
Taken(c, w, s, at) ==
  LET left == Len(s) + 1 - at
      word == Skip(s, at, LAMBDA x : ~is_space(x)) - at
  IN  CASE c = cd -> Stored(dec_to_signed(s, at), at)
        [] c = cu -> Stored(dec_to_unsigned(s, at), at)
        [] c \in X -> Stored(hex_to_unsigned(s, at), at)
        [] c = cc -> CharsAt(s, at, Min({left, Max({w, 1})}))
        [] c = cs -> CharsAt(s, at, IF w = 0 THEN word ELSE Min({w, word}))
        [] OTHER -> [end |-> IF c = Percent /\ At(s, at) = Percent THEN at + 1
                             ELSE at, stored |-> FALSE, val |-> <<>>]
parse_arg(f, s, at) == Taken(Specifier(f), WidthOf(f), s, at)

\* ret counts conversions.  All of them store through the first pointer, since
\* parse_arg steps through a copy of the list: out is the last value stored,
\* <<>> if there is none.
RECURSIVE Scan(_, _, _, _, _), ScanArg(_, _, _, _, _, _)
Scan(s, at, f, ret, out) ==
  IF f = <<>> \/ at > Len(s) THEN [ret |-> ret, out |-> out]
  ELSE IF f[1] = Percent THEN ScanArg(s, at, f, ret, out, parse_arg(From(f, 2), s, at))
  ELSE IF is_space(f[1]) THEN Scan(s, skip_spaces(s, at), Tail(f), ret, out)
  ELSE IF f[1] = s[at] THEN Scan(s, at + 1, Tail(f), ret, out)
  ELSE [ret |-> ret, out |-> out]
ScanArg(s, at, f, ret, out, a) ==
  LET stored == IF a.stored THEN <<a.val>> ELSE out
  IN  IF a.end = at THEN [ret |-> ret, out |-> stored]
      ELSE Scan(s, a.end, From(f, Skip(f, 2, IsDigit) + 1),
                IF At(f, 2) = Percent THEN ret ELSE ret + 1, stored)
sscanf(s, f) == Scan(s, 1, f, 0, <<>>)

\* print_arg is the other direction; len is the room left, which '%' ignores.
Padded(t, width, len) == LET all == Fill(width - Len(t), Blank) \o t
                         IN  SubSeq(all, 1, Min({len, Len(all)}))
Put(c, pad, width, len, arg) ==
  CASE c \in {cd, ci} -> signed_to(arg, 10, FALSE, pad, width, len)
    [] c = cu -> unsigned_to(arg, 10, FALSE, pad, width, len)
    [] c \in X \cup {cp} -> unsigned_to(arg, 16, c = cX, pad, width, len)
    [] c = cc -> Padded(<<arg>>, width, len)
    [] c = cs -> Padded(arg, width, len)
    [] c = Percent -> <<Percent>>
    [] OTHER -> <<>>
print_arg(f, len, arg) ==
  Put(Specifier(f), IF At(f, 1) = Zero THEN Zero ELSE Blank, WidthOf(f), len, arg)
=============================================================================
