------------------------------ MODULE Numbers ------------------------------
(***************************************************************************)
(* Numbers and text in the C library: atob.c, strtoul.c, the converters of  *)
(* sscanf.c, printbase.c and printhex.c.  A string is a sequence of         *)
(* character codes without its NUL.  A word is two half words wide.         *)
(***************************************************************************)
EXTENDS Integers, Sequences, SequencesExt, FiniteSetsExt

CONSTANT HalfWord  \* 2^16

ASSUME NumbersAssumption == HalfWord \in Nat /\ HalfWord % 2 = 0 /\ HalfWord > 0

Mod == HalfWord * HalfWord
AsSigned(v) == IF v >= Mod \div 2 THEN v - Mod ELSE v
Neg(v) == (Mod - v) % Mod

\* Characters.
Blank == 32
Plus == 43
Minus == 45
Dot == 46
Zero == 48
Lower_x == 120
Upper_X == 88
X == {Lower_x, Upper_X}
IsDigit(c) == c \in 48 .. 57
NoDigit == 99
DigitOf(c) == IF IsDigit(c) THEN c - 48
              ELSE IF c \in 97 .. 122 THEN c - 87
              ELSE IF c \in 65 .. 90 THEN c - 55 ELSE NoDigit
DigitChar(d) == IF d <= 9 THEN d + 48 ELSE d - 10 + 97

\* s[i], and the NUL behind the end.
At(s, i) == IF i \in DOMAIN s THEN s[i] ELSE 0
From(s, i) == SubSeq(s, i, Len(s))
\* The first position from i on whose character P does not hold of.
Skip(s, i, P(_)) == Min({j \in i .. Len(s) + 1 : j > Len(s) \/ ~P(s[j])})

\* The digits of v, the first one in front; 0 has none.
Digits(v, base) ==
  LET d[x \in 0 .. v] == IF x = 0 THEN <<>>
                         ELSE Append(d[x \div base], x % base)
  IN  d[v]

-----------------------------------------------------------------------------
\* atob.c.  A prefix gives the base, unless the caller has.
_getbase(s) ==
  LET b == CASE At(s, 2) = Lower_x -> 16
             [] At(s, 2) \in {110, 116} -> 10   \* 0n, 0t
             [] At(s, 2) = 111 -> 8             \* 0o
             [] OTHER -> 0
  IN  IF At(s, 1) = Zero /\ b # 0 THEN [base |-> b, at |-> 3]
      ELSE [base |-> 10, at |-> 1]

Failed == [ok |-> FALSE, val |-> 0]
Hex(s, base) == At(s, 1) = Zero /\ At(s, 2) \in X
_atobDigits(s, base) ==
  LET b == IF Hex(s, base) THEN 16 ELSE base
      d == [i \in DOMAIN s |-> DigitOf(s[i])]
      digits == IF Hex(s, base) THEN From(d, 3) ELSE d
  IN  IF \A i \in DOMAIN digits : digits[i] < Min({b, 16})
      THEN [ok |-> TRUE,
            val |-> FoldLeft(LAMBDA v, x : (v * b + x) % Mod, 0, digits)]
      ELSE Failed

\* With base 16, a dot separates the upper half word from the lower one.
_atob(s, base) ==
  LET p == IF Hex(s, base) THEN From(s, 3) ELSE s
      dots == {i \in DOMAIN p : p[i] = Dot}
      q == Min(dots)
      hi == _atobDigits(SubSeq(p, 1, q - 1), 16)
      lo == _atobDigits(From(p, q + 1), 16)
  IN  IF (Hex(s, base) \/ base = 16) /\ dots # {}
      THEN IF q - 1 > 19 \/ ~hi.ok \/ Max(dots) # q \/ ~lo.ok THEN Failed
           ELSE [ok |-> TRUE, val |-> (hi.val * HalfWord + lo.val) % Mod]
      ELSE _atobDigits(s, base)

atob(s, base) == IF base # 0 THEN _atob(s, base)
                 ELSE LET g == _getbase(s) IN _atob(From(s, g.at), g.base)

\* Base -10 is base 10 with a sign.
btoa_Bug(value, base) == [k \in DOMAIN Digits(value, 10) |-> DigitChar(Digits(value, 10)[k])]
btoa(value, base) ==
  LET neg == base = -10 /\ value >= Mod \div 2
      b == IF base = -10 THEN 10 ELSE base
      digits == Digits(IF neg THEN Neg(value) ELSE value, b)
  IN  IF value = 0 THEN <<Zero>>
      ELSE (IF neg THEN <<Minus>> ELSE <<>>)
           \o [k \in DOMAIN digits |-> DigitChar(digits[k])]

-----------------------------------------------------------------------------
\* strtoul: blanks, a sign, a prefix, and digits up to the first character
\* that is none.  The parenthesis at line 43 makes "0X" no prefix in base 16.
Prefix(s, i, base) ==
  IF At(s, i) # Zero THEN [at |-> i, base |-> IF base = 0 THEN 10 ELSE base]
  ELSE IF base = 0 THEN IF At(s, i + 1) \in X THEN [at |-> i + 2, base |-> 16]
                        ELSE [at |-> i + 1, base |-> 8]
  ELSE IF base # 16 THEN [at |-> i, base |-> base]
  ELSE [at |-> IF At(s, i + 1) = Lower_x THEN i + 2 ELSE i + 1, base |-> 16]

\* A digit is added only while the sum stays in range; past it, the value sticks.
Accumulate_Bug(acc, base, d) == [acc EXCEPT !.val = (@ * base + d) % Mod]
Accumulate(acc, base, d) ==
  LET more == (acc.val * base) % Mod
  IN  IF acc.overflow \/ acc.val > (Mod - 1) \div base
      THEN [acc EXCEPT !.overflow = TRUE]
      ELSE IF d > Mod - 1 - more THEN [val |-> more, overflow |-> TRUE]
      ELSE [acc EXCEPT !.val = more + d]

strtoul(s, base) ==
  LET sign == Skip(s, 1, LAMBDA c : c = Blank)
      signed == At(s, sign) \in {Plus, Minus}
      p == Prefix(s, IF signed THEN sign + 1 ELSE sign, base)
      end == Skip(s, p.at, LAMBDA c : DigitOf(c) < p.base)
      r == FoldLeft(LAMBDA acc, c : Accumulate(acc, p.base, DigitOf(c)),
                    [val |-> 0, overflow |-> FALSE], SubSeq(s, p.at, end - 1))
  IN  [end |-> end,
       val |-> IF r.overflow THEN Mod - 1
               ELSE IF At(s, sign) = Minus THEN Neg(r.val) ELSE r.val]

-----------------------------------------------------------------------------
\* sscanf.c reads a number at position at; end = at says there was none.
is_space(c) == c \in {32} \cup 9 .. 13
skip_spaces(s, at) == Skip(s, at, is_space)
Number(s, at, from, base) ==
  LET end == Skip(s, from, LAMBDA c : DigitOf(c) < base)
  IN  IF end = from THEN [end |-> at, val |-> 0]
      ELSE [end |-> end,
            val |-> FoldLeft(LAMBDA v, c : (v * base + DigitOf(c)) % Mod, 0,
                             SubSeq(s, from, end - 1))]
Signed(s, at, Read(_)) ==
  LET i == skip_spaces(s, at)
      r == Read(IF At(s, i) \in {Plus, Minus} THEN i + 1 ELSE i)
  IN  IF At(s, i) = Minus THEN [r EXCEPT !.val = Neg(@)] ELSE r
HexFrom(s, i) == IF At(s, i) = Zero /\ At(s, i + 1) = Lower_x THEN i + 2 ELSE i

dec_to_unsigned(s, at) == Number(s, at, skip_spaces(s, at), 10)
dec_to_signed(s, at) == Signed(s, at, LAMBDA i : Number(s, at, i, 10))
hex_to_unsigned(s, at) == Number(s, at, HexFrom(s, skip_spaces(s, at)), 16)
hex_to_signed(s, at) == Signed(s, at, LAMBDA i : Number(s, at, HexFrom(s, i), 16))

\* int_to_dec and its like: padding, sign and digits, cut off after len.  The
\* smallest number has no positive counterpart: its digits come out negative.
Text(neg, digits, base, upper, pad, padlen, len) ==
  LET ten == IF upper THEN 65 ELSE 97
      sign == IF neg THEN <<Minus>> ELSE <<>>
      body == [k \in DOMAIN digits |-> IF digits[k] < 10 THEN digits[k] + 48
                                       ELSE digits[k] - 10 + ten]
      blanks == [k \in 1 .. padlen - Len(sign \o body) |-> pad]
      all == blanks \o sign \o body
  IN  SubSeq(all, 1, Min({len, Len(all)}))
OneDigit(v, base) == IF v = 0 THEN <<0>> ELSE Digits(v, base)
unsigned_to(v, base, upper, pad, padlen, len) ==
  Text(FALSE, OneDigit(v, base), base, upper, pad, padlen, len)
signed_to(v, base, upper, pad, padlen, len) ==
  LET neg == v >= Mod \div 2
      d == OneDigit(IF neg THEN Neg(v) ELSE v, base)
  IN  Text(neg, IF v = Mod \div 2 THEN [k \in DOMAIN d |-> 0 - d[k]] ELSE d,
           base, upper, pad, padlen, len)

\* printbase fills up with zeros to w; 0 itself has no digits.
printbase(v, w, base, sign) ==
  LET neg == sign /\ v >= Mod \div 2
      d == Digits(IF neg THEN Neg(v) ELSE v, base)
  IN  (IF neg THEN <<Minus>> ELSE <<>>)
      \o [k \in 1 .. w - Len(d) |-> Zero] \o [k \in DOMAIN d |-> DigitChar(d[k])]
printhex(v, w) == [k \in 1 .. w |-> DigitChar((v \div 16 ^ (w - k)) % 16)]
=============================================================================
