------------------------- MODULE JsonScalarProperties -------------------------
(***************************************************************************)
(* What parse_value() should guarantee of strings and numbers, int_to_     *)
(* string() of the settings and print_string_ptr() of what it writes.      *)
(***************************************************************************)
EXTENDS JsonScalar

\* The passes stay in the buffer, offset ends in it, and output is bytes.
TypeOK ==
  /\ input_end \in 1 .. Length /\ input_pointer \in 1 .. Length
  /\ offset \in 0 .. Length - 1
  /\ skipped_bytes \in 0 .. Length /\ allocated \in 0 .. Length
  /\ \A i \in 1 .. Len(output) : output[i] \in 0 .. 255
  /\ type \in {"none", "number", "string"} \cup DOMAIN Word
  /\ valueint \in Int /\ IntMin <= valueint /\ valueint <= IntMax
  /\ at \in {"value", "scan", "copy", "fail", "parsed", "failed", "starved", "set", "fatal", "printed"}

\* The second pass never writes beyond what the first pass allocated, also when
\* it reads an escape differently from the first (a \u that swallows a backslash).
OutputFits == at \in {"copy", "parsed"} => Len(output) + (IF at = "copy" THEN 1 ELSE 0) <= allocated

\* Nothing stays allocated when the string is rejected.
FailureFrees == at \in {"failed", "starved"} => allocated = 0

-----------------------------------------------------------------------------
(* The strings of RFC 8259 (any byte may stand for itself), with UTF-8 written *)
(* out by length                                                            *)

Encoded(c) ==
  IF c < 128 THEN <<c>>
  ELSE IF c < 2048 THEN <<192 + c \div 64, 128 + (c % 64)>>
  ELSE IF c < 65536 THEN <<224 + c \div 4096, 128 + ((c \div 64) % 64), 128 + (c % 64)>>
  ELSE <<240 + c \div 262144, 128 + ((c \div 4096) % 64), 128 + ((c \div 64) % 64), 128 + (c % 64)>>

Bad == <<256>>
Behind(bytes, rest) == IF rest = Bad THEN Bad ELSE bytes \o rest

\* \uXXXX at place i of t, with four digits, and its code unit.
IsCode(t, i) ==
  /\ i + 5 < Len(t) /\ t[i] = Backslash /\ t[i + 1] = LetterU
  /\ \A k \in 2 .. 5 : t[i + k] \in Digits

Unit(t, i) == 4096 * Digit(t[i + 2]) + 256 * Digit(t[i + 3]) + 16 * Digit(t[i + 4]) + Digit(t[i + 5])

\* What place i of the terminated t stands for, if rest is what the later places do.
MeaningAt(t, i, rest) ==
  IF i = Len(t) THEN Bad
  ELSE IF t[i] = Quote THEN <<>>
  ELSE IF t[i] # Backslash THEN Behind(<<t[i]>>, rest[i + 1])
  ELSE IF t[i + 1] \in Itself THEN Behind(<<t[i + 1]>>, rest[i + 2])
  ELSE IF t[i + 1] \in DOMAIN Escapes THEN Behind(<<Escapes[t[i + 1]]>>, rest[i + 2])
  ELSE IF ~IsCode(t, i) \/ Low(Unit(t, i)) THEN Bad
  ELSE IF ~High(Unit(t, i)) THEN Behind(Encoded(Unit(t, i)), rest[i + 6])
  ELSE IF ~IsCode(t, i + 6) \/ ~Low(Unit(t, i + 6)) THEN Bad
  ELSE Behind(Encoded(65536 + (Unit(t, i) - 55296) * 1024 + (Unit(t, i + 6) - 56320)), rest[i + 12])

\* The bytes the literal in t stands for from each place on, Bad where it is not well
\* formed.
Meaning(t) ==
  LET M[i \in 1 .. Len(t)] == MeaningAt(t, i, M)
  IN M

\* parse_hex4 gives 0 for what is no number: the literals it lets through.
HasBadCode ==
  \E i \in 2 .. Length - 1 : text[i] = Backslash /\ text[i + 1] = LetterU /\ ~IsCode(text, i)

\* A well-formed literal gives exactly its bytes, whatever lengths they have in
\* UTF-16 and UTF-8, and what is accepted beyond that holds a \u without digits.
StringIsItsMeaning ==
  text[1] = Quote =>
    /\ at = "parsed" => output = Meaning(text)[2] \o <<NUL>> \/ (Meaning(text)[2] = Bad /\ HasBadCode)
    /\ at = "failed" => Meaning(text)[2] = Bad

\* Printing a string writes a literal that means the string, up to the first zero byte
\* a \u0000 may have put in it: quotes, backslashes and control characters are
\* escaped, and the count of the first pass puts the closing quote behind the last.
PrintsWhatItReads ==
  at = "printed" =>
    /\ printed[1] = Quote
    /\ Meaning(printed)[2] = CString(output)
    /\ \A i \in 1 .. Len(printed) - 1 : printed[i] > 31

-----------------------------------------------------------------------------
(* The numbers of RFC 8259, as texts *)

All(s, S) == \A i \in 1 .. Len(s) : s[i] \in S

IsWhole(s) ==
  \E n \in {<<>>, <<Minus>>} : \E k \in 1 .. Len(s) :
    /\ n = SubSeq(s, 1, Len(s) - k) /\ All(SubSeq(s, Len(n) + 1, Len(s)), Decimal)
    /\ k > 1 => s[Len(n) + 1] # Zero

IsFraction(s) == s = <<>> \/ (Len(s) > 1 /\ Head(s) = Point /\ All(Tail(s), Decimal))

IsExponent(s) ==
  \/ s = <<>>
  \/ \E k \in 2 .. Len(s) : /\ s[1] \in LetterE /\ All(SubSeq(s, k, Len(s)), Decimal)
                            /\ k = 2 \/ (k = 3 /\ s[2] \in {Minus, Plus})

\* Where the fraction and where the exponent of a number begin.
Cuts(s) ==
  {cut \in (1 .. Len(s) + 1) \X (1 .. Len(s) + 1) :
     /\ cut[1] <= cut[2]
     /\ IsWhole(SubSeq(s, 1, cut[1] - 1))
     /\ IsFraction(SubSeq(s, cut[1], cut[2] - 1))
     /\ IsExponent(SubSeq(s, cut[2], Len(s)))}

\* The number the text is, up to the first byte that no number has.
Literals ==
  {SubSeq(text, 1, n) : n \in {Span(text, 1, Decimal \cup {Minus, Plus, Point} \cup LetterE)}}

\* Every number that fits number_c_string is taken to its last byte, with its fraction
\* and its exponent, and leaves the next byte to the caller.
NumberIsRead ==
  at = "parsed" /\ type = "number" =>
    \A s \in Literals : Cuts(s) # {} /\ Len(s) < NumberSize => offset = Len(s)

\* Powers of ten move the point: the digits in front of it, without leading zeros.
Shifted(digits, point) ==
  LET moved == [i \in 1 .. (IF point > 0 THEN point ELSE 0) |-> IF i <= Len(digits) THEN digits[i] ELSE Zero]
      zeros == Span(moved, 1, {Zero})
  IN IF zeros = Len(moved) THEN <<Zero>> ELSE SubSeq(moved, zeros + 1, Len(moved))

Exponent(s) ==
  LET signed == Len(s) > 1 /\ s[2] \in {Minus, Plus}
      digits == SubSeq(s, IF signed THEN 3 ELSE 2, Len(s))
      Sum[n \in 0 .. Len(digits)] == IF n = 0 THEN 0 ELSE 10 * Sum[n - 1] + digits[n] - Zero
  IN IF signed /\ s[2] = Minus THEN -Sum[Len(digits)] ELSE Sum[Len(digits)]

\* "2147483647"
Largest == <<50, 49, 52, 55, 52, 56, 51, 54, 52, 55>>

Above(s, t) ==
  \/ Len(s) > Len(t)
  \/ Len(s) = Len(t) /\ \E i \in 1 .. Len(s) : s[i] > t[i] /\ \A k \in 1 .. i - 1 : s[k] = t[k]

\* A number is read whole, and a port or timeout given as one becomes the text of its integer part, the
\* largest int if it is above that and never another port by a wrap-around; one
\* that is negative is refused, unless its integer part is zero.
SettingIsTheNumber ==
  /\ NumberIsRead
  /\ at \in {"set", "fatal"} => \A s \in Literals : \A cut \in Cuts(s) :
       LET negative == s[1] = Minus
           whole    == SubSeq(s, IF negative THEN 2 ELSE 1, cut[1] - 1)
           fraction == SubSeq(s, cut[1] + 1, cut[2] - 1)
           digits   == Shifted(whole \o fraction, Len(whole) + Exponent(SubSeq(s, cut[2], Len(s))))
       IN Len(s) < NumberSize =>
            /\ at = "set" => /\ setting.digits = IF Above(digits, Largest) THEN Largest ELSE digits
                             /\ negative => digits = <<Zero>>
            /\ at = "fatal" => negative /\ digits # <<Zero>>

\* Every block that is sized in one pass over a string and written in another is large
\* enough, and none is left behind by a string that is rejected in the second.
BlocksFit == OutputFits /\ FailureFrees

\* The block int_to_string counts out ("check the number of digits", common.c:17) has
\* room for the digits that sprintf writes and for a terminator.
IntTextFits == at = "set" => Len(setting.digits) + 1 <= setting.size

=============================================================================
