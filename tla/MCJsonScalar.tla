----------------------------- MODULE MCJsonScalar -----------------------------
(***************************************************************************)
(* Instance for TLC: short strings of any bytes, a \u followed by any six  *)
(* bytes that confuse the two passes, up to three code units at the        *)
(* boundaries of UTF-16 and UTF-8, control characters, every short number  *)
(* over a few bytes, and numbers around the ends of an int and of the      *)
(* buffer they are copied to.                                              *)
(***************************************************************************)
EXTENDS JsonScalarProperties

LetterN == 110
LetterZ == 122

Bytes == {Quote, Backslash, Slash, LetterU, LetterN, LetterZ, 48}

Unicode(a, b, c, d) == <<Backslash, LetterU, a, b, c, d>>

\* \u0000 \u007F \u0080 \u07ff \u0800 \uD7FF \uD800 \uDBFF \uDC00 \uDFFF \uE000 \uFFFF
Units ==
  {Unicode(48, 48, 48, 48), Unicode(48, 48, 55, 70), Unicode(48, 48, 56, 48),
   Unicode(48, 55, 102, 102), Unicode(48, 56, 48, 48), Unicode(68, 55, 70, 70),
   Unicode(68, 56, 48, 48), Unicode(68, 66, 70, 70), Unicode(68, 67, 48, 48),
   Unicode(68, 70, 70, 70), Unicode(69, 48, 48, 48), Unicode(70, 70, 70, 70),
   <<LetterN>>, <<Backslash, LetterN>>}

MCStrings ==
  UNION {[1 .. n -> Bytes] : n \in 0 .. 4}
    \cup {<<Backslash, LetterU>> \o s \o <<Quote>> :
            s \in [1 .. 6 -> {Quote, Backslash, LetterU, LetterN, 48}]}
    \cup {a \o b \o c \o <<Quote>> : a, b, c \in Units}
    \cup {<<a, b, Quote>> : a, b \in 1 .. 32 \ {Quote}}
    \cup {<<Backslash, a, b, Backslash, Quote, Quote>> : a \in DOMAIN Escapes, b \in {1, 31, 127, 128, 255}}

\* "0 9 . e -" in any order, and "0 1 . e E + -".
MCShortNumbers ==
  UNION {[1 .. n -> {48, 57, 46, 101, 45}] : n \in 1 .. 5}
    \cup UNION {[1 .. n -> {48, 49, 46, 101, 69, 43, 45}] : n \in 1 .. 4}

Nines == [i \in 1 .. 9 |-> 57]
Zeros(n) == [i \in 1 .. n |-> 48]

\* 214748364d with any last digit, with a fraction, and with the point moved
MCLimits ==
  LET start == <<50, 49, 52, 55, 52, 56, 51, 54, 52>>
      digits == {<<d>> : d \in Decimal}
  IN {start \o d : d \in digits}
       \cup {start \o d \o <<46>> \o e : d, e \in digits}
       \cup {start \o d \o <<48, 101, 45, 49>> : d \in digits}
       \cup {<<48, 46>> \o start \o d \o <<69, 43, 49, 48>> : d \in digits}
       \cup {Nines \o d : d \in digits} \cup {d \o <<101, 57>> : d \in digits}
       \cup {<<57, 57, 57, 57, 101>> \o d \o d : d \in digits}
       \cup {<<54, 53, 53, 51, 53>> \o <<46>> \o d : d \in digits}

\* Numbers of 62, 63 and 64 bytes
MCLong ==
  {<<49, 46>> \o Zeros(n) \o d : n \in {59, 60, 61}, d \in {<<53>>, <<55>>}}
    \cup {<<48, 46>> \o Zeros(n) \o <<52, 50, 101, 53, 57>> : n \in 54 .. 58}
    \cup {<<49>> \o Zeros(n) \o <<101, 45, 53, 57>> : n \in 57 .. 60}

MCWords ==
  {<<110, 117, 108, 108>>, <<102, 97, 108, 115, 101>>, <<116, 114, 117, 101>>,
   <<110, 117, 108>>, <<102, 97, 108, 115>>, <<116, 114, 117, 69>>, <<116, 114, 117, 101, 49>>, <<>>, <<LetterZ>>}

MCTexts ==
  {<<Quote>> \o s : s \in MCStrings}
    \cup {s \in MCShortNumbers : s[1] \in Decimal \cup {Minus}}
    \cup MCLimits \cup {<<Minus>> \o s : s \in MCLimits}
    \cup {s \o <<b>> : s \in MCLimits, b \in {LetterZ}}
    \cup MCLong \cup MCWords

\* "1", "0", "-0" and "0.5"
MCZeros == {<<49>>, <<48>>, <<Minus, 48>>, <<48, 46, 53>>}

=============================================================================
