---------------------------- MODULE JsonScalarProofs ----------------------------
(***************************************************************************)
(* Proofs about strings and scalars, for every set of texts, every size of *)
(* number_c_string and every INT_MAX: what the first pass of parse_string  *)
(* counts bounds what the second one writes, what it accepts is what the   *)
(* literal means, and what print_string_ptr writes means the string.       *)
(***************************************************************************)
EXTENDS JsonScalarProperties, Numbers

Octet == 0 .. 255

\* t ends with the terminator, and only there.
Terminated(t) ==
  /\ t \in Seq(Octet) /\ Len(t) >= 1 /\ t[Len(t)] = NUL
  /\ \A i \in 1 .. Len(t) - 1 : t[i] # NUL

-----------------------------------------------------------------------------
(* Which bytes are escaped *)

\* E is 1 for the bytes (from index 0) behind a backslash that is not escaped itself,
\* and K[i] is how many there are up to index i.
IsPass(E, K, t) ==
  /\ E \in [0 .. Len(t) -> 0 .. 1] /\ K \in [0 .. Len(t) -> Nat]
  /\ E[0] = 0 /\ K[0] = 0
  /\ \A i \in 1 .. Len(t) : /\ E[i] = IF E[i - 1] = 0 /\ t[i] = Backslash THEN 1 ELSE 0
                            /\ K[i] = K[i - 1] + E[i]

\* Every text has such a pass.
LEMMA PassExists ==
  ASSUME NEW t, Len(t) \in Nat
  PROVE  \E E, K : IsPass(E, K, t)
<1> DEFINE N == Len(t)
           Bit == 0 .. 1
           estep == [i \in 1 .. N |-> [e \in Bit |-> IF e = 0 /\ t[i] = Backslash THEN 1 ELSE 0]]
<1>1. estep \in [1 .. N -> [Bit -> Bit]]
  OBVIOUS
<1>2. N \in Nat /\ 0 \in Bit /\ 0 \in Nat
  OBVIOUS
<1>3. PICK E : IsIteration(E, N, Bit, 0, estep)
  <2> HIDE DEF estep, N, Bit
  <2>1. QED BY <1>1, <1>2, Iterates
<1>4. E \in [0 .. N -> Bit] /\ E[0] = 0 /\ \A i \in 1 .. N : E[i] = estep[i][E[i - 1]]
  BY <1>3 DEF IsIteration
<1>5. ASSUME NEW i \in 1 .. N PROVE E[i] = IF E[i - 1] = 0 /\ t[i] = Backslash THEN 1 ELSE 0
  <2>1. E[i - 1] \in Bit
    BY <1>4
  <2>2. estep[i][E[i - 1]] = IF E[i - 1] = 0 /\ t[i] = Backslash THEN 1 ELSE 0
    BY <2>1
  <2> HIDE DEF estep
  <2>3. QED BY <1>4, <2>1, <2>2
<1> DEFINE kstep == [i \in 1 .. N |-> [k \in Nat |-> k + E[i]]]
<1>6. kstep \in [1 .. N -> [Nat -> Nat]]
  <2>1. \A i \in 1 .. N : E[i] \in Nat
    BY <1>4
  <2>2. QED BY <2>1
<1>7. PICK K : IsIteration(K, N, Nat, 0, kstep)
  <2> HIDE DEF kstep, N, estep, Bit
  <2>1. QED BY <1>2, <1>6, Iterates
<1>8. K \in [0 .. N -> Nat] /\ K[0] = 0 /\ \A i \in 1 .. N : K[i] = kstep[i][K[i - 1]]
  BY <1>7 DEF IsIteration
<1>9. ASSUME NEW i \in 1 .. N PROVE K[i] = K[i - 1] + E[i]
  <2>1. K[i - 1] \in Nat
    BY <1>8
  <2>2. kstep[i][K[i - 1]] = K[i - 1] + E[i]
    BY <2>1
  <2> HIDE DEF kstep
  <2>3. QED BY <1>8, <2>1, <2>2
<1> HIDE DEF estep, kstep
<1>10. E \in [0 .. Len(t) -> 0 .. 1] /\ K \in [0 .. Len(t) -> Nat]
  BY <1>4, <1>8
<1>11. IsPass(E, K, t)
  BY <1>4, <1>5, <1>8, <1>9, <1>10, Zenon DEF IsPass
<1>12. QED BY <1>11, Zenon

Escaped(t) == (CHOOSE P : IsPass(P[1], P[2], t))[1]
Skipped(t) == (CHOOSE P : IsPass(P[1], P[2], t))[2]

LEMMA PassHolds ==
  ASSUME NEW t, Len(t) \in Nat
  PROVE  IsPass(Escaped(t), Skipped(t), t)
<1>1. PICK E, K : IsPass(E, K, t)
  BY PassExists
<1>2. IsPass(<<E, K>>[1], <<E, K>>[2], t)
  BY <1>1
<1>3. \E P : IsPass(P[1], P[2], t)
  BY <1>2, Zenon
<1>4. QED BY <1>3, Zenon DEF Escaped, Skipped

\* One byte, and two, of a text.
LEMMA PassStep ==
  ASSUME NEW t, Len(t) \in Nat, NEW i \in 0 .. Len(t) - 1
  PROVE  /\ Escaped(t)[i] \in 0 .. 1 /\ Skipped(t)[i] \in Nat /\ Skipped(t)[i + 1] \in Nat
         /\ Escaped(t)[i + 1] = IF Escaped(t)[i] = 0 /\ t[i + 1] = Backslash THEN 1 ELSE 0
         /\ Skipped(t)[i + 1] = Skipped(t)[i] + Escaped(t)[i + 1]
<1>1. i + 1 \in 1 .. Len(t) /\ (i + 1) - 1 = i /\ i \in 0 .. Len(t) /\ i + 1 \in 0 .. Len(t)
  OBVIOUS
<1>2. QED BY <1>1, PassHolds DEF IsPass

LEMMA PassTwo ==
  ASSUME NEW t, Len(t) \in Nat, NEW i \in 0 .. Len(t) - 2
  PROVE  /\ Skipped(t)[i] \in Nat /\ Skipped(t)[i + 2] \in Nat
         /\ Skipped(t)[i + 2] <= Skipped(t)[i] + 1
<1>1. /\ i \in 0 .. Len(t) - 1 /\ i + 1 \in 0 .. Len(t) - 1 /\ (i + 1) + 1 = i + 2
  OBVIOUS
<1>2. /\ Skipped(t)[i] \in Nat /\ Skipped(t)[i + 1] = Skipped(t)[i] + Escaped(t)[i + 1]
      /\ Escaped(t)[i + 1] \in 0 .. 1
  BY <1>1, PassStep
<1>3. /\ Skipped(t)[i + 2] \in Nat /\ Skipped(t)[i + 2] = Skipped(t)[i + 1] + Escaped(t)[i + 2]
      /\ Escaped(t)[i + 2] = IF Escaped(t)[i + 1] = 0 /\ t[i + 2] = Backslash THEN 1 ELSE 0
  BY <1>1, PassStep
<1>4. Escaped(t)[i + 1] + Escaped(t)[i + 2] <= 1
  BY <1>2, <1>3
<1>5. QED BY <1>2, <1>3, <1>4

\* No more are skipped than there are, from any byte on.
LEMMA PassBetween ==
  ASSUME NEW t, Len(t) \in Nat, NEW i \in Nat, NEW n \in Nat, i + n <= Len(t)
  PROVE  Skipped(t)[i] \in Nat /\ Skipped(t)[i + n] \in Nat /\ Skipped(t)[i + n] <= Skipped(t)[i] + n
<1> DEFINE S == {d \in Nat : i + d <= Len(t) => Skipped(t)[i + d] <= Skipped(t)[i] + d}
<1>1. \A k \in 0 .. Len(t) : Skipped(t)[k] \in Nat
  BY PassHolds DEF IsPass
<1>2. Skipped(t)[i] \in Nat /\ Skipped(t)[i + n] \in Nat
  BY <1>1
<1>3. 0 \in S
  BY <1>2
<1>4. ASSUME NEW d \in Nat, d \in S PROVE d + 1 \in S
  <2>1. i + (d + 1) <= Len(t) => i + d \in 0 .. Len(t) - 1 /\ Skipped(t)[i + d] <= Skipped(t)[i] + d
    BY <1>4
  <2>2. i + (d + 1) <= Len(t) => /\ Skipped(t)[i + d] \in Nat /\ Escaped(t)[i + d] \in 0 .. 1
                                 /\ Escaped(t)[(i + d) + 1] \in 0 .. 1
                                 /\ Skipped(t)[(i + d) + 1] = Skipped(t)[i + d] + Escaped(t)[(i + d) + 1]
    BY <2>1, PassStep
  <2> DEFINE start == Skipped(t)[i]
             now   == Skipped(t)[i + d]
             one   == Escaped(t)[i + (d + 1)]
             after == Skipped(t)[i + (d + 1)]
  <2>3. (i + d) + 1 = i + (d + 1)
    OBVIOUS
  <2>4. i + (d + 1) <= Len(t) =>
          start \in Nat /\ now \in Nat /\ now <= start + d /\ one \in 0 .. 1 /\ after = now + one
    BY <1>2, <2>1, <2>2, <2>3, Zenon
  <2> HIDE DEF start, now, one, after
  <2>5. i + (d + 1) <= Len(t) => after <= start + (d + 1)
    BY <2>4, SMT
  <2>6. QED BY <2>5 DEF start, after
<1>5. \A d \in Nat : d \in S
  <2> HIDE DEF S
  <2>1. QED BY <1>3, <1>4, InductiveSet
<1>6. QED BY <1>2, <1>5

LEMMA PassBound ==
  ASSUME NEW t, Len(t) \in Nat, NEW i \in 0 .. Len(t)
  PROVE  Skipped(t)[i] \in Nat /\ Skipped(t)[i] <= i
<1>1. 0 \in Nat /\ i \in Nat /\ 0 + i = i /\ 0 + i <= Len(t)
  OBVIOUS
<1>2. Skipped(t)[0] = 0
  BY PassHolds DEF IsPass
<1>3. QED BY <1>1, <1>2, PassBetween

\* A \u with its digits, or two of them, hold at most half as many escapes as bytes.
LEMMA PassLiteral ==
  ASSUME NEW t, Len(t) \in Nat, NEW i \in Nat
  PROVE  /\ i + 6 <= Len(t) => Skipped(t)[i + 6] <= Skipped(t)[i] + 3
         /\ i + 12 <= Len(t) => Skipped(t)[i + 12] <= Skipped(t)[i] + 6
<1>1. ASSUME NEW j \in Nat, j + 6 <= Len(t)
      PROVE  /\ Skipped(t)[j] \in Nat /\ Skipped(t)[j + 6] \in Nat
             /\ Skipped(t)[j + 6] <= Skipped(t)[j] + 3
  <2>1. /\ j \in 0 .. Len(t) - 2 /\ j + 2 \in 0 .. Len(t) - 2 /\ j + 4 \in 0 .. Len(t) - 2
        /\ (j + 2) + 2 = j + 4 /\ (j + 4) + 2 = j + 6
    BY <1>1
  <2>2. /\ Skipped(t)[j] \in Nat /\ Skipped(t)[j + 2] \in Nat /\ Skipped(t)[j + 2] <= Skipped(t)[j] + 1
    BY <2>1, PassTwo
  <2>3. Skipped(t)[j + 4] \in Nat /\ Skipped(t)[j + 4] <= Skipped(t)[j + 2] + 1
    BY <2>1, PassTwo
  <2>4. Skipped(t)[j + 6] \in Nat /\ Skipped(t)[j + 6] <= Skipped(t)[j + 4] + 1
    BY <2>1, PassTwo
  <2> DEFINE K0 == Skipped(t)[j]
             K2 == Skipped(t)[j + 2]
             K4 == Skipped(t)[j + 4]
             K6 == Skipped(t)[j + 6]
  <2>5. K0 \in Nat /\ K2 \in Nat /\ K4 \in Nat /\ K6 \in Nat /\ K2 <= K0 + 1 /\ K4 <= K2 + 1 /\ K6 <= K4 + 1
    BY <2>2, <2>3, <2>4
  <2> HIDE DEF K0, K2, K4, K6
  <2>6. K6 <= K0 + 3
    BY <2>5
  <2>7. QED BY <2>5, <2>6 DEF K0, K6
<1>2. ASSUME i + 12 <= Len(t) PROVE Skipped(t)[i + 12] <= Skipped(t)[i] + 6
  <2>1. i + 6 \in Nat /\ (i + 6) + 6 = i + 12 /\ i + 6 <= Len(t)
    BY <1>2
  <2>2. /\ Skipped(t)[i] \in Nat /\ Skipped(t)[i + 6] \in Nat /\ Skipped(t)[i + 6] <= Skipped(t)[i] + 3
    BY <1>1, <2>1
  <2>3. Skipped(t)[i + 12] \in Nat /\ Skipped(t)[i + 12] <= Skipped(t)[i + 6] + 3
    BY <1>1, <1>2, <2>1
  <2>4. QED BY <2>2, <2>3, SMT
<1>3. QED BY <1>1, <1>2

-----------------------------------------------------------------------------
(* UTF-8 *)

\* A number divided again and again.
LEMMA Divided ==
  ASSUME NEW c \in Nat, NEW n \in Nat, NEW d \in {10, 64}
  PROVE  \E f : f = [k \in 0 .. n |-> IF k = 0 THEN c ELSE f[k - 1] \div d]
<1> DEFINE step == [k \in 1 .. n |-> [v \in Nat |-> v \div d]]
<1>1. step \in [1 .. n -> [Nat -> Nat]]
  <2>1. \A v \in Nat : v \div 10 \in Nat /\ v \div 64 \in Nat
    OBVIOUS
  <2>2. \A v \in Nat : v \div d \in Nat
    BY <2>1
  <2>3. QED BY <2>2
<1>2. PICK f : IsIteration(f, n, Nat, c, step)
  <2> HIDE DEF step
  <2>1. QED BY <1>1, Iterates
<1>3. f = [k \in 0 .. n |-> IF k = 0 THEN c ELSE step[k][f[k - 1]]]
  <2> HIDE DEF step
  <2>1. QED BY <1>2, IterationSolves
<1>4. ASSUME NEW k \in 0 .. n PROVE f[k] = IF k = 0 THEN c ELSE f[k - 1] \div d
  <2>1. k # 0 => k \in 1 .. n /\ f[k - 1] \in Nat
    BY <1>2 DEF IsIteration
  <2>2. k # 0 => step[k][f[k - 1]] = f[k - 1] \div d
    BY <2>1
  <2>3. f[k] = IF k = 0 THEN c ELSE step[k][f[k - 1]]
    <3> HIDE DEF step
    <3>1. QED BY <1>3
  <2> HIDE DEF step
  <2>4. QED BY <2>2, <2>3
<1>5. f = [k \in 0 .. n |-> f[k]]
  <2> HIDE DEF step
  <2>1. QED BY <1>2 DEF IsIteration
<1>6. f = [k \in 0 .. n |-> IF k = 0 THEN c ELSE f[k - 1] \div d]
  <2> HIDE DEF step
  <2>1. QED BY <1>4, <1>5, Zenon
<1>7. QED BY <1>6, Zenon

\* The bytes of a code point, as one value of each length.
LEMMA Utf8Unfolds ==
  ASSUME NEW c \in Nat
  PROVE  \E rest : /\ rest[0] = c
                   /\ Utf8Length(c) > 1 => rest[1] = rest[0] \div 64
                   /\ Utf8Length(c) > 2 => rest[2] = rest[1] \div 64
                   /\ Utf8Length(c) > 3 => rest[3] = rest[2] \div 64
                   /\ Utf8(c) = [p \in 1 .. Utf8Length(c) |->
                                   IF p > 1 THEN 128 + (rest[Utf8Length(c) - p] % 64)
                                   ELSE IF Utf8Length(c) > 1
                                   THEN (FirstByteMark[Utf8Length(c)] + rest[Utf8Length(c) - 1]) % 256 ELSE c]
<1> DEFINE n == Utf8Length(c)
           Solves(f) == f = [k \in 0 .. n |-> IF k = 0 THEN c ELSE f[k - 1] \div 64]
           rest == CHOOSE f : Solves(f)
<1>1. n \in 1 .. 4
  BY DEF Utf8Length
<1>2. \E f : Solves(f)
  <2>1. n \in Nat /\ 64 \in {10, 64}
    BY <1>1
  <2> HIDE DEF n
  <2>2. QED BY <2>1, Divided, Zenon
<1>3. Solves(rest)
  <2> HIDE DEF Solves
  <2>1. QED BY <1>2, Zenon
<1>4. Utf8(c) = [p \in 1 .. n |-> IF p > 1 THEN 128 + (rest[n - p] % 64)
                                  ELSE IF n > 1 THEN (FirstByteMark[n] + rest[n - 1]) % 256 ELSE c]
  BY Zenon DEF Utf8
<1> HIDE DEF rest, n
<1>5. \A k \in 0 .. n : rest[k] = IF k = 0 THEN c ELSE rest[k - 1] \div 64
  BY <1>3, Zenon
<1>6. rest[0] = c
  <2>1. 0 \in 0 .. n
    BY <1>1
  <2>2. QED BY <1>5, <2>1
<1>7. /\ n > 1 => rest[1] = rest[0] \div 64
      /\ n > 2 => rest[2] = rest[1] \div 64
      /\ n > 3 => rest[3] = rest[2] \div 64
  <2>1. /\ n > 1 => 1 \in 0 .. n
        /\ n > 2 => 2 \in 0 .. n
        /\ n > 3 => 3 \in 0 .. n
    BY <1>1
  <2>2. 1 - 1 = 0 /\ 2 - 1 = 1 /\ 3 - 1 = 2
    OBVIOUS
  <2>3. QED BY <1>5, <2>1, <2>2
<1>8. QED BY <1>4, <1>6, <1>7, Zenon DEF n

LastCodePoint == 1114111   \* 0x10FFFF

\* utf16_literal_to_utf8 writes what RFC 3629 prescribes.
LEMMA Utf8IsEncoded ==
  ASSUME NEW c \in Nat, c <= LastCodePoint
  PROVE  Utf8(c) = Encoded(c)
<1> DEFINE n == Utf8Length(c)
<1>1. PICK rest : /\ rest[0] = c
                  /\ n > 1 => rest[1] = rest[0] \div 64
                  /\ n > 2 => rest[2] = rest[1] \div 64
                  /\ n > 3 => rest[3] = rest[2] \div 64
                  /\ Utf8(c) = [p \in 1 .. n |->
                                  IF p > 1 THEN 128 + (rest[n - p] % 64)
                                  ELSE IF n > 1 THEN (FirstByteMark[n] + rest[n - 1]) % 256 ELSE c]
  <2>1. QED BY Utf8Unfolds, Zenon
<1>2. CASE c < 128
  <2>1. n = 1
    BY SMT, <1>2 DEF Utf8Length
  <2>2. Utf8(c) = [p \in 1 .. 1 |-> c]
    BY SMT, <1>1, <2>1
  <2>3. [p \in 1 .. 1 |-> c] = <<c>>
    OBVIOUS
  <2>4. Encoded(c) = <<c>>
    BY SMT, <1>2 DEF Encoded
  <2>5. QED BY <2>2, <2>3, <2>4
<1>3. CASE ~(c < 128) /\ c < 2048
  <2>1. n = 2
    BY SMT, <1>3 DEF Utf8Length
  <2>2. (FirstByteMark[2] + rest[1]) % 256 = 192 + c \div 64
    BY SMT, <1>1, <1>3, <2>1 DEF FirstByteMark
  <2>3. Utf8(c) = <<192 + c \div 64, 128 + (c % 64)>>
    BY SMT, <1>1, <2>1, <2>2
  <2>4. Encoded(c) = <<192 + c \div 64, 128 + (c % 64)>>
    BY SMT, <1>3 DEF Encoded
  <2>5. QED BY <2>3, <2>4
<1>4. CASE ~(c < 2048) /\ c < 65536
  <2>1. n = 3
    BY SMT, <1>4 DEF Utf8Length
  <2>2. (FirstByteMark[3] + rest[2]) % 256 = 224 + c \div 4096
    <3>1. rest[2] = c \div 4096
      BY SMT, <1>1, <2>1
    <3>2. c \div 4096 \in 0 .. 15
      BY SMT, <1>4
    <3>3. FirstByteMark[3] = 224
      BY SMT DEF FirstByteMark
    <3>4. QED BY SMT, <3>1, <3>2, <3>3
  <2>3. Utf8(c) = <<224 + c \div 4096, 128 + ((c \div 64) % 64), 128 + (c % 64)>>
    <3>1. Utf8(c) = [p \in 1 .. 3 |-> IF p > 1 THEN 128 + (rest[3 - p] % 64) ELSE 224 + c \div 4096]
      BY SMT, <1>1, <2>1, <2>2
    <3>2. rest[1] = c \div 64 /\ rest[0] = c
      BY SMT, <1>1, <2>1
    <3>3. QED BY SMT, <3>1, <3>2
  <2>4. ~(c < 128)
    BY SMT, <1>4
  <2>5. QED BY SMT, <1>4, <2>3, <2>4 DEF Encoded
<1>5. CASE ~(c < 65536)
  <2>1. n = 4
    BY SMT, <1>5 DEF Utf8Length
  <2>2. rest[1] = c \div 64 /\ rest[2] = c \div 4096 /\ rest[3] = c \div 262144
    BY SMT, <1>1, <2>1
  <2>3. (FirstByteMark[4] + rest[3]) % 256 = 240 + c \div 262144
    <3>1. c \div 262144 \in 0 .. 4
      BY SMT DEF LastCodePoint
    <3>2. FirstByteMark[4] = 240
      BY SMT DEF FirstByteMark
    <3>3. QED BY SMT, <2>2, <3>1, <3>2
  <2>4. Utf8(c) = <<240 + c \div 262144, 128 + ((c \div 4096) % 64), 128 + ((c \div 64) % 64), 128 + (c % 64)>>
    BY SMT, <1>1, <2>1, <2>2, <2>3
  <2>5. ~(c < 128) /\ ~(c < 2048)
    BY SMT, <1>5
  <2>6. QED BY SMT, <1>5, <2>4, <2>5 DEF Encoded
<1>6. QED BY SMT, <1>2, <1>3, <1>4, <1>5

\* The bytes of a code point are bytes, one to four.
LEMMA Utf8Bytes ==
  ASSUME NEW c \in Nat, c <= LastCodePoint
  PROVE  /\ Utf8(c) \in Seq(Octet) /\ Len(Utf8(c)) \in Nat /\ Len(Utf8(c)) <= 4
         /\ Utf8Length(c) < 4 => Len(Utf8(c)) <= 3
<1> DEFINE n == Utf8Length(c)
<1>1. n \in 1 .. 4 /\ (n = 1 => c < 128)
  BY SMT DEF Utf8Length
<1>2. PICK rest : /\ rest[0] = c
                  /\ n > 1 => rest[1] = rest[0] \div 64
                  /\ n > 2 => rest[2] = rest[1] \div 64
                  /\ n > 3 => rest[3] = rest[2] \div 64
                  /\ Utf8(c) = [p \in 1 .. n |->
                                  IF p > 1 THEN 128 + (rest[n - p] % 64)
                                  ELSE IF n > 1 THEN (FirstByteMark[n] + rest[n - 1]) % 256 ELSE c]
  BY Utf8Unfolds, Zenon
<1> HIDE DEF n
<1>3. \A k \in 0 .. n - 1 : rest[k] \in Nat
  <2>1. \A x \in Nat : x \div 64 \in Nat
    OBVIOUS
  <2>2. /\ rest[0] \in Nat
        /\ n > 1 => rest[1] = rest[0] \div 64
        /\ n > 2 => rest[2] = rest[1] \div 64
        /\ n > 3 => rest[3] = rest[2] \div 64
    BY <1>2
  <2>3. n > 1 => rest[1] \in Nat
    BY <2>1, <2>2
  <2>4. n > 2 => n > 1
    BY <1>1
  <2>5. n > 2 => rest[2] \in Nat
    BY <2>1, <2>2, <2>3, <2>4
  <2>6. n > 3 => n > 2
    BY <1>1
  <2>7. n > 3 => rest[3] \in Nat
    BY <2>1, <2>2, <2>5, <2>6
  <2>8. QED BY <1>1, <2>2, <2>3, <2>5, <2>7
<1>4. ASSUME NEW p \in 1 .. n PROVE Utf8(c)[p] \in 0 .. 255
  <2>1. p > 1 => 128 + (rest[n - p] % 64) \in 0 .. 255
    <3>1. p > 1 => rest[n - p] \in Nat
      BY <1>1, <1>3
    <3>2. \A x \in Nat : x % 64 \in 0 .. 63
      OBVIOUS
    <3>3. QED BY <3>1, <3>2
  <2>2. n > 1 => (FirstByteMark[n] + rest[n - 1]) % 256 \in 0 .. 255
    <3>1. rest[n - 1] \in Nat
      BY <1>1, <1>3
    <3>2. FirstByteMark[n] \in Nat
      BY <1>1 DEF FirstByteMark
    <3>3. \A x \in Nat : x % 256 >= 0 /\ x % 256 <= 255
      OBVIOUS
    <3>4. FirstByteMark[n] + rest[n - 1] \in Nat
      BY <3>1, <3>2
    <3>5. QED BY <3>3, <3>4
  <2>3. n = 1 => c \in 0 .. 255
    BY <1>1
  <2>4. QED BY <1>1, <1>2, <2>1, <2>2, <2>3, SMT
<1>5. Utf8(c) = [p \in 1 .. n |-> Utf8(c)[p]]
  BY <1>2
<1>6. Utf8(c) \in Seq(0 .. 255) /\ Len(Utf8(c)) = n
  <2>1. n \in Nat
    BY <1>1
  <2>2. Utf8(c) \in [1 .. n -> 0 .. 255]
    BY <1>4, <1>5
  <2>3. QED BY <2>1, <2>2
<1>7. QED BY <1>1, <1>6 DEF Octet, n

-----------------------------------------------------------------------------
(* UTF-16 *)

LEMMA DigitRange ==
  ASSUME NEW b \in Digits
  PROVE  Digit(b) \in 0 .. 15
BY DEF Digits, Digit

LEMMA Surrogates ==
  ASSUME NEW u \in Nat
  PROVE  /\ High(u) <=> (55296 <= u /\ u <= 56319)
         /\ Low(u) <=> (56320 <= u /\ u <= 57343)
BY SMT DEF High, Low

UnitAt(a, b, c, d) == 4096 * Digit(a) + 256 * Digit(b) + 16 * Digit(c) + Digit(d)
MaxUnit == 65535

LEMMA UnitRange ==
  ASSUME NEW a \in Digits, NEW b \in Digits, NEW c \in Digits, NEW d \in Digits
  PROVE  UnitAt(a, b, c, d) \in Nat /\ UnitAt(a, b, c, d) <= MaxUnit
<1>1. /\ Digit(a) \in 0 .. 15 /\ Digit(b) \in 0 .. 15 /\ Digit(c) \in 0 .. 15 /\ Digit(d) \in 0 .. 15
  BY DigitRange
<1> DEFINE x == Digit(a)
           y == Digit(b)
           z == Digit(c)
           w == Digit(d)
<1>2. /\ x \in Nat /\ x <= 15 /\ y \in Nat /\ y <= 15
      /\ z \in Nat /\ z <= 15 /\ w \in Nat /\ w <= 15
  BY <1>1
<1> HIDE DEF x, y, z, w
<1>3. 4096 * x + 256 * y + 16 * z + w \in Nat /\ 4096 * x + 256 * y + 16 * z + w <= MaxUnit
  BY SMT, <1>2 DEF MaxUnit
<1>4. QED BY <1>3 DEF UnitAt, x, y, z, w

\* parse_hex4 reads the code unit of well-formed digits and 0 for others.
LEMMA Hex4IsUnit ==
  ASSUME NEW i \in Nat
  PROVE  /\ Hex4(i + 2) \in Nat /\ Hex4(i + 2) <= MaxUnit
         /\ (\A k \in 2 .. 5 : text[(i + 1) + k] \in Digits) => Hex4(i + 2) = Unit(text, i + 1)
         /\ ~(\A k \in 2 .. 5 : text[(i + 1) + k] \in Digits) => Hex4(i + 2) = 0
<1>1. /\ Byte((i + 2) + 0) = text[(i + 1) + 2] /\ Byte(i + 2) = text[(i + 1) + 2]
      /\ Byte((i + 2) + 1) = text[(i + 1) + 3] /\ Byte((i + 2) + 2) = text[(i + 1) + 4]
      /\ Byte((i + 2) + 3) = text[(i + 1) + 5]
  BY DEF Byte
<1> DEFINE All4 == \A k \in 2 .. 5 : text[(i + 1) + k] \in Digits
<1>2. All4 <=> \A k \in 0 .. 3 : Byte((i + 2) + k) \in Digits
  BY <1>1
<1>3. CASE All4
  <2>1. /\ text[(i + 1) + 2] \in Digits /\ text[(i + 1) + 3] \in Digits
        /\ text[(i + 1) + 4] \in Digits /\ text[(i + 1) + 5] \in Digits
    BY <1>3
  <2>2. /\ UnitAt(text[(i + 1) + 2], text[(i + 1) + 3], text[(i + 1) + 4], text[(i + 1) + 5]) \in Nat
        /\ UnitAt(text[(i + 1) + 2], text[(i + 1) + 3], text[(i + 1) + 4], text[(i + 1) + 5]) <= MaxUnit
    BY <2>1, UnitRange
  <2>3. Hex4(i + 2) = UnitAt(text[(i + 1) + 2], text[(i + 1) + 3], text[(i + 1) + 4], text[(i + 1) + 5])
    BY SMT, <1>1, <1>2, <1>3 DEF Hex4, UnitAt
  <2>4. Unit(text, i + 1) = UnitAt(text[(i + 1) + 2], text[(i + 1) + 3], text[(i + 1) + 4], text[(i + 1) + 5])
    BY Zenon DEF Unit, UnitAt
  <2>5. QED BY <1>3, <2>2, <2>3, <2>4, Zenon
<1>4. CASE ~All4
  <2>1. Hex4(i + 2) = 0
    BY SMT, <1>2, <1>4 DEF Hex4
  <2>2. 0 \in Nat /\ 0 <= MaxUnit
    BY SMT DEF MaxUnit
  <2>3. QED BY <1>4, <2>1, <2>2, Zenon
<1>5. QED BY <1>3, <1>4, Zenon

\* The code point of two code units.
Pair(first, second) == 65536 + 1024 * (first % 1024) + (second % 1024)

\* The three results of utf16_literal_to_utf8: nothing, one code unit or two.
Rejects(i) ==
  /\ Literal(i).length = 0
  /\ \/ input_end - i < 6
     \/ Low(Hex4(i + 2))
     \/ High(Hex4(i + 2)) /\ (input_end - (i + 6) < 6 \/ Byte(i + 6) # Backslash \/ Byte(i + 7) # LetterU
                                \/ ~Low(Hex4(i + 8)))

Reads1(i) ==
  /\ Literal(i).length = 6 /\ Literal(i).codepoint = Hex4(i + 2)
  /\ ~(input_end - i < 6) /\ ~Low(Hex4(i + 2)) /\ ~High(Hex4(i + 2))

Reads2(i) ==
  /\ Literal(i).length = 12 /\ Literal(i).codepoint = Pair(Hex4(i + 2), Hex4(i + 8))
  /\ ~(input_end - i < 6) /\ ~(input_end - (i + 6) < 6)
  /\ High(Hex4(i + 2)) /\ Byte(i + 6) = Backslash /\ Byte(i + 7) = LetterU /\ Low(Hex4(i + 8))

LEMMA LiteralCases ==
  ASSUME NEW i \in Nat, input_end \in Nat
  PROVE  Rejects(i) \/ Reads1(i) \/ Reads2(i)
<1> DEFINE first  == Hex4(i + 2)
           second == Hex4(i + 8)
           short1 == input_end - i < 6
           short2 == input_end - (i + 6) < 6
<1>1. input_end - i >= 6 <=> ~short1
  OBVIOUS
<1>2. Literal(i) = IF short1 \/ (~short1 /\ Low(first)) THEN [length |-> 0, codepoint |-> 0]
                   ELSE IF ~High(first) THEN [length |-> 6, codepoint |-> first]
                   ELSE IF short2 \/ Byte(i + 6) # Backslash \/ Byte(i + 7) # LetterU \/ ~Low(second)
                   THEN [length |-> 0, codepoint |-> 0]
                   ELSE [length |-> 12, codepoint |-> Pair(first, second)]
  BY SMT, <1>1 DEF Literal, Pair
<1> HIDE DEF short1, short2, first, second
<1>3. CASE short1 \/ Low(first)
  <2>1. Literal(i).length = 0
    BY <1>2, <1>3
  <2>2. QED BY <1>3, <2>1 DEF Rejects, short1, first
<1>4. CASE ~short1 /\ ~Low(first) /\ ~High(first)
  <2>1. Literal(i).length = 6 /\ Literal(i).codepoint = first
    BY <1>2, <1>4
  <2>2. QED BY <1>4, <2>1 DEF Reads1, short1, first
<1>5. CASE /\ ~short1 /\ ~Low(first) /\ High(first)
           /\ short2 \/ Byte(i + 6) # Backslash \/ Byte(i + 7) # LetterU \/ ~Low(second)
  <2>1. Literal(i).length = 0
    BY <1>2, <1>5
  <2>2. QED BY <1>5, <2>1 DEF Rejects, short1, short2, first, second
<1>6. CASE /\ ~short1 /\ ~Low(first) /\ High(first) /\ ~short2
           /\ Byte(i + 6) = Backslash /\ Byte(i + 7) = LetterU /\ Low(second)
  <2>1. Literal(i).length = 12 /\ Literal(i).codepoint = Pair(first, second)
    BY <1>2, <1>6
  <2>2. QED BY <1>6, <2>1 DEF Reads2, short1, short2, first, second
<1>7. QED BY <1>3, <1>4, <1>5, <1>6

\* A code point is one, and one of a single code unit has at most three bytes.
LEMMA LiteralFacts ==
  ASSUME NEW i \in Nat, input_end \in Nat
  PROVE  /\ Literal(i).length \in {0, 6, 12}
         /\ Literal(i).length # 0 => /\ i + Literal(i).length <= input_end
                                     /\ Literal(i).codepoint \in Nat
                                     /\ Literal(i).codepoint <= LastCodePoint
         /\ Literal(i).length = 6 => Utf8Length(Literal(i).codepoint) < 4
<1>1. Hex4(i + 2) \in Nat /\ Hex4(i + 2) <= MaxUnit
  BY Hex4IsUnit
<1>2. Hex4(i + 8) \in Nat /\ Hex4(i + 8) <= MaxUnit
  <2>1. i + 6 \in Nat /\ (i + 6) + 2 = i + 8
    OBVIOUS
  <2>2. QED BY <2>1, Hex4IsUnit
<1>3. CASE Rejects(i)
  BY <1>3 DEF Rejects
<1>4. CASE Reads1(i)
  <2>1. \A c \in Nat : c <= MaxUnit => c <= LastCodePoint /\ Utf8Length(c) < 4
    BY SMT DEF MaxUnit, LastCodePoint, Utf8Length
  <2>2. Literal(i).length = 6 /\ Literal(i).codepoint = Hex4(i + 2) /\ i + 6 <= input_end
    BY <1>4 DEF Reads1
  <2>3. QED BY <1>1, <2>1, <2>2
<1>5. CASE Reads2(i)
  <2>1. \A a, b \in Nat : Pair(a, b) \in Nat /\ Pair(a, b) <= LastCodePoint
    BY SMT DEF Pair, LastCodePoint
  <2>2. Literal(i).length = 12 /\ Literal(i).codepoint = Pair(Hex4(i + 2), Hex4(i + 8)) /\ i + 12 <= input_end
    BY <1>5 DEF Reads2
  <2>3. QED BY <1>1, <1>2, <2>1, <2>2
<1>6. QED BY <1>3, <1>4, <1>5, LiteralCases

-----------------------------------------------------------------------------
(* The invariant: what the first pass knows, and what it bounds *)

NoneYet == {"value", "scan", "copy", "fail", "failed", "starved"}

\* The value and where it came from.
ValueInv ==
  /\ Terminated(text)
  /\ at \in NoneYet \cup {"parsed", "set", "fatal", "printed"}
  /\ type \in {"none", "number", "string"} \cup DOMAIN Word
  /\ type = "none" <=> at \in NoneYet
  /\ at \in {"set", "fatal"} => type = "number"
  /\ at = "printed" => type = "string"
  /\ offset \in 0 .. Length - 1
  /\ valueint \in Int /\ IntMin <= valueint /\ valueint <= IntMax

\* Nothing but a string is scanned.
Untouched ==
  /\ at \notin {"scan", "copy", "fail", "starved"} /\ type # "string"
  /\ input_end = 1 /\ input_pointer = 1 /\ skipped_bytes = 0 /\ allocated = 0 /\ output = <<>>

\* input_end is at a byte that is not escaped, and none before it is a closing quote.
FirstPass ==
  /\ input_end \in 1 .. Length /\ Escaped(text)[input_end] = 0
  /\ skipped_bytes = Skipped(text)[input_end]
  /\ \A i \in 1 .. input_end - 1 : Escaped(text)[i] = 0 => Byte(i) # Quote

\* The second pass starts from the closing quote.
Closed ==
  /\ input_end < Length /\ Byte(input_end) = Quote
  /\ allocated = input_end - skipped_bytes + 1

\* Every byte it has written is one it has read that is no skipped backslash.
SecondPass ==
  /\ output \in Seq(Octet)
  /\ input_pointer \in 1 .. Length - 1
  /\ at = "copy" => /\ input_pointer <= input_end + 1
                    /\ Len(output) + Skipped(text)[input_pointer] <= input_pointer - 1

StringInv ==
  /\ type \in {"none", "string"}
  /\ FirstPass /\ SecondPass
  /\ at = "value" => input_end = 1
  /\ at \in {"value", "scan"} => input_pointer = 1
  /\ at = "copy" \/ type = "string" => Closed
  /\ allocated \in 0 .. Length
  /\ at \in {"value", "scan", "failed", "starved"} => allocated = 0 /\ output = <<>>
  /\ type = "string" => Len(output) <= allocated

\* The block of int_to_string has room for every number but 0.
OnlyZeroIsTooLong == at = "set" => (Len(setting.digits) + 1 <= setting.size <=> valueint # 0)

IInv ==
  /\ ValueInv
  /\ IF text[1] = Quote THEN StringInv ELSE Untouched
  /\ OnlyZeroIsTooLong

LEMMA Sizes ==
  IntMax \in Nat /\ IntMax >= 1 /\ NumberSize \in Nat \ {0}
BY SMT, SizesAssumption

LEMMA Extended ==
  ASSUME NEW S, NEW s \in Seq(S), NEW b \in S
  PROVE  /\ s \o <<b>> \in Seq(S) /\ Len(s \o <<b>>) = Len(s) + 1
         /\ (s \o <<b>>)[Len(s) + 1] = b
         /\ \A i \in 1 .. Len(s) : (s \o <<b>>)[i] = s[i]
<1>1. Len(s) \in Nat /\ <<b>> \in Seq(S) /\ Len(<<b>>) = 1 /\ <<b>>[1] = b
  OBVIOUS
<1>2. QED BY <1>1

LEMMA TextFacts ==
  ASSUME Terminated(text)
  PROVE  /\ Length \in Nat /\ Length >= 1
         /\ \A i \in 0 .. Length - 1 : /\ Byte(i) \in Octet /\ Byte(i) \in Nat /\ Byte(i) = text[i + 1]
                                       /\ Byte(i) = NUL <=> i = Length - 1
<1>1. Len(text) \in Nat /\ Len(text) >= 1
  BY DEF Terminated
<1>2. ASSUME NEW i \in 0 .. Len(text) - 1
      PROVE  text[i + 1] \in Octet /\ (text[i + 1] = NUL <=> i = Len(text) - 1)
  <2>1. i + 1 \in 1 .. Len(text) /\ (i # Len(text) - 1 => i + 1 \in 1 .. Len(text) - 1)
    OBVIOUS
  <2>2. text[i + 1] \in Octet
    BY <2>1 DEF Terminated
  <2>3. i # Len(text) - 1 => text[i + 1] # NUL
    BY <2>1 DEF Terminated
  <2>4. i = Len(text) - 1 => text[i + 1] = NUL
    BY <1>1 DEF Terminated
  <2>5. QED BY <2>2, <2>3, <2>4
<1>3. \A b \in Octet : b \in Nat
  BY DEF Octet
<1>4. QED BY <1>1, <1>2, <1>3 DEF Length, Byte

LEMMA InitInv ==
  Init => IInv
<1> SUFFICES ASSUME Init PROVE IInv
  OBVIOUS
<1>1. PICK t \in Texts : text = t \o <<NUL>>
  BY DEF Init, StringInit
<1>2. t \in Seq(Octet) /\ NUL \in Octet /\ \A i \in 1 .. Len(t) : t[i] # NUL
  <2>1. t \in Seq(1 .. 255)
    BY BytesAssumption, Zenon
  <2> DEFINE B == 1 .. 255
  <2>2. \A b \in B : b \in Octet /\ b # NUL
    BY DEF Octet, NUL
  <2>3. NUL \in Octet
    BY DEF Octet, NUL
  <2>4. t \in Seq(B)
    BY <2>1
  <2> HIDE DEF B
  <2>5. QED BY <2>2, <2>3, <2>4
<1>3. Terminated(text)
  <2>1. /\ text \in Seq(Octet) /\ Len(text) = Len(t) + 1 /\ text[Len(t) + 1] = NUL
        /\ \A i \in 1 .. Len(t) : text[i] = t[i]
    BY <1>1, <1>2, Extended
  <2>2. Len(t) \in Nat
    BY <1>2
  <2>3. QED BY <1>2, <2>1, <2>2 DEF Terminated
<1>4. /\ input_end = 1 /\ input_pointer = 1 /\ skipped_bytes = 0
      /\ allocated = 0 /\ output = <<>> /\ offset = 0 /\ at = "value"
      /\ type = "none" /\ valueint = 0
  BY DEF Init, StringInit
<1>5. Length \in Nat /\ Length >= 1
  BY <1>3, TextFacts
<1>6. ValueInv
  <2>1. IntMin <= 0 /\ 0 <= IntMax
    BY Sizes DEF IntMin
  <2>2. QED BY <1>3, <1>4, <1>5, <2>1 DEF ValueInv, NoneYet
<1>7. OnlyZeroIsTooLong
  BY <1>4 DEF OnlyZeroIsTooLong
<1>8. text[1] # Quote => Untouched
  BY <1>4 DEF Untouched
<1>9. text[1] = Quote => StringInv
  <2> SUFFICES ASSUME text[1] = Quote PROVE StringInv
    OBVIOUS
  <2>1. Length >= 2
    <3>1. Byte(0) # NUL
      BY DEF Byte, Quote, NUL
    <3>2. QED BY <1>3, <1>5, <3>1, TextFacts
  <2>2. Escaped(text)[1] = 0 /\ Skipped(text)[1] = 0
    <3>1. IsPass(Escaped(text), Skipped(text), text)
      BY <1>5, PassHolds DEF Length
    <3>2. 1 \in 1 .. Len(text) /\ 1 - 1 = 0 /\ text[1] # Backslash
      BY <1>5 DEF Length, Quote, Backslash
    <3>3. QED BY <3>1, <3>2 DEF IsPass
  <2>3. FirstPass
    BY <1>4, <1>5, <2>2 DEF FirstPass
  <2>4. SecondPass
    <3>1. output \in Seq(Octet)
      BY <1>4
    <3>2. QED BY <1>4, <1>5, <2>1, <3>1 DEF SecondPass
  <2>5. QED BY <1>4, <1>5, <2>3, <2>4 DEF StringInv
<1>10. QED BY <1>6, <1>7, <1>8, <1>9 DEF IInv

-----------------------------------------------------------------------------
(* The steps of parse_string keep what is said of it *)

\* What a step that leaves text alone leaves alone.
LEMMA SameText ==
  ASSUME text' = text
  PROVE  /\ Escaped(text)' = Escaped(text) /\ Skipped(text)' = Skipped(text)
         /\ Length' = Length /\ Terminated(text)' = Terminated(text)
         /\ \A i \in Nat : Byte(i)' = Byte(i)
BY DEF Length, Byte

\* The next byte of the first pass.
LEMMA ScanKeeps ==
  ASSUME ValueInv, StringInv, Scan, type' = type
  PROVE  StringInv'
<1>1. /\ text' = text /\ input_pointer' = input_pointer /\ allocated' = allocated /\ output' = output
      /\ at = "scan" /\ input_end < Length /\ Byte(input_end) # Quote
  BY DEF Scan
<1>2. /\ Length \in Nat /\ Terminated(text)
      /\ \A i \in 0 .. Length - 1 : Byte(i) = text[i + 1] /\ (Byte(i) = NUL <=> i = Length - 1)
  BY TextFacts DEF ValueInv
<1>3. /\ FirstPass /\ SecondPass /\ input_pointer = 1 /\ allocated = 0 /\ output = <<>>
      /\ allocated \in 0 .. Length /\ type = "none"
  BY <1>1 DEF StringInv, ValueInv, NoneYet
<1>4. /\ input_end \in 1 .. Length - 1 /\ Escaped(text)[input_end] = 0
      /\ Escaped(text)[input_end + 1] = (IF Byte(input_end) = Backslash THEN 1 ELSE 0)
      /\ Skipped(text)[input_end] \in Nat
      /\ Skipped(text)[input_end + 1] = Skipped(text)[input_end] + Escaped(text)[input_end + 1]
  <2>1. input_end \in 1 .. Length - 1 /\ input_end \in 0 .. Len(text) - 1 /\ Escaped(text)[input_end] = 0
    BY <1>1, <1>2, <1>3 DEF FirstPass, Length
  <2>2. Byte(input_end) = text[input_end + 1]
    BY <1>2, <2>1
  <2>3. Len(text) \in Nat
    BY <1>2 DEF Length
  <2>4. /\ Skipped(text)[input_end] \in Nat
        /\ Escaped(text)[input_end + 1] = IF Escaped(text)[input_end] = 0 /\ text[input_end + 1] = Backslash
                                          THEN 1 ELSE 0
        /\ Skipped(text)[input_end + 1] = Skipped(text)[input_end] + Escaped(text)[input_end + 1]
    BY <2>1, <2>3, PassStep
  <2>5. QED BY <2>1, <2>2, <2>4
<1>5. at' \in {"scan", "fail"}
  BY <1>1 DEF Scan
<1>6. FirstPass'
  <2>1. CASE Byte(input_end) # Backslash
    <3>1. input_end' = input_end + 1 /\ skipped_bytes' = skipped_bytes
      BY <2>1 DEF Scan
    <3>2. Escaped(text)[input_end + 1] = 0 /\ Skipped(text)[input_end + 1] = Skipped(text)[input_end]
      BY <1>4, <2>1
    <3>3. \A i \in 1 .. input_end : Escaped(text)[i] = 0 => Byte(i) # Quote
      BY <1>1, <1>3, <1>4 DEF FirstPass
    <3>4. input_end + 1 \in 1 .. Length /\ (input_end + 1) - 1 = input_end
      BY <1>2, <1>4
    <3>5. \A i \in 1 .. input_end : Byte(i)' = Byte(i)
      BY <1>1, SameText
    <3>6. QED BY <1>1, <1>3, <3>1, <3>2, <3>3, <3>4, <3>5, SameText DEF FirstPass
  <2>2. CASE Byte(input_end) = Backslash /\ input_end + 1 >= Length
    <3>1. input_end' = input_end /\ skipped_bytes' = skipped_bytes
      BY <2>2 DEF Scan
    <3>2. QED BY <1>1, <1>3, <3>1 DEF FirstPass, Byte, Length
  <2>3. CASE Byte(input_end) = Backslash /\ ~(input_end + 1 >= Length)
    <3>1. input_end' = input_end + 2 /\ skipped_bytes' = skipped_bytes + 1
      BY <2>3 DEF Scan
    <3>2. Escaped(text)[input_end + 1] = 1 /\ Skipped(text)[input_end + 1] = Skipped(text)[input_end] + 1
      BY <1>4, <2>3
    <3>3. /\ Escaped(text)[input_end + 2] = 0
          /\ Skipped(text)[input_end + 2] = Skipped(text)[input_end] + 1
      <4>1. input_end + 1 \in 0 .. Len(text) - 1 /\ (input_end + 1) + 1 = input_end + 2
        BY <1>2, <1>4, <2>3 DEF Length
      <4>2. /\ Escaped(text)[input_end + 2] = IF Escaped(text)[input_end + 1] = 0 /\ text[input_end + 2] = Backslash
                                              THEN 1 ELSE 0
            /\ Skipped(text)[input_end + 2] = Skipped(text)[input_end + 1] + Escaped(text)[input_end + 2]
        BY <1>2, <4>1, PassStep DEF Length
      <4>3. QED BY <1>4, <3>2, <4>2
    <3>4. \A i \in 1 .. input_end + 1 : Escaped(text)[i] = 0 => Byte(i) # Quote
      <4>1. \A i \in 1 .. input_end - 1 : Escaped(text)[i] = 0 => Byte(i) # Quote
        BY <1>3 DEF FirstPass
      <4>2. QED BY <1>1, <1>4, <3>2, <4>1
    <3>5. input_end + 2 \in 1 .. Length /\ (input_end + 2) - 1 = input_end + 1
      BY <1>2, <1>4, <2>3
    <3>6. \A i \in 1 .. input_end + 1 : Byte(i)' = Byte(i)
      BY <1>1, SameText
    <3>7. skipped_bytes' = Skipped(text)[input_end + 2]
      BY <1>3, <3>1, <3>3 DEF FirstPass
    <3>8. QED BY <1>1, <3>1, <3>3, <3>4, <3>5, <3>6, <3>7, SameText DEF FirstPass
  <2>4. QED BY <2>1, <2>2, <2>3
<1>7. SecondPass'
  BY <1>1, <1>3, <1>5 DEF SecondPass, Length
<1>8. Length' = Length
  BY <1>1, SameText
<1>9. QED BY <1>1, <1>3, <1>5, <1>6, <1>7, <1>8 DEF StringInv

\* The end of the first pass, of either kind, and the end of the second.
LEMMA UnterminatedKeeps ==
  ASSUME ValueInv, StringInv, Unterminated, type' = type
  PROVE  StringInv'
<1>1. /\ UNCHANGED <<text, input_end, input_pointer, skipped_bytes, allocated, output, type>>
      /\ at = "scan" /\ at' = "fail"
  BY DEF Unterminated
<1>2. type = "none"
  BY <1>1 DEF ValueInv, NoneYet
<1>3. FirstPass'
  BY <1>1 DEF StringInv, FirstPass, Length, Byte
<1>4. SecondPass'
  BY <1>1 DEF StringInv, SecondPass, Length
<1>5. QED BY <1>1, <1>2, <1>3, <1>4 DEF StringInv, Length

LEMMA AllocateKeeps ==
  ASSUME ValueInv, StringInv, text[1] = Quote, Allocate, type' = type
  PROVE  StringInv'
<1>1. /\ UNCHANGED <<text, input_end, input_pointer, skipped_bytes, output, type>>
      /\ at = "scan" /\ at' = "copy" /\ input_end < Length /\ Byte(input_end) = Quote
      /\ allocated' = input_end - skipped_bytes + 1
  BY DEF Allocate
<1>2. type = "none" /\ Terminated(text)
  BY <1>1 DEF ValueInv, NoneYet
<1>3. FirstPass /\ SecondPass /\ input_pointer = 1 /\ output = <<>>
  BY <1>1 DEF StringInv
<1>4. Length \in Nat /\ Len(text) \in Nat
  BY <1>2, TextFacts DEF Length
<1>5. FirstPass'
  BY <1>1, <1>3 DEF FirstPass, Length, Byte
<1>6. Closed'
  BY <1>1 DEF Closed, Length, Byte
<1>7. IsPass(Escaped(text), Skipped(text), text)
  BY <1>4, PassHolds
<1>8. SecondPass'
  <2>1. 1 \in 1 .. Len(text) /\ Skipped(text)[1] = Skipped(text)[0] + Escaped(text)[1] /\ Skipped(text)[0] = 0
    <3>1. 1 \in 1 .. Len(text) /\ 1 - 1 = 0
      BY <1>1, <1>3, <1>4 DEF FirstPass, Length
    <3>2. QED BY <1>7, <3>1 DEF IsPass
  <2>2. Escaped(text)[1] = 0
    <3>1. Escaped(text)[1] = IF Escaped(text)[0] = 0 /\ text[1] = Backslash THEN 1 ELSE 0
      BY <1>7, <2>1 DEF IsPass
    <3>2. text[1] # Backslash
      BY DEF Quote, Backslash
    <3>3. QED BY <3>1, <3>2
  <2>3. Skipped(text)[1] = 0 /\ Len(output) = 0
    BY <1>3, <2>1, <2>2
  <2>4. Skipped(text')[input_pointer'] = 0 /\ Len(output') = 0
    BY <1>1, <1>3, <2>3
  <2>5. output' \in Seq(Octet) /\ input_pointer' \in 1 .. Length' - 1
    BY <1>1, <1>3 DEF SecondPass, Length
  <2>6. input_pointer' <= input_end' + 1 /\ 0 <= input_pointer' - 1
    BY <1>1, <1>3 DEF FirstPass
  <2>7. Len(output') + Skipped(text')[input_pointer'] <= input_pointer' - 1
    BY <2>4, <2>6
  <2>8. QED BY <2>5, <2>6, <2>7, Zenon DEF SecondPass
<1>9. allocated' \in 0 .. Length
  <2>1. input_end \in 0 .. Len(text) /\ input_end < Length /\ skipped_bytes = Skipped(text)[input_end]
    BY <1>1, <1>3, <1>4 DEF FirstPass, Length
  <2>2. skipped_bytes \in Nat /\ skipped_bytes <= input_end
    BY <1>4, <2>1, PassBound
  <2>3. input_end \in Nat /\ input_end < Length /\ allocated' = input_end - skipped_bytes + 1
    BY <1>1, <2>1
  <2>4. QED BY <1>4, <2>2, <2>3, SMT
<1>10. QED BY <1>1, <1>2, <1>5, <1>6, <1>8, <1>9 DEF StringInv, Length

\* A step of the second pass that writes some bytes and reads more: it has skipped at
\* least the bytes it does not write.
LEMMA WritesKeep ==
  ASSUME ValueInv, StringInv, at = "copy", at' = "copy", type' = type,
         UNCHANGED <<text, input_end, skipped_bytes, allocated>>,
         NEW bytes \in Seq(Octet), output' = output \o bytes,
         NEW n \in Nat, input_pointer' = input_pointer + n, input_pointer + n <= input_end + 1,
         Len(bytes) + Skipped(text)[input_pointer + n] <= Skipped(text)[input_pointer] + n
  PROVE  StringInv'
<1>1. /\ Terminated(text) /\ FirstPass /\ SecondPass /\ Closed /\ type = "none"
      /\ allocated \in 0 .. Length
  BY DEF ValueInv, StringInv, NoneYet
<1>2. /\ Length \in Nat /\ Len(text) \in Nat /\ Length = Len(text)
      /\ \A i \in 0 .. Length - 1 : Byte(i) = NUL <=> i = Length - 1
  BY <1>1, TextFacts DEF Length
<1>3. input_end \in 1 .. Length - 2
  <2>1. input_end \in 1 .. Length - 1 /\ Byte(input_end) # NUL
    BY <1>1, <1>2 DEF FirstPass, Closed, Quote, NUL
  <2>2. QED BY <1>2, <2>1
<1>4. /\ output \in Seq(Octet) /\ input_pointer \in 1 .. input_end + 1
      /\ Len(output) + Skipped(text)[input_pointer] <= input_pointer - 1
  BY <1>1, <1>3 DEF SecondPass
<1>5. /\ Skipped(text)[input_pointer] \in Nat /\ Skipped(text)[input_pointer + n] \in Nat
      /\ input_pointer + n \in 1 .. input_end + 1
  <2>1. input_pointer \in 0 .. Len(text) /\ input_pointer + n \in 0 .. Len(text)
    BY <1>2, <1>3, <1>4
  <2>2. QED BY <1>2, <1>4, <2>1, PassBound
<1>6. output' \in Seq(Octet) /\ Len(output') = Len(output) + Len(bytes)
  BY <1>4
<1>7. Len(output') + Skipped(text)[input_pointer + n] <= (input_pointer + n) - 1
  <2>1. Len(output) \in Nat /\ Len(bytes) \in Nat
    BY <1>4
  <2> DEFINE before == Skipped(text)[input_pointer]
             after  == Skipped(text)[input_pointer + n]
  <2>2. /\ Len(output) + before <= input_pointer - 1 /\ Len(bytes) + after <= before + n
        /\ before \in Nat /\ after \in Nat /\ input_pointer \in Nat
    BY <1>4, <1>5
  <2> HIDE DEF before, after
  <2>3. Len(output') + after <= (input_pointer + n) - 1
    BY <1>6, <2>1, <2>2, SMT
  <2>4. QED BY <2>3 DEF after
<1>8. FirstPass' /\ Closed'
  BY <1>1 DEF FirstPass, Closed, Length, Byte
<1>9. SecondPass'
  <2>1. input_pointer' \in 1 .. Length' - 1
    BY <1>2, <1>3, <1>5 DEF Length
  <2>2. QED BY <1>6, <1>7, <2>1 DEF SecondPass
<1>10. QED BY <1>1, <1>8, <1>9 DEF StringInv, Length

LEMMA CopyKeeps ==
  ASSUME ValueInv, StringInv, Copy, type' = type
  PROVE  StringInv'
<1>1. /\ UNCHANGED <<text, input_end, skipped_bytes, allocated>> /\ at = "copy" /\ at' = "copy"
      /\ output' = Append(output, Byte(input_pointer)) /\ input_pointer' = input_pointer + 1
      /\ input_pointer < input_end /\ Byte(input_pointer) # Backslash
  BY DEF Copy
<1>2. /\ Terminated(text) /\ FirstPass /\ SecondPass /\ Closed
  BY <1>1 DEF ValueInv, StringInv
<1>3. /\ Length \in Nat /\ Len(text) \in Nat /\ Length = Len(text)
      /\ \A i \in 0 .. Length - 1 : Byte(i) \in Octet /\ Byte(i) = text[i + 1]
  BY <1>2, TextFacts DEF Length
<1>4. input_pointer \in 0 .. Len(text) - 1 /\ input_pointer + 1 <= input_end + 1
  BY <1>1, <1>2, <1>3 DEF SecondPass, FirstPass
<1>5. <<Byte(input_pointer)>> \in Seq(Octet) /\ Len(<<Byte(input_pointer)>>) = 1
  BY <1>3, <1>4
<1>6. output' = output \o <<Byte(input_pointer)>>
  BY <1>1, <1>2, <1>3, <1>4 DEF SecondPass
<1>7. Len(<<Byte(input_pointer)>>) + Skipped(text)[input_pointer + 1] <= Skipped(text)[input_pointer] + 1
  <2>1. /\ Skipped(text)[input_pointer] \in Nat
        /\ Escaped(text)[input_pointer + 1] = IF Escaped(text)[input_pointer] = 0 /\ text[input_pointer + 1] = Backslash
                                              THEN 1 ELSE 0
        /\ Skipped(text)[input_pointer + 1] = Skipped(text)[input_pointer] + Escaped(text)[input_pointer + 1]
    BY <1>3, <1>4, PassStep
  <2>2. text[input_pointer + 1] # Backslash
    BY <1>1, <1>3, <1>4
  <2>3. QED BY <1>5, <2>1, <2>2
<1>8. 1 \in Nat
  OBVIOUS
<1>9. QED BY <1>1, <1>4, <1>5, <1>6, <1>7, <1>8, WritesKeep

LEMMA CopyEscapeKeeps ==
  ASSUME ValueInv, StringInv, CopyEscape, type' = type
  PROVE  StringInv'
<1> DEFINE b == Byte(input_pointer + 1)
           byte == IF b \in Itself THEN b ELSE Escapes[b]
<1>1. /\ UNCHANGED <<text, input_end, skipped_bytes, allocated>> /\ at = "copy" /\ at' = "copy"
      /\ output' = Append(output, byte) /\ input_pointer' = input_pointer + 2
      /\ input_pointer < input_end /\ b \in DOMAIN Escapes \cup Itself
  BY Zenon DEF CopyEscape
<1>2. /\ Terminated(text) /\ FirstPass /\ SecondPass /\ Closed
  BY <1>1 DEF ValueInv, StringInv
<1>3. /\ Length \in Nat /\ Len(text) \in Nat /\ Length = Len(text)
  BY <1>2, TextFacts DEF Length
<1>4. input_pointer \in 0 .. Len(text) - 2 /\ input_pointer + 2 <= input_end + 1
  BY <1>1, <1>2, <1>3 DEF SecondPass, FirstPass, Closed
<1>5. byte \in Octet
  <2>1. CASE b \in Itself
    BY <2>1, SMT DEF Itself, Octet, Quote, Backslash, Slash
  <2>2. CASE b \notin Itself
    <3>1. b \in {98, 102, 110, 114, 116}
      BY <1>1, <2>2, SMT DEF Escapes
    <3>2. Escapes[b] \in {8, 9, 10, 12, 13}
      <4> HIDE DEF b
      <4>1. QED BY <3>1, SMT DEF Escapes
    <3>3. {8, 9, 10, 12, 13} \subseteq Octet
      BY SMT DEF Octet
    <3>4. QED BY <2>2, <3>2, <3>3, Zenon
  <2>3. QED BY <2>1, <2>2
<1> HIDE DEF byte
<1>6. <<byte>> \in Seq(Octet) /\ Len(<<byte>>) = 1
  BY <1>5
<1>7. output' = output \o <<byte>>
  BY <1>1, <1>2, <1>5 DEF SecondPass
<1>8. Len(<<byte>>) + Skipped(text)[input_pointer + 2] <= Skipped(text)[input_pointer] + 2
  <2>1. /\ Skipped(text)[input_pointer] \in Nat /\ Skipped(text)[input_pointer + 2] \in Nat
        /\ Skipped(text)[input_pointer + 2] <= Skipped(text)[input_pointer] + 1
    BY <1>3, <1>4, PassTwo
  <2>2. QED BY <1>6, <2>1
<1>9. 2 \in Nat
  OBVIOUS
<1>10. QED BY <1>1, <1>4, <1>6, <1>7, <1>8, <1>9, WritesKeep

LEMMA CopyUnicodeKeeps ==
  ASSUME ValueInv, StringInv, CopyUnicode, type' = type
  PROVE  StringInv'
<1> DEFINE literal == Literal(input_pointer)
<1>1. /\ UNCHANGED <<text, input_end, skipped_bytes, allocated>> /\ at = "copy"
      /\ input_pointer < input_end
      /\ IF literal.length = 0 THEN at' = "fail" /\ UNCHANGED <<output, input_pointer>>
         ELSE /\ output' = output \o Utf8(literal.codepoint)
              /\ input_pointer' = input_pointer + literal.length
              /\ UNCHANGED at
  BY Zenon DEF CopyUnicode
<1>2. Terminated(text) /\ FirstPass /\ SecondPass /\ Closed /\ allocated \in 0 .. Length /\ type = "none"
  BY <1>1 DEF ValueInv, StringInv, NoneYet
<1>3. /\ Length \in Nat /\ Len(text) \in Nat /\ Length = Len(text) /\ input_pointer \in Nat /\ input_end \in Nat
  BY <1>2, TextFacts DEF Length, SecondPass, FirstPass
<1>4. /\ literal.length \in {0, 6, 12}
      /\ literal.length # 0 => /\ input_pointer + literal.length <= input_end
                               /\ literal.codepoint \in Nat
                               /\ literal.codepoint <= LastCodePoint
      /\ literal.length = 6 => Utf8Length(literal.codepoint) < 4
  BY <1>3, LiteralFacts
<1> HIDE DEF literal
<1>5. CASE literal.length = 0
  <2>1. UNCHANGED <<output, input_pointer>> /\ at' = "fail"
    BY <1>1, <1>5
  <2>2. FirstPass' /\ Closed'
    BY <1>1, <1>2 DEF FirstPass, Closed, Length, Byte
  <2>3. SecondPass'
    BY <1>1, <1>2, <2>1 DEF SecondPass, Length
  <2>4. QED BY <1>1, <1>2, <2>1, <2>2, <2>3 DEF StringInv, Length
<1>6. CASE literal.length # 0
  <2> DEFINE bytes == Utf8(literal.codepoint)
             n == literal.length
  <2>1. output' = output \o bytes /\ input_pointer' = input_pointer + n /\ at' = "copy"
    BY <1>1, <1>6
  <2>2. bytes \in Seq(Octet) /\ Len(bytes) \in Nat /\ Len(bytes) <= 4 /\ (n = 6 => Len(bytes) <= 3)
    BY <1>4, <1>6, Utf8Bytes
  <2>3. /\ n \in Nat /\ n \in {6, 12} /\ input_pointer + n <= input_end + 1 /\ input_pointer + n <= Len(text)
    BY <1>2, <1>3, <1>4, <1>6 DEF Closed
  <2> HIDE DEF bytes, n
  <2>4. Skipped(text)[input_pointer] \in Nat /\ Skipped(text)[input_pointer + n] \in Nat
    <3>1. input_pointer \in 0 .. Len(text) /\ input_pointer + n \in 0 .. Len(text)
      BY <1>3, <2>3
    <3>2. QED BY <1>3, <3>1, PassBound
  <2>5. Len(bytes) + Skipped(text)[input_pointer + n] <= Skipped(text)[input_pointer] + n
    <3>1. CASE n = 6
      <4>1. Skipped(text)[input_pointer + 6] <= Skipped(text)[input_pointer] + 3
        BY <1>3, <2>3, <3>1, PassLiteral
      <4>2. QED BY <2>2, <2>4, <3>1, <4>1
    <3>2. CASE n = 12
      <4>1. Skipped(text)[input_pointer + 12] <= Skipped(text)[input_pointer] + 6
        BY <1>3, <2>3, <3>2, PassLiteral
      <4>2. QED BY <2>2, <2>4, <3>2, <4>1
    <3>3. QED BY <2>3, <3>1, <3>2
  <2>6. QED BY <1>1, <2>1, <2>2, <2>3, <2>5, WritesKeep
<1>7. QED BY <1>5, <1>6

LEMMA UnknownEscapeKeeps ==
  ASSUME ValueInv, StringInv, UnknownEscape, type' = type
  PROVE  StringInv'
<1>1. /\ UNCHANGED <<text, input_end, input_pointer, skipped_bytes, allocated, output, type>>
      /\ at = "copy" /\ at' = "fail"
  BY DEF UnknownEscape
<1>2. FirstPass /\ SecondPass /\ allocated \in 0 .. Length /\ type = "none"
  BY <1>1 DEF ValueInv, StringInv, NoneYet
<1>3. FirstPass'
  BY <1>1, <1>2 DEF FirstPass, Length, Byte
<1>4. SecondPass'
  BY <1>1, <1>2 DEF SecondPass, Length
<1>5. QED BY <1>1, <1>2, <1>3, <1>4 DEF StringInv, Length

LEMMA FailKeeps ==
  ASSUME ValueInv, StringInv, Fail, type' = type
  PROVE  StringInv'
<1>1. /\ UNCHANGED <<text, input_end, input_pointer, skipped_bytes, type>>
      /\ at = "fail" /\ at' = "failed" /\ allocated' = 0 /\ output' = <<>>
  BY DEF Fail
<1>2. FirstPass /\ SecondPass /\ type = "none" /\ Length \in Nat
  BY <1>1, TextFacts DEF ValueInv, StringInv, NoneYet
<1>3. FirstPass'
  BY <1>1, <1>2 DEF FirstPass, Length, Byte
<1>4. SecondPass'
  BY <1>1, <1>2 DEF SecondPass, Length
<1>5. QED BY <1>1, <1>2, <1>3, <1>4 DEF StringInv, Length

LEMMA OutOfMemoryKeeps ==
  ASSUME ValueInv, StringInv, OutOfMemory, type' = type
  PROVE  StringInv'
<1>1. /\ UNCHANGED <<text, input_end, input_pointer, skipped_bytes, allocated, output, type>>
      /\ at = "scan" /\ at' = "starved"
  BY DEF OutOfMemory
<1>2. /\ FirstPass /\ SecondPass /\ type = "none" /\ allocated \in 0 .. Length
      /\ allocated = 0 /\ output = <<>>
  BY <1>1 DEF ValueInv, StringInv, NoneYet
<1>3. FirstPass'
  BY <1>1, <1>2 DEF FirstPass, Length, Byte
<1>4. SecondPass'
  BY <1>1, <1>2 DEF SecondPass, Length
<1>5. QED BY <1>1, <1>2, <1>3, <1>4 DEF StringInv, Length

\* The second pass always leaves room for the terminator.
LEMMA RoomForNUL ==
  ASSUME ValueInv, StringInv, at = "copy"
  PROVE  Len(output) + 1 <= allocated
<1>1. FirstPass /\ SecondPass /\ Closed /\ Terminated(text)
  BY DEF StringInv, ValueInv
<1>2. Length \in Nat /\ Len(text) \in Nat /\ Length = Len(text)
  BY <1>1, TextFacts DEF Length
<1>3. /\ input_end \in 0 .. Len(text) - 1 /\ skipped_bytes = Skipped(text)[input_end]
      /\ allocated = input_end - skipped_bytes + 1 /\ text[input_end + 1] = Quote
      /\ output \in Seq(Octet) /\ Len(output) \in Nat /\ input_pointer \in 1 .. input_end + 1
      /\ Len(output) + Skipped(text)[input_pointer] <= input_pointer - 1
  BY <1>1, <1>2 DEF FirstPass, SecondPass, Closed, Byte
<1>4. Skipped(text)[input_end] \in Nat
  BY <1>2, <1>3, PassBound
<1>5. Len(output) <= input_end - Skipped(text)[input_end]
  <2>1. CASE input_pointer = input_end + 1
    <3>1. /\ Escaped(text)[input_end + 1] = IF Escaped(text)[input_end] = 0 /\ text[input_end + 1] = Backslash
                                            THEN 1 ELSE 0
          /\ Skipped(text)[input_end + 1] = Skipped(text)[input_end] + Escaped(text)[input_end + 1]
      BY <1>2, <1>3, PassStep
    <3>2. text[input_end + 1] # Backslash
      BY <1>3 DEF Quote, Backslash
    <3>3. Escaped(text)[input_end + 1] = 0
      BY <3>1, <3>2
    <3>4. QED BY <1>3, <1>4, <2>1, <3>1, <3>3
  <2>2. CASE input_pointer # input_end + 1
    <3> DEFINE n == input_end - input_pointer
    <3>1. n \in Nat /\ input_pointer \in Nat /\ input_pointer + n = input_end /\ input_end <= Len(text)
      BY <1>2, <1>3, <2>2
    <3> HIDE DEF n
    <3>2. /\ Skipped(text)[input_pointer] \in Nat
          /\ Skipped(text)[input_end] <= Skipped(text)[input_pointer] + n
      BY <1>2, <3>1, PassBetween
    <3> DEFINE now  == Skipped(text)[input_pointer]
               last == Skipped(text)[input_end]
    <3>3. now \in Nat /\ last <= now + n /\ Len(output) \in Nat /\ last \in Nat
          /\ Len(output) + now <= input_pointer - 1
      BY <1>3, <1>4, <3>2
    <3> HIDE DEF now, last
    <3>4. Len(output) <= input_end - last
      BY <1>3, <3>1, <3>3, SMT
    <3>5. QED BY <3>4 DEF last
  <2>3. QED BY <2>1, <2>2
<1>6. QED BY <1>3, <1>4, <1>5

\* The second pass ends where the first one did, or a byte behind it.
LEMMA TerminateKeeps ==
  ASSUME ValueInv, StringInv, Terminate, type' = "string"
  PROVE  StringInv'
<1>1. /\ UNCHANGED <<text, input_end, input_pointer, skipped_bytes, allocated>>
      /\ at = "copy" /\ at' = "parsed" /\ input_pointer >= input_end
      /\ output' = Append(output, NUL)
  BY DEF Terminate
<1>2. Terminated(text) /\ FirstPass /\ SecondPass /\ Closed /\ allocated \in 0 .. Length
  BY <1>1 DEF ValueInv, StringInv, NoneYet
<1>3. FirstPass' /\ Closed'
  BY <1>1, <1>2 DEF FirstPass, Closed, Length, Byte
<1>4. output' \in Seq(Octet) /\ Len(output') = Len(output) + 1 /\ Len(output) \in Nat
  BY <1>1, <1>2 DEF SecondPass, Octet, NUL
<1>5. SecondPass'
  BY <1>1, <1>2, <1>4 DEF SecondPass, Length
<1>6. Len(output') <= allocated'
  <2>1. Len(output) + 1 <= allocated
    BY <1>1, RoomForNUL
  <2>2. QED BY <1>1, <1>4, <2>1
<1>7. QED BY <1>1, <1>2, <1>3, <1>5, <1>6 DEF StringInv, Length

-----------------------------------------------------------------------------
(* Numbers *)

\* A span ends at the first element outside S, or at the end.
LEMMA SpanEnds ==
  ASSUME NEW s, Len(s) \in Nat, NEW i \in 1 .. Len(s) + 1, NEW S
  PROVE  /\ Span(s, i, S) \in 0 .. Len(s) - i + 1
         /\ \A k \in i .. i + Span(s, i, S) - 1 : s[k] \in S
         /\ i + Span(s, i, S) > Len(s) \/ s[i + Span(s, i, S)] \notin S
<1> DEFINE Ends(n) == i + n > Len(s) \/ s[i + n] \notin S
           Stops == {n \in Nat : Ends(n)}
           IsSpan(n) == /\ \A k \in i .. i + n - 1 : s[k] \in S
                        /\ i + n > Len(s) \/ s[i + n] \notin S
<1>1. Len(s) - i + 1 \in Stops
  OBVIOUS
<1>2. PICK m \in Stops : \A n \in Stops : m <= n
  <2> HIDE DEF Stops
  <2>1. Stops \in SUBSET Nat /\ Stops # {}
    BY <1>1 DEF Stops
  <2>2. QED BY <2>1, LeastNumber
<1>3. m \in 0 .. Len(s) - i + 1
  <2>1. m \in Nat /\ m <= Len(s) - i + 1
    BY <1>1, <1>2
  <2>2. QED BY <2>1
<1>4. \A k \in i .. i + m - 1 : s[k] \in S
  <2> TAKE k \in i .. i + m - 1
  <2>1. k - i \in Nat /\ k - i < m /\ i + (k - i) = k
    BY <1>3
  <2>2. k - i \notin Stops
    BY <1>2, <2>1
  <2>3. QED BY <2>1, <2>2
<1>5. IsSpan(m)
  BY <1>2, <1>4
<1>6. \E n \in 0 .. Len(s) - i + 1 : IsSpan(n)
  BY <1>3, <1>5
<1>7. Span(s, i, S) = CHOOSE n \in 0 .. Len(s) - i + 1 : IsSpan(n)
  BY DEF Span
<1> HIDE DEF IsSpan
<1>8. Span(s, i, S) \in 0 .. Len(s) - i + 1 /\ IsSpan(Span(s, i, S))
  BY <1>6, <1>7
<1>9. QED BY <1>8 DEF IsSpan

Counts(top) == [value : 0 .. top, more : BOOLEAN]

NextCount(head, d, top) ==
  IF head.more \/ head.value > (top - d) \div 10 THEN [value |-> top, more |-> TRUE]
  ELSE [value |-> 10 * head.value + d, more |-> FALSE]

\* The loop over the digits never leaves 0 .. top.
LEMMA SaturatedRange ==
  ASSUME NEW digits, Len(digits) \in Nat, NEW top \in Nat,
         \A n \in 1 .. Len(digits) : digits[n] \in Decimal
  PROVE  Saturated(digits, top) \in Counts(top)
<1> DEFINE N == Len(digits)
           A == Counts(top)
           zero == [value |-> 0, more |-> FALSE]
           Solves(V) == V = [n \in 0 .. N |-> IF n = 0 THEN zero
                                              ELSE NextCount(V[n - 1], digits[n] - Zero, top)]
           step == [n \in 1 .. N |-> [v \in A |-> NextCount(v, digits[n] - Zero, top)]]
<1>1. zero \in A
  BY DEF Counts
<1>2. \A n \in 1 .. N : \A v \in A : NextCount(v, digits[n] - Zero, top) \in A
  <2> SUFFICES ASSUME NEW n \in 1 .. N, NEW v \in A PROVE NextCount(v, digits[n] - Zero, top) \in A
    OBVIOUS
  <2> DEFINE d == digits[n] - Zero
             x == v.value
  <2>1. d \in Nat /\ d <= 9
    BY DEF Decimal, Zero
  <2>2. x \in Nat /\ x <= top
    BY DEF Counts
  <2> HIDE DEF d, x
  <2>3. ~(x > (top - d) \div 10) => 10 * x + d \in 0 .. top
    BY <2>1, <2>2
  <2>4. [value |-> top, more |-> TRUE] \in A
    BY DEF Counts
  <2>5. ~(x > (top - d) \div 10) => [value |-> 10 * x + d, more |-> FALSE] \in A
    BY <2>3 DEF Counts
  <2> HIDE DEF A
  <2>6. NextCount(v, d, top) \in A
    BY <2>4, <2>5 DEF NextCount, x
  <2>7. QED BY <2>6 DEF d
<1>3. step \in [1 .. N -> [A -> A]]
  <2> HIDE DEF A
  <2>1. QED BY <1>2
<1>4. PICK f : IsIteration(f, N, A, zero, step)
  <2>1. N \in Nat
    OBVIOUS
  <2> HIDE DEF N, A, zero, step
  <2>2. QED BY <1>1, <1>3, <2>1, Iterates
<1>5. Solves(f)
  <2>1. f = [n \in 0 .. N |-> IF n = 0 THEN zero ELSE step[n][f[n - 1]]]
    <3> HIDE DEF N, A, zero, step
    <3>1. N \in Nat
      BY DEF N
    <3>2. QED BY <1>4, <3>1, IterationSolves
  <2>2. ASSUME NEW n \in 0 .. N, n # 0
        PROVE  step[n][f[n - 1]] = NextCount(f[n - 1], digits[n] - Zero, top)
    <3>1. n \in 1 .. N /\ f[n - 1] \in A
      <4> HIDE DEF A
      <4>1. QED BY <1>4, <2>2 DEF IsIteration
    <3> HIDE DEF A
    <3>2. QED BY <3>1
  <2> HIDE DEF step, zero, A
  <2>3. QED BY <2>1, <2>2
<1>6. Saturated(digits, top) = (CHOOSE V : Solves(V))[N]
  BY Zenon DEF Saturated, NextCount
<1> HIDE DEF step, zero, A
<1>7. Solves(CHOOSE V : Solves(V))
  BY <1>5, Zenon
<1> DEFINE V == CHOOSE W : Solves(W)
<1>8. \A n \in 0 .. N : V[n] = IF n = 0 THEN zero ELSE NextCount(V[n - 1], digits[n] - Zero, top)
  <2> HIDE DEF V
  <2>1. QED BY <1>7, Zenon DEF V
<1> HIDE DEF V, Solves
<1>9. \A n \in 0 .. N : V[n] \in A
  <2>1. N \in Nat /\ V[0] \in A
    BY <1>1, <1>8
  <2>2. ASSUME NEW n \in 1 .. N, V[n - 1] \in A PROVE V[n] \in A
    <3>1. n \in 0 .. N /\ n # 0
      OBVIOUS
    <3>2. QED BY <1>2, <1>8, <2>2, <3>1
  <2> HIDE DEF N
  <2>3. QED BY <2>1, <2>2, StaysIn
<1>10. QED BY <1>6, <1>9 DEF V, A

\* Elements of a part of a sequence are among those of the sequence.
LEMMA PartIn ==
  ASSUME NEW T, NEW s \in Seq(T), NEW a \in Nat, NEW n \in Nat, a >= 1, a + n - 1 <= Len(s),
         NEW S, \A k \in a .. a + n - 1 : s[k] \in S
  PROVE  SubSeq(s, a, a + n - 1) \in Seq(S) /\ Len(SubSeq(s, a, a + n - 1)) = n
<1>1. Len(SubSeq(s, a, a + n - 1)) = n
  OBVIOUS
<1>2. \A i \in 1 .. n : SubSeq(s, a, a + n - 1)[i] = s[a + i - 1]
  OBVIOUS
<1>3. \A i \in 1 .. n : SubSeq(s, a, a + n - 1)[i] \in S
  <2> TAKE i \in 1 .. n
  <2>1. a + i - 1 \in a .. a + n - 1
    OBVIOUS
  <2>2. QED BY <1>2, <2>1
<1>4. SubSeq(s, a, a + n - 1) = [i \in 1 .. n |-> SubSeq(s, a, a + n - 1)[i]]
  BY <1>1
<1>5. QED BY <1>1, <1>3, <1>4

\* strtod reads no further than the text, and finds digits and an exponent.
LEMMA StrtodFacts ==
  ASSUME NEW T, NEW s \in Seq(T)
  PROVE  /\ Strtod(s).length \in 0 .. Len(s)
         /\ Strtod(s).digits \in Seq(Decimal)
         /\ Strtod(s).point \in Int
<1> DEFINE sign  == IF IsAt(s, 1, {Minus, Plus}) THEN 1 ELSE 0
           whole == Span(s, sign + 1, Decimal)
           point == IF IsAt(s, sign + whole + 1, {Point}) THEN 1 ELSE 0
           frac  == IF point = 1 THEN Span(s, sign + whole + 2, Decimal) ELSE 0
           base  == sign + whole + point + frac
           esign == IF IsAt(s, base + 2, {Minus, Plus}) THEN 1 ELSE 0
           edigs == IF IsAt(s, base + 1, LetterE) THEN Span(s, base + 2 + esign, Decimal) ELSE 0
           exponent == SubSeq(s, base + 2 + esign, base + 1 + esign + edigs)
           power == Saturated(exponent, 99).value
           first == SubSeq(s, sign + 1, sign + whole)
           second == SubSeq(s, sign + whole + point + 1, base)
<1>1. Strtod(s) =
        [length   |-> IF whole + frac = 0 THEN 0 ELSE IF edigs = 0 THEN base ELSE base + 1 + esign + edigs,
         negative |-> IsAt(s, 1, {Minus}),
         digits   |-> first \o second,
         point    |-> whole + (IF edigs = 0 THEN 0 ELSE IF IsAt(s, base + 2, {Minus}) THEN -power ELSE power)]
  BY Zenon DEF Strtod
<1>2. Len(s) \in Nat /\ \A i, S : IsAt(s, i, S) => i <= Len(s)
  BY DEF IsAt
<1>3. sign \in 0 .. 1 /\ sign <= Len(s)
  BY <1>2
<1> HIDE DEF sign
<1>4. whole \in 0 .. Len(s) - sign /\ \A k \in sign + 1 .. sign + whole : s[k] \in Decimal
  <2>1. sign + 1 \in 1 .. Len(s) + 1
    BY <1>2, <1>3
  <2>2. /\ whole \in 0 .. Len(s) - (sign + 1) + 1
        /\ \A k \in sign + 1 .. (sign + 1) + whole - 1 : s[k] \in Decimal
    BY <1>2, <2>1, SpanEnds
  <2> HIDE DEF whole
  <2>3. Len(s) - (sign + 1) + 1 = Len(s) - sign /\ (sign + 1) + whole - 1 = sign + whole
    BY <1>2, <1>3, <2>2
  <2>4. QED BY <2>2, <2>3
<1> HIDE DEF whole
<1>5. point \in 0 .. 1 /\ sign + whole + point <= Len(s)
  BY <1>2, <1>3, <1>4
<1>6. point = 1 => sign + whole + 2 \in 1 .. Len(s) + 1 /\ sign + whole + 2 = sign + whole + point + 1
  BY <1>2, <1>3, <1>4, <1>5
<1> HIDE DEF point
<1>7. /\ frac \in Nat /\ base \in Nat /\ base <= Len(s)
      /\ \A k \in sign + whole + point + 1 .. base : s[k] \in Decimal
  <2>1. CASE point = 1
    <3>1. frac = Span(s, sign + whole + 2, Decimal)
      BY <2>1
    <3>2. /\ frac \in 0 .. Len(s) - (sign + whole + 2) + 1
          /\ \A k \in sign + whole + 2 .. (sign + whole + 2) + frac - 1 : s[k] \in Decimal
      BY <1>2, <1>6, <2>1, <3>1, SpanEnds
    <3> HIDE DEF frac
    <3>3. (sign + whole + 2) + frac - 1 = base /\ base \in Nat /\ base <= Len(s) /\ frac \in Nat
      BY <1>2, <1>3, <1>4, <2>1, <3>2
    <3>4. QED BY <1>6, <2>1, <3>2, <3>3
  <2>2. CASE point # 1
    <3>1. frac = 0
      BY <2>2
    <3> HIDE DEF frac
    <3>2. base = sign + whole + point /\ base \in Nat
      BY <1>3, <1>4, <1>5, <3>1
    <3>3. ~\E k \in Nat : k >= sign + whole + point + 1 /\ k <= base
      BY <1>3, <1>4, <1>5, <3>2
    <3>4. \A k \in sign + whole + point + 1 .. base : k \in Nat
      BY <1>3, <1>4, <1>5, <3>2
    <3>5. QED BY <1>5, <3>1, <3>2, <3>3, <3>4
  <2>3. QED BY <2>1, <2>2
<1> HIDE DEF frac
<1>8. base - (sign + whole + point) = frac /\ base = (sign + whole + point + 1) + frac - 1
  BY <1>3, <1>4, <1>5, <1>7
<1>9. first \in Seq(Decimal) /\ second \in Seq(Decimal)
  <2>1. /\ sign + 1 \in Nat /\ sign + 1 >= 1 /\ whole \in Nat /\ (sign + 1) + whole - 1 <= Len(s)
        /\ (sign + 1) + whole - 1 = sign + whole
    BY <1>2, <1>3, <1>4
  <2>2. first \in Seq(Decimal)
    <3>1. SubSeq(s, sign + 1, (sign + 1) + whole - 1) \in Seq(Decimal)
      BY <1>4, <2>1, PartIn
    <3>2. QED BY <2>1, <3>1
  <2> DEFINE a == sign + whole + point + 1
  <2>3. a \in Nat /\ a >= 1 /\ a + frac - 1 <= Len(s) /\ a + frac - 1 = base
    BY <1>3, <1>4, <1>5, <1>7, <1>8
  <2>4. \A k \in a .. a + frac - 1 : s[k] \in Decimal
    BY <1>7, <2>3
  <2> HIDE DEF a, base
  <2>5. SubSeq(s, a, a + frac - 1) \in Seq(Decimal)
    BY <1>7, <2>3, <2>4, PartIn
  <2>6. second \in Seq(Decimal)
    BY <2>3, <2>5 DEF a
  <2>7. QED BY <2>2, <2>6
<1> HIDE DEF base, first, second
<1>10. esign \in 0 .. 1 /\ (esign = 1 => base + 2 <= Len(s))
  BY <1>2, <1>7
<1> HIDE DEF esign
<1>11. /\ edigs \in Nat
       /\ edigs # 0 => base + 1 + esign + edigs <= Len(s)
       /\ \A k \in base + 2 + esign .. (base + 2 + esign) + edigs - 1 : s[k] \in Decimal
  <2>1. CASE IsAt(s, base + 1, LetterE)
    <3>1. edigs = Span(s, base + 2 + esign, Decimal) /\ base + 1 <= Len(s)
      BY <1>2, <2>1
    <3>2. base + 2 + esign \in 1 .. Len(s) + 1
      BY <1>2, <1>7, <1>10, <3>1
    <3> HIDE DEF edigs
    <3>3. /\ edigs \in 0 .. Len(s) - (base + 2 + esign) + 1
          /\ \A k \in base + 2 + esign .. (base + 2 + esign) + edigs - 1 : s[k] \in Decimal
      BY <1>2, <3>1, <3>2, SpanEnds
    <3>4. edigs \in Nat /\ base + 1 + esign + edigs <= Len(s)
      BY <1>2, <1>7, <1>10, <3>3
    <3>5. QED BY <3>3, <3>4
  <2>2. CASE ~IsAt(s, base + 1, LetterE)
    <3>1. edigs = 0
      BY <2>2
    <3> HIDE DEF edigs
    <3>2. ASSUME NEW k \in base + 2 + esign .. (base + 2 + esign) + edigs - 1 PROVE FALSE
      BY <1>7, <1>10, <3>1
    <3>3. QED BY <3>1, <3>2
  <2>3. QED BY <2>1, <2>2
<1> HIDE DEF edigs
<1>12. edigs # 0 => power \in Int
  <2> SUFFICES ASSUME edigs # 0 PROVE power \in Int
    OBVIOUS
  <2> DEFINE a == base + 2 + esign
  <2>1. a \in Nat /\ a >= 1 /\ a + edigs - 1 <= Len(s) /\ a + edigs - 1 = base + 1 + esign + edigs
    BY <1>7, <1>10, <1>11
  <2>2. \A k \in a .. a + edigs - 1 : s[k] \in Decimal
    BY <1>11
  <2> HIDE DEF a
  <2>3. SubSeq(s, a, a + edigs - 1) \in Seq(Decimal)
    BY <1>11, <2>1, <2>2, PartIn
  <2>4. exponent \in Seq(Decimal)
    BY <2>1, <2>3 DEF a
  <2> HIDE DEF exponent
  <2>5. Len(exponent) \in Nat /\ \A n \in 1 .. Len(exponent) : exponent[n] \in Decimal
    BY <2>4
  <2> DEFINE top == 99
  <2>6. top \in Nat
    OBVIOUS
  <2> HIDE DEF top
  <2>7. Saturated(exponent, top) \in Counts(top)
    BY <2>5, <2>6, SaturatedRange
  <2>8. Saturated(exponent, top).value \in Int
    BY <2>6, <2>7 DEF Counts
  <2>9. QED BY <2>8 DEF top
<1> HIDE DEF power, exponent
<1>13. Strtod(s).length \in 0 .. Len(s)
  <2> DEFINE n == IF whole + frac = 0 THEN 0 ELSE IF edigs = 0 THEN base ELSE base + 1 + esign + edigs
  <2>1. n \in 0 .. Len(s)
    BY <1>2, <1>7, <1>10, <1>11
  <2> HIDE DEF n
  <2>2. Strtod(s).length = n
    BY <1>1 DEF n
  <2>3. QED BY <2>1, <2>2
<1>14. Strtod(s).digits \in Seq(Decimal)
  <2>1. Strtod(s).digits = first \o second
    BY <1>1
  <2>2. QED BY <1>9, <2>1
<1>15. Strtod(s).point \in Int
  <2> DEFINE shift == IF edigs = 0 THEN 0 ELSE IF IsAt(s, base + 2, {Minus}) THEN -power ELSE power
             n == whole + shift
  <2>1. n \in Int
    <3>1. shift \in Int
      BY <1>12
    <3>2. whole \in Int
      BY <1>4
    <3> HIDE DEF shift
    <3>3. QED BY <3>1, <3>2
  <2> HIDE DEF n
  <2>2. Strtod(s).point = n
    BY <1>1 DEF n
  <2>3. QED BY <2>1, <2>2
<1>16. QED BY <1>13, <1>14, <1>15

\* (int)number stays in the range of an int.
LEMMA TruncatedRange ==
  ASSUME NEW number, number.digits \in Seq(Decimal), number.point \in Int
  PROVE  /\ Truncated(number) \in Int
         /\ IntMin <= Truncated(number) /\ Truncated(number) <= IntMax
<1> DEFINE whole == IF number.point > 0 THEN number.point ELSE 0
           digits == [i \in 1 .. whole |-> IF i <= Len(number.digits) THEN number.digits[i] ELSE Zero]
           size == Saturated(digits, IntMax)
<1>1. whole \in Nat /\ IntMax \in Nat
  BY Sizes
<1>2. Len(digits) = whole /\ \A n \in 1 .. whole : digits[n] \in Decimal
  <2>1. Zero \in Decimal /\ Len(number.digits) \in Nat
    BY DEF Decimal, Zero
  <2>2. \A n \in 1 .. Len(number.digits) : number.digits[n] \in Decimal
    OBVIOUS
  <2> HIDE DEF whole
  <2>3. QED BY <1>1, <2>1, <2>2
<1> HIDE DEF whole, digits
<1>3. size \in Counts(IntMax)
  BY <1>1, <1>2, SaturatedRange
<1>4. size.value \in Nat /\ size.value <= IntMax
  BY <1>1, <1>3 DEF Counts
<1>5. Truncated(number) = IF ~number.negative THEN size.value ELSE IF size.more THEN IntMin ELSE -size.value
  BY Zenon DEF Truncated, digits, whole
<1>6. Truncated(number) \in {size.value, IntMin, -size.value}
  BY <1>5, Zenon
<1> DEFINE v == size.value
<1> HIDE DEF size
<1>7. v \in Nat /\ v <= IntMax /\ IntMin = -IntMax - 1
  BY <1>4 DEF IntMin
<1> HIDE DEF v
<1>8. Truncated(number) \in {v, IntMin, -v}
  BY <1>6 DEF v
<1>9. QED BY <1>1, <1>7, <1>8

\* The number that is read is in range, and its end in the buffer.
LEMMA NumberFacts ==
  ASSUME ValueInv, ParseNumber
  PROVE  /\ valueint' \in Int /\ IntMin <= valueint' /\ valueint' <= IntMax
         /\ offset' \in 0 .. Length - 1
         /\ UNCHANGED <<text, input_end, input_pointer, skipped_bytes, allocated, output, setting, printed>>
         /\ \/ at' = "failed" /\ type' = type
            \/ at' = "parsed" /\ type' = "number"
<1> DEFINE run    == Span(text, 1, NumberBytes)
           taken  == IF run < NumberSize THEN run ELSE NumberSize - 1
           number == Strtod(SubSeq(text, 1, taken))
<1>1. /\ IF number.length = 0 THEN at' = "failed" /\ UNCHANGED <<type, valueint, offset>>
         ELSE /\ type' = "number" /\ valueint' = Truncated(number)
              /\ offset' = number.length /\ at' = "parsed"
      /\ UNCHANGED <<text, input_end, input_pointer, skipped_bytes, allocated, output, setting, printed>>
  BY Zenon DEF ParseNumber
<1>2. Len(text) \in Nat /\ Len(text) >= 1 /\ Length = Len(text) /\ text \in Seq(Octet) /\ text[Len(text)] = NUL
  BY DEF ValueInv, Terminated, Length
<1>3. run \in 0 .. Len(text) /\ \A k \in 1 .. run : text[k] \in NumberBytes
  <2>1. 1 \in 1 .. Len(text) + 1
    BY <1>2
  <2>2. run \in 0 .. Len(text) - 1 + 1 /\ \A k \in 1 .. 1 + run - 1 : text[k] \in NumberBytes
    BY <1>2, <2>1, SpanEnds
  <2> HIDE DEF run
  <2>3. Len(text) - 1 + 1 = Len(text) /\ 1 + run - 1 = run
    BY <1>2, <2>2
  <2>4. QED BY <2>2, <2>3
<1> HIDE DEF run
<1>4. run <= Len(text) - 1
  <2>1. NUL \notin NumberBytes
    BY DEF NumberBytes, NUL, Decimal, Zero, Minus, Plus, Point, LetterE
  <2>2. run # Len(text)
    BY <1>2, <1>3, <2>1
  <2>3. QED BY <1>2, <1>3, <2>2
<1>5. taken \in Nat /\ taken <= Len(text) - 1
  BY <1>3, <1>4, Sizes
<1> HIDE DEF taken
<1>6. SubSeq(text, 1, taken) \in Seq(Octet) /\ Len(SubSeq(text, 1, taken)) = taken
  BY <1>2, <1>5
<1>7. /\ number.length \in 0 .. taken /\ number.digits \in Seq(Decimal) /\ number.point \in Int
  BY <1>6, StrtodFacts
<1> HIDE DEF number
<1>8. /\ Truncated(number) \in Int /\ IntMin <= Truncated(number) /\ Truncated(number) <= IntMax
  BY <1>7, TruncatedRange
<1>9. number.length \in 0 .. Length - 1
  BY <1>2, <1>5, <1>7
<1>10. CASE number.length = 0
  BY <1>1, <1>10 DEF ValueInv
<1>11. CASE number.length # 0
  BY <1>1, <1>8, <1>9, <1>11
<1>12. QED BY <1>10, <1>11

\* Ten divisions by ten leave nothing of an int, and 0 needs none.
LEMMA DigitCountRange ==
  ASSUME NEW n \in Nat, n <= IntMax
  PROVE  DigitCount(n) \in 0 .. 10 /\ (n = 0 => DigitCount(n) = 0)
<1> DEFINE Solves(f) == f = [k \in 0 .. 10 |-> IF k = 0 THEN n ELSE f[k - 1] \div 10]
           C == CHOOSE f : Solves(f)
           Stops == {k \in 0 .. 10 : C[k] = 0}
           IsCount(k) == C[k] = 0 /\ \A j \in 0 .. k - 1 : C[j] # 0
<1>1. \E f : Solves(f)
  <2>1. 10 \in Nat /\ 10 \in {10, 64}
    OBVIOUS
  <2>2. QED BY <2>1, Divided, Zenon
<1>2. Solves(C)
  <2> HIDE DEF Solves
  <2>1. QED BY <1>1, Zenon
<1>3. DigitCount(n) = CHOOSE k \in 0 .. 10 : IsCount(k)
  BY Zenon DEF DigitCount
<1> HIDE DEF C
<1>4. \A k \in 0 .. 10 : C[k] = IF k = 0 THEN n ELSE C[k - 1] \div 10
  BY <1>2, Zenon
<1>5. C[10] = 0
  <2>1. C[0] \in Nat /\ C[0] < 10000000000
    <3>1. C[0] = n
      BY <1>4
    <3>2. n < 10000000000
      BY SMT, SizesAssumption
    <3>3. QED BY SMT, <3>1, <3>2
  <2>2. C[2] \in Nat /\ C[2] < 100000000
    <3>1. C[2] = (C[0] \div 10) \div 10
      BY <1>4
    <3>2. QED BY SMT, <2>1, <3>1
  <2>3. C[4] \in Nat /\ C[4] < 1000000
    <3>1. C[4] = (C[2] \div 10) \div 10
      BY <1>4
    <3>2. QED BY SMT, <2>2, <3>1
  <2>4. C[6] \in Nat /\ C[6] < 10000
    <3>1. C[6] = (C[4] \div 10) \div 10
      BY <1>4
    <3>2. QED BY SMT, <2>3, <3>1
  <2>5. C[8] \in Nat /\ C[8] < 100
    <3>1. C[8] = (C[6] \div 10) \div 10
      BY <1>4
    <3>2. QED BY SMT, <2>4, <3>1
  <2>6. C[10] \in Nat /\ C[10] < 1
    <3>1. C[10] = (C[8] \div 10) \div 10
      BY <1>4
    <3>2. QED BY SMT, <2>5, <3>1
  <2>7. QED BY SMT, <2>6
<1>6. PICK k \in Stops : \A j \in Stops : k <= j
  <2>1. 10 \in Stops /\ Stops \in SUBSET Nat
    BY <1>5
  <2> HIDE DEF Stops
  <2>2. QED BY <2>1, LeastNumber
<1>7. k \in 0 .. 10 /\ C[k] = 0
  OBVIOUS
<1>8. ASSUME NEW j \in 0 .. k - 1 PROVE C[j] # 0
  <2>1. j \in 0 .. 10 /\ ~(k <= j)
    BY <1>7
  <2>2. j \notin Stops
    BY <1>6, <2>1
  <2>3. QED BY <2>1, <2>2
<1>9. IsCount(k)
  BY <1>7, <1>8
<1>10. DigitCount(n) \in 0 .. 10 /\ IsCount(DigitCount(n))
  <2> HIDE DEF IsCount
  <2>1. QED BY <1>3, <1>7, <1>9
<1>11. ASSUME n = 0 PROVE DigitCount(n) = 0
  <2>1. C[0] = 0
    BY <1>4, <1>11
  <2>2. ~(0 \in 0 .. DigitCount(n) - 1)
    BY <1>10, <2>1
  <2>3. QED BY <1>10, <2>2
<1>12. QED BY <1>10, <1>11

\* The digits of a number from 0 on, and the block int_to_string takes for them.
LEMMA SettingFits ==
  ASSUME NEW n \in Nat, n <= IntMax
  PROVE  Len(Formatted(n)) + 1 <= DigitCount(n) + 1 <=> n # 0
<1> DEFINE count == IF n = 0 THEN 1 ELSE DigitCount(n)
<1>1. DigitCount(n) \in Nat /\ (n = 0 => DigitCount(n) = 0)
  BY DigitCountRange
<1>2. count \in Nat
  BY <1>1
<1> DEFINE R == CHOOSE Rest : Rest = [k \in 0 .. count |-> IF k = 0 THEN n ELSE Rest[k - 1] \div 10]
<1>3. Formatted(n) = [i \in 1 .. count |-> Zero + (R[count - i] % 10)]
  BY Zenon DEF Formatted
<1> HIDE DEF count, R
<1>4. Len(Formatted(n)) = count
  BY <1>2, <1>3
<1>5. QED BY <1>1, <1>4 DEF count

-----------------------------------------------------------------------------
(* The invariant is inductive *)

LEMMA WordFacts ==
  ASSUME NEW w \in DOMAIN Word
  PROVE  /\ w \notin {"none", "number", "string"}
         /\ Len(Word[w]) \in Nat /\ Len(Word[w]) >= 1
         /\ Word[w][1] # Quote /\ Word[w][Len(Word[w])] # NUL
<1>1. w \in {"null", "false", "true"}
  BY DEF Word
<1>2. Word["null"] = <<110, 117, 108, 108>>
  BY DEF Word
<1>3. Word["false"] = <<102, 97, 108, 115, 101>>
  BY DEF Word
<1>4. Word["true"] = <<116, 114, 117, 101>>
  BY DEF Word
<1>5. Quote = 34 /\ NUL = 0
  BY DEF Quote, NUL
<1>6. CASE w = "null"
  <2>1. Len(Word[w]) = 4 /\ Word[w][1] = 110 /\ Word[w][4] = 108
    BY <1>2, <1>6
  <2>2. QED BY <1>5, <1>6, <2>1
<1>7. CASE w = "false"
  <2>1. Len(Word[w]) = 5 /\ Word[w][1] = 102 /\ Word[w][5] = 101
    BY <1>3, <1>7
  <2>2. QED BY <1>5, <1>7, <2>1
<1>8. CASE w = "true"
  <2>1. Len(Word[w]) = 4 /\ Word[w][1] = 116 /\ Word[w][4] = 101
    BY <1>4, <1>8
  <2>2. QED BY <1>5, <1>8, <2>1
<1>9. QED BY <1>1, <1>6, <1>7, <1>8

LEMMA WordStarts ==
  ASSUME Terminated(text), NEW w \in DOMAIN Word, Starts(w)
  PROVE  text[1] # Quote /\ Len(Word[w]) \in 0 .. Length - 1
<1>1. Len(Word[w]) \in Nat /\ Len(Word[w]) >= 1
  BY WordFacts
<1>2. Len(text) \in Nat /\ text \in Seq(Octet) /\ text[Len(text)] = NUL
  BY DEF Terminated
<1>3. Len(Word[w]) <= Len(text) /\ SubSeq(text, 1, Len(Word[w])) = Word[w]
  BY DEF Starts, Length
<1> DEFINE n == Len(Word[w])
<1> HIDE DEF n
<1>4. n \in Nat /\ n >= 1 /\ n <= Len(text)
  BY <1>1, <1>3 DEF n
<1>5. SubSeq(text, 1, n)[1] = text[1] /\ SubSeq(text, 1, n)[n] = text[n]
  BY <1>2, <1>4
<1>6. Word[w][1] # Quote /\ Word[w][n] # NUL /\ SubSeq(text, 1, n) = Word[w]
  BY <1>3, WordFacts DEF n
<1>7. n # Len(text)
  BY <1>2, <1>5, <1>6
<1>8. n \in 0 .. Length - 1
  BY <1>2, <1>4, <1>7 DEF Length
<1>9. QED BY <1>5, <1>6, <1>8 DEF n

\* The first step of a value that is no string.
LEMMA OtherKeeps ==
  ASSUME IInv, at = "value", text[1] # Quote,
         UNCHANGED <<text, input_end, input_pointer, skipped_bytes, allocated, output, setting>>,
         offset' \in 0 .. Length - 1,
         valueint' \in Int, IntMin <= valueint', valueint' <= IntMax,
         \/ at' = "failed" /\ type' = type
         \/ at' = "parsed" /\ type' \in {"number"} \cup DOMAIN Word
  PROVE  IInv'
<1>1. ValueInv /\ Untouched
  BY DEF IInv
<1>2. Terminated(text') /\ Length' = Length
  BY <1>1 DEF ValueInv, Length
<1>3. ValueInv'
  <2>1. type = "none"
    BY <1>1 DEF ValueInv, NoneYet
  <2>2. CASE at' = "failed" /\ type' = type
    BY <1>2, <2>1, <2>2 DEF ValueInv, NoneYet, IntMin
  <2>3. CASE at' = "parsed" /\ type' \in {"number"} \cup DOMAIN Word
    <3>1. type' # "none"
      BY <2>3, WordFacts
    <3>2. QED BY <1>2, <2>3, <3>1 DEF ValueInv, NoneYet, IntMin
  <2>4. QED BY <2>2, <2>3
<1>4. Untouched'
  <2>1. type' # "string"
    BY <1>1, WordFacts DEF Untouched
  <2>2. at' \notin {"scan", "copy", "fail", "starved"}
    OBVIOUS
  <2>3. QED BY <1>1, <2>1, <2>2 DEF Untouched
<1>5. OnlyZeroIsTooLong'
  BY DEF OnlyZeroIsTooLong
<1>6. QED BY <1>3, <1>4, <1>5, Zenon DEF IInv

\* The steps of parse_string leave the value to be.
LEMMA StringValue ==
  ASSUME ValueInv, StringInv, text[1] = Quote, StringStep
  PROVE  ValueInv' /\ text' = text
<1>1. ParseString /\ type' = (IF at' = "parsed" THEN "string" ELSE type) /\ UNCHANGED <<valueint, setting, printed>>
  BY Zenon DEF StringStep
<1>2. /\ at \in {"scan", "copy", "fail"} /\ text' = text
      /\ at' \in {"scan", "copy", "fail", "failed", "starved", "parsed"}
      /\ offset' \in {offset, input_pointer, input_end + 1}
      /\ offset' = input_end + 1 => (at' = "parsed" /\ at = "copy") \/ offset' \in {offset, input_pointer}
  <2>1. CASE Scan
    BY <2>1 DEF Scan
  <2>2. CASE Unterminated
    BY <2>2 DEF Unterminated
  <2>3. CASE Allocate
    BY <2>3 DEF Allocate
  <2>4. CASE OutOfMemory
    BY <2>4 DEF OutOfMemory
  <2>5. CASE Copy
    BY <2>5 DEF Copy
  <2>6. CASE CopyEscape
    BY <2>6, Zenon DEF CopyEscape
  <2>7. CASE CopyUnicode
    <3>1. /\ at = "copy" /\ text' = text /\ offset' = offset
          /\ IF Literal(input_pointer).length = 0 THEN at' = "fail" ELSE at' = at
      BY <2>7, Zenon DEF CopyUnicode
    <3>2. at' \in {"copy", "fail"}
      BY <3>1, Zenon
    <3>3. QED BY <3>1, <3>2
  <2>8. CASE UnknownEscape
    BY <2>8 DEF UnknownEscape
  <2>9. CASE Terminate
    BY <2>9 DEF Terminate
  <2>10. CASE Fail
    BY <2>10 DEF Fail
  <2>11. QED BY <1>1, <2>1, <2>2, <2>3, <2>4, <2>5, <2>6, <2>7, <2>8, <2>9, <2>10 DEF ParseString
<1>3. type = "none" /\ Terminated(text) /\ offset \in 0 .. Length - 1
  BY <1>2 DEF ValueInv, NoneYet
<1>4. Length \in Nat /\ Length >= 1 /\ \A i \in 0 .. Length - 1 : Byte(i) = NUL <=> i = Length - 1
  BY <1>3, TextFacts
<1>5. offset' \in 0 .. Length - 1
  <2>1. input_pointer \in 1 .. Length - 1
    BY DEF StringInv, SecondPass
  <2>2. at = "copy" => input_end + 1 \in 0 .. Length - 1
    <3>1. at = "copy" => input_end \in 1 .. Length - 1 /\ Byte(input_end) # NUL
      BY <1>4 DEF StringInv, FirstPass, Closed, Quote, NUL
    <3>2. QED BY <1>4, <3>1
  <2>3. QED BY <1>2, <1>3, <2>1, <2>2
<1>6. Terminated(text') /\ Length' = Length /\ valueint' = valueint
  BY <1>1, <1>2, <1>3 DEF Length
<1>7. type' = IF at' = "parsed" THEN "string" ELSE "none"
  BY <1>1, <1>3
<1>8. QED BY <1>2, <1>5, <1>6, <1>7 DEF ValueInv, NoneYet, IntMin

LEMMA StringStepKeeps ==
  ASSUME IInv, text[1] = Quote, StringStep
  PROVE  IInv'
<1>1. ParseString /\ type' = (IF at' = "parsed" THEN "string" ELSE type) /\ UNCHANGED <<valueint, setting, printed>>
  BY Zenon DEF StringStep
<1>2. ValueInv /\ StringInv
  BY DEF IInv
<1>3. ValueInv' /\ text' = text
  BY <1>2, StringValue
<1>4. at' # "set" /\ (Terminate \/ at' # "parsed") /\ (Terminate => at' = "parsed")
  BY <1>1 DEF ParseString, Scan, Unterminated, Allocate, OutOfMemory, Copy, CopyEscape, CopyUnicode, UnknownEscape,
              Terminate, Fail
<1>5. StringInv'
  <2>1. CASE ~Terminate
    <3>1. type' = type
      BY <1>1, <1>4, <2>1
    <3>2. QED BY <1>1, <1>2, <2>1, <3>1, ScanKeeps, UnterminatedKeeps, AllocateKeeps, OutOfMemoryKeeps, CopyKeeps,
                 CopyEscapeKeeps, CopyUnicodeKeeps, UnknownEscapeKeeps, FailKeeps, Zenon DEF ParseString
  <2>2. CASE Terminate
    <3>1. type' = "string"
      BY <1>1, <1>4, <2>2
    <3>2. QED BY <1>2, <2>2, <3>1, TerminateKeeps
  <2>3. QED BY <2>1, <2>2
<1>6. OnlyZeroIsTooLong'
  BY <1>4 DEF OnlyZeroIsTooLong
<1>7. QED BY <1>3, <1>5, <1>6 DEF IInv

\* A string, of a text or not, stays what it is.
LEMMA StringRestKept ==
  ASSUME StringInv \/ Untouched, UNCHANGED <<stringRest, type>>, at' \notin {"value", "scan", "copy"},
         at \notin NoneYet, at' \notin NoneYet
  PROVE  (StringInv => StringInv') /\ (Untouched => Untouched')
<1>1. /\ UNCHANGED <<text, input_end, input_pointer, skipped_bytes, allocated, output, offset, type>>
  BY DEF stringRest
<1>2. StringInv => StringInv'
  <2> SUFFICES ASSUME StringInv PROVE StringInv'
    OBVIOUS
  <2>1. FirstPass'
    BY <1>1 DEF StringInv, FirstPass, Length, Byte
  <2>2. SecondPass'
    BY <1>1 DEF StringInv, SecondPass, Length
  <2>3. Closed => Closed'
    BY <1>1 DEF Closed, Length, Byte
  <2>4. QED BY <1>1, <2>1, <2>2, <2>3 DEF StringInv, Length, NoneYet
<1>3. Untouched => Untouched'
  BY <1>1 DEF Untouched, NoneYet
<1>4. QED BY <1>2, <1>3

LEMMA NextKeeps ==
  ASSUME IInv, [Next]_vars
  PROVE  IInv'
<1>1. ValueInv /\ Terminated(text)
  BY DEF IInv, ValueInv
<1>2. Length \in Nat /\ Length >= 1 /\ Byte(0) = text[1]
  BY <1>1, TextFacts DEF Byte
<1>3. ASSUME NEW w \in DOMAIN Word, ParseWord(w) PROVE IInv'
  <2>1. /\ at = "value" /\ Starts(w)
        /\ type' = w /\ valueint' = (IF w = "true" THEN 1 ELSE 0)
        /\ offset' = Len(Word[w]) /\ at' = "parsed"
        /\ UNCHANGED <<text, input_end, input_pointer, skipped_bytes, allocated, output, setting>>
    BY <1>3 DEF ParseWord
  <2>2. text[1] # Quote /\ offset' \in 0 .. Length - 1
    BY <1>1, <2>1, WordStarts
  <2>3. valueint' \in 0 .. 1
    BY <2>1
  <2>4. valueint' \in Int /\ IntMin <= valueint' /\ valueint' <= IntMax
    BY <2>3, Sizes DEF IntMin
  <2>5. QED BY <2>1, <2>2, <2>4, OtherKeeps
<1>4. CASE ParseNumber
  <2>1. at = "value" /\ Byte(0) \in Decimal \cup {Minus}
    BY <1>4 DEF ParseNumber
  <2>2. text[1] # Quote
    BY <1>2, <2>1 DEF Decimal, Zero, Minus, Quote
  <2>3. /\ valueint' \in Int /\ IntMin <= valueint' /\ valueint' <= IntMax
        /\ offset' \in 0 .. Length - 1
        /\ UNCHANGED <<text, input_end, input_pointer, skipped_bytes, allocated, output, setting>>
        /\ \/ at' = "failed" /\ type' = type
           \/ at' = "parsed" /\ type' = "number"
    BY <1>1, <1>4, NumberFacts
  <2>4. QED BY <2>1, <2>2, <2>3, OtherKeeps
<1>5. CASE NoValue
  <2>1. /\ at = "value" /\ Byte(0) \notin Decimal \cup {Minus, Quote} /\ at' = "failed"
        /\ UNCHANGED <<text, input_end, input_pointer, skipped_bytes, allocated, output, offset, type, valueint,
                       setting>>
    BY <1>5 DEF NoValue
  <2>2. text[1] # Quote
    BY <1>2, <2>1
  <2>3. /\ valueint' \in Int /\ IntMin <= valueint' /\ valueint' <= IntMax
        /\ offset' \in 0 .. Length - 1
    BY <1>1, <2>1 DEF ValueInv
  <2>4. QED BY <2>1, <2>2, <2>3, OtherKeeps
<1>6. CASE StartString
  <2>1. /\ at = "value" /\ Byte(0) = Quote /\ at' = "scan"
        /\ UNCHANGED <<text, input_end, input_pointer, skipped_bytes, allocated, output, offset, type, valueint,
                       setting>>
    BY <1>6 DEF StartString
  <2>2. text[1] = Quote /\ StringInv /\ text'[1] = Quote
    BY <1>2, <2>1 DEF IInv
  <2>3. ValueInv'
    BY <1>1, <2>1 DEF ValueInv, NoneYet, Length, IntMin
  <2>4. StringInv'
    <3>1. type = "none"
      BY <1>1, <2>1 DEF ValueInv, NoneYet
    <3>2. FirstPass'
      BY <2>1, <2>2 DEF StringInv, FirstPass, Length, Byte
    <3>3. SecondPass'
      BY <2>1, <2>2 DEF StringInv, SecondPass, Length
    <3>4. QED BY <2>1, <2>2, <3>1, <3>2, <3>3 DEF StringInv, Length
  <2>5. OnlyZeroIsTooLong'
    BY <2>1 DEF OnlyZeroIsTooLong
  <2>6. QED BY <2>2, <2>3, <2>4, <2>5 DEF IInv
<1>7. CASE StringStep
  <2>1. at \in {"scan", "copy", "fail"}
    <3>1. ParseString
      BY <1>7, Zenon DEF StringStep
    <3>2. QED BY <3>1 DEF ParseString, Scan, Unterminated, Allocate, OutOfMemory, Copy, CopyEscape, CopyUnicode,
                          UnknownEscape, Terminate, Fail
  <2>2. CASE text[1] = Quote
    BY <1>7, <2>2, StringStepKeeps
  <2>3. CASE text[1] # Quote
    <3>1. Untouched
      BY <2>3 DEF IInv
    <3>2. /\ at = "fail" /\ Fail
      <4>1. at = "fail" \/ at = "copy"
        BY <2>1, <3>1 DEF Untouched
      <4>2. QED BY <3>1, <4>1 DEF Untouched
    <3>3. QED BY <3>1, <3>2 DEF Untouched
  <2>4. QED BY <2>2, <2>3
<1>8. CASE IntToString
  <2>1. /\ at = "parsed" /\ type = "number"
        /\ IF valueint < 0 THEN at' = "fatal" /\ UNCHANGED setting
           ELSE /\ setting' = [digits |-> Formatted(valueint), size |-> DigitCount(valueint) + 1]
                /\ at' = "set"
        /\ UNCHANGED <<stringRest, type, valueint>>
    BY <1>8, Zenon DEF IntToString
  <2>2. at' \in {"set", "fatal"}
    BY <2>1
  <2>3. ValueInv'
    BY <1>1, <2>1, <2>2 DEF ValueInv, NoneYet, Length, IntMin, stringRest
  <2>4. IF text'[1] = Quote THEN StringInv' ELSE Untouched'
    <3>1. text' = text /\ at \notin NoneYet /\ at' \notin NoneYet /\ at' \notin {"value", "scan", "copy"}
      BY <2>1, <2>2 DEF stringRest, NoneYet
    <3>2. IF text[1] = Quote THEN StringInv ELSE Untouched
      BY Zenon DEF IInv
    <3>3. QED BY <2>1, <3>1, <3>2, StringRestKept
  <2>5. OnlyZeroIsTooLong'
    <3>1. CASE at' = "set"
      <4>1. ~(valueint < 0) /\ valueint \in Nat /\ valueint <= IntMax /\ valueint' = valueint
        BY <1>1, <2>1, <3>1 DEF ValueInv
      <4>2. setting' = [digits |-> Formatted(valueint), size |-> DigitCount(valueint) + 1]
        BY <2>1, <4>1
      <4>3. Len(Formatted(valueint)) + 1 <= DigitCount(valueint) + 1 <=> valueint # 0
        BY <4>1, SettingFits
      <4>4. setting'.digits = Formatted(valueint) /\ setting'.size = DigitCount(valueint) + 1
        BY <4>2
      <4>5. QED BY <4>1, <4>3, <4>4 DEF OnlyZeroIsTooLong
    <3>2. CASE at' # "set"
      BY <3>2 DEF OnlyZeroIsTooLong
    <3>3. QED BY <3>1, <3>2
  <2>6. QED BY <2>3, <2>4, <2>5 DEF IInv
<1>9. CASE PrintString
  <2>1. at = "parsed" /\ type = "string" /\ at' = "printed" /\ UNCHANGED <<stringRest, type, valueint, setting>>
    BY <1>9, Zenon DEF PrintString
  <2>2. ValueInv'
    BY <1>1, <2>1 DEF ValueInv, NoneYet, Length, IntMin, stringRest
  <2>3. IF text'[1] = Quote THEN StringInv' ELSE Untouched'
    <3>1. text' = text /\ at \notin NoneYet /\ at' \notin NoneYet /\ at' \notin {"value", "scan", "copy"}
      BY <2>1 DEF stringRest, NoneYet
    <3>2. IF text[1] = Quote THEN StringInv ELSE Untouched
      BY Zenon DEF IInv
    <3>3. QED BY <2>1, <3>1, <3>2, StringRestKept
  <2>4. OnlyZeroIsTooLong'
    BY <2>1 DEF OnlyZeroIsTooLong
  <2>5. QED BY <2>2, <2>3, <2>4 DEF IInv
<1>10. CASE UNCHANGED vars
  <2>1. UNCHANGED <<text, input_end, input_pointer, skipped_bytes, allocated, output, offset, at, type, valueint,
                    setting>>
    BY <1>10 DEF vars, stringVars, stringRest
  <2>2. ValueInv'
    BY <1>1, <2>1 DEF ValueInv, Length, IntMin
  <2>3. StringInv => StringInv'
    <3> SUFFICES ASSUME StringInv PROVE StringInv'
      OBVIOUS
    <3>1. FirstPass'
      BY <2>1 DEF StringInv, FirstPass, Length, Byte
    <3>2. SecondPass'
      BY <2>1 DEF StringInv, SecondPass, Length
    <3>3. Closed => Closed'
      BY <2>1 DEF Closed, Length, Byte
    <3>4. QED BY <2>1, <3>1, <3>2, <3>3 DEF StringInv, Length
  <2>4. Untouched => Untouched'
    BY <2>1 DEF Untouched
  <2>5. OnlyZeroIsTooLong'
    BY <2>1 DEF IInv, OnlyZeroIsTooLong
  <2>6. QED BY <2>1, <2>2, <2>3, <2>4, <2>5 DEF IInv
<1>11. QED BY <1>3, <1>4, <1>5, <1>6, <1>7, <1>8, <1>9, <1>10 DEF Next

\* The passes stay in the buffer, offset ends in it, and output is bytes.
THEOREM TypesHold == Spec => []TypeOK
<1>1. IInv => TypeOK
  <2> SUFFICES ASSUME IInv PROVE TypeOK
    OBVIOUS
  <2>1. ValueInv /\ (StringInv \/ Untouched)
    BY Zenon DEF IInv
  <2>2. Length \in Nat /\ Length >= 1 /\ Len(text) \in Nat /\ Length = Len(text)
    BY <2>1, TextFacts DEF ValueInv, Length
  <2>3. /\ input_end \in 1 .. Length /\ input_pointer \in 1 .. Length
        /\ skipped_bytes \in 0 .. Length /\ allocated \in 0 .. Length
        /\ output \in Seq(Octet)
    <3>1. CASE StringInv
      <4>1. input_end \in 1 .. Length /\ skipped_bytes = Skipped(text)[input_end] /\ allocated \in 0 .. Length
        BY <3>1 DEF StringInv, FirstPass
      <4>2. output \in Seq(Octet) /\ input_pointer \in 1 .. Length - 1
        BY <3>1 DEF StringInv, SecondPass
      <4>3. skipped_bytes \in Nat /\ skipped_bytes <= input_end
        <5>1. input_end \in 0 .. Len(text)
          BY <2>2, <4>1
        <5>2. QED BY <2>2, <4>1, <5>1, PassBound
      <4>4. QED BY <2>2, <4>1, <4>2, <4>3
    <3>2. CASE Untouched
      <4>1. <<>> \in Seq(Octet)
        OBVIOUS
      <4>2. QED BY <2>2, <3>2, <4>1 DEF Untouched
    <3>3. QED BY <2>1, <3>1, <3>2
  <2>4. \A i \in 1 .. Len(output) : output[i] \in 0 .. 255
    <3>1. \A i \in 1 .. Len(output) : output[i] \in Octet
      BY <2>3
    <3>2. QED BY <3>1, Zenon DEF Octet
  <2>5. QED BY <2>1, <2>3, <2>4 DEF TypeOK, ValueInv, NoneYet
<1>2. QED BY <1>1, InitInv, NextKeeps, PTL DEF Spec

\* The second pass of parse_string writes into the block the first one sized, and a
\* rejected string leaves none.
THEOREM BlocksAreLargeEnough == Spec => []BlocksFit
<1>1. IInv => BlocksFit
  <2> SUFFICES ASSUME IInv PROVE BlocksFit
    OBVIOUS
  <2>1. ValueInv
    BY DEF IInv
  <2>2. Length \in Nat /\ Len(text) \in Nat /\ Length = Len(text)
    BY <2>1, TextFacts DEF ValueInv, Length
  <2>3. OutputFits /\ FailureFrees
    <3>1. CASE text[1] = Quote
      <4>1. StringInv
        BY <3>1 DEF IInv
      <4>2. FailureFrees
        BY <4>1 DEF FailureFrees, StringInv
      <4>3. at = "parsed" => Len(output) <= allocated
        BY <2>1, <4>1 DEF StringInv, ValueInv, NoneYet
      <4>4. at = "copy" => Len(output) + 1 <= allocated
        BY <2>1, <4>1, RoomForNUL
      <4>5. QED BY <4>2, <4>3, <4>4 DEF OutputFits
    <3>2. CASE text[1] # Quote
      <4>1. Untouched
        BY <3>2 DEF IInv
      <4>2. at # "copy" /\ allocated = 0 /\ Len(output) = 0
        BY <4>1 DEF Untouched
      <4>3. QED BY <4>2 DEF OutputFits, FailureFrees
    <3>3. QED BY <3>1, <3>2
  <2>4. QED BY <2>3 DEF BlocksFit
<1>2. QED BY <1>1, InitInv, NextKeeps, PTL DEF Spec

\* sprintf writes beyond the block of int_to_string for 0, whose digit the loop does not
\* count, and for no other int.
THEOREM OnlyZeroOverflows == Spec => []OnlyZeroIsTooLong
<1>1. IInv => OnlyZeroIsTooLong
  BY Zenon DEF IInv
<1>2. QED BY <1>1, InitInv, NextKeeps, PTL DEF Spec

-----------------------------------------------------------------------------
(* What a literal means *)

\* The code point of two code units, as RFC 2781 has it.
ScalarOf(first, second) == 65536 + (first - 55296) * 1024 + (second - 56320)

\* A backslash and what follows it that is no short escape.
LongEscape(t, i) == t[i] = Backslash /\ t[i + 1] \notin Itself \cup DOMAIN Escapes

\* The ways a place of a text is read, and that none of them looks beyond its end.
LEMMA MeaningSteps ==
  ASSUME NEW t, Terminated(t), NEW i \in 1 .. Len(t), NEW rest
  PROVE  /\ i = Len(t) => MeaningAt(t, i, rest) = Bad
         /\ i # Len(t) => i + 1 <= Len(t)
         /\ t[i] = Quote => MeaningAt(t, i, rest) = <<>>
         /\ i # Len(t) /\ t[i] # Quote /\ t[i] # Backslash => MeaningAt(t, i, rest) = Behind(<<t[i]>>, rest[i + 1])
         /\ t[i] = Backslash /\ t[i + 1] \in Itself =>
              MeaningAt(t, i, rest) = Behind(<<t[i + 1]>>, rest[i + 2]) /\ i + 2 <= Len(t)
         /\ t[i] = Backslash /\ t[i + 1] \in DOMAIN Escapes =>
              MeaningAt(t, i, rest) = Behind(<<Escapes[t[i + 1]]>>, rest[i + 2]) /\ i + 2 <= Len(t)
         /\ LongEscape(t, i) /\ (~IsCode(t, i) \/ Low(Unit(t, i))) => MeaningAt(t, i, rest) = Bad
         /\ LongEscape(t, i) /\ IsCode(t, i) /\ ~Low(Unit(t, i)) /\ ~High(Unit(t, i)) =>
              MeaningAt(t, i, rest) = Behind(Encoded(Unit(t, i)), rest[i + 6]) /\ i + 6 <= Len(t)
         /\ LongEscape(t, i) /\ IsCode(t, i) /\ ~Low(Unit(t, i)) /\ High(Unit(t, i)) =>
              IF ~IsCode(t, i + 6) \/ ~Low(Unit(t, i + 6)) THEN MeaningAt(t, i, rest) = Bad
              ELSE /\ MeaningAt(t, i, rest) = Behind(Encoded(ScalarOf(Unit(t, i), Unit(t, i + 6))), rest[i + 12])
                   /\ i + 12 <= Len(t)
<1>1. Len(t) \in Nat /\ t[Len(t)] = NUL
  BY DEF Terminated
<1>2. t[i] = Quote \/ t[i] = Backslash => i # Len(t) /\ i + 1 <= Len(t)
  BY <1>1 DEF Quote, Backslash, NUL
<1>3. Itself \cap DOMAIN Escapes = {}
  BY DEF Itself, Escapes, Quote, Backslash, Slash
<1>4. t[i] = Backslash /\ t[i + 1] \in Itself \cup DOMAIN Escapes => i + 2 <= Len(t)
  <2>1. NUL \notin Itself \cup DOMAIN Escapes
    BY DEF Itself, Escapes, Quote, Backslash, Slash, NUL
  <2>2. QED BY <1>1, <1>2, <2>1
<1>5. IsCode(t, i) => i + 6 <= Len(t)
  BY <1>1 DEF IsCode
<1>6. IsCode(t, i + 6) => i + 12 <= Len(t)
  BY <1>1 DEF IsCode
<1>7. MeaningAt(t, i, rest) =
        IF i = Len(t) THEN Bad
        ELSE IF t[i] = Quote THEN <<>>
        ELSE IF t[i] # Backslash THEN Behind(<<t[i]>>, rest[i + 1])
        ELSE IF t[i + 1] \in Itself THEN Behind(<<t[i + 1]>>, rest[i + 2])
        ELSE IF t[i + 1] \in DOMAIN Escapes THEN Behind(<<Escapes[t[i + 1]]>>, rest[i + 2])
        ELSE IF ~IsCode(t, i) \/ Low(Unit(t, i)) THEN Bad
        ELSE IF ~High(Unit(t, i)) THEN Behind(Encoded(Unit(t, i)), rest[i + 6])
        ELSE IF ~IsCode(t, i + 6) \/ ~Low(Unit(t, i + 6)) THEN Bad
        ELSE Behind(Encoded(ScalarOf(Unit(t, i), Unit(t, i + 6))), rest[i + 12])
  BY SMT DEF MeaningAt, ScalarOf
<1>8. Backslash # Quote
  BY DEF Quote, Backslash
<1>9. QED BY <1>1, <1>2, <1>3, <1>4, <1>5, <1>6, <1>7, <1>8 DEF LongEscape

\* What a place means depends on later places only.
LEMMA MeaningLocal ==
  ASSUME NEW t, Terminated(t), NEW i \in 1 .. Len(t), NEW F, NEW G, \A j \in i + 1 .. Len(t) : F[j] = G[j]
  PROVE  MeaningAt(t, i, F) = MeaningAt(t, i, G)
<1>0. Len(t) \in Nat
  BY DEF Terminated
<1>1. \A n \in Nat : n >= 1 /\ i + n <= Len(t) => F[i + n] = G[i + n]
  BY <1>0
<1>2. /\ i + 1 <= Len(t) => F[i + 1] = G[i + 1]
      /\ i + 2 <= Len(t) => F[i + 2] = G[i + 2]
      /\ i + 6 <= Len(t) => F[i + 6] = G[i + 6]
      /\ i + 12 <= Len(t) => F[i + 12] = G[i + 12]
  BY <1>1
<1>3. CASE i = Len(t) \/ t[i] = Quote \/ (t[i] # Quote /\ t[i] # Backslash)
  <2>1. CASE i = Len(t)
    BY <2>1, MeaningSteps
  <2>2. CASE t[i] = Quote
    BY <2>2, MeaningSteps
  <2>3. CASE i # Len(t) /\ t[i] # Quote /\ t[i] # Backslash
    <3>1. i + 1 <= Len(t) /\ MeaningAt(t, i, F) = Behind(<<t[i]>>, F[i + 1])
      BY <2>3, MeaningSteps
    <3>2. MeaningAt(t, i, G) = Behind(<<t[i]>>, G[i + 1])
      BY <2>3, MeaningSteps
    <3>3. QED BY <1>2, <3>1, <3>2
  <2>4. QED BY <1>3, <2>1, <2>2, <2>3
<1>4. CASE t[i] = Backslash /\ t[i + 1] \in Itself
  BY <1>2, <1>4, MeaningSteps, ZenonT(30)
<1>5. CASE t[i] = Backslash /\ t[i + 1] \in DOMAIN Escapes
  <2>1. /\ MeaningAt(t, i, F) = Behind(<<Escapes[t[i + 1]]>>, F[i + 2]) /\ i + 2 <= Len(t)
        /\ MeaningAt(t, i, G) = Behind(<<Escapes[t[i + 1]]>>, G[i + 2])
    BY <1>5, MeaningSteps
  <2>2. QED BY <1>2, <2>1
<1>6. CASE LongEscape(t, i) /\ (~IsCode(t, i) \/ Low(Unit(t, i)))
  BY <1>6, MeaningSteps
<1>7. CASE LongEscape(t, i) /\ IsCode(t, i) /\ ~Low(Unit(t, i)) /\ ~High(Unit(t, i))
  BY <1>2, <1>7, MeaningSteps, ZenonT(30)
<1>8. CASE LongEscape(t, i) /\ IsCode(t, i) /\ ~Low(Unit(t, i)) /\ High(Unit(t, i))
  BY <1>2, <1>8, MeaningSteps, ZenonT(30)
<1>9. QED BY <1>3, <1>4, <1>5, <1>6, <1>7, <1>8 DEF LongEscape

\* Every text has a meaning, place by place.
LEMMA MeaningUnfolds ==
  ASSUME NEW t, Terminated(t)
  PROVE  \A i \in 1 .. Len(t) : Meaning(t)[i] = MeaningAt(t, i, Meaning(t))
<1> DEFINE N == Len(t)
           Solves(M) == M = [i \in 1 .. N |-> MeaningAt(t, i, M)]
           From(M, d) == \A i \in 1 .. N : i > N - d => M[i] = MeaningAt(t, i, M)
           solved == {d \in Nat : \E M : From(M, d)}
<1>1. N \in Nat
  BY DEF Terminated
<1>2. 0 \in solved
  <2>1. From(<<>>, 0)
    BY <1>1
  <2>2. QED BY <2>1
<1>3. ASSUME NEW d \in Nat, d \in solved PROVE d + 1 \in solved
  <2>1. PICK M : From(M, d)
    BY <1>3
  <2> DEFINE k == N - d
             G == [j \in 1 .. N |-> IF j = k THEN MeaningAt(t, k, M) ELSE M[j]]
  <2>2. \A j \in 1 .. N : (j > k => G[j] = M[j]) /\ (j = k => G[j] = MeaningAt(t, k, M))
    OBVIOUS
  <2>3. k \in Int
    BY <1>1
  <2> HIDE DEF G
  <2>4. ASSUME NEW i \in 1 .. N, i > N - (d + 1) PROVE G[i] = MeaningAt(t, i, G)
    <3>1. i >= k
      BY <1>1, <2>4
    <3>2. \A j \in i + 1 .. N : M[j] = G[j]
      BY <1>1, <2>2, <2>3, <3>1
    <3>3. MeaningAt(t, i, M) = MeaningAt(t, i, G)
      BY <3>2, MeaningLocal
    <3>4. G[i] = MeaningAt(t, i, M)
      BY <1>1, <2>1, <2>2, <2>3, <3>1
    <3>5. QED BY <3>3, <3>4
  <2>5. QED BY <2>4
<1>4. \A d \in Nat : d \in solved
  <2> HIDE DEF solved
  <2>1. QED BY <1>2, <1>3, InductiveSet
<1>5. PICK M : From(M, N)
  BY <1>1, <1>4
<1> DEFINE F == [i \in 1 .. N |-> M[i]]
<1>6. Solves(F)
  <2>1. \A i \in 1 .. N : F[i] = M[i]
    OBVIOUS
  <2> HIDE DEF F
  <2>2. ASSUME NEW i \in 1 .. N PROVE M[i] = MeaningAt(t, i, F)
    <3>1. i > N - N
      BY <1>1
    <3>2. M[i] = MeaningAt(t, i, M)
      BY <1>5, <3>1
    <3>3. \A j \in i + 1 .. N : M[j] = F[j]
      BY <1>1, <2>1
    <3>4. MeaningAt(t, i, M) = MeaningAt(t, i, F)
      BY <3>3, MeaningLocal
    <3>5. QED BY <3>2, <3>4
  <2>3. [i \in 1 .. N |-> M[i]] = [i \in 1 .. N |-> MeaningAt(t, i, F)]
    BY <2>2
  <2>4. QED BY <2>3 DEF F
<1>7. Meaning(t) = CHOOSE W : Solves(W)
  BY Zenon DEF Meaning
<1> HIDE DEF F
<1>8. Solves(Meaning(t))
  <2> HIDE DEF Solves
  <2>1. QED BY <1>6, <1>7, Zenon
<1> DEFINE R == Meaning(t)
<1> HIDE DEF R
<1>9. R = [i \in 1 .. N |-> MeaningAt(t, i, R)]
  BY <1>8 DEF R
<1>10. \A i \in 1 .. N : R[i] = MeaningAt(t, i, R)
  BY <1>9, Zenon
<1>11. QED BY <1>10 DEF R

Meanings == Seq(Octet) \cup {Bad}

\* No string of bytes is Bad, and bytes are put in front of a meaning one after the other.
LEMMA BehindJoins ==
  ASSUME NEW a \in Seq(Octet), NEW b \in Seq(Octet), NEW r \in Meanings
  PROVE  /\ Behind(a, r) \in Meanings /\ Behind(a \o b, r) = Behind(a, Behind(b, r))
         /\ Behind(a, Bad) = Bad /\ Behind(<<>>, r) = r
         /\ r # Bad => r \in Seq(Octet) /\ Behind(a, r) = a \o r /\ Behind(a, r) # Bad
         /\ a # Bad
<1>1. \A s \in Seq(Octet) : s # Bad
  <2>1. ASSUME NEW s \in Seq(Octet), Len(s) = 1 PROVE s[1] \in Octet
    <3>1. \A k \in 1 .. Len(s) : s[k] \in Octet
      OBVIOUS
    <3>2. 1 \in 1 .. Len(s)
      BY <2>1
    <3>3. QED BY <3>1, <3>2
  <2>2. Len(Bad) = 1 /\ Bad[1] = 256
    BY DEF Bad
  <2>3. 256 \notin Octet
    BY SMT DEF Octet
  <2>4. QED BY <2>1, <2>2, <2>3
<1>2. CASE r = Bad
  BY <1>1, <1>2 DEF Behind, Meanings
<1>3. CASE r \in Seq(Octet)
  <2>1. r # Bad
    BY <1>1, <1>3
  <2>2. \A s \in Seq(Octet) : Behind(s, r) = s \o r /\ s \o r \in Seq(Octet)
    BY <1>3, <2>1 DEF Behind
  <2>3. b \o r \in Seq(Octet) /\ b \o r # Bad /\ a \o r # Bad
    BY <1>1, <2>2
  <2>4. Behind(a, b \o r) = a \o (b \o r)
    BY <2>3, Zenon DEF Behind
  <2>5. (a \o b) \o r = a \o (b \o r) /\ a \o b \in Seq(Octet) /\ <<>> \in Seq(Octet) /\ <<>> \o r = r
    BY <1>3
  <2>6. Behind(a \o b, r) = Behind(a, Behind(b, r))
    <3>1. Behind(a \o b, r) = (a \o b) \o r /\ Behind(b, r) = b \o r
      BY <2>2, <2>5
    <3>2. QED BY <2>4, <2>5, <3>1, Zenon
  <2>7. Behind(a, Bad) = Bad
    BY DEF Behind
  <2>8. QED BY <1>1, <1>3, <2>1, <2>2, <2>3, <2>5, <2>6, <2>7 DEF Meanings
<1>4. QED BY <1>2, <1>3 DEF Meanings

LEMMA CodeUnits ==
  ASSUME NEW t, NEW i, IsCode(t, i)
  PROVE  Unit(t, i) \in Nat /\ Unit(t, i) <= MaxUnit
<1>1. /\ t[i + 2] \in Digits /\ t[i + 3] \in Digits /\ t[i + 4] \in Digits /\ t[i + 5] \in Digits
  BY DEF IsCode
<1>2. Unit(t, i) = UnitAt(t[i + 2], t[i + 3], t[i + 4], t[i + 5])
  BY Zenon DEF Unit, UnitAt
<1>3. QED BY <1>1, <1>2, UnitRange

LEMMA PairIsScalar ==
  ASSUME NEW first \in Nat, NEW second \in Nat, High(first), Low(second)
  PROVE  /\ ScalarOf(first, second) \in Nat /\ ScalarOf(first, second) <= LastCodePoint
         /\ Pair(first, second) = ScalarOf(first, second)
<1>1. /\ 55296 <= first /\ first <= 56319
      /\ 56320 <= second /\ second <= 57343
  BY Surrogates
<1>2. first % 1024 = first - 55296 /\ second % 1024 = second - 56320
  BY SMT, <1>1
<1>3. QED BY SMT, <1>1, <1>2 DEF Pair, ScalarOf, LastCodePoint

LEMMA EncodedBytes ==
  ASSUME NEW c \in Nat, c <= LastCodePoint
  PROVE  Encoded(c) \in Seq(Octet) /\ Encoded(c) = Utf8(c)
BY Utf8IsEncoded, Utf8Bytes

LEMMA UnitsAreCodePoints ==
  ASSUME NEW u \in Nat, u <= MaxUnit
  PROVE  u <= LastCodePoint
BY SMT DEF MaxUnit, LastCodePoint

LEMMA EscapedIsByte ==
  ASSUME NEW b \in DOMAIN Escapes
  PROVE  Escapes[b] \in Octet
<1>1. Escapes[b] \in {8, 12, 10, 13, 9}
  BY DEF Escapes
<1>2. QED BY SMT, <1>1 DEF Octet

\* A place means bytes, or is not well formed.
LEMMA MeaningTyped ==
  ASSUME NEW t, Terminated(t)
  PROVE  \A i \in 1 .. Len(t) : Meaning(t)[i] \in Meanings
<1> DEFINE M == Meaning(t)
           S == {i \in 1 .. Len(t) : M[i] \in Meanings}
<1>1. Len(t) \in Nat /\ \A i \in 1 .. Len(t) : t[i] \in Octet
  BY DEF Terminated
<1>2. \A i \in 1 .. Len(t) : M[i] = MeaningAt(t, i, M)
  BY MeaningUnfolds
<1> HIDE DEF M
<1>3. \A a \in Seq(Octet), r \in Meanings : Behind(a, r) \in Meanings
  BY BehindJoins
<1>4. <<>> \in Meanings /\ Bad \in Meanings
  BY DEF Meanings
<1>5. \A b \in Octet : <<b>> \in Seq(Octet)
  OBVIOUS
<1>6. ASSUME NEW i \in 1 .. Len(t), \A j \in i + 1 .. Len(t) : j \in S PROVE i \in S
  <2>1. \A n \in Nat : n >= 1 /\ i + n <= Len(t) => M[i + n] \in Meanings
    BY <1>1, <1>6
  <2>2. /\ i + 1 <= Len(t) => M[i + 1] \in Meanings
        /\ i + 2 <= Len(t) => M[i + 2] \in Meanings
        /\ i + 6 <= Len(t) => M[i + 6] \in Meanings
        /\ i + 12 <= Len(t) => M[i + 12] \in Meanings
    BY <2>1
  <2> SUFFICES MeaningAt(t, i, M) \in Meanings
    BY <1>2
  <2>3. CASE i = Len(t) \/ t[i] = Quote
    BY <1>4, <2>3, MeaningSteps
  <2>4. CASE i # Len(t) /\ t[i] # Quote /\ t[i] # Backslash
    <3>1. i + 1 <= Len(t) /\ MeaningAt(t, i, M) = Behind(<<t[i]>>, M[i + 1])
      BY <2>4, MeaningSteps
    <3>2. QED BY <1>1, <1>3, <1>5, <2>2, <3>1
  <2>5. CASE t[i] = Backslash /\ t[i + 1] \in Itself
    <3>1. i + 2 <= Len(t) /\ MeaningAt(t, i, M) = Behind(<<t[i + 1]>>, M[i + 2])
      BY <2>5, MeaningSteps
    <3>2. t[i + 1] \in Octet
      BY <1>1, <3>1
    <3>3. QED BY <1>3, <1>5, <2>2, <3>1, <3>2
  <2>6. CASE t[i] = Backslash /\ t[i + 1] \in DOMAIN Escapes
    <3>1. i + 2 <= Len(t) /\ MeaningAt(t, i, M) = Behind(<<Escapes[t[i + 1]]>>, M[i + 2])
      BY <2>6, MeaningSteps
    <3>2. Escapes[t[i + 1]] \in Octet
      BY <2>6, EscapedIsByte
    <3>3. QED BY <1>3, <1>5, <2>2, <3>1, <3>2
  <2>7. CASE LongEscape(t, i) /\ (~IsCode(t, i) \/ Low(Unit(t, i)))
    BY <1>4, <2>7, MeaningSteps
  <2>8. CASE LongEscape(t, i) /\ IsCode(t, i) /\ ~Low(Unit(t, i)) /\ ~High(Unit(t, i))
    <3>1. i + 6 <= Len(t) /\ MeaningAt(t, i, M) = Behind(Encoded(Unit(t, i)), M[i + 6])
      BY <2>8, MeaningSteps
    <3>2. Encoded(Unit(t, i)) \in Seq(Octet)
      BY <2>8, CodeUnits, UnitsAreCodePoints, EncodedBytes
    <3>3. QED BY <1>3, <2>2, <3>1, <3>2
  <2>9. CASE LongEscape(t, i) /\ IsCode(t, i) /\ ~Low(Unit(t, i)) /\ High(Unit(t, i))
    <3>1. CASE ~IsCode(t, i + 6) \/ ~Low(Unit(t, i + 6))
      BY <1>4, <2>9, <3>1, MeaningSteps
    <3>2. CASE IsCode(t, i + 6) /\ Low(Unit(t, i + 6))
      <4>1. /\ i + 12 <= Len(t)
            /\ MeaningAt(t, i, M) = Behind(Encoded(ScalarOf(Unit(t, i), Unit(t, i + 6))), M[i + 12])
        BY <2>9, <3>2, MeaningSteps
      <4>2. Encoded(ScalarOf(Unit(t, i), Unit(t, i + 6))) \in Seq(Octet)
        BY <2>9, <3>2, CodeUnits, PairIsScalar, EncodedBytes
      <4>3. QED BY <1>3, <2>2, <4>1, <4>2
    <3>3. QED BY <3>1, <3>2
  <2>10. QED BY <2>3, <2>4, <2>5, <2>6, <2>7, <2>8, <2>9 DEF LongEscape
<1>7. \A i \in 1 .. Len(t) : i \in S
  <2> HIDE DEF S
  <2>1. QED BY <1>1, <1>6, Descends
<1>8. QED BY <1>7 DEF M

-----------------------------------------------------------------------------
(* Which places the two passes stop at *)

\* The byte at a place, if it is not escaped, and the next one, if it is a backslash.
LEMMA PassSkips ==
  ASSUME NEW t, Len(t) \in Nat, NEW i \in 1 .. Len(t), Escaped(t)[i - 1] = 0
  PROVE  /\ t[i] # Backslash => Escaped(t)[i] = 0
         /\ t[i] = Backslash /\ i + 1 <= Len(t) => Escaped(t)[i] = 1 /\ Escaped(t)[i + 1] = 0
<1>1. i - 1 \in 0 .. Len(t) - 1 /\ (i - 1) + 1 = i
  OBVIOUS
<1>2. Escaped(t)[i] = IF t[i] = Backslash THEN 1 ELSE 0
  BY <1>1, PassStep
<1>3. i + 1 <= Len(t) => i \in 0 .. Len(t) - 1
  OBVIOUS
<1>4. i + 1 <= Len(t) => Escaped(t)[i + 1] = IF Escaped(t)[i] = 0 /\ t[i + 1] = Backslash THEN 1 ELSE 0
  BY <1>3, PassStep
<1>5. QED BY <1>2, <1>4

\* No byte of a \u with its digits is a quote, and none but the u is escaped.
LEMMA CodePass ==
  ASSUME NEW t, Len(t) \in Nat, NEW i \in 1 .. Len(t), Escaped(t)[i - 1] = 0, IsCode(t, i)
  PROVE  /\ i + 6 <= Len(t) /\ i + 5 \in 1 .. Len(t) /\ Escaped(t)[i + 5] = 0
         /\ \A k \in 0 .. 5 : t[i + k] # Quote
<1>1. /\ i + 5 < Len(t) /\ t[i] = Backslash /\ t[i + 1] = LetterU
      /\ \A k \in 2 .. 5 : t[i + k] \in Digits
  BY DEF IsCode
<1>2. \A b \in Digits : b # Quote /\ b # Backslash
  BY DEF Digits, Quote, Backslash
<1>3. Escaped(t)[i + 1] = 0
  BY <1>1, PassSkips
<1>4. ASSUME NEW k \in 2 .. 5, Escaped(t)[i + k - 1] = 0 PROVE Escaped(t)[i + k] = 0
  <2>1. i + k \in 1 .. Len(t)
    BY <1>1
  <2>2. t[i + k] # Backslash
    BY <1>1, <1>2
  <2>3. (i + k) - 1 = i + k - 1
    OBVIOUS
  <2>4. QED BY <1>4, <2>1, <2>2, <2>3, PassSkips
<1>5. Escaped(t)[i + 2] = 0
  <2>1. 2 \in 2 .. 5 /\ i + 2 - 1 = i + 1
    OBVIOUS
  <2>2. QED BY <1>3, <1>4, <2>1
<1>6. Escaped(t)[i + 3] = 0
  <2>1. 3 \in 2 .. 5 /\ i + 3 - 1 = i + 2
    OBVIOUS
  <2>2. QED BY <1>4, <1>5, <2>1
<1>7. Escaped(t)[i + 4] = 0
  <2>1. 4 \in 2 .. 5 /\ i + 4 - 1 = i + 3
    OBVIOUS
  <2>2. QED BY <1>4, <1>6, <2>1
<1>8. Escaped(t)[i + 5] = 0
  <2>1. 5 \in 2 .. 5 /\ i + 5 - 1 = i + 4
    OBVIOUS
  <2>2. QED BY <1>4, <1>7, <2>1
<1>9. \A k \in 0 .. 5 : t[i + k] # Quote
  <2>1. t[i + 0] # Quote /\ t[i + 1] # Quote
    BY <1>1 DEF Quote, Backslash, LetterU
  <2>2. \A k \in 2 .. 5 : t[i + k] # Quote
    BY <1>1, <1>2
  <2>3. \A k \in 0 .. 5 : k = 0 \/ k = 1 \/ k \in 2 .. 5
    OBVIOUS
  <2>4. QED BY <2>1, <2>2, <2>3
<1>10. QED BY <1>1, <1>8, <1>9

\* A literal without a closing quote means nothing.
LEMMA NoEnd ==
  ASSUME NEW t, Terminated(t), \A i \in 1 .. Len(t) - 1 : Escaped(t)[i] = 0 => t[i + 1] # Quote
  PROVE  \A i \in 2 .. Len(t) : Escaped(t)[i - 1] = 0 => Meaning(t)[i] = Bad
<1> DEFINE M == Meaning(t)
           S == {i \in 1 .. Len(t) : i >= 2 /\ Escaped(t)[i - 1] = 0 => M[i] = Bad}
<1>1. Len(t) \in Nat /\ \A i \in 1 .. Len(t) : t[i] \in Octet
  BY DEF Terminated
<1>2. \A i \in 1 .. Len(t) : M[i] = MeaningAt(t, i, M)
  BY MeaningUnfolds
<1> HIDE DEF M
<1>3. \A r : Behind(r, Bad) = Bad
  BY DEF Behind
<1>4. ASSUME NEW i \in 1 .. Len(t), \A j \in i + 1 .. Len(t) : j \in S PROVE i \in S
  <2> SUFFICES ASSUME i >= 2, Escaped(t)[i - 1] = 0 PROVE M[i] = Bad
    OBVIOUS
  <2>1. \A n \in Nat : n >= 1 /\ i + n <= Len(t) /\ Escaped(t)[i + n - 1] = 0 => M[i + n] = Bad
    BY <1>1, <1>4
  <2>2. M[i] = MeaningAt(t, i, M)
    BY <1>2
  <2>3. t[i] # Quote
    <3>1. i - 1 \in 1 .. Len(t) - 1 /\ (i - 1) + 1 = i
      BY <1>1
    <3>2. QED BY <3>1
  <2>4. CASE i = Len(t)
    BY <2>2, <2>4, MeaningSteps
  <2>5. CASE i # Len(t) /\ t[i] # Backslash
    <3>1. i + 1 <= Len(t) /\ MeaningAt(t, i, M) = Behind(<<t[i]>>, M[i + 1])
      BY <2>3, <2>5, MeaningSteps
    <3>2. Escaped(t)[i] = 0 /\ i + 1 - 1 = i
      BY <1>1, <2>5, PassSkips
    <3>3. M[i + 1] = Bad
      BY <2>1, <3>1, <3>2
    <3>4. QED BY <1>3, <2>2, <3>1, <3>3
  <2>6. CASE i # Len(t) /\ t[i] = Backslash /\ ~LongEscape(t, i)
    <3>1. i + 2 <= Len(t) /\ \E b : MeaningAt(t, i, M) = Behind(b, M[i + 2])
      <4>1. CASE t[i + 1] \in Itself
        BY <2>6, <4>1, MeaningSteps, ZenonT(30)
      <4>2. CASE t[i + 1] \in DOMAIN Escapes
        BY <2>6, <4>2, MeaningSteps, ZenonT(30)
      <4>3. QED BY <2>6, <4>1, <4>2 DEF LongEscape
    <3>2. Escaped(t)[i + 1] = 0 /\ i + 2 - 1 = i + 1
      BY <1>1, <2>6, <3>1, PassSkips
    <3>3. M[i + 2] = Bad
      BY <2>1, <3>1, <3>2
    <3>4. QED BY <1>3, <2>2, <3>1, <3>3
  <2>7. CASE LongEscape(t, i) /\ (~IsCode(t, i) \/ Low(Unit(t, i)))
    BY <2>2, <2>7, MeaningSteps
  <2>8. CASE LongEscape(t, i) /\ IsCode(t, i) /\ ~Low(Unit(t, i)) /\ ~High(Unit(t, i))
    <3>1. i + 6 <= Len(t) /\ MeaningAt(t, i, M) = Behind(Encoded(Unit(t, i)), M[i + 6])
      BY <2>8, MeaningSteps
    <3>2. Escaped(t)[i + 5] = 0 /\ i + 6 - 1 = i + 5
      BY <1>1, <2>8, CodePass
    <3>3. M[i + 6] = Bad
      BY <2>1, <3>1, <3>2
    <3>4. QED BY <1>3, <2>2, <3>1, <3>3
  <2>9. CASE LongEscape(t, i) /\ IsCode(t, i) /\ ~Low(Unit(t, i)) /\ High(Unit(t, i))
    <3>1. CASE ~IsCode(t, i + 6) \/ ~Low(Unit(t, i + 6))
      BY <2>2, <2>9, <3>1, MeaningSteps
    <3>2. CASE IsCode(t, i + 6) /\ Low(Unit(t, i + 6))
      <4>1. i + 12 <= Len(t) /\ \E b : MeaningAt(t, i, M) = Behind(b, M[i + 12])
        BY <2>9, <3>2, MeaningSteps, ZenonT(30)
      <4>2. i + 6 <= Len(t) /\ Escaped(t)[i + 5] = 0 /\ (i + 6) - 1 = i + 5
        BY <1>1, <2>9, CodePass
      <4>3. i + 6 \in 1 .. Len(t)
        BY <1>1, <4>2
      <4>4. Escaped(t)[(i + 6) + 5] = 0 /\ (i + 6) + 5 = i + 12 - 1
        BY <1>1, <3>2, <4>2, <4>3, CodePass
      <4>5. M[i + 12] = Bad
        BY <2>1, <4>1, <4>4
      <4>6. QED BY <1>3, <2>2, <4>1, <4>5
    <3>3. QED BY <3>1, <3>2
  <2>10. QED BY <2>4, <2>5, <2>6, <2>7, <2>8, <2>9 DEF LongEscape
<1>5. \A i \in 1 .. Len(t) : i \in S
  <2> HIDE DEF S
  <2>1. QED BY <1>1, <1>4, Descends
<1>6. QED BY <1>1, <1>5 DEF M

-----------------------------------------------------------------------------
(* The second pass writes what the literal means *)

\* What is written, followed by what the rest means, is what the whole means.
InSync ==
  /\ Escaped(text)[input_pointer] = 0 /\ input_pointer <= input_end
  /\ Behind(output, Meaning(text)[input_pointer + 1]) = Meaning(text)[2]

\* A \u without digits has been let through.
OutOfSync == Meaning(text)[2] = Bad /\ HasBadCode

MeaningInv ==
  /\ at = "copy" => InSync \/ OutOfSync
  /\ at \in {"fail", "failed"} => Meaning(text)[2] = Bad
  /\ type = "string" => output = Meaning(text)[2] \o <<NUL>> \/ OutOfSync

LEMMA SameMeaning ==
  ASSUME text' = text
  PROVE  /\ Meaning(text)' = Meaning(text) /\ (OutOfSync' <=> OutOfSync)
         /\ \A i \in Nat : IsCode(text, i)' <=> IsCode(text, i)
BY DEF OutOfSync, HasBadCode, Length

\* Where the second pass is.
LEMMA CopyFacts ==
  ASSUME ValueInv, StringInv, at = "copy"
  PROVE  /\ Terminated(text) /\ Len(text) \in Nat /\ Length = Len(text) /\ output \in Seq(Octet)
         /\ input_end \in Nat /\ input_end < Length /\ text[input_end + 1] = Quote
         /\ \A i \in 1 .. input_end - 1 : Escaped(text)[i] = 0 => text[i + 1] # Quote
         /\ input_pointer \in Nat /\ 1 <= input_pointer /\ input_pointer < Length
         /\ type = "none"
BY TextFacts DEF ValueInv, NoneYet, StringInv, FirstPass, SecondPass, Closed, Length, Byte

\* In front of the closing quote no other one is met, and a \u that has its digits ends
\* before it.
LEMMA BeforeTheQuote ==
  ASSUME ValueInv, StringInv, at = "copy",
         NEW q \in Nat, 1 <= q, q <= input_end, Escaped(text)[q] = 0
  PROVE  /\ q < input_end => text[q + 1] # Quote
         /\ text[q + 1] = Backslash => q + 2 <= input_end
         /\ IsCode(text, q + 1) => q + 6 <= input_end /\ Escaped(text)[q + 6] = 0
<1>1. /\ Len(text) \in Nat /\ Length = Len(text) /\ input_end \in Nat /\ input_end < Length
      /\ text[input_end + 1] = Quote
      /\ \A i \in 1 .. input_end - 1 : Escaped(text)[i] = 0 => text[i + 1] # Quote
  BY CopyFacts
<1>2. q < input_end => text[q + 1] # Quote
  BY <1>1
<1>3. q + 1 \in 1 .. Len(text) /\ (q + 1) - 1 = q
  BY <1>1
<1>4. ASSUME text[q + 1] = Backslash PROVE q + 2 <= input_end
  <2>1. q # input_end
    BY <1>1, <1>4 DEF Quote, Backslash
  <2>2. q < input_end /\ (q + 1) + 1 <= Len(text)
    BY <1>1, <2>1
  <2>3. Escaped(text)[q + 1] = 1
    BY <1>1, <1>3, <1>4, <2>2, PassSkips
  <2>4. Escaped(text)[input_end] = 0
    BY DEF StringInv, FirstPass
  <2>5. q + 1 # input_end
    BY <2>3, <2>4
  <2>6. QED BY <1>1, <2>2, <2>5
<1>5. ASSUME IsCode(text, q + 1) PROVE q + 6 <= input_end /\ Escaped(text)[q + 6] = 0
  <2>1. /\ (q + 1) + 6 <= Len(text) /\ Escaped(text)[(q + 1) + 5] = 0
        /\ \A k \in 0 .. 5 : text[(q + 1) + k] # Quote
    BY <1>1, <1>3, <1>5, CodePass
  <2>2. \A k \in 0 .. 5 : q + k # input_end
    <3> SUFFICES ASSUME NEW k \in 0 .. 5, q + k = input_end PROVE FALSE
      OBVIOUS
    <3>1. (q + 1) + k = input_end + 1
      BY <1>1
    <3>2. QED BY <1>1, <2>1, <3>1
  <2>3. q + 6 <= input_end
    BY <1>1, <2>2
  <2>4. QED BY <2>1, <2>3
<1>6. QED BY <1>2, <1>4, <1>5

\* A step that writes what a part of the literal means stays in sync.
LEMMA SyncKept ==
  ASSUME ValueInv, StringInv, text[1] = Quote, at = "copy", InSync,
         NEW bytes \in Seq(Octet), NEW n \in Nat, 1 <= n, input_pointer + n <= input_end,
         Escaped(text)[input_pointer + n] = 0,
         Meaning(text)[input_pointer + 1] = Behind(bytes, Meaning(text)[input_pointer + 1 + n]),
         text' = text, input_end' = input_end, output' = output \o bytes, input_pointer' = input_pointer + n
  PROVE  InSync'
<1>1. /\ Terminated(text) /\ Len(text) \in Nat /\ Length = Len(text) /\ output \in Seq(Octet)
      /\ input_end \in Nat /\ input_end < Length
      /\ input_pointer \in Nat /\ 1 <= input_pointer
  BY CopyFacts
<1> DEFINE M == Meaning(text)
           r == M[input_pointer + 1 + n]
<1>2. r \in Meanings
  <2>1. input_pointer + 1 + n \in 1 .. Len(text)
    BY <1>1
  <2>2. QED BY <1>1, <2>1, MeaningTyped
<1>3. Behind(output \o bytes, r) = Behind(output, Behind(bytes, r))
  BY <1>1, <1>2, BehindJoins
<1>4. Behind(output, Behind(bytes, r)) = M[2]
  BY DEF InSync
<1>5. Meaning(text)' = M /\ Escaped(text)' = Escaped(text)
  BY SameMeaning, SameText
<1>6. input_pointer' + 1 = input_pointer + 1 + n
  BY <1>1
<1> HIDE DEF M
<1>7. Behind(output', M[input_pointer' + 1]) = M[2]
  BY <1>3, <1>4, <1>6, Zenon
<1>8. Escaped(text)'[input_pointer'] = 0
  BY <1>5
<1>9. QED BY <1>5, <1>7, <1>8 DEF InSync

\* A part that means nothing, reached in sync, leaves the whole without a meaning.
LEMMA SyncLost ==
  ASSUME InSync, Meaning(text)[input_pointer + 1] = Bad
  PROVE  Meaning(text)[2] = Bad
BY DEF InSync, Behind

\* What the place the second pass is at means.
LEMMA PlaceFacts ==
  ASSUME ValueInv, StringInv, at = "copy", input_pointer < input_end
  PROVE  /\ input_pointer + 1 \in 1 .. Len(text)
         /\ Meaning(text)[input_pointer + 1] = MeaningAt(text, input_pointer + 1, Meaning(text))
         /\ input_pointer + 1 # Len(text)
         /\ Byte(input_pointer) = text[input_pointer + 1] /\ Byte(input_pointer + 1) = text[(input_pointer + 1) + 1]
<1>1. /\ Terminated(text) /\ Len(text) \in Nat /\ Length = Len(text)
      /\ input_end \in Nat /\ input_end < Length /\ input_pointer \in Nat /\ 1 <= input_pointer
  BY CopyFacts
<1>2. input_pointer + 1 \in 1 .. Len(text) /\ input_pointer + 1 # Len(text)
  BY <1>1
<1>3. QED BY <1>1, <1>2, MeaningUnfolds DEF Byte

LEMMA CopyInSync ==
  ASSUME ValueInv, StringInv, text[1] = Quote, InSync, Copy
  PROVE  InSync' /\ at' = "copy"
<1>1. /\ at = "copy" /\ input_pointer < input_end /\ Byte(input_pointer) # Backslash
      /\ output' = Append(output, Byte(input_pointer)) /\ input_pointer' = input_pointer + 1
      /\ text' = text /\ input_end' = input_end /\ at' = "copy"
  BY DEF Copy
<1>2. /\ Terminated(text) /\ Len(text) \in Nat /\ Length = Len(text) /\ output \in Seq(Octet)
      /\ input_end \in Nat /\ input_end < Length /\ input_pointer \in Nat /\ 1 <= input_pointer
  BY <1>1, CopyFacts
<1>3. /\ input_pointer + 1 \in 1 .. Len(text) /\ input_pointer + 1 # Len(text)
      /\ Meaning(text)[input_pointer + 1] = MeaningAt(text, input_pointer + 1, Meaning(text))
      /\ Byte(input_pointer) = text[input_pointer + 1]
  BY <1>1, PlaceFacts
<1>4. Escaped(text)[input_pointer] = 0 /\ input_pointer <= input_end
  BY DEF InSync
<1>5. text[input_pointer + 1] # Quote
  BY <1>1, <1>2, <1>4, BeforeTheQuote
<1>6. Meaning(text)[input_pointer + 1] = Behind(<<text[input_pointer + 1]>>, Meaning(text)[input_pointer + 1 + 1])
  BY <1>1, <1>2, <1>3, <1>5, MeaningSteps
<1>7. Escaped(text)[input_pointer + 1] = 0
  <2>1. (input_pointer + 1) - 1 = input_pointer
    BY <1>2
  <2>2. QED BY <1>1, <1>2, <1>3, <1>4, <2>1, PassSkips
<1>8. text[input_pointer + 1] \in Octet
  BY <1>2, <1>3 DEF Terminated
<1>9. output' = output \o <<text[input_pointer + 1]>> /\ <<text[input_pointer + 1]>> \in Seq(Octet)
  BY <1>1, <1>2, <1>3, <1>8
<1>10. InSync'
  <2>1. 1 \in Nat /\ 1 <= 1 /\ input_pointer + 1 <= input_end
    BY <1>1, <1>2
  <2>2. QED BY <1>1, <1>6, <1>7, <1>9, <2>1, SyncKept
<1>11. QED BY <1>1, <1>10

LEMMA CopyEscapeInSync ==
  ASSUME ValueInv, StringInv, text[1] = Quote, InSync, CopyEscape
  PROVE  InSync' /\ at' = "copy"
<1> DEFINE b == Byte(input_pointer + 1)
           c == IF b \in Itself THEN b ELSE Escapes[b]
<1>1. /\ at = "copy" /\ input_pointer < input_end /\ Byte(input_pointer) = Backslash
      /\ b \in DOMAIN Escapes \cup Itself
      /\ output' = Append(output, c) /\ input_pointer' = input_pointer + 2
      /\ text' = text /\ input_end' = input_end /\ at' = "copy"
  BY Zenon DEF CopyEscape
<1>2. /\ Terminated(text) /\ Len(text) \in Nat /\ Length = Len(text) /\ output \in Seq(Octet)
      /\ input_end \in Nat /\ input_end < Length /\ input_pointer \in Nat /\ 1 <= input_pointer
  BY <1>1, CopyFacts
<1>3. /\ input_pointer + 1 \in 1 .. Len(text) /\ input_pointer + 1 # Len(text)
      /\ Meaning(text)[input_pointer + 1] = MeaningAt(text, input_pointer + 1, Meaning(text))
      /\ Byte(input_pointer) = text[input_pointer + 1] /\ b = text[(input_pointer + 1) + 1]
  BY <1>1, PlaceFacts
<1>4. Escaped(text)[input_pointer] = 0 /\ input_pointer <= input_end
  BY DEF InSync
<1>5. input_pointer + 2 <= input_end
  BY <1>1, <1>2, <1>3, <1>4, BeforeTheQuote
<1> HIDE DEF b
<1>6. /\ c \in Octet
      /\ Meaning(text)[input_pointer + 1] = Behind(<<c>>, Meaning(text)[(input_pointer + 1) + 2])
  <2>1. text[input_pointer + 1] = Backslash
    BY <1>1, <1>3
  <2>2. CASE b \in Itself
    <3>1. MeaningAt(text, input_pointer + 1, Meaning(text)) = Behind(<<b>>, Meaning(text)[(input_pointer + 1) + 2])
      BY <1>2, <1>3, <2>1, <2>2, MeaningSteps
    <3>2. (input_pointer + 1) + 1 \in 1 .. Len(text)
      BY <1>2, <1>3
    <3>3. b \in Octet
      BY <1>2, <1>3, <3>2 DEF Terminated
    <3>4. QED BY <1>3, <2>2, <3>1, <3>3
  <2>3. CASE b \notin Itself
    <3>1. b \in DOMAIN Escapes
      BY <1>1, <2>3
    <3>2. /\ MeaningAt(text, input_pointer + 1, Meaning(text))
               = Behind(<<Escapes[b]>>, Meaning(text)[(input_pointer + 1) + 2])
      BY <1>2, <1>3, <2>1, <3>1, MeaningSteps
    <3>3. QED BY <1>3, <2>3, <3>1, <3>2, EscapedIsByte
  <2>4. QED BY <2>2, <2>3
<1>7. Escaped(text)[input_pointer + 2] = 0
  <2>1. (input_pointer + 1) - 1 = input_pointer /\ (input_pointer + 1) + 1 = input_pointer + 2
    BY <1>2
  <2>2. (input_pointer + 1) + 1 <= Len(text)
    BY <1>2, <1>5
  <2>3. QED BY <1>1, <1>2, <1>3, <1>4, <2>1, <2>2, PassSkips
<1> HIDE DEF c
<1>8. output' = output \o <<c>> /\ <<c>> \in Seq(Octet)
  BY <1>1, <1>2, <1>6
<1>9. (input_pointer + 1) + 2 = input_pointer + 1 + 2
  OBVIOUS
<1>10. InSync'
  <2>1. 2 \in Nat /\ 1 <= 2
    OBVIOUS
  <2>2. QED BY <1>1, <1>5, <1>6, <1>7, <1>8, <1>9, <2>1, SyncKept
<1>11. QED BY <1>1, <1>10

\* The backslash is at a place that is no short escape.
LEMMA LongFacts ==
  ASSUME ValueInv, StringInv, at = "copy", input_pointer < input_end, Byte(input_pointer) = Backslash,
         Byte(input_pointer + 1) \notin DOMAIN Escapes \cup Itself
  PROVE  LongEscape(text, input_pointer + 1)
BY PlaceFacts DEF LongEscape

LEMMA UnknownEscapeInSync ==
  ASSUME ValueInv, StringInv, text[1] = Quote, InSync, UnknownEscape
  PROVE  Meaning(text)[2] = Bad
<1>1. /\ at = "copy" /\ input_pointer < input_end /\ Byte(input_pointer) = Backslash
      /\ Byte(input_pointer + 1) \notin DOMAIN Escapes \cup Itself \cup {LetterU}
  BY DEF UnknownEscape
<1>2. LongEscape(text, input_pointer + 1)
  BY <1>1, LongFacts
<1>3. ~IsCode(text, input_pointer + 1)
  BY <1>1, PlaceFacts DEF IsCode
<1>4. Terminated(text)
  BY <1>1, CopyFacts
<1>5. Meaning(text)[input_pointer + 1] = Bad
  BY <1>1, <1>2, <1>3, <1>4, PlaceFacts, MeaningSteps
<1>6. QED BY <1>5, SyncLost

\* parse_hex4 reads the unit of a \u that has its digits, and 0 for one that has not.
LEMMA CodeRead ==
  ASSUME Len(text) \in Nat, NEW q \in Nat, q + 6 < Len(text),
         text[q + 1] = Backslash, text[q + 2] = LetterU
  PROVE  /\ IsCode(text, q + 1) => Hex4(q + 2) = Unit(text, q + 1)
         /\ ~IsCode(text, q + 1) => Hex4(q + 2) = 0
<1> DEFINE All4 == \A k \in 2 .. 5 : text[(q + 1) + k] \in Digits
<1>1. IsCode(text, q + 1) <=> All4
  <2>1. (q + 1) + 5 < Len(text) /\ (q + 1) + 1 = q + 2
    OBVIOUS
  <2>2. QED BY <2>1 DEF IsCode
<1>2. (All4 => Hex4(q + 2) = Unit(text, q + 1)) /\ (~All4 => Hex4(q + 2) = 0)
  BY Hex4IsUnit
<1>3. QED BY <1>1, <1>2

LEMMA ZeroIsNone == ~High(0) /\ ~Low(0)
BY Surrogates

LEMMA CopyUnicodeInSync ==
  ASSUME ValueInv, StringInv, text[1] = Quote, InSync, CopyUnicode
  PROVE  /\ at' \in {"copy", "fail"}
         /\ at' = "fail" => Meaning(text)[2] = Bad
         /\ at' = "copy" => InSync' \/ OutOfSync
<1> DEFINE ptr  == input_pointer
           l == Literal(ptr)
           M == Meaning(text)
<1>1. /\ at = "copy" /\ ptr < input_end /\ Byte(ptr) = Backslash /\ Byte(ptr + 1) = LetterU
      /\ text' = text /\ input_end' = input_end
      /\ IF l.length = 0 THEN at' = "fail"
         ELSE output' = output \o Utf8(l.codepoint) /\ input_pointer' = ptr + l.length /\ at' = at
  BY Zenon DEF CopyUnicode
<1>2. /\ Terminated(text) /\ Len(text) \in Nat /\ Length = Len(text) /\ output \in Seq(Octet)
      /\ input_end \in Nat /\ input_end < Length /\ ptr \in Nat /\ 1 <= ptr
  BY <1>1, CopyFacts
<1>3. /\ ptr + 1 \in 1 .. Len(text) /\ ptr + 1 # Len(text)
      /\ M[ptr + 1] = MeaningAt(text, ptr + 1, M)
      /\ Byte(ptr) = text[ptr + 1] /\ Byte(ptr + 1) = text[(ptr + 1) + 1]
  BY <1>1, PlaceFacts
<1>4. Escaped(text)[ptr] = 0 /\ ptr <= input_end
  BY DEF InSync
<1>5. LongEscape(text, ptr + 1)
  <2>1. LetterU \notin DOMAIN Escapes \cup Itself
    BY DEF LetterU, Escapes, Itself, Quote, Backslash, Slash
  <2>2. QED BY <1>1, <2>1, LongFacts
<1>6. (ptr + 1) + 1 = ptr + 2
  BY <1>2
<1>7. text[ptr + 1] = Backslash /\ text[ptr + 2] = LetterU
  BY <1>1, <1>3, <1>6
<1>8. /\ IsCode(text, ptr + 1) => ptr + 6 <= input_end /\ Escaped(text)[ptr + 6] = 0
      /\ ptr + 6 <= input_end => ptr + 6 < Len(text)
  <2>1. IsCode(text, ptr + 1) => ptr + 6 <= input_end /\ Escaped(text)[ptr + 6] = 0
    BY <1>1, <1>2, <1>4, BeforeTheQuote
  <2>2. QED BY <1>2, <2>1
<1>9. ptr + 6 < Len(text) => /\ IsCode(text, ptr + 1) => Hex4(ptr + 2) = Unit(text, ptr + 1)
                             /\ ~IsCode(text, ptr + 1) => Hex4(ptr + 2) = 0
  BY <1>2, <1>7, CodeRead
<1>10. ~IsCode(text, ptr + 1) => M[2] = Bad /\ OutOfSync
  <2> SUFFICES ASSUME ~IsCode(text, ptr + 1) PROVE M[2] = Bad /\ OutOfSync
    OBVIOUS
  <2>1. M[ptr + 1] = Bad
    BY <1>2, <1>3, <1>5, MeaningSteps
  <2>2. M[2] = Bad
    BY <2>1, SyncLost
  <2>3. ptr + 1 \in 2 .. Length - 1
    BY <1>2, <1>3
  <2>4. HasBadCode
    BY <1>6, <1>7, <2>3 DEF HasBadCode
  <2>5. QED BY <2>2, <2>4 DEF OutOfSync
<1>11. /\ (ptr + 6) + 1 = ptr + 7 /\ (ptr + 1) + 6 = ptr + 7 /\ (ptr + 6) + 2 = ptr + 8
       /\ (ptr + 1) + 12 = ptr + 13 /\ ptr + 1 + 6 = ptr + 7 /\ ptr + 1 + 12 = ptr + 13
       /\ (ptr + 6) + 6 = ptr + 12
       /\ Byte(ptr + 6) = text[ptr + 7] /\ Byte(ptr + 7) = text[ptr + 8]
  BY <1>2 DEF Byte
<1>12. ASSUME IsCode(text, ptr + 1), IsCode(text, ptr + 7)
       PROVE  ptr + 12 <= input_end /\ Escaped(text)[ptr + 12] = 0
  <2>1. ptr + 6 \in Nat /\ 1 <= ptr + 6 /\ ptr + 6 <= input_end /\ Escaped(text)[ptr + 6] = 0
    BY <1>2, <1>8, <1>12
  <2>2. QED BY <1>1, <1>11, <1>12, <2>1, BeforeTheQuote
<1>13. ptr + 12 <= input_end /\ text[ptr + 7] = Backslash /\ text[ptr + 8] = LetterU =>
         /\ IsCode(text, ptr + 7) => Hex4(ptr + 8) = Unit(text, ptr + 7)
         /\ ~IsCode(text, ptr + 7) => Hex4(ptr + 8) = 0
  <2> SUFFICES ASSUME ptr + 12 <= input_end, text[ptr + 7] = Backslash, text[ptr + 8] = LetterU
               PROVE  /\ IsCode(text, ptr + 7) => Hex4(ptr + 8) = Unit(text, ptr + 7)
                      /\ ~IsCode(text, ptr + 7) => Hex4(ptr + 8) = 0
    OBVIOUS
  <2>1. ptr + 6 \in Nat /\ (ptr + 6) + 6 < Len(text)
    BY <1>2, <1>11
  <2>2. QED BY <1>2, <1>11, <2>1, CodeRead
<1> HIDE DEF M, l
<1>14. CASE Rejects(ptr)
  <2>1. l.length = 0
    BY <1>14 DEF Rejects, l
  <2>2. at' = "fail"
    BY <1>1, <2>1
  <2>3. ASSUME IsCode(text, ptr + 1) PROVE M[2] = Bad
    <3>1. ptr + 6 <= input_end /\ ptr + 6 < Len(text) /\ ~(input_end - ptr < 6)
      BY <1>2, <1>8, <2>3
    <3>2. Hex4(ptr + 2) = Unit(text, ptr + 1)
      BY <1>9, <2>3, <3>1
    <3>3. CASE Low(Unit(text, ptr + 1))
      <4>1. M[ptr + 1] = Bad
        BY <1>2, <1>3, <1>5, <3>3, MeaningSteps DEF M
      <4>2. QED BY <4>1, SyncLost DEF M
    <3>4. CASE ~Low(Unit(text, ptr + 1))
      <4>1. /\ High(Unit(text, ptr + 1))
            /\ \/ input_end - (ptr + 6) < 6
               \/ Byte(ptr + 6) # Backslash \/ Byte(ptr + 7) # LetterU \/ ~Low(Hex4(ptr + 8))
        BY <1>14, <3>1, <3>2, <3>4 DEF Rejects
      <4>2. ~IsCode(text, ptr + 7) \/ ~Low(Unit(text, ptr + 7))
        <5> SUFFICES ASSUME IsCode(text, ptr + 7) PROVE ~Low(Unit(text, ptr + 7))
          OBVIOUS
        <5>1. ptr + 12 <= input_end /\ ~(input_end - (ptr + 6) < 6)
          BY <1>2, <1>12, <2>3
        <5>2. text[ptr + 7] = Backslash /\ text[ptr + 8] = LetterU
          <6>1. (ptr + 7) + 1 = ptr + 8
            BY <1>2
          <6>2. QED BY <6>1 DEF IsCode
        <5>3. QED BY <1>11, <1>13, <4>1, <5>1, <5>2
      <4>3. M[ptr + 1] = Bad
        <5>1. MeaningAt(text, ptr + 1, M) = Bad
          BY <1>2, <1>3, <1>5, <1>11, <2>3, <3>4, <4>1, <4>2, MeaningSteps
        <5>2. QED BY <1>3, <5>1 DEF M
      <4>4. QED BY <4>3, SyncLost DEF M
    <3>5. QED BY <3>3, <3>4
  <2>4. QED BY <1>10, <2>2, <2>3 DEF M
<1>15. CASE Reads1(ptr)
  <2>1. l.length = 6 /\ l.codepoint = Hex4(ptr + 2) /\ ptr + 6 <= input_end /\ ~Low(Hex4(ptr + 2)) /\ ~High(Hex4(ptr + 2))
    BY <1>2, <1>15 DEF Reads1, l
  <2>2. at' = "copy" /\ output' = output \o Utf8(l.codepoint) /\ input_pointer' = ptr + 6
    BY <1>1, <2>1
  <2>3. ASSUME IsCode(text, ptr + 1) PROVE InSync'
    <3>1. Hex4(ptr + 2) = Unit(text, ptr + 1)
      BY <1>8, <1>9, <2>1, <2>3
    <3>2. Unit(text, ptr + 1) \in Nat /\ Unit(text, ptr + 1) <= LastCodePoint
      BY <2>3, CodeUnits, UnitsAreCodePoints
    <3>3. Encoded(Unit(text, ptr + 1)) \in Seq(Octet) /\ Encoded(Unit(text, ptr + 1)) = Utf8(l.codepoint)
      BY <2>1, <3>1, <3>2, EncodedBytes
    <3>4. M[ptr + 1] = Behind(Encoded(Unit(text, ptr + 1)), M[ptr + 1 + 6])
      <4>1. MeaningAt(text, ptr + 1, M) = Behind(Encoded(Unit(text, ptr + 1)), M[(ptr + 1) + 6])
        BY <1>2, <1>3, <1>5, <2>1, <2>3, <3>1, MeaningSteps
      <4>2. QED BY <1>3, <1>11, <4>1 DEF M
    <3>5. 6 \in Nat /\ 1 <= 6
      OBVIOUS
    <3>6. QED BY <1>1, <1>8, <2>1, <2>2, <2>3, <3>3, <3>4, <3>5, SyncKept DEF M
  <2>4. QED BY <1>10, <2>2, <2>3
<1>16. CASE Reads2(ptr)
  <2>1. /\ l.length = 12 /\ l.codepoint = Pair(Hex4(ptr + 2), Hex4(ptr + 8))
        /\ ptr + 6 <= input_end /\ ptr + 12 <= input_end
        /\ High(Hex4(ptr + 2)) /\ Byte(ptr + 6) = Backslash /\ Byte(ptr + 7) = LetterU /\ Low(Hex4(ptr + 8))
    BY <1>2, <1>16 DEF Reads2, l
  <2>2. at' = "copy" /\ output' = output \o Utf8(l.codepoint) /\ input_pointer' = ptr + 12
    BY <1>1, <2>1
  <2>3. IsCode(text, ptr + 1) /\ Hex4(ptr + 2) = Unit(text, ptr + 1)
    BY <1>8, <1>9, <2>1, ZeroIsNone
  <2>4. IsCode(text, ptr + 7) /\ Hex4(ptr + 8) = Unit(text, ptr + 7)
    BY <1>11, <1>13, <2>1, ZeroIsNone
  <2> DEFINE first  == Unit(text, ptr + 1)
             second == Unit(text, ptr + 7)
  <2>5. first \in Nat /\ second \in Nat
    BY <2>3, <2>4, CodeUnits
  <2>6. High(first) /\ Low(second) /\ l.codepoint = Pair(first, second)
    BY <2>1, <2>3, <2>4
  <2> HIDE DEF first, second
  <2>7. Encoded(ScalarOf(first, second)) \in Seq(Octet) /\ Encoded(ScalarOf(first, second)) = Utf8(l.codepoint)
    <3>1. /\ ScalarOf(first, second) \in Nat /\ ScalarOf(first, second) <= LastCodePoint
          /\ Pair(first, second) = ScalarOf(first, second)
      BY <2>5, <2>6, PairIsScalar
    <3>2. QED BY <2>6, <3>1, EncodedBytes
  <2>8. M[ptr + 1] = Behind(Encoded(ScalarOf(first, second)), M[ptr + 1 + 12])
    <3>1. ~Low(first)
      BY <2>5, <2>6, Surrogates
    <3>2. IsCode(text, (ptr + 1) + 6) /\ Low(Unit(text, (ptr + 1) + 6)) /\ Unit(text, (ptr + 1) + 6) = second
      BY <1>11, <2>4, <2>6 DEF second
    <3>3. MeaningAt(text, ptr + 1, M) = Behind(Encoded(ScalarOf(first, second)), M[(ptr + 1) + 12])
      BY <1>2, <1>3, <1>5, <2>3, <2>6, <3>1, <3>2, MeaningSteps DEF first
    <3>4. QED BY <1>3, <1>11, <3>3 DEF M
  <2>9. 12 \in Nat /\ 1 <= 12
    OBVIOUS
  <2>10. Escaped(text)[ptr + 12] = 0
    BY <1>12, <2>3, <2>4
  <2>11. InSync'
    BY <1>1, <2>1, <2>2, <2>7, <2>8, <2>9, <2>10, SyncKept DEF M
  <2>12. QED BY <2>2, <2>11
<1>17. Rejects(ptr) \/ Reads1(ptr) \/ Reads2(ptr)
  BY <1>2, LiteralCases
<1>18. QED BY <1>14, <1>15, <1>16, <1>17

LEMMA ScanMeans ==
  ASSUME ValueInv, StringInv, text[1] = Quote, Scan, type' = type
  PROVE  MeaningInv'
<1>1. /\ at = "scan" /\ text' = text /\ input_end < Length
      /\ at' = "fail" => Byte(input_end) = Backslash /\ input_end + 1 >= Length
      /\ at' \in {"scan", "fail"}
  BY DEF Scan
<1>2. type = "none"
  BY <1>1 DEF ValueInv, NoneYet
<1>3. /\ Length \in Nat /\ \A i \in 0 .. Length - 1 : Byte(i) = NUL <=> i = Length - 1
  BY TextFacts DEF ValueInv
<1>4. input_end \in Nat
  BY <1>3 DEF StringInv, FirstPass
<1>5. at' # "fail"
  <2> SUFFICES ASSUME at' = "fail" PROVE FALSE
    OBVIOUS
  <2>1. input_end = Length - 1 /\ input_end \in 0 .. Length - 1
    BY <1>1, <1>3, <1>4
  <2>2. Byte(input_end) = NUL
    BY <1>3, <2>1
  <2>3. QED BY <1>1, <2>2 DEF Backslash, NUL
<1>6. QED BY <1>1, <1>2, <1>5 DEF MeaningInv

LEMMA UnterminatedMeans ==
  ASSUME ValueInv, StringInv, text[1] = Quote, Unterminated, type' = type
  PROVE  MeaningInv'
<1>1. at = "scan" /\ at' = "fail" /\ text' = text /\ input_end >= Length
  BY DEF Unterminated
<1>2. type = "none" /\ Terminated(text)
  BY <1>1 DEF ValueInv, NoneYet
<1>3. Len(text) \in Nat /\ Length = Len(text) /\ Len(text) >= 1 /\ text[Len(text)] = NUL
  BY <1>2 DEF Terminated, Length
<1>4. input_end = Len(text) /\ \A i \in 1 .. Len(text) - 1 : Escaped(text)[i] = 0 => text[i + 1] # Quote
  BY <1>1, <1>3 DEF StringInv, FirstPass, Byte
<1>5. \A i \in 2 .. Len(text) : Escaped(text)[i - 1] = 0 => Meaning(text)[i] = Bad
  BY <1>2, <1>4, NoEnd
<1>6. Len(text) # 1
  BY <1>3 DEF Quote, NUL
<1>7. Escaped(text)[1] = 0
  <2>1. Escaped(text)[0] = 0
    BY <1>3, PassHolds DEF IsPass
  <2>2. 1 \in 1 .. Len(text) /\ 1 - 1 = 0
    BY <1>3
  <2>3. text[1] # Backslash
    BY DEF Quote, Backslash
  <2>4. QED BY <1>3, <2>1, <2>2, <2>3, PassSkips
<1>8. Meaning(text)[2] = Bad
  <2>1. 2 \in 2 .. Len(text) /\ 2 - 1 = 1
    BY <1>3, <1>6
  <2>2. QED BY <1>5, <1>7, <2>1
<1>9. Meaning(text)' = Meaning(text)
  BY <1>1, SameMeaning
<1>10. QED BY <1>1, <1>2, <1>8, <1>9 DEF MeaningInv

LEMMA AllocateMeans ==
  ASSUME ValueInv, StringInv, text[1] = Quote, Allocate, type' = type
  PROVE  MeaningInv'
<1>1. /\ at = "scan" /\ at' = "copy" /\ input_end < Length
      /\ text' = text /\ input_end' = input_end /\ input_pointer' = input_pointer /\ output' = output
  BY DEF Allocate
<1>2. type = "none" /\ Terminated(text)
  BY <1>1 DEF ValueInv, NoneYet
<1>3. Len(text) \in Nat /\ Length = Len(text) /\ Len(text) >= 1
  BY <1>2 DEF Terminated, Length
<1>4. input_pointer = 1 /\ output = <<>> /\ input_end \in 1 .. Length
  BY <1>1 DEF StringInv, FirstPass
<1>5. Escaped(text)[1] = 0
  <2>1. Escaped(text)[0] = 0
    BY <1>3, PassHolds DEF IsPass
  <2>2. 1 \in 1 .. Len(text) /\ 1 - 1 = 0
    BY <1>3
  <2>3. text[1] # Backslash
    BY DEF Quote, Backslash
  <2>4. QED BY <1>3, <2>1, <2>2, <2>3, PassSkips
<1>6. Meaning(text)[2] \in Meanings
  <2>1. 2 \in 1 .. Len(text)
    BY <1>1, <1>3, <1>4
  <2>2. QED BY <1>2, <2>1, MeaningTyped
<1>7. Behind(<<>>, Meaning(text)[2]) = Meaning(text)[2]
  <2>1. <<>> \in Seq(Octet)
    OBVIOUS
  <2>2. QED BY <1>6, <2>1, BehindJoins
<1>8. InSync
  <2>1. input_pointer + 1 = 2 /\ input_pointer <= input_end
    BY <1>3, <1>4
  <2>2. QED BY <1>4, <1>5, <1>7, <2>1 DEF InSync
<1>9. Meaning(text)' = Meaning(text) /\ Escaped(text)' = Escaped(text)
  BY <1>1, SameMeaning, SameText
<1>10. InSync'
  BY <1>1, <1>8, <1>9 DEF InSync
<1>11. QED BY <1>1, <1>2, <1>10 DEF MeaningInv

\* The steps of the second pass, in sync or not.
LEMMA SecondPassMeans ==
  ASSUME ValueInv, StringInv, text[1] = Quote, MeaningInv, type' = type,
         Copy \/ CopyEscape \/ CopyUnicode \/ UnknownEscape
  PROVE  MeaningInv'
<1>1. at = "copy" /\ text' = text /\ at' \in {"copy", "fail"}
  <2>1. CASE Copy
    BY <2>1 DEF Copy
  <2>2. CASE CopyEscape
    BY <2>2, Zenon DEF CopyEscape
  <2>3. CASE UnknownEscape
    BY <2>3 DEF UnknownEscape
  <2>4. CASE CopyUnicode
    <3>1. at = "copy" /\ text' = text /\ IF Literal(input_pointer).length = 0 THEN at' = "fail" ELSE at' = at
      BY <2>4, Zenon DEF CopyUnicode
    <3>2. QED BY <3>1, Zenon
  <2>5. QED BY <2>1, <2>2, <2>3, <2>4
<1>2. type = "none"
  BY <1>1 DEF ValueInv, NoneYet
<1>3. Meaning(text)' = Meaning(text) /\ (OutOfSync' <=> OutOfSync)
  BY <1>1, SameMeaning
<1>4. CASE OutOfSync
  <2>1. Meaning(text)'[2] = Bad
    BY <1>3, <1>4 DEF OutOfSync
  <2>2. QED BY <1>1, <1>2, <1>3, <1>4, <2>1 DEF MeaningInv
<1>5. CASE InSync
  <2>1. /\ at' = "copy" => InSync' \/ OutOfSync
        /\ at' = "fail" => Meaning(text)[2] = Bad
    <3>1. CASE Copy
      BY <1>5, <3>1, CopyInSync
    <3>2. CASE CopyEscape
      BY <1>5, <3>2, CopyEscapeInSync
    <3>3. CASE CopyUnicode
      BY <1>5, <3>3, CopyUnicodeInSync
    <3>4. CASE UnknownEscape
      <4>1. at' = "fail"
        BY <3>4 DEF UnknownEscape
      <4>2. QED BY <1>5, <3>4, <4>1, UnknownEscapeInSync
    <3>5. QED BY <3>1, <3>2, <3>3, <3>4
  <2>2. QED BY <1>1, <1>2, <1>3, <2>1 DEF MeaningInv
<1>6. QED BY <1>1, <1>4, <1>5 DEF MeaningInv

LEMMA TerminateMeans ==
  ASSUME ValueInv, StringInv, text[1] = Quote, MeaningInv, Terminate
  PROVE  MeaningInv'
<1>1. /\ at = "copy" /\ input_pointer >= input_end /\ at' = "parsed"
      /\ output' = Append(output, NUL) /\ text' = text
  BY DEF Terminate
<1>2. /\ Terminated(text) /\ Len(text) \in Nat /\ Length = Len(text) /\ output \in Seq(Octet)
      /\ input_end \in Nat /\ input_end < Length /\ text[input_end + 1] = Quote
      /\ input_pointer \in Nat /\ 1 <= input_pointer
  BY <1>1, CopyFacts
<1>3. Meaning(text)' = Meaning(text) /\ (OutOfSync' <=> OutOfSync)
  BY <1>1, SameMeaning
<1>4. output' = output \o <<NUL>>
  <2>1. NUL \in Octet
    BY DEF NUL, Octet
  <2>2. \A s \in Seq(Octet), b \in Octet : Append(s, b) = s \o <<b>>
    OBVIOUS
  <2>3. QED BY <1>1, <1>2, <2>1, <2>2
<1>5. CASE InSync
  <2>1. input_pointer = input_end
    BY <1>1, <1>2, <1>5 DEF InSync
  <2>2. input_end + 1 \in 1 .. Len(text)
    BY <1>2
  <2>3. Meaning(text)[input_pointer + 1] = <<>>
    <3>1. Meaning(text)[input_end + 1] = MeaningAt(text, input_end + 1, Meaning(text))
      BY <1>2, <2>2, MeaningUnfolds
    <3>2. QED BY <1>2, <2>1, <2>2, <3>1, MeaningSteps
  <2>4. Meaning(text)[2] = output
    <3>1. <<>> # Bad
      BY DEF Bad
    <3>2. Behind(output, <<>>) = output
      BY <1>2, <3>1 DEF Behind
    <3>3. QED BY <1>5, <2>3, <3>2 DEF InSync
  <2>5. output' = Meaning(text)'[2] \o <<NUL>>
    BY <1>3, <1>4, <2>4, Zenon
  <2>6. QED BY <1>1, <2>5 DEF MeaningInv
<1>6. CASE OutOfSync
  BY <1>1, <1>3, <1>6 DEF MeaningInv
<1>7. QED BY <1>1, <1>5, <1>6 DEF MeaningInv

\* A string means something also when it has been printed.
MeaningHolds == text[1] = Quote => MeaningInv

LEMMA MeaningKept ==
  ASSUME IInv, MeaningHolds, [Next]_vars
  PROVE  MeaningHolds'
<1>1. ValueInv
  BY DEF IInv
<1> SUFFICES ASSUME text'[1] = Quote PROVE MeaningInv'
  BY DEF MeaningHolds
<1>2. CASE StringStep
  <2>1. ParseString /\ type' = (IF at' = "parsed" THEN "string" ELSE type)
    BY <1>2, Zenon DEF StringStep
  <2>2. /\ text' = text
        /\ at' # "parsed" \/ Terminate
    BY <2>1 DEF ParseString, Scan, Unterminated, Allocate, OutOfMemory, Copy, CopyEscape, CopyUnicode, UnknownEscape,
                Terminate, Fail
  <2>3. text[1] = Quote /\ StringInv /\ MeaningInv
    BY <2>2 DEF MeaningHolds, IInv
  <2>4. CASE Terminate
    BY <1>1, <2>3, <2>4, TerminateMeans
  <2>5. CASE ~Terminate
    <3>1. type' = type
      BY <2>1, <2>2, <2>5
    <3>2. CASE OutOfMemory
      <4>1. at = "scan" /\ at' = "starved"
        BY <3>2 DEF OutOfMemory
      <4>2. type = "none"
        BY <1>1, <4>1 DEF ValueInv, NoneYet
      <4>3. QED BY <3>1, <4>1, <4>2 DEF MeaningInv
    <3>3. CASE Fail
      <4>1. at = "fail" /\ at' = "failed"
        BY <3>3 DEF Fail
      <4>2. type = "none"
        BY <1>1, <4>1 DEF ValueInv, NoneYet
      <4>3. Meaning(text)'[2] = Bad
        BY <2>2, <2>3, <4>1, SameMeaning DEF MeaningInv
      <4>4. QED BY <3>1, <4>1, <4>2, <4>3 DEF MeaningInv
    <3>4. QED BY <1>1, <2>1, <2>3, <2>5, <3>1, <3>2, <3>3, ScanMeans, UnterminatedMeans, AllocateMeans, SecondPassMeans,
                 Zenon DEF ParseString
  <2>6. QED BY <2>4, <2>5
<1>3. CASE StartString
  <2>1. at = "value" /\ at' = "scan" /\ type' = type
    BY <1>3 DEF StartString
  <2>2. type = "none"
    BY <1>1, <2>1 DEF ValueInv, NoneYet
  <2>3. QED BY <2>1, <2>2 DEF MeaningInv
<1>4. ASSUME at = "value", text' = text, text[1] # Quote PROVE FALSE
  BY <1>4
<1>5. CASE \E w \in DOMAIN Word : ParseWord(w)
  <2>1. PICK w \in DOMAIN Word : ParseWord(w)
    BY <1>5
  <2>2. text' = text /\ text[1] # Quote
    BY <1>1, <2>1, WordStarts DEF ParseWord, ValueInv
  <2>3. QED BY <2>2
<1>6. CASE ParseNumber
  <2>1. text' = text /\ Byte(0) \in Decimal \cup {Minus}
    BY <1>6, Zenon DEF ParseNumber
  <2>2. Byte(0) # Quote
    BY <2>1 DEF Decimal, Minus, Zero, Quote
  <2>3. QED BY <2>1, <2>2 DEF Byte
<1>7. CASE NoValue
  <2>1. text' = text /\ Byte(0) \notin Decimal \cup {Minus, Quote}
    BY <1>7 DEF NoValue
  <2>2. QED BY <2>1 DEF Byte
<1>8. CASE IntToString \/ PrintString \/ UNCHANGED vars
  <2>1. UNCHANGED <<stringRest, type>> /\ (at' = at \/ (at \notin NoneYet /\ at' \notin NoneYet))
    <3>1. CASE IntToString
      <4>1. UNCHANGED <<stringRest, type>> /\ at = "parsed" /\ at' \in {"fatal", "set"}
        BY <3>1 DEF IntToString
      <4>2. QED BY <4>1 DEF NoneYet
    <3>2. CASE PrintString
      <4>1. UNCHANGED <<stringRest, type>> /\ at = "parsed" /\ at' = "printed"
        BY <3>2, Zenon DEF PrintString
      <4>2. QED BY <4>1 DEF NoneYet
    <3>3. CASE UNCHANGED vars
      <4>1. UNCHANGED <<stringVars, type>>
        BY <3>3 DEF vars
      <4>2. QED BY <4>1 DEF stringVars
    <3>4. QED BY <1>8, <3>1, <3>2, <3>3
  <2>2. UNCHANGED <<text, input_end, input_pointer, output, type>>
    BY <2>1 DEF stringRest
  <2>3. MeaningInv
    BY <2>2 DEF MeaningHolds
  <2>4. /\ Meaning(text)' = Meaning(text) /\ (OutOfSync' <=> OutOfSync)
        /\ Escaped(text)' = Escaped(text)
    BY <2>2, SameMeaning, SameText
  <2>5. InSync' <=> InSync
    BY <2>2, <2>4 DEF InSync
  <2>6. at' \in NoneYet => at' = at
    BY <2>1
  <2>7. QED BY <2>2, <2>3, <2>4, <2>5, <2>6 DEF MeaningInv, NoneYet
<1>9. QED BY <1>2, <1>3, <1>5, <1>6, <1>7, <1>8 DEF Next

\* A string that is accepted is what its literal means, byte for byte, unless parse_hex4
\* has let a \u without digits through, and one that is rejected means nothing.
THEOREM StringsAreRead == Spec => []StringIsItsMeaning
<1>1. Init => MeaningHolds
  <2> SUFFICES ASSUME Init PROVE MeaningInv
    BY DEF MeaningHolds
  <2>1. at = "value" /\ type = "none"
    BY DEF Init, StringInit
  <2>2. QED BY <2>1 DEF MeaningInv
<1>2. IInv /\ MeaningHolds => StringIsItsMeaning
  <2> SUFFICES ASSUME IInv, MeaningHolds, text[1] = Quote
               PROVE  /\ at = "parsed" => /\ \/ output = Meaning(text)[2] \o <<NUL>>
                                             \/ Meaning(text)[2] = Bad /\ HasBadCode
                      /\ at = "failed" => Meaning(text)[2] = Bad
    BY DEF StringIsItsMeaning
  <2>1. MeaningInv
    BY DEF MeaningHolds
  <2>2. at = "parsed" => type = "string"
    BY DEF IInv, ValueInv, StringInv, NoneYet
  <2>3. QED BY <2>1, <2>2 DEF MeaningInv, OutOfSync
<1>3. QED BY <1>1, <1>2, InitInv, NextKeeps, MeaningKept, PTL DEF Spec

-----------------------------------------------------------------------------
(* What print_string_ptr writes for a byte *)

\* The bytes of a C string, and those a literal is written in.
Character == 1 .. 255
Visible   == {b \in Octet : b > 31}

Plain(b)   == b > 31 /\ b \notin {Quote, Backslash}
Self(b)    == b \in {Quote, Backslash}
Short(b)   == b \in DOMAIN ShortEscape
Control(b) == b < 32 /\ b \notin DOMAIN ShortEscape

LEMMA WrittenCases ==
  ASSUME NEW b \in Character
  PROVE  /\ b \in Nat /\ b \in Octet
         /\ Plain(b) \/ Self(b) \/ Short(b) \/ Control(b)
         /\ Plain(b) => Written(b) = <<b>> /\ Extra(b) = 0
         /\ Self(b) => Written(b) = <<Backslash, b>> /\ Extra(b) = 1
         /\ Short(b) => Written(b) = <<Backslash, ShortEscape[b]>> /\ Extra(b) = 1
         /\ Control(b) => /\ Written(b) = <<Backslash, LetterU, Zero, Zero, Hex(b \div 16), Hex(b % 16)>>
                          /\ Extra(b) = 5
<1>1. b \in Nat /\ b \in Octet
  BY DEF Character, Octet
<1>2. /\ DOMAIN ShortEscape = {8, 9, 10, 12, 13} /\ Quote = 34 /\ Backslash = 92
  BY DEF ShortEscape, Quote, Backslash
<1>3. Plain(b) \/ Self(b) \/ Short(b) \/ Control(b)
  BY <1>1 DEF Plain, Self, Short, Control
<1>4. CASE Plain(b)
  BY <1>1, <1>2, <1>4 DEF Plain, Self, Short, Control, Written, Extra
<1>5. CASE Self(b)
  BY <1>1, <1>2, <1>5 DEF Plain, Self, Short, Control, Written, Extra
<1>6. CASE Short(b)
  BY <1>1, <1>2, <1>6 DEF Plain, Self, Short, Control, Written, Extra
<1>7. CASE Control(b)
  BY <1>1, <1>2, <1>7 DEF Plain, Self, Short, Control, Written, Extra
<1>8. QED BY <1>1, <1>3, <1>4, <1>5, <1>6, <1>7

\* A digit of a \u is read back as what it was written for.
LEMMA HexRead ==
  ASSUME NEW n \in Nat, n <= 15
  PROVE  Hex(n) \in Digits /\ Digit(Hex(n)) = n /\ Hex(n) \in Visible
<1>1. CASE n < 10
  <2>1. Hex(n) = 48 + n
    BY <1>1 DEF Hex, Zero
  <2>2. QED BY <1>1, <2>1 DEF Digits, Digit, Visible, Octet
<1>2. CASE ~(n < 10)
  <2>1. Hex(n) = 87 + n
    BY <1>2 DEF Hex
  <2>2. QED BY <1>2, <2>1 DEF Digits, Digit, Visible, Octet
<1>3. QED BY <1>1, <1>2

LEMMA Nibbles ==
  ASSUME NEW b \in Nat, b < 32
  PROVE  /\ b \div 16 \in Nat /\ b \div 16 <= 15 /\ b % 16 \in Nat /\ b % 16 <= 15
         /\ 16 * (b \div 16) + (b % 16) = b
BY SMT

\* Each short escape that is written is one that is read.
LEMMA ShortRead ==
  ASSUME NEW b \in DOMAIN ShortEscape
  PROVE  /\ ShortEscape[b] \in DOMAIN Escapes /\ Escapes[ShortEscape[b]] = b
         /\ ShortEscape[b] \in Visible /\ ShortEscape[b] \notin Itself
<1>1. b \in {8, 9, 10, 12, 13}
  BY DEF ShortEscape
<1>2. ShortEscape[b] = CASE b = 8 -> 98 [] b = 9 -> 116 [] b = 10 -> 110 [] b = 12 -> 102 [] b = 13 -> 114
  BY <1>1 DEF ShortEscape
<1>3. ShortEscape[b] \in {98, 116, 110, 102, 114}
  BY <1>1, <1>2
<1>4. ShortEscape[b] \in DOMAIN Escapes
  BY <1>3 DEF Escapes
<1>5. Escapes[ShortEscape[b]] = b
  <2>1. /\ Escapes[98] = 8 /\ Escapes[116] = 9 /\ Escapes[110] = 10 /\ Escapes[102] = 12 /\ Escapes[114] = 13
    BY DEF Escapes
  <2>2. QED BY <1>1, <1>2, <2>1
<1>6. ShortEscape[b] \in Visible /\ ShortEscape[b] \notin Itself
  BY <1>3 DEF Visible, Octet, Itself, Quote, Backslash, Slash
<1>7. QED BY <1>4, <1>5, <1>6

\* The first pass counts the bytes the second one writes, all of them visible.
LEMMA WrittenBytes ==
  ASSUME NEW b \in Character
  PROVE  /\ Written(b) \in Seq(Visible) /\ Extra(b) \in Nat
         /\ Len(Written(b)) = 1 + Extra(b)
<1>1. Quote \in Visible /\ Backslash \in Visible /\ LetterU \in Visible /\ Zero \in Visible
  BY DEF Visible, Octet, Quote, Backslash, LetterU, Zero
<1>2. CASE Plain(b)
  <2>1. b \in Visible
    BY <1>2, WrittenCases DEF Plain, Visible
  <2>2. <<b>> \in Seq(Visible) /\ Len(<<b>>) = 1
    BY <2>1
  <2>3. Written(b) = <<b>> /\ Extra(b) = 0
    BY <1>2, WrittenCases
  <2>4. Written(b) \in Seq(Visible) /\ Len(Written(b)) = 1
    BY <2>2, <2>3, Zenon
  <2>5. QED BY <2>3, <2>4
<1>3. CASE Self(b)
  <2>1. b \in Visible
    BY <1>1, <1>3 DEF Self
  <2>2. <<Backslash, b>> \in Seq(Visible) /\ Len(<<Backslash, b>>) = 2
    BY <1>1, <2>1
  <2>3. Written(b) = <<Backslash, b>> /\ Extra(b) = 1
    BY <1>3, WrittenCases
  <2>4. Written(b) \in Seq(Visible) /\ Len(Written(b)) = 2
    BY <2>2, <2>3, Zenon
  <2>5. QED BY <2>3, <2>4
<1>4. CASE Short(b)
  <2>1. ShortEscape[b] \in Visible
    BY <1>4, ShortRead DEF Short
  <2>2. <<Backslash, ShortEscape[b]>> \in Seq(Visible) /\ Len(<<Backslash, ShortEscape[b]>>) = 2
    BY <1>1, <2>1
  <2>3. Written(b) = <<Backslash, ShortEscape[b]>> /\ Extra(b) = 1
    BY <1>4, WrittenCases
  <2>4. Written(b) \in Seq(Visible) /\ Len(Written(b)) = 2
    BY <2>2, <2>3, Zenon
  <2>5. QED BY <2>3, <2>4
<1>5. CASE Control(b)
  <2> DEFINE x == Hex(b \div 16)
             y == Hex(b % 16)
  <2>1. b \div 16 \in Nat /\ b \div 16 <= 15 /\ b % 16 \in Nat /\ b % 16 <= 15
    BY <1>5, WrittenCases, Nibbles DEF Control
  <2>2. x \in Visible /\ y \in Visible
    BY <2>1, HexRead
  <2> HIDE DEF x, y
  <2>3. <<Backslash, LetterU, Zero, Zero, x, y>> \in Seq(Visible) /\ Len(<<Backslash, LetterU, Zero, Zero, x, y>>) = 6
    BY <1>1, <2>2
  <2>4. Written(b) = <<Backslash, LetterU, Zero, Zero, x, y>> /\ Extra(b) = 5
    BY <1>5, WrittenCases DEF x, y
  <2>5. Written(b) \in Seq(Visible) /\ Len(Written(b)) = 6
    BY <2>3, <2>4, Zenon
  <2>6. QED BY <2>4, <2>5
<1>6. QED BY <1>2, <1>3, <1>4, <1>5, WrittenCases

\* What is written for a byte means the byte, wherever it stands.
LEMMA WrittenMeans ==
  ASSUME NEW b \in Character, NEW t, Terminated(t), NEW q \in 1 .. Len(t),
         q + Len(Written(b)) <= Len(t),
         \A k \in 1 .. Len(Written(b)) : t[q + k - 1] = Written(b)[k]
  PROVE  Meaning(t)[q] = Behind(<<b>>, Meaning(t)[q + 1 + Extra(b)])
<1> DEFINE M == Meaning(t)
           W == Written(b)
<1>1. Len(t) \in Nat /\ M[q] = MeaningAt(t, q, M)
  BY MeaningUnfolds DEF Terminated
<1>2. Len(W) = 1 + Extra(b) /\ Extra(b) \in Nat
  BY WrittenBytes
<1>3. t[q] = W[1]
  <2>1. 1 \in 1 .. Len(W) /\ q + 1 - 1 = q
    BY <1>2
  <2>2. QED BY <2>1
<1>4. Len(W) > 1 => t[q + 1] = W[2]
  <2>1. Len(W) > 1 => 2 \in 1 .. Len(W) /\ q + 2 - 1 = q + 1
    BY <1>2
  <2>2. QED BY <2>1
<1> HIDE DEF M
<1>5. CASE Plain(b)
  <2>1. W = <<b>> /\ Extra(b) = 0
    BY <1>5, WrittenCases
  <2>2. t[q] = b /\ b # Quote /\ b # Backslash
    BY <1>3, <1>5, <2>1 DEF Plain
  <2>3. q # Len(t)
    BY <1>1, <1>2, <2>1
  <2>4. MeaningAt(t, q, M) = Behind(<<b>>, M[q + 1])
    BY <2>2, <2>3, MeaningSteps
  <2>5. q + 1 + 0 = q + 1
    OBVIOUS
  <2>6. QED BY <1>1, <2>1, <2>4, <2>5 DEF M
<1>6. CASE Self(b)
  <2>1. W = <<Backslash, b>> /\ Extra(b) = 1
    BY <1>6, WrittenCases
  <2>2. t[q] = Backslash /\ t[q + 1] = b /\ b \in Itself
    BY <1>2, <1>3, <1>4, <1>6, <2>1 DEF Self, Itself
  <2>3. MeaningAt(t, q, M) = Behind(<<t[q + 1]>>, M[q + 2])
    <3>1. t[q] = Backslash /\ t[q + 1] \in Itself
      BY <2>2
    <3> HIDE DEF W
    <3>2. QED BY <3>1, MeaningSteps
  <2>4. q + 1 + 1 = q + 2
    OBVIOUS
  <2>5. QED BY <1>1, <2>1, <2>2, <2>3, <2>4 DEF M
<1>7. CASE Short(b)
  <2>1. W = <<Backslash, ShortEscape[b]>> /\ Extra(b) = 1
    BY <1>7, WrittenCases
  <2>2. t[q] = Backslash /\ t[q + 1] = ShortEscape[b]
    BY <1>2, <1>3, <1>4, <2>1
  <2>3. ShortEscape[b] \in DOMAIN Escapes /\ Escapes[ShortEscape[b]] = b
    BY <1>7, ShortRead DEF Short
  <2>4. MeaningAt(t, q, M) = Behind(<<Escapes[t[q + 1]]>>, M[q + 2])
    BY <2>2, <2>3, MeaningSteps
  <2>5. q + 1 + 1 = q + 2
    OBVIOUS
  <2>6. QED BY <1>1, <2>1, <2>2, <2>3, <2>4, <2>5 DEF M
<1>8. CASE Control(b)
  <2> DEFINE x == Hex(b \div 16)
             y == Hex(b % 16)
  <2>1. W = <<Backslash, LetterU, Zero, Zero, x, y>> /\ Extra(b) = 5
    BY <1>8, WrittenCases
  <2>2. b \in Nat /\ b < 32
    BY <1>8, WrittenCases DEF Control
  <2>3. b \div 16 \in Nat /\ b \div 16 <= 15 /\ b % 16 \in Nat /\ b % 16 <= 15 /\ 16 * (b \div 16) + (b % 16) = b
    BY <2>2, Nibbles
  <2>4. x \in Digits /\ y \in Digits /\ Digit(x) = b \div 16 /\ Digit(y) = b % 16
    BY <2>3, HexRead
  <2>5. Zero \in Digits /\ Digit(Zero) = 0
    BY DEF Zero, Digits, Digit
  <2> HIDE DEF x, y
  <2>6. /\ t[q] = Backslash /\ t[q + 1] = LetterU /\ t[q + 2] = Zero /\ t[q + 3] = Zero
        /\ t[q + 4] = x /\ t[q + 5] = y
    <3>1. Len(W) = 6
      BY <1>2, <2>1
    <3>2. /\ q + 3 - 1 = q + 2 /\ q + 4 - 1 = q + 3 /\ q + 5 - 1 = q + 4 /\ q + 6 - 1 = q + 5
          /\ 3 \in 1 .. 6 /\ 4 \in 1 .. 6 /\ 5 \in 1 .. 6 /\ 6 \in 1 .. 6
      OBVIOUS
    <3>3. /\ W[1] = Backslash /\ W[2] = LetterU /\ W[3] = Zero /\ W[4] = Zero /\ W[5] = x /\ W[6] = y
      BY <2>1
    <3>4. t[q + 2] = W[3] /\ t[q + 3] = W[4] /\ t[q + 4] = W[5] /\ t[q + 5] = W[6]
      BY <3>1, <3>2
    <3>5. QED BY <1>3, <1>4, <3>1, <3>3, <3>4
  <2>7. IsCode(t, q)
    <3>1. q + 5 < Len(t)
      BY <1>1, <1>2, <2>1
    <3>2. \A k \in 2 .. 5 : k = 2 \/ k = 3 \/ k = 4 \/ k = 5
      OBVIOUS
    <3>3. \A k \in 2 .. 5 : t[q + k] \in Digits
      BY <2>4, <2>5, <2>6, <3>2
    <3>4. QED BY <2>6, <3>1, <3>3 DEF IsCode
  <2>8. Unit(t, q) = b
    <3>1. Unit(t, q) = UnitAt(t[q + 2], t[q + 3], t[q + 4], t[q + 5])
      BY Zenon DEF Unit, UnitAt
    <3>2. Unit(t, q) = UnitAt(Zero, Zero, x, y)
      BY <2>6, <3>1
    <3>3. UnitAt(Zero, Zero, x, y) = 16 * (b \div 16) + (b % 16)
      BY SMT, <2>3, <2>4, <2>5 DEF UnitAt
    <3>4. QED BY <2>3, <3>2, <3>3
  <2>9. ~Low(b) /\ ~High(b)
    BY <2>2, Surrogates
  <2>10. LongEscape(t, q)
    <3>1. LetterU \notin DOMAIN Escapes \cup Itself
      BY DEF LetterU, Escapes, Itself, Quote, Backslash, Slash
    <3>2. QED BY <2>6, <3>1 DEF LongEscape
  <2>11. MeaningAt(t, q, M) = Behind(Encoded(b), M[q + 6])
    <3>1. ~Low(Unit(t, q)) /\ ~High(Unit(t, q))
      BY <2>8, <2>9
    <3>2. MeaningAt(t, q, M) = Behind(Encoded(Unit(t, q)), M[q + 6])
      BY <2>7, <2>10, <3>1, MeaningSteps
    <3>3. QED BY <2>8, <3>2
  <2>12. Encoded(b) = <<b>>
    BY SMT, <2>2 DEF Encoded
  <2>13. q + 1 + 5 = q + 6
    OBVIOUS
  <2>14. QED BY <1>1, <2>1, <2>11, <2>12, <2>13 DEF M
<1>9. QED BY <1>5, <1>6, <1>7, <1>8, WrittenCases

-----------------------------------------------------------------------------
(* What print_string_ptr writes for a string *)

IsCString(s) == Len(s) \in Nat /\ \A n \in 1 .. Len(s) : s[n] \in Character

\* The sums of the first pass, and what the second one has written after each byte.
CountOf(s) == CHOOSE C : C = [n \in 0 .. Len(s) |-> IF n = 0 THEN 0 ELSE C[n - 1] + 1 + Extra(s[n])]
BodyOf(s)  == CHOOSE B : B = [n \in 0 .. Len(s) |-> IF n = 0 THEN <<Quote>> ELSE B[n - 1] \o Written(s[n])]

PrintOf(length, body) ==
  [i \in 1 .. length + 3 |-> IF i = length + 2 THEN Quote
                             ELSE IF i = length + 3 THEN NUL
                             ELSE IF i <= Len(body) THEN body[i] ELSE NUL]

LEMMA CountUnfolds ==
  ASSUME NEW s, IsCString(s)
  PROVE  /\ CountOf(s)[0] = 0 /\ \A n \in 0 .. Len(s) : CountOf(s)[n] \in Nat
         /\ \A n \in 1 .. Len(s) : CountOf(s)[n] = CountOf(s)[n - 1] + 1 + Extra(s[n])
<1> DEFINE N == Len(s)
           Solves(C) == C = [n \in 0 .. N |-> IF n = 0 THEN 0 ELSE C[n - 1] + 1 + Extra(s[n])]
           step == [n \in 1 .. N |-> [v \in Nat |-> v + 1 + Extra(s[n])]]
<1>1. N \in Nat /\ \A n \in 1 .. N : Extra(s[n]) \in Nat
  BY WrittenBytes DEF IsCString
<1>2. step \in [1 .. N -> [Nat -> Nat]]
  BY <1>1
<1>3. PICK f : IsIteration(f, N, Nat, 0, step)
  <2> HIDE DEF N, step
  <2>1. QED BY <1>1, <1>2, Iterates
<1>4. f \in [0 .. N -> Nat]
  BY <1>3 DEF IsIteration
<1>5. Solves(f)
  <2>1. f = [n \in 0 .. N |-> IF n = 0 THEN 0 ELSE step[n][f[n - 1]]]
    <3> HIDE DEF N, step
    <3>1. QED BY <1>1, <1>3, IterationSolves
  <2>2. ASSUME NEW n \in 0 .. N, n # 0 PROVE step[n][f[n - 1]] = f[n - 1] + 1 + Extra(s[n])
    <3>1. n \in 1 .. N /\ n - 1 \in 0 .. N
      BY <2>2
    <3>2. f[n - 1] \in Nat
      BY <1>4, <3>1
    <3> HIDE DEF N
    <3>3. QED BY <3>1, <3>2
  <2> HIDE DEF step
  <2>3. QED BY <2>1, <2>2
<1>6. CountOf(s) = CHOOSE C : Solves(C)
  BY Zenon DEF CountOf
<1> HIDE DEF step
<1>7. Solves(CHOOSE C : Solves(C))
  BY <1>5, Zenon
<1> DEFINE C == CountOf(s)
<1>8. \A n \in 0 .. N : C[n] = IF n = 0 THEN 0 ELSE C[n - 1] + 1 + Extra(s[n])
  <2> HIDE DEF C
  <2>1. C = [n \in 0 .. N |-> IF n = 0 THEN 0 ELSE C[n - 1] + 1 + Extra(s[n])]
    BY <1>6, <1>7 DEF C
  <2>2. QED BY <2>1, Zenon
<1> HIDE DEF C, Solves
<1>9. C[0] = 0
  BY <1>1, <1>8
<1>10. \A n \in 1 .. N : C[n] = C[n - 1] + 1 + Extra(s[n])
  BY <1>1, <1>8
<1>11. \A n \in 0 .. N : C[n] \in Nat
  <2>1. \A n \in 1 .. N : C[n - 1] \in Nat => C[n] \in Nat
    BY <1>1, <1>10
  <2>2. C[0] \in Nat
    BY <1>9
  <2> HIDE DEF N
  <2>3. QED BY <1>1, <2>1, <2>2, StaysIn
<1>12. QED BY <1>9, <1>10, <1>11 DEF C

LEMMA BodyUnfolds ==
  ASSUME NEW s, IsCString(s)
  PROVE  /\ BodyOf(s)[0] = <<Quote>> /\ \A n \in 0 .. Len(s) : BodyOf(s)[n] \in Seq(Visible)
         /\ \A n \in 1 .. Len(s) : BodyOf(s)[n] = BodyOf(s)[n - 1] \o Written(s[n])
<1> DEFINE N == Len(s)
           A == Seq(Visible)
           W(n) == Written(s[n])
           Solves(B) == B = [n \in 0 .. N |-> IF n = 0 THEN <<Quote>> ELSE B[n - 1] \o W(n)]
           step == [n \in 1 .. N |-> [v \in A |-> v \o W(n)]]
<1>1. N \in Nat /\ <<Quote>> \in A
  <2>1. Quote \in Visible
    BY DEF Quote, Visible, Octet
  <2>2. QED BY <2>1 DEF IsCString
<1>2. \A n \in 1 .. N : \A v \in A : v \o W(n) \in A
  <2> SUFFICES ASSUME NEW n \in 1 .. N, NEW v \in A PROVE v \o W(n) \in A
    OBVIOUS
  <2>1. W(n) \in A
    BY WrittenBytes DEF IsCString
  <2> HIDE DEF W
  <2>2. QED BY <2>1
<1> HIDE DEF W
<1>3. step \in [1 .. N -> [A -> A]]
  <2> HIDE DEF A
  <2>1. QED BY <1>2
<1>4. PICK f : IsIteration(f, N, A, <<Quote>>, step)
  <2> HIDE DEF N, A, step
  <2>1. QED BY <1>1, <1>3, Iterates
<1>5. f \in [0 .. N -> A]
  <2> HIDE DEF A
  <2>1. QED BY <1>4 DEF IsIteration
<1>6. Solves(f)
  <2>1. f = [n \in 0 .. N |-> IF n = 0 THEN <<Quote>> ELSE step[n][f[n - 1]]]
    <3> HIDE DEF N, A, step
    <3>1. QED BY <1>1, <1>4, IterationSolves
  <2>2. ASSUME NEW n \in 0 .. N, n # 0 PROVE step[n][f[n - 1]] = f[n - 1] \o W(n)
    <3>1. n \in 1 .. N /\ n - 1 \in 0 .. N
      BY <2>2
    <3> HIDE DEF A
    <3>2. f[n - 1] \in A
      BY <1>5, <3>1
    <3> HIDE DEF N
    <3>3. QED BY <3>1, <3>2
  <2> HIDE DEF step, A
  <2>3. QED BY <2>1, <2>2
<1>7. BodyOf(s) = CHOOSE B : Solves(B)
  BY Zenon DEF BodyOf, W
<1> HIDE DEF step, A
<1>8. Solves(CHOOSE B : Solves(B))
  BY <1>6, Zenon
<1> DEFINE B == BodyOf(s)
<1>9. \A n \in 0 .. N : B[n] = IF n = 0 THEN <<Quote>> ELSE B[n - 1] \o W(n)
  <2> HIDE DEF B
  <2>1. B = [n \in 0 .. N |-> IF n = 0 THEN <<Quote>> ELSE B[n - 1] \o W(n)]
    BY <1>7, <1>8 DEF B
  <2>2. QED BY <2>1, Zenon
<1> HIDE DEF B, Solves
<1>10. B[0] = <<Quote>>
  BY <1>1, <1>9
<1>11. \A n \in 1 .. N : B[n] = B[n - 1] \o W(n)
  <2>1. \A n \in 1 .. N : n \in 0 .. N /\ n # 0
    OBVIOUS
  <2>2. QED BY <1>9, <2>1, Zenon
<1>12. \A n \in 0 .. N : B[n] \in A
  <2>1. \A n \in 1 .. N : B[n - 1] \in A => B[n] \in A
    BY <1>2, <1>11
  <2>2. B[0] \in A
    BY <1>1, <1>10
  <2> HIDE DEF N
  <2>3. QED BY <1>1, <2>1, <2>2, StaysIn
<1>13. QED BY <1>10, <1>11, <1>12 DEF A, B, W

\* The passes agree on where every byte's part begins and where the last one ends.
LEMMA PassesAgree ==
  ASSUME NEW s, IsCString(s)
  PROVE  /\ \A n \in 0 .. Len(s) : Len(BodyOf(s)[n]) = 1 + CountOf(s)[n]
         /\ BodyOf(s)[Len(s)][1] = Quote
         /\ \A n \in 1 .. Len(s) :
              /\ CountOf(s)[n] <= CountOf(s)[Len(s)]
              /\ \A k \in 1 .. Len(Written(s[n])) :
                   BodyOf(s)[Len(s)][1 + CountOf(s)[n - 1] + k] = Written(s[n])[k]
<1> DEFINE N == Len(s)
           C == CountOf(s)
           B == BodyOf(s)
           W(n) == Written(s[n])
           Holds(m) == /\ Len(B[m]) = 1 + C[m] /\ B[m][1] = Quote
                       /\ \A n \in 1 .. m : /\ C[n] <= C[m]
                                            /\ \A k \in 1 .. Len(W(n)) : B[m][1 + C[n - 1] + k] = W(n)[k]
           S == {m \in Nat : m <= N => Holds(m)}
<1>1. N \in Nat /\ C[0] = 0 /\ \A n \in 0 .. N : C[n] \in Nat /\ B[n] \in Seq(Visible)
  BY CountUnfolds, BodyUnfolds DEF IsCString
<1>2. \A n \in 1 .. N : /\ W(n) \in Seq(Visible) /\ Len(W(n)) \in Nat /\ Len(W(n)) >= 1
                        /\ C[n] = C[n - 1] + Len(W(n)) /\ B[n] = B[n - 1] \o W(n)
  <2> SUFFICES ASSUME NEW n \in 1 .. N
               PROVE  /\ W(n) \in Seq(Visible) /\ Len(W(n)) \in Nat /\ Len(W(n)) >= 1
                      /\ C[n] = C[n - 1] + Len(W(n)) /\ B[n] = B[n - 1] \o W(n)
    OBVIOUS
  <2>1. W(n) \in Seq(Visible) /\ Extra(s[n]) \in Nat /\ Len(W(n)) = 1 + Extra(s[n])
    BY WrittenBytes DEF IsCString
  <2>2. C[n] = C[n - 1] + 1 + Extra(s[n]) /\ B[n] = B[n - 1] \o W(n)
    BY CountUnfolds, BodyUnfolds
  <2>3. C[n - 1] \in Nat
    <3>1. n - 1 \in 0 .. N
      BY <1>1
    <3>2. QED BY <1>1, <3>1
  <2> HIDE DEF B, C, W
  <2> DEFINE e == Extra(s[n])
  <2>4. e \in Nat /\ Len(W(n)) = 1 + e /\ C[n] = C[n - 1] + 1 + e
    BY <2>1, <2>2
  <2> HIDE DEF e
  <2>5. C[n - 1] + 1 + e = C[n - 1] + (1 + e) /\ 1 + e \in Nat /\ 1 + e >= 1
    BY <2>3, <2>4
  <2>6. C[n] = C[n - 1] + Len(W(n)) /\ Len(W(n)) \in Nat /\ Len(W(n)) >= 1
    BY <2>4, <2>5
  <2>7. QED BY <2>1, <2>2, <2>6
<1>3. B[0] = <<Quote>>
  BY BodyUnfolds
<1> HIDE DEF C, B, W
<1>4. 0 \in S
  <2>1. Len(B[0]) = 1 /\ B[0][1] = Quote
    BY <1>3
  <2>2. Len(B[0]) = 1 + C[0]
    BY <1>1, <2>1
  <2>3. \A n \in 1 .. 0 : FALSE
    OBVIOUS
  <2>4. Holds(0)
    BY <2>1, <2>2, <2>3
  <2> HIDE DEF Holds
  <2>5. QED BY <2>4
<1>5. ASSUME NEW m \in Nat, m \in S PROVE m + 1 \in S
  <2> SUFFICES ASSUME m + 1 <= N PROVE Holds(m + 1)
    OBVIOUS
  <2>0. m \in 0 .. N /\ m + 1 \in 1 .. N /\ (m + 1) - 1 = m
    BY <1>1
  <2>1. Holds(m)
    BY <1>1, <1>5, <2>0
  <2>2. /\ W(m + 1) \in Seq(Visible) /\ Len(W(m + 1)) \in Nat /\ Len(W(m + 1)) >= 1
        /\ C[m + 1] = C[m] + Len(W(m + 1)) /\ B[m + 1] = B[m] \o W(m + 1)
    BY <1>2, <2>0
  <2>3. B[m] \in Seq(Visible) /\ C[m] \in Nat /\ Len(B[m]) = 1 + C[m]
    BY <1>1, <2>0, <2>1
  <2> DEFINE a == B[m]
             w == W(m + 1)
  <2>4. /\ Len(a \o w) = Len(a) + Len(w)
        /\ \A j \in 1 .. Len(a) : (a \o w)[j] = a[j]
        /\ \A j \in 1 .. Len(w) : (a \o w)[Len(a) + j] = w[j]
    <3>1. a \in Seq(Visible) /\ w \in Seq(Visible)
      BY <2>2, <2>3
    <3> HIDE DEF a, w
    <3>2. QED BY <3>1
  <2>5. Len(B[m + 1]) = 1 + C[m + 1] /\ B[m + 1][1] = Quote
    <3>1. B[m + 1] = a \o w /\ 1 \in 1 .. Len(a) /\ a[1] = Quote
      BY <2>1, <2>2, <2>3
    <3>2. Len(a) = 1 + C[m] /\ C[m] \in Nat /\ Len(w) \in Nat /\ C[m + 1] = C[m] + Len(w)
      BY <2>2, <2>3
    <3> HIDE DEF a, w
    <3>3. Len(a \o w) = 1 + (C[m] + Len(w)) /\ (a \o w)[1] = Quote
      BY <2>4, <3>1, <3>2
    <3>4. QED BY <3>1, <3>2, <3>3
  <2>6. ASSUME NEW n \in 1 .. m + 1
        PROVE  /\ C[n] <= C[m + 1]
               /\ \A k \in 1 .. Len(W(n)) : B[m + 1][1 + C[n - 1] + k] = W(n)[k]
    <3>1. CASE n = m + 1
      <4>1. \A k \in 1 .. Len(w) : B[m + 1][1 + C[m] + k] = w[k]
        BY <2>2, <2>3, <2>4
      <4>2. C[m + 1] <= C[m + 1]
        BY <2>2, <2>3
      <4>3. QED BY <2>0, <3>1, <4>1, <4>2
    <3>2. CASE n # m + 1
      <4>1. n \in 1 .. m /\ n - 1 \in 0 .. N /\ n \in 1 .. N /\ n \in 0 .. N
        BY <1>1, <2>0, <3>2
      <4>2. C[n] <= C[m] /\ \A k \in 1 .. Len(W(n)) : B[m][1 + C[n - 1] + k] = W(n)[k]
        BY <2>1, <4>1
      <4>3. C[n] \in Nat /\ C[n - 1] \in Nat /\ C[n] = C[n - 1] + Len(W(n)) /\ Len(W(n)) \in Nat
        BY <1>1, <1>2, <4>1
      <4>4. ASSUME NEW k \in 1 .. Len(W(n)) PROVE B[m + 1][1 + C[n - 1] + k] = W(n)[k]
        <5>1. 1 + C[n - 1] + k \in 1 .. Len(a)
          <6>1. C[n] \in Nat /\ C[n - 1] \in Nat /\ C[n] = C[n - 1] + Len(W(n)) /\ C[n] <= C[m]
            BY <4>2, <4>3
          <6>2. Len(a) = 1 + C[m] /\ C[m] \in Nat
            BY <2>3
          <6> DEFINE l == Len(W(n))
          <6>3. l \in Nat /\ k \in 1 .. l
            BY <4>3
          <6> HIDE DEF l, a
          <6>4. C[n] = C[n - 1] + l
            BY <6>1 DEF l
          <6>5. \A u, v, x, y \in Nat : \A j \in 1 .. x : v = u + x /\ v <= y => 1 + u + j \in 1 .. 1 + y
            OBVIOUS
          <6>6. 1 + C[n - 1] + k \in 1 .. 1 + C[m]
            BY <6>1, <6>2, <6>3, <6>4, <6>5
          <6>7. QED BY <6>2, <6>6
        <5>2. (a \o w)[1 + C[n - 1] + k] = a[1 + C[n - 1] + k]
          BY <2>4, <5>1
        <5>3. QED BY <2>2, <4>2, <5>2
      <4>5. C[n] <= C[m + 1]
        BY <2>2, <2>3, <4>2, <4>3
      <4>6. QED BY <4>4, <4>5
    <3>3. QED BY <3>1, <3>2
  <2>7. QED BY <2>5, <2>6
<1>6. \A m \in Nat : m \in S
  <2> HIDE DEF S
  <2>1. QED BY <1>4, <1>5, InductiveSet
<1>7. \A m \in 0 .. N : Holds(m)
  BY <1>1, <1>6
<1>8. Holds(N)
  BY <1>1, <1>7
<1>9. QED BY <1>7, <1>8 DEF B, C, W

LEMMA CStringFacts ==
  ASSUME NEW bytes \in Seq(Octet)
  PROVE  IsCString(CString(bytes)) /\ CString(bytes) \in Seq(Octet)
<1> DEFINE n == Span(bytes, 1, Character)
           s == SubSeq(bytes, 1, n)
<1>1. Len(bytes) \in Nat /\ 1 \in 1 .. Len(bytes) + 1
  OBVIOUS
<1>2. n \in 0 .. Len(bytes) - 1 + 1 /\ \A k \in 1 .. 1 + n - 1 : bytes[k] \in Character
  BY <1>1, SpanEnds
<1> HIDE DEF n
<1>3. n \in Nat /\ n <= Len(bytes) /\ 1 + n - 1 = n
  BY <1>1, <1>2
<1>4. s \in Seq(Octet) /\ Len(s) = n /\ \A k \in 1 .. n : s[k] = bytes[k]
  BY <1>1, <1>3
<1>5. CString(bytes) = s
  BY Zenon DEF CString, n, Character
<1> HIDE DEF s
<1>6. \A k \in 1 .. Len(s) : s[k] \in Character
  BY <1>2, <1>3, <1>4
<1>7. QED BY <1>3, <1>4, <1>5, <1>6 DEF IsCString

\* The literal ends with the closing quote and the terminator, and holds the parts of all
\* bytes before them.
LEMMA PrintedFacts ==
  ASSUME NEW s, IsCString(s), NEW P, P = PrintOf(CountOf(s)[Len(s)], BodyOf(s)[Len(s)])
  PROVE  /\ Terminated(P) /\ Len(P) = CountOf(s)[Len(s)] + 3
         /\ P[1] = Quote /\ P[CountOf(s)[Len(s)] + 2] = Quote
         /\ \A i \in 1 .. Len(P) - 1 : P[i] > 31
         /\ \A n \in 1 .. Len(s) : \A k \in 1 .. Len(Written(s[n])) :
              P[1 + CountOf(s)[n - 1] + k] = Written(s[n])[k]
<1> DEFINE L == CountOf(s)[Len(s)]
           body == BodyOf(s)[Len(s)]
<1>1. Len(s) \in Nat /\ Len(s) \in 0 .. Len(s)
  BY DEF IsCString
<1>2. L \in Nat /\ body \in Seq(Visible) /\ Len(body) = 1 + L /\ body[1] = Quote
  BY <1>1, CountUnfolds, BodyUnfolds, PassesAgree
<1> HIDE DEF L, body
<1>3. P = [i \in 1 .. L + 3 |-> IF i = L + 2 THEN Quote
                                ELSE IF i = L + 3 THEN NUL
                                ELSE IF i <= Len(body) THEN body[i] ELSE NUL]
  BY Zenon DEF PrintOf, L, body
<1>4. /\ P[L + 2] = Quote /\ P[L + 3] = NUL
      /\ \A i \in 1 .. L + 1 : P[i] = body[i]
  <2>1. L + 2 \in 1 .. L + 3 /\ L + 3 \in 1 .. L + 3 /\ L + 3 # L + 2
    BY <1>2
  <2>2. P[L + 2] = Quote /\ P[L + 3] = NUL
    BY <1>3, <2>1
  <2>3. ASSUME NEW i \in 1 .. L + 1 PROVE P[i] = body[i]
    <3>1. i \in 1 .. L + 3 /\ i # L + 2 /\ i # L + 3 /\ i <= Len(body)
      BY <1>2
    <3>2. QED BY <1>3, <3>1
  <2>4. QED BY <2>2, <2>3
<1>5. \A b \in Visible : b \in Octet /\ b > 31 /\ b # NUL
  BY DEF Visible, Octet, NUL
<1>6. \A i \in 1 .. L + 2 : P[i] \in Visible
  <2> SUFFICES ASSUME NEW i \in 1 .. L + 2 PROVE P[i] \in Visible
    OBVIOUS
  <2>1. CASE i = L + 2
    <3>1. Quote \in Visible
      BY DEF Quote, Visible, Octet
    <3>2. QED BY <1>4, <2>1, <3>1
  <2>2. CASE i # L + 2
    <3>1. i \in 1 .. L + 1 /\ i \in 1 .. Len(body)
      BY <1>2, <2>2
    <3>2. body[i] \in Visible
      BY <1>2, <3>1
    <3>3. QED BY <1>4, <3>1, <3>2
  <2>3. QED BY <2>1, <2>2
<1>7. Len(P) = L + 3 /\ P \in Seq(Octet)
  <2>1. NUL \in Octet
    BY DEF NUL, Octet
  <2>2. ASSUME NEW i \in 1 .. L + 3 PROVE P[i] \in Octet
    <3>1. i = L + 3 \/ i \in 1 .. L + 2
      BY <1>2
    <3>2. QED BY <1>4, <1>5, <1>6, <2>1, <3>1
  <2>3. L + 3 \in Nat /\ P = [i \in 1 .. L + 3 |-> P[i]]
    BY <1>2, <1>3
  <2>4. P \in [1 .. L + 3 -> Octet]
    BY <2>2, <2>3
  <2>5. QED BY <2>3, <2>4
<1>8. Terminated(P)
  <2>1. L + 3 >= 1 /\ (L + 3) - 1 = L + 2
    BY <1>2
  <2>2. \A i \in 1 .. Len(P) - 1 : P[i] # NUL
    BY <1>5, <1>6, <1>7, <2>1
  <2>3. QED BY <1>4, <1>7, <2>1, <2>2 DEF Terminated
<1>9. \A i \in 1 .. Len(P) - 1 : P[i] > 31
  <2>1. (L + 3) - 1 = L + 2
    BY <1>2
  <2>2. QED BY <1>5, <1>6, <1>7, <2>1
<1>10. P[1] = Quote
  <2>1. 1 \in 1 .. L + 1
    BY <1>2
  <2>2. QED BY <1>2, <1>4, <2>1
<1>11. ASSUME NEW n \in 1 .. Len(s), NEW k \in 1 .. Len(Written(s[n]))
       PROVE  P[1 + CountOf(s)[n - 1] + k] = Written(s[n])[k]
  <2> DEFINE C == CountOf(s)
             l == Len(Written(s[n]))
  <2>1. /\ C[n] <= L /\ body[1 + C[n - 1] + k] = Written(s[n])[k]
    BY PassesAgree DEF L, body
  <2>2. n - 1 \in 0 .. Len(s) /\ n \in 0 .. Len(s)
    BY <1>1
  <2>3. C[n] \in Nat /\ C[n - 1] \in Nat
    BY <2>2, CountUnfolds
  <2>4. l \in Nat /\ C[n] = C[n - 1] + l
    <3> DEFINE e == Extra(s[n])
    <3>1. e \in Nat /\ l = 1 + e
      BY WrittenBytes DEF IsCString
    <3>2. C[n] = C[n - 1] + 1 + e
      BY CountUnfolds
    <3> HIDE DEF C, l, e
    <3>3. C[n - 1] + 1 + e = C[n - 1] + (1 + e) /\ 1 + e \in Nat
      BY <2>3, <3>1
    <3>4. QED BY <3>1, <3>2, <3>3
  <2>5. \A u, v, x, y \in Nat : \A j \in 1 .. x : v = u + x /\ v <= y => 1 + u + j \in 1 .. y + 1
    OBVIOUS
  <2> HIDE DEF C
  <2>6. 1 + C[n - 1] + k \in 1 .. L + 1
    <3>1. k \in 1 .. l
      OBVIOUS
    <3> HIDE DEF l
    <3>2. QED BY <1>2, <2>1, <2>3, <2>4, <2>5, <3>1
  <2>7. P[1 + C[n - 1] + k] = Written(s[n])[k]
    BY <1>4, <2>1, <2>6
  <2>8. QED BY <2>7 DEF C
<1>12. QED BY <1>4, <1>7, <1>8, <1>9, <1>10, <1>11 DEF L

\* The first element of a part, and the others.
LEMMA PartSplit ==
  ASSUME NEW s \in Seq(Octet), NEW i \in 1 .. Len(s)
  PROVE  /\ SubSeq(s, i + 1, Len(s)) \in Seq(Octet)
         /\ <<s[i]>> \o SubSeq(s, i + 1, Len(s)) = SubSeq(s, i, Len(s))
<1> DEFINE N == Len(s)
           a == SubSeq(s, i, N)
           b == SubSeq(s, i + 1, N)
           c == <<s[i]>> \o b
<1>1. N \in Nat
  OBVIOUS
<1>2. b \in Seq(Octet) /\ Len(b) = N - i /\ \A j \in 1 .. N - i : b[j] = s[i + j]
  BY <1>1
<1>3. a \in Seq(Octet) /\ Len(a) = N - i + 1 /\ \A j \in 1 .. N - i + 1 : a[j] = s[i + j - 1]
  BY <1>1
<1>4. s[i] \in Octet
  OBVIOUS
<1> HIDE DEF a, b
<1>5. c \in Seq(Octet) /\ Len(c) = N - i + 1 /\ c[1] = s[i] /\ \A j \in 1 .. Len(b) : c[1 + j] = b[j]
  <2> DEFINE d == <<s[i]>>
  <2>1. d \in Seq(Octet) /\ Len(d) = 1 /\ d[1] = s[i]
    BY <1>4
  <2> HIDE DEF d
  <2>2. /\ d \o b \in Seq(Octet) /\ Len(d \o b) = Len(d) + Len(b)
        /\ \A j \in 1 .. Len(d) : (d \o b)[j] = d[j]
        /\ \A j \in 1 .. Len(b) : (d \o b)[Len(d) + j] = b[j]
    <3>1. \A x, y \in Seq(Octet) :
            /\ x \o y \in Seq(Octet) /\ Len(x \o y) = Len(x) + Len(y)
            /\ \A j \in 1 .. Len(x) : (x \o y)[j] = x[j]
            /\ \A j \in 1 .. Len(y) : (x \o y)[Len(x) + j] = y[j]
      OBVIOUS
    <3>2. QED BY <1>2, <2>1, <3>1, Zenon
  <2>3. c = d \o b
    BY DEF d
  <2> HIDE DEF c
  <2>4. Len(c) = N - i + 1 /\ c[1] = s[i]
    <3>1. 1 + (N - i) = N - i + 1 /\ 1 \in 1 .. Len(d)
      BY <1>1, <2>1
    <3>2. QED BY <1>2, <2>1, <2>2, <2>3, <3>1
  <2>5. \A j \in 1 .. Len(b) : c[1 + j] = b[j]
    BY <2>1, <2>2, <2>3
  <2>6. QED BY <2>2, <2>3, <2>4, <2>5
<1> HIDE DEF c
<1>6. ASSUME NEW j \in 1 .. N - i + 1 PROVE c[j] = a[j]
  <2>1. CASE j = 1
    <3>1. i + 1 - 1 = i
      BY <1>1
    <3>2. a[1] = s[i]
      BY <1>3, <2>1, <3>1
    <3>3. QED BY <1>5, <2>1, <3>2
  <2>2. CASE j # 1
    <3>1. j - 1 \in 1 .. N - i /\ 1 + (j - 1) = j /\ i + (j - 1) = i + j - 1
      BY <1>1, <2>2
    <3>2. c[j] = b[j - 1] /\ b[j - 1] = s[i + (j - 1)]
      BY <1>2, <1>5, <3>1
    <3>3. QED BY <1>3, <3>1, <3>2
  <2>3. QED BY <2>1, <2>2
<1>7. c = [j \in 1 .. N - i + 1 |-> c[j]] /\ a = [j \in 1 .. N - i + 1 |-> a[j]]
  BY <1>3, <1>5
<1>8. c = a
  BY <1>6, <1>7
<1>9. QED BY <1>2, <1>8 DEF a, b, c

LEMMA PrintedMeans ==
  ASSUME NEW s \in Seq(Octet), IsCString(s), NEW P, P = PrintOf(CountOf(s)[Len(s)], BodyOf(s)[Len(s)])
  PROVE  Meaning(P)[2] = s
<1> DEFINE N == Len(s)
           C == CountOf(s)
           M == Meaning(P)
           S == {i \in 1 .. N + 1 : M[2 + C[i - 1]] = SubSeq(s, i, N)}
<1>1. /\ N \in Nat /\ C[0] = 0 /\ \A n \in 0 .. N : C[n] \in Nat
      /\ \A n \in 1 .. N : C[n] = C[n - 1] + 1 + Extra(s[n]) /\ C[n] <= C[N]
  BY CountUnfolds, PassesAgree DEF IsCString
<1>2. /\ Terminated(P) /\ Len(P) = C[N] + 3 /\ P[C[N] + 2] = Quote
      /\ \A n \in 1 .. N : \A k \in 1 .. Len(Written(s[n])) : P[1 + C[n - 1] + k] = Written(s[n])[k]
  BY PrintedFacts
<1> HIDE DEF C
<1>3. \A i \in 1 .. Len(P) : M[i] = MeaningAt(P, i, M)
  BY <1>2, MeaningUnfolds
<1>4. ASSUME NEW i \in 1 .. N + 1, \A j \in i + 1 .. N + 1 : j \in S PROVE i \in S
  <2>1. CASE i = N + 1
    <3>1. i - 1 = N /\ 2 + C[N] = C[N] + 2 /\ C[N] + 2 \in 1 .. Len(P)
      BY <1>1, <1>2, <2>1
    <3>2. M[C[N] + 2] = <<>>
      BY <1>2, <1>3, <3>1, MeaningSteps
    <3>3. SubSeq(s, N + 1, N) = <<>>
      BY <1>1
    <3> HIDE DEF M, N
    <3>4. QED BY <2>1, <3>1, <3>2, <3>3
  <2>2. CASE i # N + 1
    <3>1. i \in 1 .. N /\ i + 1 \in i + 1 .. N + 1 /\ (i + 1) - 1 = i /\ i - 1 \in 0 .. N /\ i \in 0 .. N
      BY <1>1, <2>2
    <3>2. M[2 + C[i]] = SubSeq(s, i + 1, N)
      BY <1>4, <3>1
    <3> DEFINE b == s[i]
               q == 2 + C[i - 1]
               W == Written(b)
    <3>3. b \in Character
      BY <3>1 DEF IsCString
    <3>4. Extra(b) \in Nat /\ Len(W) = 1 + Extra(b)
      BY <3>3, WrittenBytes
    <3>5. C[i] = C[i - 1] + 1 + Extra(b) /\ C[i] <= C[N] /\ C[i - 1] \in Nat /\ C[i] \in Nat /\ C[N] \in Nat
      <4>1. N \in 0 .. N
        BY <1>1
      <4>2. QED BY <1>1, <3>1, <4>1
    <3>6. \A k \in 1 .. Len(W) : P[q + k - 1] = W[k]
      <4> SUFFICES ASSUME NEW k \in 1 .. Len(W) PROVE P[q + k - 1] = W[k]
        OBVIOUS
      <4>1. q + k - 1 = 1 + C[i - 1] + k
        BY <3>5
      <4>2. QED BY <1>2, <3>1, <4>1
    <3> HIDE DEF b, W
    <3>7. q \in 1 .. Len(P) /\ q + Len(W) <= Len(P) /\ q + 1 + Extra(b) = 2 + C[i]
      <4> DEFINE e == Extra(b)
                 u == C[i - 1]
                 v == C[i]
                 top == C[N]
      <4>1. e \in Nat /\ Len(W) = 1 + e /\ v = u + 1 + e
        BY <3>4, <3>5
      <4>2. u \in Nat /\ v \in Nat /\ top \in Nat /\ v <= top /\ q = 2 + u
        BY <3>5
      <4>3. Len(P) = top + 3
        BY <1>2
      <4> HIDE DEF e, u, v, top, q
      <4>4. q \in 1 .. top + 3 /\ q + (1 + e) <= top + 3 /\ q + 1 + e = 2 + v
        BY <4>1, <4>2
      <4>5. QED BY <4>1, <4>3, <4>4 DEF e, v
    <3>8. M[q] = Behind(<<b>>, M[2 + C[i]])
      <4> HIDE DEF q
      <4>1. M[q] = Behind(<<b>>, M[q + 1 + Extra(b)])
        BY <1>2, <3>3, <3>6, <3>7, WrittenMeans DEF W
      <4>2. QED BY <3>7, <4>1
    <3>9. Behind(<<b>>, SubSeq(s, i + 1, N)) = SubSeq(s, i, N)
      <4>1. SubSeq(s, i + 1, N) \in Seq(Octet) /\ <<b>> \o SubSeq(s, i + 1, N) = SubSeq(s, i, N)
        BY <3>1, PartSplit DEF b
      <4>2. b \in Octet
        BY <3>3, WrittenCases
      <4> DEFINE r == SubSeq(s, i + 1, N)
      <4> HIDE DEF r
      <4>3. r # Bad
        <5>1. r \in Seq(Octet)
          BY <4>1 DEF r
        <5>2. <<>> \in Seq(Octet) /\ <<>> \in Meanings
          BY DEF Meanings
        <5>3. QED BY <5>1, <5>2, BehindJoins
      <4>4. Behind(<<b>>, r) = <<b>> \o r
        BY <4>3, Zenon DEF Behind
      <4>5. QED BY <4>1, <4>4 DEF r
    <3>10. M[q] = SubSeq(s, i, N)
      BY <3>2, <3>8, <3>9, Zenon
    <3>11. QED BY <3>10
  <2>3. QED BY <2>1, <2>2
<1>5. \A i \in 1 .. N + 1 : i \in S
  <2>1. N + 1 \in Nat
    BY <1>1
  <2> DEFINE top == N + 1
  <2>2. ASSUME NEW i \in 1 .. top, \A j \in i + 1 .. top : j \in S PROVE i \in S
    BY <1>4, <2>2
  <2> HIDE DEF S, top
  <2>3. \A i \in 1 .. top : i \in S
    BY <2>1, <2>2, Descends DEF top
  <2>4. QED BY <2>3 DEF top
<1>6. M[2 + C[1 - 1]] = SubSeq(s, 1, N)
  <2>1. 1 \in 1 .. N + 1
    BY <1>1
  <2>2. QED BY <1>5, <2>1
<1>7. 2 + C[1 - 1] = 2
  BY <1>1
<1>8. SubSeq(s, 1, N) = s
  BY <1>1
<1> HIDE DEF M
<1>9. M[2] = s
  BY <1>6, <1>7, <1>8
<1>10. QED BY <1>9 DEF M

LEMMA PrintStringPrints ==
  ASSUME IInv, PrintString
  PROVE  PrintsWhatItReads'
<1> DEFINE s == CString(output)
           P == PrintOf(CountOf(s)[Len(s)], BodyOf(s)[Len(s)])
<1>1. printed' = P
  BY Zenon DEF PrintString, PrintOf, CountOf, BodyOf, P, s
<1>2. at = "parsed" /\ type = "string" /\ output' = output
  <2>1. at = "parsed" /\ type = "string" /\ UNCHANGED stringRest
    BY Zenon DEF PrintString
  <2>2. QED BY <2>1 DEF stringRest
<1>3. output \in Seq(Octet)
  BY <1>2 DEF IInv, Untouched, StringInv, SecondPass
<1> HIDE DEF P, s
<1>4. IsCString(s) /\ s \in Seq(Octet)
  BY <1>3, CStringFacts DEF s
<1>5. P[1] = Quote /\ \A i \in 1 .. Len(P) - 1 : P[i] > 31
  BY <1>4, PrintedFacts DEF P
<1>6. Meaning(P)[2] = s
  BY <1>4, PrintedMeans DEF P
<1>7. Meaning(printed)' = Meaning(P) /\ CString(output)' = s
  BY <1>1, <1>2, Zenon DEF s
<1>8. QED BY <1>1, <1>5, <1>6, <1>7, Zenon DEF PrintsWhatItReads

\* What print_string_ptr writes is a literal without control characters that parse_string
\* reads as the same string.
THEOREM StringsAreWritten == Spec => []PrintsWhatItReads
<1>1. Init => PrintsWhatItReads
  BY DEF Init, StringInit, PrintsWhatItReads
<1>2. IInv /\ PrintsWhatItReads /\ [Next]_vars => PrintsWhatItReads'
  <2> SUFFICES ASSUME IInv, PrintsWhatItReads, [Next]_vars PROVE PrintsWhatItReads'
    OBVIOUS
  <2>1. CASE PrintString
    BY <2>1, PrintStringPrints
  <2>2. ASSUME at' # "printed" PROVE PrintsWhatItReads'
    BY <2>2 DEF PrintsWhatItReads
  <2>3. CASE \E w \in DOMAIN Word : ParseWord(w)
    BY <2>2, <2>3 DEF ParseWord
  <2>4. CASE StartString
    BY <2>2, <2>4 DEF StartString
  <2>5. CASE StringStep
    <3>1. ParseString
      BY <2>5, Zenon DEF StringStep
    <3>2. at' # "printed"
      BY <3>1 DEF ParseString, Scan, Unterminated, Allocate, OutOfMemory, Copy, CopyEscape, CopyUnicode, UnknownEscape,
                  Terminate, Fail
    <3>3. QED BY <2>2, <3>2
  <2>6. CASE ParseNumber
    <3>1. at' \in {"failed", "parsed"}
      BY <2>6 DEF ParseNumber
    <3>2. QED BY <2>2, <3>1
  <2>7. CASE NoValue
    BY <2>2, <2>7 DEF NoValue
  <2>8. CASE IntToString
    BY <2>2, <2>8 DEF IntToString
  <2>9. CASE UNCHANGED vars
    <3>1. UNCHANGED <<stringVars, printed>>
      BY <2>9 DEF vars
    <3>2. UNCHANGED <<at, output, printed>>
      BY <3>1 DEF stringVars, stringRest
    <3>3. Meaning(printed)' = Meaning(printed) /\ CString(output)' = CString(output)
      BY <3>2
    <3>4. QED BY <3>2, <3>3, Zenon DEF PrintsWhatItReads
  <2>10. QED BY <2>1, <2>3, <2>4, <2>5, <2>6, <2>7, <2>8, <2>9 DEF Next
<1>3. QED BY <1>1, <1>2, InitInv, NextKeeps, PTL DEF Spec

=============================================================================
