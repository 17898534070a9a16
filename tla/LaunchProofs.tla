------------------------------ MODULE LaunchProofs ------------------------------
(***************************************************************************)
(* What is refused, and what shadowsocks, the plugin and the UDP proxy are *)
(* told, for every list of arguments and every configuration file.         *)
(***************************************************************************)
EXTENDS SettingsProofs, SequenceTheorems

(* The plugin's ends *)

\* The settings are complete and there is a plugin between the bootstrap's ends.
InBetween == at \in {"with_plugin", "udp"} \/ (at = "started" /\ info["plugin"] # NULL)

ServerGiven == IF Given("server_addr") = NULL.text THEN "127.0.0.1" ELSE Given("server_addr")

EndsOK ==
  /\ InBetween => /\ info["plugin"] # NULL
                  /\ info["server_addr"] = local.host /\ info["server_port"] = local.port
                  /\ local.host # NULL /\ local.port # NULL
                  /\ remote.port.text = Given("server_port") /\ remote.host.text = ServerGiven
  /\ at = "without_plugin" => info["plugin"] = NULL
  /\ at \in Running /\ info["plugin"] # NULL => Given("plugin") # NULL.text
  /\ at = "udp" => is_udp_proxy
  /\ at # "started" => udp = [listen |-> Nowhere, target |-> Nowhere]
  /\ remote = [host |-> remote.host, port |-> remote.port]
  /\ local = [host |-> local.host, port |-> local.port]

LEMMA EndsInitially == Init => EndsOK
BY DEF Init, LoadInit, EndsOK, InBetween, Running, Nowhere

LEMMA LoadStaysBefore ==
  ASSUME Load
  PROVE  at' \in {"init", "args", "json", "help", "fatal", "crashed"} \/ (Default /\ at' = "loaded")
<1>1. Default => at' = "loaded"
  BY DEF Default, Goto
<1>2. ASSUME NEW o \in DOMAIN Option, AddField(o) PROVE at' \in {"args", "fatal"}
  BY <1>2 DEF AddField, Goto, Exit
<1>3. ASSUME NEW k \in DOMAIN Key, SetMember(k) PROVE at' \in {"json", "fatal"}
  BY <1>3 DEF SetMember, Goto, Exit
<1>4. ExtraOpts => at' \in {"json", "fatal", "crashed"}
  BY DEF ExtraOpts, Goto, Exit
<1>5. LoadFile => at' \in {"json", "fatal", "crashed"}
  BY DEF LoadFile, Read, Goto, Exit
<1>6. SetNoUdp \/ SetFastOpen \/ UnknownMember => at' \in {"json", "fatal"}
  BY DEF SetNoUdp, SetFastOpen, UnknownMember, Goto, Exit
<1>7. Help \/ Begin \/ Debug \/ FastOpen \/ NoUdp \/ Unknown \/ EndOfFile => at' \in {"help", "args"}
  BY DEF Help, Begin, Debug, FastOpen, NoUdp, Unknown, EndOfFile, Goto, Exit
<1>8. QED BY <1>1, <1>2, <1>3, <1>4, <1>5, <1>6, <1>7 DEF Load

LEMMA LoadKeepsEnds ==
  ASSUME IInv, SInv, EndsOK, LoadStep
  PROVE  EndsOK'
<1>1. Load /\ UNCHANGED <<remote, local, udp>> /\ Loading /\ AsTold
  BY LoadingComesFirst DEF LoadStep, launchVars, SInv
<1>2. at' \in {"init", "args", "json", "help", "fatal", "crashed"} \/ (Default /\ at' = "loaded")
  BY <1>1, LoadStaysBefore
<1>3. at' \notin {"with_plugin", "without_plugin", "udp", "started"}
  BY <1>2
<1>4. ASSUME Default, info'["plugin"] # NULL PROVE Given("plugin")' # NULL.text
  <2>1. at = "args" /\ arg > Len(argv) /\ UNCHANGED <<argv, file>>
    BY <1>4 DEF Default, Goto
  <2>2. "plugin" \in Fields /\ "plugin" \notin NumberFields /\ NULL.text \notin STRING
    BY FieldsAre, NoTextAssumption DEF NumberFields, NULL
  <2>3. info'["plugin"] = info["plugin"]
    <3>1. info = [f \in Fields |-> info[f]]
      BY DEF IInv, PointersOK
    <3>2. QED BY <1>4, <2>2, <3>1 DEF Default
  <2>4. Given("plugin") \in STRING
    BY <1>1, <1>4, <2>1, <2>2, <2>3, ReaderIsOK, ToldIsGiven DEF IInv
  <2>5. QED BY <2>1, <2>2, <2>4, GivenIsKept
<1>5. udp' = [listen |-> Nowhere, target |-> Nowhere]
  BY <1>1 DEF EndsOK, Loading
<1>6. at' \in Running /\ info'["plugin"] # NULL => Given("plugin")' # NULL.text
  BY <1>2, <1>4 DEF Running
<1>7. QED BY <1>1, <1>3, <1>5, <1>6 DEF EndsOK, InBetween, NULL, Nowhere

\* The plugin's own end has a text, whatever port it is.
LEMMA PluginEnds ==
  ASSUME IInv, SInv, EndsOK, LoadPlugin
  PROVE  EndsOK'
<1>1. /\ at = "loaded" /\ at' = "with_plugin" /\ UNCHANGED <<argv, file, udp>>
      /\ info["plugin"] # NULL
      /\ local' = [host |-> Literal("127.0.0.1"), port |-> [text |-> Picked, block |-> made + 1]]
      /\ remote' = [host |-> info["server_addr"], port |-> info["server_port"]]
      /\ info' = [info EXCEPT !["server_addr"] = local'.host, !["server_port"] = local'.port]
  BY DEF LoadPlugin
<1>2. /\ info'["server_addr"] = local'.host /\ info'["server_port"] = local'.port
      /\ info'["plugin"] = info["plugin"]
  <2>1. info = [f \in Fields |-> info[f]]
    BY DEF IInv, PointersOK
  <2>2. {"server_addr", "server_port", "plugin"} \subseteq Fields
    BY FieldsAre
  <2>3. QED BY <1>1, <2>1, <2>2
<1>3. local'.host # NULL /\ local'.port # NULL
  <2>1. NULL.text \notin STRING
    BY NoTextAssumption DEF NULL
  <2>2. local'.host.text = "127.0.0.1" /\ local'.port.text = "picked"
    BY <1>1 DEF Literal, Picked
  <2>3. local'.host.text \in STRING /\ local'.port.text \in STRING
    BY <2>2, LiteralsAssumption
  <2>4. QED BY <2>1, <2>3
<1>4. remote'.port.text = Given("server_port") /\ remote'.host.text = ServerGiven
  BY <1>1 DEF SInv, LastSettingWins, Running, ServerGiven
<1>5. Given("plugin") # NULL.text
  BY <1>1 DEF EndsOK, Running
<1>6. ServerGiven' = ServerGiven /\ Given("server_port")' = Given("server_port") /\ Given("plugin")' = Given("plugin")
  BY <1>1, GivenIsKept DEF ServerGiven, NULL
<1>7. udp' = [listen |-> Nowhere, target |-> Nowhere]
  BY <1>1 DEF EndsOK
<1>8. /\ remote' = [host |-> remote'.host, port |-> remote'.port]
      /\ local' = [host |-> local'.host, port |-> local'.port]
  BY <1>1
<1>9. QED BY <1>1, <1>2, <1>3, <1>4, <1>5, <1>6, <1>7, <1>8 DEF EndsOK, NULL, Nowhere

LEMMA EndsStep == IInv /\ SInv /\ EndsOK /\ [Next]_vars => EndsOK'
<1> SUFFICES ASSUME IInv, SInv, EndsOK, [Next]_vars PROVE EndsOK'
  OBVIOUS
<1>0. is_udp_proxy \in BOOLEAN
  BY DEF IInv, FlagsOK
<1>1. ASSUME UNCHANGED <<argv, file, info, is_udp_proxy, remote, local>>,
             \/ at = "loaded" /\ at' = "without_plugin" /\ info["plugin"] = NULL /\ UNCHANGED udp
             \/ at = "with_plugin" /\ at' = "udp" /\ is_udp_proxy /\ UNCHANGED udp
             \/ at = "with_plugin" /\ at' = "started" /\ UNCHANGED udp
             \/ at = "without_plugin" /\ at' = "started" /\ UNCHANGED udp
             \/ at = "udp" /\ at' = "started"
             \/ at = "udp" /\ at' = "crashed" /\ UNCHANGED udp
             \/ at' = at /\ UNCHANGED udp
      PROVE  EndsOK'
  <2>1. /\ ServerGiven' = ServerGiven /\ Given("server_port")' = Given("server_port")
        /\ Given("plugin")' = Given("plugin")
    BY <1>1, GivenIsKept DEF ServerGiven, NULL
  <2>2. InBetween' => InBetween
    BY <1>1 DEF InBetween, NULL, EndsOK
  <2>3. at' \in Running => at \in Running
    BY <1>1 DEF Running
  <2>4. at' # "started" => udp' = [listen |-> Nowhere, target |-> Nowhere]
    BY <1>1 DEF EndsOK
  <2>5. (at' = "without_plugin" => info["plugin"] = NULL) /\ (at' = "udp" => is_udp_proxy)
    BY <1>1 DEF EndsOK
  <2>6. QED BY <1>1, <2>1, <2>2, <2>3, <2>4, <2>5 DEF EndsOK, NULL, Nowhere
<1>2. CASE LoadStep
  BY <1>2, LoadKeepsEnds
<1>3. CASE LoadPlugin
  BY <1>3, PluginEnds
<1>4. CASE NoPlugin
  BY <1>1, <1>4 DEF NoPlugin, flags, launchVars
<1>5. CASE Command
  BY <1>1, <1>5 DEF Command, flags
<1>6. CASE Udp
  <2>1. /\ at = "udp" /\ UNCHANGED <<argv, file, info, is_udp_proxy, remote, local>>
        /\ at' = "started" \/ (at' = "crashed" /\ UNCHANGED udp)
    BY <1>6 DEF Udp, flags
  <2>2. QED BY <1>1, <2>1
<1>7. CASE UNCHANGED vars
  BY <1>1, <1>7 DEF vars, loadVars, launchVars, flags
<1>8. QED BY <1>2, <1>3, <1>4, <1>5, <1>6, <1>7 DEF Next

-----------------------------------------------------------------------------
(* The loop of add_extra_opts, and what it has read *)

\* S is what the loop has after each character.
Scans(S, chars) ==
  /\ S[0] = Unread
  /\ \A n \in 1 .. Len(chars) : S[n] = Scan(S[n - 1], chars[n])

LEMMA SplitScans ==
  ASSUME NEW chars, Len(chars) \in Nat
  PROVE  \E S : Scans(S, chars) /\ Split(chars) = S[Len(chars)]
<1> DEFINE Solves(S, n) == S = [i \in 0 .. n |-> IF i = 0 THEN Unread ELSE Scan(S[i - 1], chars[i])]
           solved == {n \in Nat : \E S : Solves(S, n)}
<1>1. 0 \in solved
  <2>1. Solves([i \in 0 .. 0 |-> Unread], 0)
    OBVIOUS
  <2>2. QED BY <2>1
<1>2. ASSUME NEW n \in Nat, n \in solved PROVE n + 1 \in solved
  <2>1. PICK S : Solves(S, n)
    BY <1>2
  <2> DEFINE T == [i \in 0 .. n + 1 |-> IF i <= n THEN S[i] ELSE Scan(S[i - 1], chars[i])]
  <2>2. Solves(T, n + 1)
    <3>1. \A i \in 0 .. n : T[i] = S[i] /\ S[i] = IF i = 0 THEN Unread ELSE Scan(S[i - 1], chars[i])
      BY <2>1
    <3>2. \A i \in 0 .. n + 1 : T[i] = IF i = 0 THEN Unread ELSE Scan(T[i - 1], chars[i])
      <4> TAKE i \in 0 .. n + 1
      <4>1. CASE i <= n
        <5>1. i # 0 => i - 1 \in 0 .. n
          OBVIOUS
        <5> HIDE DEF T
        <5>2. QED BY <3>1, <4>1, <5>1
      <4>2. CASE i = n + 1
        <5>1. i # 0 /\ i - 1 = n /\ n \in 0 .. n /\ ~(i <= n)
          BY <4>2
        <5>2. T[i] = Scan(S[i - 1], chars[i])
          BY <5>1
        <5> HIDE DEF T
        <5>3. T[i - 1] = S[i - 1]
          BY <3>1, <5>1
        <5>4. QED BY <5>1, <5>2, <5>3
      <4>3. QED BY <4>1, <4>2
    <3>3. T = [i \in 0 .. n + 1 |-> T[i]]
      OBVIOUS
    <3> HIDE DEF T
    <3>4. QED BY <3>2, <3>3
  <2> HIDE DEF T, Solves
  <2>3. QED BY <2>2
<1>3. \A n \in Nat : n \in solved
  <2> HIDE DEF solved
  <2>1. QED BY <1>1, <1>2, InductiveSet
<1>4. \E S : S = [i \in 0 .. Len(chars) |-> IF i = 0 THEN Unread ELSE Scan(S[i - 1], chars[i])]
  BY <1>3
<1> DEFINE R == CHOOSE S : S = [i \in 0 .. Len(chars) |-> IF i = 0 THEN Unread ELSE Scan(S[i - 1], chars[i])]
<1>5. R = [i \in 0 .. Len(chars) |-> IF i = 0 THEN Unread ELSE Scan(R[i - 1], chars[i])]
  BY <1>4, Zenon
<1>6. Split(chars) = R[Len(chars)]
  BY Zenon DEF Split
<1> HIDE DEF R
<1>7. Scans(R, chars)
  BY <1>5 DEF Scans
<1>8. QED BY <1>6, <1>7

\* What follows a backslash that is not escaped itself is escaped.
LEMMA EscapedUnfolds ==
  ASSUME NEW chars, Len(chars) \in Nat
  PROVE  \A n \in 0 .. Len(chars) :
           Escaped(chars)[n] <=> (n > 1 /\ chars[n - 1] = "\\" /\ ~Escaped(chars)[n - 1])
<1> DEFINE O == IsOption(chars, {"\\"})
           E == [n \in 0 .. Len(chars) |-> ~O[n]]
<1>1. \A n \in 0 .. Len(chars) : /\ n <= 1 => O[n]
                                 /\ ~(n <= 1) => (O[n] <=> ~(O[n - 1] /\ chars[n - 1] \in {"\\"}))
  BY IsOptionUnfolds, Zenon
<1> HIDE DEF O
<1>2. \A n \in 0 .. Len(chars) : (~O[n]) = (n > 1 /\ chars[n - 1] = "\\" /\ ~(~O[n - 1]))
  <2> TAKE n \in 0 .. Len(chars)
  <2>1. n > 1 <=> ~(n <= 1)
    OBVIOUS
  <2>2. QED BY <1>1, <2>1, Zenon
<1>3. E = [n \in 0 .. Len(chars) |-> n > 1 /\ chars[n - 1] = "\\" /\ ~E[n - 1]]
  <2>1. \A n \in 0 .. Len(chars) : n > 1 => E[n - 1] = ~O[n - 1]
    OBVIOUS
  <2>2. \A n \in 0 .. Len(chars) : E[n] = (n > 1 /\ chars[n - 1] = "\\" /\ ~E[n - 1])
    BY <1>2, <2>1, Zenon
  <2>3. E = [n \in 0 .. Len(chars) |-> E[n]]
    OBVIOUS
  <2> HIDE DEF E
  <2>4. QED BY <2>2, <2>3, Zenon
<1>4. \E F : F = [n \in 0 .. Len(chars) |-> n > 1 /\ chars[n - 1] = "\\" /\ ~F[n - 1]]
  BY <1>3, Zenon
<1> DEFINE G == Escaped(chars)
<1>5. G = [n \in 0 .. Len(chars) |-> n > 1 /\ chars[n - 1] = "\\" /\ ~G[n - 1]]
  BY <1>4, Zenon DEF Escaped
<1> HIDE DEF G
<1>6. \A n \in 0 .. Len(chars) : G[n] = (n > 1 /\ chars[n - 1] = "\\" /\ ~G[n - 1])
  BY <1>5, Zenon
<1>7. QED BY <1>6, Zenon DEF G

\* The four ways a character is taken.
LEMMA ScanEscaped ==
  ASSUME NEW w, NEW t, NEW c
  PROVE  Scan([words |-> w, tmp |-> t, escaped |-> TRUE], c)
           = [words |-> w, tmp |-> t \o c, escaped |-> FALSE]
BY DEF Scan

LEMMA ScanSpace ==
  ASSUME NEW w, NEW t, NEW c, c = " "
  PROVE  Scan([words |-> w, tmp |-> t, escaped |-> FALSE], c)
           = [words |-> w \o (IF t = "" THEN <<>> ELSE <<t>>), tmp |-> "", escaped |-> FALSE]
BY DEF Scan

LEMMA ScanBackslash ==
  ASSUME NEW w, NEW t, NEW c, c = "\\"
  PROVE  Scan([words |-> w, tmp |-> t, escaped |-> FALSE], c)
           = [words |-> w, tmp |-> t, escaped |-> TRUE]
BY DEF Scan

LEMMA ScanLetter ==
  ASSUME NEW w, NEW t, NEW c, c # " ", c # "\\"
  PROVE  Scan([words |-> w, tmp |-> t, escaped |-> FALSE], c)
           = [words |-> w, tmp |-> t \o c, escaped |-> FALSE]
BY DEF Scan

\* The loop's flag says that the backslash it has just passed is not escaped.
LEMMA SplitSeesEscapes ==
  ASSUME NEW chars, Len(chars) \in Nat
  PROVE  /\ Split(chars).escaped <=> (Len(chars) > 0 /\ chars[Len(chars)] = "\\" /\ ~Escaped(chars)[Len(chars)])
         /\ \E W : Split(chars).words \in Seq(W)
<1>1. PICK S : Scans(S, chars) /\ Split(chars) = S[Len(chars)]
  BY SplitScans
<1> DEFINE Open(n) == n > 0 /\ chars[n] = "\\" /\ ~Escaped(chars)[n]
           Right(n) == \E w, t, e : /\ S[n] = [words |-> w, tmp |-> t, escaped |-> e]
                                    /\ \E W : w \in Seq(W)
                                    /\ e = Open(n)
           right == {n \in Nat : n <= Len(chars) => Right(n)}
<1>2. 0 \in right
  <2>1. S[0] = [words |-> <<>>, tmp |-> "", escaped |-> FALSE]
    BY <1>1 DEF Scans, Unread
  <2>2. <<>> \in Seq({}) /\ FALSE = Open(0)
    OBVIOUS
  <2> HIDE DEF Open
  <2>3. Right(0)
    BY <2>1, <2>2
  <2>4. QED BY <2>3
<1>3. ASSUME NEW n \in Nat, n \in right, n + 1 <= Len(chars) PROVE Right(n + 1)
  <2>0. Right(n)
    <3> HIDE DEF Right
    <3>1. QED BY <1>3
  <2>1. PICK w, t, e : /\ S[n] = [words |-> w, tmp |-> t, escaped |-> e]
                       /\ \E W : w \in Seq(W)
                       /\ e = Open(n)
    BY <2>0, Zenon
  <2> DEFINE c == chars[n + 1]
  <2>2. S[n + 1] = Scan(S[n], c)
    BY <1>1, <1>3 DEF Scans
  <2>3. Open(n + 1) = (c = "\\" /\ ~e)
    <3>1. n + 1 \in 0 .. Len(chars) /\ n + 1 > 0 /\ (n + 1 > 1 <=> n > 0) /\ (n + 1) - 1 = n
      BY <1>3
    <3>2. Escaped(chars)[n + 1] <=> (n > 0 /\ chars[n] = "\\" /\ ~Escaped(chars)[n])
      BY <3>1, EscapedUnfolds
    <3>3. QED BY <2>1, <3>1, <3>2, Zenon
  <2>4. e \in BOOLEAN
    BY <2>1, Zenon DEF Open
  <2> HIDE DEF Open, c
  <2>5. ASSUME NEW w2, NEW t2, NEW e2, S[n + 1] = [words |-> w2, tmp |-> t2, escaped |-> e2],
               \E W : w2 \in Seq(W), e2 = Open(n + 1)
        PROVE  Right(n + 1)
    BY <2>5
  <2> HIDE DEF Right
  <2>6. CASE e = TRUE
    <3>1. S[n + 1] = [words |-> w, tmp |-> t \o c, escaped |-> FALSE]
      <4>1. S[n] = [words |-> w, tmp |-> t, escaped |-> TRUE]
        BY <2>1, <2>6, Zenon
      <4>2. Scan([words |-> w, tmp |-> t, escaped |-> TRUE], c) = [words |-> w, tmp |-> t \o c, escaped |-> FALSE]
        BY <2>6, ScanEscaped, Zenon
      <4>3. QED BY <2>2, <4>1, <4>2, Zenon
    <3>2. FALSE = Open(n + 1)
      BY <2>3, <2>6
    <3>3. QED BY <2>1, <2>5, <3>1, <3>2
  <2>7. CASE e = FALSE /\ c = " "
    <3> DEFINE more == IF t = "" THEN <<>> ELSE <<t>>
    <3>1. S[n + 1] = [words |-> w \o more, tmp |-> "", escaped |-> FALSE]
      <4>1. S[n] = [words |-> w, tmp |-> t, escaped |-> FALSE]
        BY <2>1, <2>7, Zenon
      <4>2. Scan([words |-> w, tmp |-> t, escaped |-> FALSE], c) = [words |-> w \o (IF t = "" THEN <<>> ELSE <<t>>), tmp |-> "", escaped |-> FALSE]
        BY <2>7, ScanSpace, Zenon
      <4>3. QED BY <2>2, <4>1, <4>2, Zenon
    <3>2. FALSE = Open(n + 1)
      BY <2>3, <2>7
    <3>3. \E W : w \o more \in Seq(W)
      <4>1. PICK W : w \in Seq(W)
        BY <2>1
      <4>2. w \in Seq(W \cup {t})
        BY <4>1, SeqMonotonic
      <4>3. <<t>> \in Seq(W \cup {t}) /\ <<>> \in Seq(W \cup {t})
        OBVIOUS
      <4>4. more \in Seq(W \cup {t})
        BY <4>3
      <4> HIDE DEF more
      <4>5. w \o more \in Seq(W \cup {t})
        BY <4>2, <4>4, ConcatProperties
      <4>6. QED BY <4>5
    <3> HIDE DEF more
    <3>4. QED BY <2>5, <3>1, <3>2, <3>3
  <2>8. CASE e = FALSE /\ c = "\\"
    <3>1. S[n + 1] = [words |-> w, tmp |-> t, escaped |-> TRUE]
      <4>1. S[n] = [words |-> w, tmp |-> t, escaped |-> FALSE]
        BY <2>1, <2>8, Zenon
      <4>2. Scan([words |-> w, tmp |-> t, escaped |-> FALSE], c) = [words |-> w, tmp |-> t, escaped |-> TRUE]
        BY <2>8, ScanBackslash, Zenon
      <4>3. QED BY <2>2, <4>1, <4>2, Zenon
    <3>2. TRUE = Open(n + 1)
      BY <2>3, <2>8
    <3>3. QED BY <2>1, <2>5, <3>1, <3>2
  <2>9. CASE e = FALSE /\ c # " " /\ c # "\\"
    <3>1. S[n + 1] = [words |-> w, tmp |-> t \o c, escaped |-> FALSE]
      <4>1. S[n] = [words |-> w, tmp |-> t, escaped |-> FALSE]
        BY <2>1, <2>9, Zenon
      <4>2. Scan([words |-> w, tmp |-> t, escaped |-> FALSE], c) = [words |-> w, tmp |-> t \o c, escaped |-> FALSE]
        BY <2>9, ScanLetter, Zenon
      <4>3. QED BY <2>2, <4>1, <4>2, Zenon
    <3>2. FALSE = Open(n + 1)
      BY <2>3, <2>9
    <3>3. QED BY <2>1, <2>5, <3>1, <3>2
  <2>10. QED BY <2>4, <2>6, <2>7, <2>8, <2>9
<1>4. \A n \in Nat : n \in right
  <2>1. ASSUME NEW n \in Nat, n \in right PROVE n + 1 \in right
    <3> HIDE DEF Right
    <3>1. QED BY <1>3, <2>1
  <2> HIDE DEF right
  <2>2. QED BY <1>2, <2>1, InductiveSet
<1>5. Right(Len(chars))
  <2> HIDE DEF Right
  <2>1. QED BY <1>4
<1>6. PICK w, t, e : /\ S[Len(chars)] = [words |-> w, tmp |-> t, escaped |-> e]
                     /\ \E W : w \in Seq(W)
                     /\ e = Open(Len(chars))
  BY <1>5, Zenon
<1> HIDE DEF Open
<1>7. Split(chars).escaped = Open(Len(chars)) /\ Split(chars).words = w
  BY <1>1, <1>6
<1>8. QED BY <1>6, <1>7 DEF Open

-----------------------------------------------------------------------------
(* What is refused *)

Dangles(m) == m.key = "extra_opts" /\ "chars" \in DOMAIN m.value /\ Dangling(m.value.chars)
Accepted(m) == GoodMember(m) \/ Dangles(m)
FileSeen == \E i \in 1 .. Len(argv) : i < arg /\ ArgIsOption[i] /\ argv[i] = "-c"

\* What load_info has passed over was good, but for extra_opts that end in a
\* backslash.
AcceptedSoFar ==
  /\ at = "json" => /\ file.kind = "object"
                    /\ \A j \in 1 .. Len(file.members) : j < member => Accepted(file.members[j])
  /\ at = "args" => /\ arg <= Len(argv) + 1
                    /\ FileSeen => /\ file.kind = "object"
                                   /\ \A j \in 1 .. Len(file.members) : Accepted(file.members[j])
  /\ Loading => \A i \in 1 .. Len(argv) :
                  i < arg /\ ArgIsOption[i] /\ argv[i] \in DOMAIN Option \cup {"-c"} => i < Len(argv)

RInv == AcceptedSoFar /\ RefusesTheRest

LEMMA WellFormedIsKept ==
  ASSUME UNCHANGED <<argv, file>>
  PROVE  /\ WellFormed' = WellFormed /\ NoDangling' = NoDangling
         /\ ArgIsOption' = ArgIsOption
<1>1. ArgIsOption' = ArgIsOption
  BY DEF ArgIsOption
<1>2. FileIsRead' = FileIsRead
  BY <1>1, Zenon DEF FileIsRead
<1>3. QED BY <1>1, <1>2, Zenon DEF WellFormed, NoDangling

\* What is decoded is a file that an option names.
LEMMA Decoding ==
  ASSUME InputOK, ControlOK, Position, at = "json"
  PROVE  /\ FileIsRead /\ arg \in 2 .. Len(argv)
         /\ member <= Len(file.members) => member \in 1 .. Len(file.members)
<1>1. Len(argv) \in Nat /\ Len(file.members) \in Nat
  BY DEF InputOK
<1>2. arg \in 2 .. Len(argv) /\ arg - 1 \in 1 .. Len(argv)
  BY <1>1 DEF ControlOK, Position
<1>3. FileIsRead
  BY <1>2 DEF FileIsRead, Position
<1>4. member \in 1 .. Len(file.members) + 1
  BY DEF ControlOK
<1>5. QED BY <1>1, <1>2, <1>3, <1>4

LEMMA BadMember ==
  ASSUME FileIsRead, NEW j \in 1 .. Len(file.members), ~GoodMember(file.members[j])
  PROVE  ~WellFormed
BY DEF WellFormed

\* The characters of extra_opts, as the code reads them.
LEMMA CharMembers ==
  ASSUME InputOK, NEW j \in 1 .. Len(file.members), "chars" \in DOMAIN file.members[j].value
  PROVE  LET chars == file.members[j].value.chars
         IN /\ chars \in Seq(STRING)
            /\ Split(chars).escaped <=> Dangling(chars)
            /\ \E W : Split(chars).words \in Seq(W)
<1> DEFINE v == file.members[j].value
           m == file.members
           Members == [key : STRING, value : Values]
<1>1. v \in Values
  <2>1. m \in Seq(Members) /\ j \in 1 .. Len(m)
    BY DEF InputOK
  <2> HIDE DEF m, Members
  <2>2. m[j] \in Members
    BY <2>1
  <2>3. m[j].value \in Values
    BY <2>2 DEF Members
  <2>4. QED BY <2>3 DEF m
<1>2. "chars" \in DOMAIN v
  OBVIOUS
<1> HIDE DEF v
<1>3. v \in [chars : Seq(STRING)]
  BY <1>1, <1>2 DEF Values
<1>4. v.chars \in Seq(STRING) /\ Len(v.chars) \in Nat
  BY <1>3
<1>5. v.chars # <<>> <=> Len(v.chars) > 0
  BY <1>4
<1>6. Split(v.chars).escaped <=> Dangling(v.chars)
  BY <1>4, <1>5, SplitSeesEscapes, Zenon DEF Dangling
<1>7. \E W : Split(v.chars).words \in Seq(W)
  BY <1>4, SplitSeesEscapes
<1>8. QED BY <1>4, <1>6, <1>7, Zenon DEF v

\* An argument that ends the program is not well formed.
LEMMA RefusedArguments ==
  ASSUME InputOK, ControlOK, Position, at' \in {"fatal", "crashed"},
         LoadFile \/ \E o \in DOMAIN Option : AddField(o)
  PROVE  ~WellFormed
<1>1. at = "args" /\ arg <= Len(argv) /\ argv[arg] \in DOMAIN Option \cup {"-c"}
  BY DEF LoadFile, AddField, AtArg
<1>2. arg \in 1 .. Len(argv) /\ ArgIsOption[arg]
  <2>1. Len(argv) \in Nat
    BY DEF InputOK
  <2>2. QED BY <1>1, <2>1 DEF ControlOK, Position
<1>3. CASE arg = Len(argv)
  <2>1. ~(arg < Len(argv))
    BY <1>3
  <2>2. QED BY <1>1, <1>2, <2>1 DEF WellFormed
<1>4. CASE arg # Len(argv)
  <2>1. argv[arg] = "-c" /\ file.kind # "object"
    BY <1>4 DEF LoadFile, AddField, AtArg, Missing, Read, Goto, Exit
  <2>2. FileIsRead
    BY <1>2, <2>1 DEF FileIsRead
  <2>3. QED BY <2>1, <2>2 DEF WellFormed
<1>5. QED BY <1>3, <1>4

\* Neither is a member that does.
LEMMA RefusedMembers ==
  ASSUME InputOK, ControlOK, Position, at' \in {"fatal", "crashed"},
         SetNoUdp \/ SetFastOpen \/ ExtraOpts \/ UnknownMember \/ \E k \in DOMAIN Key : SetMember(k)
  PROVE  ~WellFormed
<1> DEFINE m == file.members[member]
<1>1. at = "json" /\ member <= Len(file.members)
  <2>1. ExtraOpts => at = "json" /\ member <= Len(file.members)
    BY DEF ExtraOpts, AtKey
  <2>2. QED BY <2>1 DEF SetNoUdp, SetFastOpen, UnknownMember, SetMember, AtKey
<1>2. FileIsRead /\ member \in 1 .. Len(file.members)
  BY <1>1, Decoding
<1>3. ~GoodMember(m)
  <2>1. CASE SetNoUdp \/ SetFastOpen
    <3>1. m.key \in {"no_udp", "fast_open"} /\ "bool" \notin DOMAIN m.value
      BY <2>1 DEF SetNoUdp, SetFastOpen, AtKey, Is, Value, Goto
    <3>2. QED BY <3>1, FlagsAreNoFields DEF GoodMember
  <2>2. CASE ExtraOpts
    <3>1. m.key = "extra_opts" /\ ("chars" \in DOMAIN m.value => Split(m.value.chars).escaped)
      BY <2>2 DEF ExtraOpts, AtKey, Is, Value, Goto, Exit
    <3>2. "chars" \in DOMAIN m.value => Dangling(m.value.chars)
      BY <1>2, <3>1, CharMembers
    <3>3. QED BY <3>1, <3>2, FlagsAreNoFields DEF GoodMember
  <2>3. CASE UnknownMember
    BY <2>3 DEF UnknownMember, GoodMember
  <2>4. ASSUME NEW k \in DOMAIN Key, SetMember(k) PROVE ~GoodMember(m)
    <3>1. /\ m.key = k /\ "string" \notin DOMAIN m.value
          /\ ~("number" \in DOMAIN m.value /\ Key[k] \in NumberFields /\ m.value.number >= 0)
      BY <2>4 DEF SetMember, AtKey, Is, Value, Goto
    <3>2. QED BY <3>1, FlagsAreNoFields DEF GoodMember
  <2>5. QED BY <2>1, <2>2, <2>3, <2>4
<1>4. QED BY <1>2, <1>3, BadMember

\* A member that is passed over is accepted.
LEMMA AcceptedMember ==
  ASSUME InputOK, ControlOK, Position, at' = "json",
         SetNoUdp \/ SetFastOpen \/ ExtraOpts \/ \E k \in DOMAIN Key : SetMember(k)
  PROVE  /\ at = "json" /\ member \in 1 .. Len(file.members) /\ Goto("json", arg, member + 1)
         /\ Accepted(file.members[member])
<1> DEFINE m == file.members[member]
<1>1. at = "json" /\ member <= Len(file.members) /\ Goto("json", arg, member + 1)
  <2>1. ExtraOpts => at = "json" /\ member <= Len(file.members) /\ Goto("json", arg, member + 1)
    BY DEF ExtraOpts, AtKey, Exit
  <2>2. QED BY <2>1 DEF SetNoUdp, SetFastOpen, SetMember, AtKey, Exit
<1>2. member \in 1 .. Len(file.members)
  BY <1>1, Decoding
<1>3. Accepted(m)
  <2>1. CASE SetNoUdp \/ SetFastOpen
    <3>1. m.key \in {"no_udp", "fast_open"} /\ "bool" \in DOMAIN m.value
      BY <2>1 DEF SetNoUdp, SetFastOpen, AtKey, Is, Value, Exit
    <3>2. QED BY <3>1 DEF Accepted, GoodMember
  <2>2. CASE ExtraOpts
    <3>1. m.key = "extra_opts" /\ "chars" \in DOMAIN m.value
      BY <2>2 DEF ExtraOpts, AtKey, Is, Value, Exit
    <3>2. QED BY <3>1, Zenon DEF Accepted, GoodMember, Dangles
  <2>3. ASSUME NEW k \in DOMAIN Key, SetMember(k) PROVE Accepted(m)
    <3>1. /\ m.key = k
          /\ \/ "string" \in DOMAIN m.value
             \/ "number" \in DOMAIN m.value /\ Key[k] \in NumberFields /\ m.value.number >= 0
      BY <2>3 DEF SetMember, AtKey, Is, Value, Exit
    <3>2. QED BY <3>1 DEF Accepted, GoodMember
  <2>4. QED BY <2>1, <2>2, <2>3
<1>4. QED BY <1>1, <1>2, <1>3

-----------------------------------------------------------------------------
(* Refusing what is not well formed, and nothing else *)

LEMMA AcceptedInitially == InputOK /\ Init => AcceptedSoFar
<1> SUFFICES ASSUME InputOK, Init PROVE AcceptedSoFar
  OBVIOUS
<1>1. at = "init" /\ arg = 1
  BY DEF Init, LoadInit
<1>2. \A i \in 1 .. Len(argv) : ~(i < arg)
  BY <1>1
<1>3. QED BY <1>1, <1>2 DEF AcceptedSoFar

\* One more argument, or two, behind an option that is not -c.
LEMMA AcceptedOptions ==
  ASSUME InputOK, ControlOK, AsTold, AcceptedSoFar,
         \/ Debug \/ FastOpen \/ NoUdp \/ Unknown
         \/ \E o \in DOMAIN Option : AddField(o) /\ ~Missing
  PROVE  AcceptedSoFar'
<1> DEFINE takes == DOMAIN Option \cup {"-c"}
<1>0. Sizes /\ Position
  BY ReaderIsOK DEF ReaderOK, AsTold
<1>1. /\ at = "args" /\ at' = "args" /\ arg <= Len(argv) /\ UNCHANGED <<argv, file>> /\ argv[arg] # "-c"
      /\ \/ argv[arg] \notin takes /\ arg' = arg + 1
         \/ argv[arg] \in takes /\ arg # Len(argv) /\ arg' = arg + 2
  <2>1. CASE Debug \/ FastOpen \/ NoUdp \/ Unknown
    BY <2>1, FlagsAreNoFields DEF Debug, FastOpen, NoUdp, Unknown, AtArg, Keyword, Goto
  <2>2. CASE \E o \in DOMAIN Option : AddField(o) /\ ~Missing
    <3>1. "-c" \notin DOMAIN Option
      BY FlagsAreNoFields DEF Keyword
    <3>2. QED BY <2>2, <3>1 DEF AddField, AtArg, Missing, Goto
  <2>3. QED BY <2>1, <2>2
<1>2. arg \in 1 .. Len(argv) /\ ArgIsOption[arg] /\ Len(argv) \in Nat
  BY <1>0, <1>1 DEF ControlOK, Position, Sizes
<1> HIDE DEF takes
<1>3. argv[arg] \in takes => ~ArgIsOption[arg + 1]
  <2> SUFFICES ASSUME argv[arg] \in takes PROVE ~ArgIsOption[arg + 1]
    OBVIOUS
  <2>1. arg \in Nat /\ 1 <= arg /\ arg < Len(argv)
    BY <1>1, <1>2
  <2>2. QED BY <1>0, <1>2, <2>1, NextArg DEF takes
<1>4. ASSUME NEW i \in 1 .. Len(argv), i < arg', ArgIsOption[i]
      PROVE  i < arg \/ (i = arg /\ (argv[arg] \in takes => arg < Len(argv)))
  BY <1>1, <1>2, <1>3, <1>4
<1>5. FileSeen' => FileSeen
  <2>1. FileSeen' <=> \E i \in 1 .. Len(argv) : i < arg' /\ ArgIsOption[i] /\ argv[i] = "-c"
    BY <1>1, WellFormedIsKept DEF FileSeen
  <2>2. QED BY <1>1, <1>4, <2>1 DEF FileSeen
<1>6. arg' <= Len(argv) + 1
  BY <1>1, <1>2
<1>7. \A i \in 1 .. Len(argv) : i < arg' /\ ArgIsOption[i] /\ argv[i] \in takes => i < Len(argv)
  <2>1. \A i \in 1 .. Len(argv) : i < arg /\ ArgIsOption[i] /\ argv[i] \in takes => i < Len(argv)
    BY <1>1 DEF AcceptedSoFar, Loading, takes
  <2>2. QED BY <1>4, <2>1
<1>8. (Loading => \A i \in 1 .. Len(argv) : i < arg /\ ArgIsOption[i] /\ argv[i] \in takes => i < Len(argv))'
  BY <1>1, <1>7, WellFormedIsKept DEF takes
<1>9. FileSeen => file.kind = "object" /\ \A j \in 1 .. Len(file.members) : Accepted(file.members[j])
  BY <1>1 DEF AcceptedSoFar
<1>10. QED BY <1>1, <1>5, <1>6, <1>8, <1>9 DEF AcceptedSoFar, takes

\* Into the file, through its members, and out of it.
LEMMA AcceptedFiles ==
  ASSUME InputOK, ControlOK, AsTold, AcceptedSoFar, at' \in {"args", "json"},
         \/ LoadFile \/ SetNoUdp \/ SetFastOpen \/ ExtraOpts \/ EndOfFile
         \/ \E k \in DOMAIN Key : SetMember(k)
  PROVE  AcceptedSoFar'
<1> DEFINE Follows(a) == \A i \in 1 .. Len(argv) :
                           i < a /\ ArgIsOption[i] /\ argv[i] \in DOMAIN Option \cup {"-c"} => i < Len(argv)
<1>0. Sizes /\ Position /\ Len(argv) \in Nat /\ Len(file.members) \in Nat
  BY ReaderIsOK DEF ReaderOK, AsTold, Sizes
<1>1. Loading => Follows(arg)
  BY DEF AcceptedSoFar
<1>2. UNCHANGED <<argv, file>> => ((Loading => Follows(arg))' <=> (Loading' => Follows(arg')))
  BY WellFormedIsKept
<1>3. CASE LoadFile
  <2>1. /\ at = "args" /\ arg <= Len(argv) /\ argv[arg] = "-c" /\ arg # Len(argv)
        /\ file.kind = "object" /\ UNCHANGED <<argv, file>> /\ at' = "json" /\ arg' = arg + 1 /\ member' = 1
    BY <1>3 DEF LoadFile, AtArg, Missing, Read, Goto, Exit, InputOK
  <2>2. arg \in 1 .. Len(argv)
    BY <1>0, <2>1 DEF ControlOK
  <2>3. \A j \in 1 .. Len(file.members) : ~(j < member')
    BY <2>1
  <2>4. Follows(arg')
    <3>1. Follows(arg)
      BY <1>1, <2>1 DEF Loading
    <3>2. \A i \in 1 .. Len(argv) : i < arg' => i < arg \/ (i = arg /\ i < Len(argv))
      BY <1>0, <2>1, <2>2
    <3>3. QED BY <3>1, <3>2
  <2> HIDE DEF Follows
  <2>5. (Loading => Follows(arg))'
    BY <1>2, <2>1, <2>4
  <2>6. QED BY <2>1, <2>3, <2>5 DEF AcceptedSoFar, Follows
<1>4. CASE EndOfFile
  <2>1. /\ at = "json" /\ member > Len(file.members) /\ UNCHANGED <<argv, file>>
        /\ at' = "args" /\ arg' = arg + 1
    BY <1>4 DEF EndOfFile, Goto
  <2>2. arg \in 2 .. Len(argv) /\ ~ArgIsOption[arg] /\ member \in Nat
    <3>1. member \in Nat
      BY <1>0 DEF ControlOK
    <3>2. QED BY <1>0, <2>1, <3>1, Decoding DEF Position
  <2>3. file.kind = "object" /\ \A j \in 1 .. Len(file.members) : Accepted(file.members[j])
    <3>1. \A j \in 1 .. Len(file.members) : j < member
      BY <1>0, <2>1, <2>2
    <3>2. QED BY <2>1, <3>1 DEF AcceptedSoFar
  <2>4. Follows(arg')
    <3>1. Follows(arg)
      BY <1>1, <2>1 DEF Loading
    <3>2. \A i \in 1 .. Len(argv) : i < arg' => i < arg \/ i = arg
      BY <1>0, <2>1, <2>2
    <3>3. QED BY <2>2, <3>1, <3>2
  <2> HIDE DEF Follows
  <2>5. (Loading => Follows(arg))'
    BY <1>2, <2>1, <2>4
  <2>6. arg' <= Len(argv) + 1
    BY <2>1, <2>2
  <2>7. QED BY <2>1, <2>3, <2>5, <2>6 DEF AcceptedSoFar, Follows
<1>5. CASE SetNoUdp \/ SetFastOpen \/ ExtraOpts \/ \E k \in DOMAIN Key : SetMember(k)
  <2>0. at' = "json"
    <3>1. ExtraOpts => at' # "args"
      BY DEF ExtraOpts, Goto, Exit
    <3>2. SetNoUdp \/ SetFastOpen \/ (\E k \in DOMAIN Key : SetMember(k)) => at' # "args"
      BY DEF SetNoUdp, SetFastOpen, SetMember, Goto, Exit
    <3>3. QED BY <1>5, <3>1, <3>2
  <2>1. /\ at = "json" /\ member \in 1 .. Len(file.members) /\ Goto("json", arg, member + 1)
        /\ Accepted(file.members[member])
    BY <1>0, <1>5, <2>0, AcceptedMember
  <2>2. UNCHANGED <<argv, file>> /\ arg' = arg /\ member' = member + 1
    BY <2>1 DEF Goto
  <2>3. \A j \in 1 .. Len(file.members) : j < member' => j < member \/ j = member
    BY <2>1, <2>2
  <2>4. file.kind = "object" /\ \A j \in 1 .. Len(file.members) : j < member' => Accepted(file.members[j])
    BY <2>1, <2>3 DEF AcceptedSoFar
  <2>5. Follows(arg')
    BY <1>1, <2>1, <2>2 DEF Loading
  <2> HIDE DEF Follows
  <2>6. (Loading => Follows(arg))'
    BY <1>2, <2>2, <2>5
  <2>7. QED BY <2>0, <2>2, <2>4, <2>6 DEF AcceptedSoFar, Follows
<1>6. QED BY <1>3, <1>4, <1>5

\* When everything has been passed over, it was well formed.
LEMMA AllAccepted ==
  ASSUME InputOK, ControlOK, AcceptedSoFar, at = "args", arg > Len(argv), NoDangling
  PROVE  WellFormed
<1>1. \A i \in 1 .. Len(argv) : i < arg
  BY DEF InputOK, ControlOK
<1>2. FileSeen <=> FileIsRead
  BY <1>1 DEF FileSeen, FileIsRead
<1>3. \A j \in 1 .. Len(file.members) :
        FileIsRead => (Accepted(file.members[j]) => GoodMember(file.members[j]))
  BY DEF NoDangling, Accepted, Dangles
<1>4. FileIsRead => file.kind = "object" /\ \A j \in 1 .. Len(file.members) : GoodMember(file.members[j])
  BY <1>2, <1>3 DEF AcceptedSoFar
<1>5. \A i \in 1 .. Len(argv) :
        ArgIsOption[i] /\ argv[i] \in DOMAIN Option \cup {"-c"} => i < Len(argv)
  BY <1>1 DEF AcceptedSoFar, Loading
<1>6. QED BY <1>4, <1>5 DEF WellFormed

LEMMA LoadRefuses ==
  ASSUME IInv, SInv, RInv, LoadStep
  PROVE  RInv'
<1>1. /\ Load /\ Loading /\ AsTold /\ AcceptedSoFar /\ Position /\ InputOK /\ ControlOK
      /\ UNCHANGED <<argv, file>>
  BY LoadEffect, LoadingComesFirst DEF LoadStep, SInv, RInv, IInv, AsTold
<1>2. ASSUME at' \in {"fatal", "crashed"} PROVE ~WellFormed /\ ~Loading'
  <2>1. ~(Help \/ Begin \/ Debug \/ FastOpen \/ NoUdp \/ Unknown \/ EndOfFile \/ Default)
    BY <1>2 DEF Help, Begin, Debug, FastOpen, NoUdp, Unknown, EndOfFile, Default, Goto, Exit
  <2>2. \/ LoadFile \/ \E o \in DOMAIN Option : AddField(o)
        \/ SetNoUdp \/ SetFastOpen \/ ExtraOpts \/ UnknownMember \/ \E k \in DOMAIN Key : SetMember(k)
    BY <1>1, <2>1 DEF Load
  <2>3. QED BY <1>1, <1>2, <2>2, RefusedArguments, RefusedMembers DEF Loading
<1>3. ASSUME at' = "loaded" PROVE NoDangling => WellFormed
  <2>1. Default
    BY <1>1, <1>3, LoadStaysBefore
  <2>2. at = "args" /\ arg > Len(argv)
    BY <2>1 DEF Default
  <2>3. QED BY <1>1, <2>2, AllAccepted
<1>4. RefusesTheRest'
  <2>1. at' \in {"fatal", "crashed"} => ~WellFormed'
    BY <1>1, <1>2, WellFormedIsKept
  <2>2. at' = "loaded" => (NoDangling' => WellFormed')
    BY <1>1, <1>3, WellFormedIsKept
  <2>3. QED BY <2>1, <2>2, Zenon DEF RefusesTheRest
<1>5. AcceptedSoFar'
  <2>1. ASSUME at' \notin {"init", "args", "json"} PROVE AcceptedSoFar'
    BY <2>1 DEF AcceptedSoFar, Loading
  <2>2. ASSUME at' \in {"init", "args", "json"} PROVE AcceptedSoFar'
    <3>1. CASE Help \/ Begin
      <4>1. at' # "init" /\ arg' = 1
        BY <1>1, <2>2, <3>1 DEF Help, Begin, Goto, Exit, Position
      <4>2. at' = "args"
        BY <2>2, <3>1 DEF Help, Begin, Goto, Exit
      <4>3. Len(argv) \in Nat
        BY <1>1 DEF InputOK
      <4>4. \A n \in 1 .. Len(argv) : ~(n < arg')
        BY <4>1
      <4>5. ~FileSeen'
        BY <1>1, <4>4 DEF FileSeen
      <4>6. arg' <= Len(argv') + 1
        BY <1>1, <4>1, <4>3
      <4>7. QED BY <1>1, <4>2, <4>4, <4>5, <4>6 DEF AcceptedSoFar
    <3>2. CASE Debug \/ FastOpen \/ NoUdp \/ Unknown
      BY <1>1, <3>2, AcceptedOptions
    <3>3. ASSUME NEW o \in DOMAIN Option, AddField(o) PROVE AcceptedSoFar'
      <4>1. ~Missing
        BY <2>2, <3>3 DEF AddField, Exit
      <4>2. QED BY <1>1, <3>3, <4>1, AcceptedOptions
    <3>4. CASE LoadFile \/ SetNoUdp \/ SetFastOpen \/ ExtraOpts \/ EndOfFile \/ \E k \in DOMAIN Key : SetMember(k)
      <4>1. at' # "init"
        <5>1. ExtraOpts => at' # "init"
          BY DEF ExtraOpts, Goto, Exit
        <5>2. LoadFile => at' # "init"
          BY DEF LoadFile, Read, Goto, Exit
        <5>3. SetNoUdp \/ SetFastOpen \/ EndOfFile \/ (\E k \in DOMAIN Key : SetMember(k)) => at' # "init"
          BY DEF SetNoUdp, SetFastOpen, EndOfFile, SetMember, Goto, Exit
        <5>4. QED BY <3>4, <5>1, <5>2, <5>3
      <4>2. QED BY <1>1, <2>2, <3>4, <4>1, AcceptedFiles
    <3>5. CASE UnknownMember
      BY <2>2, <3>5 DEF UnknownMember, Exit
    <3>6. CASE Default
      BY <2>2, <3>6 DEF Default, Goto
    <3>7. QED BY <1>1, <3>1, <3>2, <3>3, <3>4, <3>5, <3>6 DEF Load
  <2>3. QED BY <2>1, <2>2
<1>6. QED BY <1>4, <1>5 DEF RInv

LEMMA RefusalStep == IInv /\ SInv /\ EndsOK /\ RInv /\ [Next]_vars => RInv'
<1> SUFFICES ASSUME IInv, SInv, EndsOK, RInv, [Next]_vars PROVE RInv'
  OBVIOUS
<1>1. CASE LoadStep
  BY <1>1, LoadRefuses
<1>2. CASE LoadPlugin \/ NoPlugin \/ Command \/ Udp
  <2>1. at' \notin {"init", "args", "json", "loaded"}
    BY <1>2, LoadingComesFirst
  <2>2. AcceptedSoFar'
    BY <2>1 DEF AcceptedSoFar, Loading
  <2>3. at' # "fatal" /\ UNCHANGED <<argv, file>>
    BY <1>2 DEF LoadPlugin, NoPlugin, Command, Udp
  <2>4. ASSUME at' = "crashed"
        PROVE  Given("server_port") = NULL.text /\ Given("plugin") # NULL.text /\ ~GivenFlag("--no-udp", "no_udp")
    <3>1. at = "udp" /\ remote.port = NULL
      BY <1>2, <2>4 DEF LoadPlugin, NoPlugin, Command, Udp
    <3>2. Given("server_port") = NULL.text /\ Given("plugin") # NULL.text /\ is_udp_proxy
      BY <3>1 DEF EndsOK, InBetween, Running
    <3>3. is_udp_proxy = ~GivenFlag("--no-udp", "no_udp")
      BY <3>1 DEF SInv, LastSettingWins, Running
    <3>4. QED BY <3>2, <3>3
  <2>5. RefusesTheRest'
    <3>1. at' = "crashed" => /\ Given("server_port")' = NULL.text' /\ Given("plugin")' # NULL.text'
                             /\ ~GivenFlag("--no-udp", "no_udp")'
      BY <2>3, <2>4, GivenIsKept DEF NULL
    <3>2. QED BY <2>1, <2>3, <3>1 DEF RefusesTheRest
  <2>6. QED BY <2>2, <2>5 DEF RInv
<1>3. CASE UNCHANGED vars
  <2>1. UNCHANGED <<argv, file, at, arg, member>>
    BY <1>3 DEF vars, loadVars
  <2>2. RefusesTheRest'
    BY <2>1, WellFormedIsKept, GivenIsKept DEF RInv, RefusesTheRest, NULL
  <2>3. AcceptedSoFar'
    <3>1. FileSeen' <=> FileSeen
      BY <2>1, WellFormedIsKept DEF FileSeen
    <3>2. QED BY <2>1, <3>1, WellFormedIsKept DEF RInv, AcceptedSoFar, Loading
  <2>4. QED BY <2>2, <2>3 DEF RInv
<1>4. QED BY <1>1, <1>2, <1>3 DEF Next

LEMMA RefusalInductive == Spec => [](IInv /\ SInv /\ EndsOK /\ RInv)
<1>1. Init => IInv /\ SInv /\ EndsOK /\ RInv
  <2>1. Init => RefusesTheRest
    BY DEF Init, LoadInit, RefusesTheRest
  <2>2. QED BY <2>1, Initially, NothingToldYet, EndsInitially, AcceptedInitially DEF IInv, RInv
<1>2. IInv /\ SInv /\ EndsOK /\ RInv /\ [Next]_vars => (IInv /\ SInv /\ EndsOK /\ RInv)'
  BY Stepwise, StepKeepsSettings, EndsStep, RefusalStep
<1>3. QED BY <1>1, <1>2, PTL DEF Spec

-----------------------------------------------------------------------------
(* How shadowsocks reads a list of options *)

\* What the options s give option o, and that the last of them has its value.
GivesIn(s, o) ==
  LET places == {i \in 1 .. Len(s) : IsOption(s, Taking)[i] /\ s[i] = o}
  IN IF places = {} THEN NULL.text ELSE s[Max(places) + 1]

CompleteIn(s) == s # <<>> => ~(IsOption(s, Taking)[Len(s)] /\ s[Len(s)] \in Taking)

LEMMA GreatestNumber ==
  ASSUME NEW n \in Nat, NEW S \in SUBSET (1 .. n), S # {}
  PROVE  Max(S) \in S /\ \A y \in S : Max(S) >= y
<1> DEFINE T == {n - x : x \in S}
<1>1. T \in SUBSET Nat /\ T # {}
  <2>1. \A x \in S : n - x \in Nat
    OBVIOUS
  <2>2. QED BY <2>1
<1>2. PICK m \in T : \A k \in T : m <= k
  BY <1>1, LeastNumber
<1>3. PICK x \in S : m = n - x
  BY <1>2
<1>4. \A y \in S : x >= y
  <2> TAKE y \in S
  <2>1. n - x <= n - y
    BY <1>2, <1>3
  <2>2. x \in Int /\ y \in Int
    OBVIOUS
  <2>3. QED BY <2>1, <2>2
<1>5. \E z \in S : \A y \in S : z >= y
  BY <1>4
<1>6. QED BY <1>5, Zenon DEF Max

\* Options that are appended change nothing before them.
LEMMA OptionsBefore ==
  ASSUME NEW W, NEW s \in Seq(W), NEW t \in Seq(W), NEW takes
  PROVE  \A i \in 1 .. Len(s) : IsOption(s \o t, takes)[i] <=> IsOption(s, takes)[i]
<1> DEFINE u == s \o t
           A == IsOption(u, takes)
           B == IsOption(s, takes)
<1>1. /\ Len(s) \in Nat /\ Len(u) \in Nat /\ Len(s) <= Len(u)
      /\ \A i \in 1 .. Len(s) : u[i] = s[i]
  BY ConcatProperties
<1> HIDE DEF u
<1>2. /\ \A i \in 0 .. Len(u) : i <= 1 => A[i]
      /\ \A i \in 0 .. Len(u) : ~(i <= 1) => (A[i] <=> ~(A[i - 1] /\ u[i - 1] \in takes))
  BY <1>1, IsOptionUnfolds
<1>3. /\ \A i \in 0 .. Len(s) : i <= 1 => B[i]
      /\ \A i \in 0 .. Len(s) : ~(i <= 1) => (B[i] <=> ~(B[i - 1] /\ s[i - 1] \in takes))
  BY <1>1, IsOptionUnfolds
<1> HIDE DEF A, B
<1> DEFINE same == {i \in Nat : i <= Len(s) => (A[i] <=> B[i])}
<1>4. 0 \in same
  BY <1>1, <1>2, <1>3
<1>5. ASSUME NEW i \in Nat, i \in same PROVE i + 1 \in same
  <2> SUFFICES ASSUME i + 1 <= Len(s) PROVE A[i + 1] <=> B[i + 1]
    OBVIOUS
  <2>1. CASE i = 0
    BY <1>1, <1>2, <1>3, <2>1
  <2>2. CASE i # 0
    <3>1. /\ i + 1 \in 0 .. Len(u) /\ i + 1 \in 0 .. Len(s) /\ ~(i + 1 <= 1) /\ (i + 1) - 1 = i
          /\ i \in 1 .. Len(s) /\ i <= Len(s)
      BY <1>1, <2>2
    <3>2. A[i + 1] <=> ~(A[i] /\ u[i] \in takes)
      BY <1>2, <3>1
    <3>3. B[i + 1] <=> ~(B[i] /\ s[i] \in takes)
      BY <1>3, <3>1
    <3>4. (A[i] <=> B[i]) /\ u[i] = s[i]
      BY <1>1, <1>5, <3>1
    <3>5. QED BY <3>2, <3>3, <3>4
  <2>3. QED BY <2>1, <2>2
<1>6. \A i \in Nat : i \in same
  <2> HIDE DEF same
  <2>1. QED BY <1>4, <1>5, InductiveSet
<1>7. \A i \in 1 .. Len(s) : A[i] <=> B[i]
  BY <1>1, <1>6
<1>8. QED BY <1>7 DEF A, B, u

\* Behind options that are complete comes an option.
LEMMA OptionNext ==
  ASSUME NEW W, NEW s \in Seq(W), NEW t \in Seq(W), CompleteIn(s), t # <<>>
  PROVE  IsOption(s \o t, Taking)[Len(s) + 1]
<1> DEFINE u == s \o t
           A == IsOption(u, Taking)
<1>1. /\ Len(s) \in Nat /\ Len(u) \in Nat /\ Len(s) + 1 \in 0 .. Len(u)
      /\ \A i \in 1 .. Len(s) : u[i] = s[i]
  <2>1. Len(t) \in Nat /\ Len(t) >= 1
    OBVIOUS
  <2>2. QED BY <2>1, ConcatProperties
<1>2. \A i \in 1 .. Len(s) : A[i] <=> IsOption(s, Taking)[i]
  BY OptionsBefore
<1> HIDE DEF u
<1>3. /\ \A i \in 0 .. Len(u) : i <= 1 => A[i]
      /\ \A i \in 0 .. Len(u) : ~(i <= 1) => (A[i] <=> ~(A[i - 1] /\ u[i - 1] \in Taking))
  BY <1>1, IsOptionUnfolds
<1> HIDE DEF A
<1>4. CASE s = <<>>
  <2>1. Len(s) + 1 <= 1
    BY <1>4
  <2>2. QED BY <1>1, <1>3, <2>1 DEF A, u
<1>5. CASE s # <<>>
  <2>1. Len(s) \in 1 .. Len(s) /\ ~(Len(s) + 1 <= 1) /\ (Len(s) + 1) - 1 = Len(s)
    BY <1>5
  <2>2. ~(A[Len(s)] /\ u[Len(s)] \in Taking)
    BY <1>1, <1>2, <1>5, <2>1 DEF CompleteIn
  <2>3. A[Len(s) + 1] <=> ~(A[Len(s)] /\ u[Len(s)] \in Taking)
    BY <1>1, <1>3, <2>1
  <2>4. QED BY <2>2, <2>3 DEF A, u
<1>6. QED BY <1>4, <1>5

\* Another option takes nothing from what the ones before it give, when they are
\* complete: their last one finds its own value.
LEMMA GivesBefore ==
  ASSUME NEW W, NEW s \in Seq(W), NEW t \in Seq(W), CompleteIn(s), NEW q \in Taking,
         \A i \in 1 .. Len(s \o t) : i > Len(s) /\ IsOption(s \o t, Taking)[i] => (s \o t)[i] # q
  PROVE  GivesIn(s \o t, q) = GivesIn(s, q)
<1> DEFINE u == s \o t
           P == {i \in 1 .. Len(u) : IsOption(u, Taking)[i] /\ u[i] = q}
           R == {i \in 1 .. Len(s) : IsOption(s, Taking)[i] /\ s[i] = q}
<1>1. /\ Len(s) \in Nat /\ Len(u) \in Nat /\ Len(s) <= Len(u)
      /\ \A i \in 1 .. Len(s) : i \in 1 .. Len(u) /\ u[i] = s[i]
  BY ConcatProperties
<1>2. \A i \in 1 .. Len(s) : IsOption(u, Taking)[i] <=> IsOption(s, Taking)[i]
  BY OptionsBefore
<1>3. \A i \in 1 .. Len(u) : IsOption(u, Taking)[i] /\ u[i] = q => i \in 1 .. Len(s)
  BY <1>1
<1> HIDE DEF u
<1>4. P = R
  BY <1>1, <1>2, <1>3
<1>5. CASE R = {}
  BY <1>4, <1>5 DEF GivesIn, u
<1>6. CASE R # {}
  <2>1. Max(R) \in R
    BY <1>1, <1>6, GreatestNumber
  <2>2. Max(R) # Len(s)
    <3>1. s # <<>>
      BY <1>1, <2>1
    <3>2. QED BY <2>1, <3>1 DEF CompleteIn
  <2>3. Max(R) + 1 \in 1 .. Len(s)
    BY <1>1, <2>1, <2>2
  <2>4. u[Max(R) + 1] = s[Max(R) + 1]
    BY <1>1, <2>3
  <2>5. GivesIn(u, q) = u[Max(P) + 1] /\ GivesIn(s, q) = s[Max(R) + 1]
    BY <1>4, <1>6 DEF GivesIn
  <2>6. QED BY <1>4, <2>4, <2>5 DEF u
<1>7. QED BY <1>5, <1>6

\* An option and its value behind complete options: it gives the value, and the
\* options are complete again.
LEMMA GivesPair ==
  ASSUME NEW W, NEW s \in Seq(W), CompleteIn(s), NEW o \in Taking \cap W, NEW v \in W
  PROVE  /\ s \o <<o, v>> \in Seq(W) /\ CompleteIn(s \o <<o, v>>)
         /\ \A q \in Taking : GivesIn(s \o <<o, v>>, q) = IF q = o THEN v ELSE GivesIn(s, q)
<1> DEFINE t == <<o, v>>
           u == s \o t
           n == Len(s)
           A == IsOption(u, Taking)
<1>1. t \in Seq(W) /\ Len(t) = 2 /\ t # <<>> /\ t[1] = o /\ t[2] = v
  OBVIOUS
<1> HIDE DEF t
<1>2. u \in Seq(W) /\ n \in Nat /\ Len(u) = n + 2 /\ u[n + 1] = o /\ u[n + 2] = v
  <2>0. /\ Len(u) = Len(s) + Len(t)
        /\ \A i \in 1 .. Len(s) + Len(t) : u[i] = IF i <= Len(s) THEN s[i] ELSE t[i - Len(s)]
    BY <1>1, ConcatProperties
  <2> HIDE DEF u
  <2>1. n \in Nat /\ Len(u) = n + 2
    BY <1>1, <2>0
  <2>2. \A i \in 1 .. n + 2 : u[i] = IF i <= n THEN s[i] ELSE t[i - n]
    BY <1>1, <2>0
  <2>3. u[n + 1] = t[1] /\ u[n + 2] = t[2]
    <3>1. n + 1 \in 1 .. n + 2 /\ n + 2 \in 1 .. n + 2 /\ ~(n + 1 <= n) /\ ~(n + 2 <= n)
          /\ (n + 1) - n = 1 /\ (n + 2) - n = 2
      BY <2>1
    <3>2. QED BY <2>2, <3>1
  <2>4. u \in Seq(W)
    BY <1>1, ConcatProperties DEF u
  <2>5. QED BY <1>1, <2>1, <2>3, <2>4
<1>3. A[n + 1]
  BY <1>1, OptionNext
<1> HIDE DEF u, n
<1>4. ~A[n + 2]
  <2>1. \A i \in 0 .. Len(u) : ~(i <= 1) => (A[i] <=> ~(A[i - 1] /\ u[i - 1] \in Taking))
    BY <1>2, IsOptionUnfolds
  <2>2. n + 2 \in 0 .. Len(u) /\ ~(n + 2 <= 1) /\ (n + 2) - 1 = n + 1
    BY <1>2
  <2> HIDE DEF A
  <2>3. A[n + 2] <=> ~(A[n + 1] /\ u[n + 1] \in Taking)
    BY <2>1, <2>2
  <2>4. QED BY <1>2, <1>3, <2>3
<1>5. CompleteIn(u)
  BY <1>2, <1>4 DEF CompleteIn
<1>6. ASSUME NEW q \in Taking, q # o PROVE GivesIn(u, q) = GivesIn(s, q)
  <2>1. \A i \in 1 .. Len(u) : i > n /\ A[i] => u[i] # q
    <3>1. \A i \in 1 .. Len(u) : i > n => i = n + 1 \/ i = n + 2
      BY <1>2
    <3>2. QED BY <1>2, <1>4, <1>6, <3>1
  <2>2. QED BY <1>1, <2>1, GivesBefore DEF u, n
<1>7. GivesIn(u, o) = v
  <2> DEFINE P == {i \in 1 .. Len(u) : A[i] /\ u[i] = o}
  <2>1. n + 1 \in P /\ \A i \in P : i <= n + 1
    <3>1. n + 1 \in 1 .. Len(u) /\ \A i \in 1 .. Len(u) : i # n + 2 => i <= n + 1
      BY <1>2
    <3>2. QED BY <1>2, <1>3, <1>4, <3>1
  <2>2. P \in SUBSET (1 .. Len(u)) /\ P # {} /\ Len(u) \in Nat
    BY <1>2, <2>1
  <2> HIDE DEF P
  <2>3. Max(P) \in P /\ \A y \in P : Max(P) >= y
    BY <2>2, GreatestNumber
  <2>4. Max(P) = n + 1
    <3>1. Max(P) <= n + 1 /\ Max(P) >= n + 1
      BY <2>1, <2>3
    <3>2. Max(P) \in 1 .. Len(u)
      BY <2>2, <2>3
    <3>3. QED BY <1>2, <3>1, <3>2
  <2>5. GivesIn(u, o) = u[(n + 1) + 1]
    BY <2>2, <2>4 DEF GivesIn, P
  <2>6. (n + 1) + 1 = n + 2
    BY <1>2
  <2>7. QED BY <1>2, <2>5, <2>6
<1>8. QED BY <1>2, <1>5, <1>6, <1>7 DEF u, t

\* A flag gives nothing and takes nothing.
LEMMA GivesFlag ==
  ASSUME NEW W, NEW s \in Seq(W), CompleteIn(s), NEW f \in W, f \notin Taking
  PROVE  \A q \in Taking : GivesIn(s \o <<f>>, q) = GivesIn(s, q)
<1> DEFINE u == s \o <<f>>
<1>1. <<f>> \in Seq(W) /\ Len(<<f>>) = 1 /\ <<f>>[1] = f
  OBVIOUS
<1>2. \A i \in 1 .. Len(u) : i > Len(s) => u[i] = f
  <2>1. Len(s) \in Nat /\ Len(u) = Len(s) + 1
        /\ \A i \in 1 .. Len(s) + 1 : u[i] = IF i <= Len(s) THEN s[i] ELSE <<f>>[i - Len(s)]
    BY <1>1, ConcatProperties
  <2> HIDE DEF u
  <2>2. \A i \in 1 .. Len(u) : i > Len(s) => i = Len(s) + 1
    BY <2>1
  <2>3. Len(s) + 1 \in 1 .. Len(s) + 1 /\ ~(Len(s) + 1 <= Len(s)) /\ (Len(s) + 1) - Len(s) = 1
    BY <2>1
  <2>4. QED BY <1>1, <2>1, <2>2, <2>3
<1>3. QED BY <1>1, <1>2, GivesBefore

-----------------------------------------------------------------------------
(* The command of shadowsocks *)

\* One setting behind complete options.
LEMMA GivesArg ==
  ASSUME NEW W, NEW s \in Seq(W), CompleteIn(s), NEW o \in DOMAIN Option \cap W, info[Option[o]].text \in W
  PROVE  /\ Arg(o) \in Seq(W) /\ s \o Arg(o) \in Seq(W) /\ CompleteIn(s \o Arg(o))
         /\ \A q \in Taking : GivesIn(s \o Arg(o), q) =
              IF q = o /\ info[Option[o]] # NULL THEN info[Option[o]].text ELSE GivesIn(s, q)
<1>1. CASE info[Option[o]] = NULL
  <2>1. Arg(o) = <<>> /\ <<>> \in Seq(W)
    BY <1>1 DEF Arg
  <2>2. s \o <<>> = s
    BY ConcatEmptySeq
  <2>3. QED BY <1>1, <2>1, <2>2
<1>2. CASE info[Option[o]] # NULL
  <2> DEFINE v == info[Option[o]].text
  <2>1. Arg(o) = <<o, v>> /\ o \in Taking \cap W
    BY <1>2 DEF Arg, Taking
  <2> HIDE DEF v
  <2>2. v \in W
    BY DEF v
  <2>3. <<o, v>> \in Seq(W)
    BY <2>1, <2>2
  <2>4. /\ s \o <<o, v>> \in Seq(W) /\ CompleteIn(s \o <<o, v>>)
        /\ \A q \in Taking : GivesIn(s \o <<o, v>>, q) = IF q = o THEN v ELSE GivesIn(s, q)
    BY <2>1, <2>2, GivesPair
  <2>5. QED BY <1>2, <2>1, <2>3, <2>4, Zenon DEF v
<1>3. QED BY <1>1, <1>2

FromFields == {"-s", "-b", "-p", "-l", "-k", "-m", "-t"}

\* Concatenation may be taken in either order.
LEMMA Regroup ==
  ASSUME NEW W, NEW a \in Seq(W), NEW b \in Seq(W), NEW c \in Seq(W)
  PROVE  b \o c \in Seq(W) /\ a \o (b \o c) = (a \o b) \o c
<1>1. b \o c \in Seq(W)
  BY ConcatProperties
<1>2. (a \o b) \o c = a \o (b \o c)
  BY ConcatAssociative, SMTT(30)
<1>3. QED BY <1>1, <1>2, Zenon

\* All settings behind complete options: each that is set gives its value.
LEMMA GivesSettings ==
  ASSUME NEW W, opts \in Seq(W), CompleteIn(opts), FromFields \cup {"--fast-open"} \subseteq W,
         \A f \in Fields : info[f].text \in W
  PROVE  /\ Settings \in Seq(W) /\ opts \o Settings \in Seq(W)
         /\ \A o \in FromFields : info[Option[o]] # NULL => GivesIn(opts \o Settings, o) = info[Option[o]].text
<1> DEFINE s1 == opts \o Arg("-s")  s2 == s1 \o Arg("-b")  s3 == s2 \o Arg("-p")  s4 == s3 \o Arg("-l")
           s5 == s4 \o Arg("-k")    s6 == s5 \o Arg("-m")  s7 == s6 \o Arg("-t")
           fast == IF fastopen THEN <<"--fast-open">> ELSE <<>>
           Says(s, q, o) == GivesIn(s, q) = info[Option[o]].text
<1>0. \A o \in FromFields : o \in DOMAIN Option \cap W /\ o \in Taking /\ Option[o] \in Fields /\ info[Option[o]].text \in W
  <2>1. FromFields \subseteq DOMAIN Option
    BY DEF FromFields, Option
  <2>2. QED BY <2>1, TablesNameFields DEF Taking
<1>1. ASSUME NEW s \in Seq(W), CompleteIn(s), NEW o \in FromFields
      PROVE  /\ Arg(o) \in Seq(W) /\ s \o Arg(o) \in Seq(W) /\ CompleteIn(s \o Arg(o))
             /\ info[Option[o]] # NULL => GivesIn(s \o Arg(o), o) = info[Option[o]].text
             /\ \A q \in FromFields : q # o => GivesIn(s \o Arg(o), q) = GivesIn(s, q)
  <2>1. /\ Arg(o) \in Seq(W) /\ s \o Arg(o) \in Seq(W) /\ CompleteIn(s \o Arg(o))
        /\ \A q \in Taking : GivesIn(s \o Arg(o), q) =
             IF q = o /\ info[Option[o]] # NULL THEN info[Option[o]].text ELSE GivesIn(s, q)
    BY <1>0, <1>1, GivesArg
  <2>2. QED BY <1>0, <2>1
<1>2. \A o \in {"-s", "-b", "-p", "-l", "-k", "-m", "-t"} : o \in FromFields
  BY DEF FromFields
<1>3. s1 \in Seq(W) /\ CompleteIn(s1)
  BY <1>1, <1>2
<1>4. s2 \in Seq(W) /\ CompleteIn(s2)
  <2> HIDE DEF s1
  <2>1. QED BY <1>1, <1>2, <1>3
<1>5. s3 \in Seq(W) /\ CompleteIn(s3)
  <2> HIDE DEF s2
  <2>1. QED BY <1>1, <1>2, <1>4
<1>6. s4 \in Seq(W) /\ CompleteIn(s4)
  <2> HIDE DEF s3
  <2>1. QED BY <1>1, <1>2, <1>5
<1>7. s5 \in Seq(W) /\ CompleteIn(s5)
  <2> HIDE DEF s4
  <2>1. QED BY <1>1, <1>2, <1>6
<1>8. s6 \in Seq(W) /\ CompleteIn(s6)
  <2> HIDE DEF s5
  <2>1. QED BY <1>1, <1>2, <1>7
<1>9. s7 \in Seq(W) /\ CompleteIn(s7)
  <2> HIDE DEF s6
  <2>1. QED BY <1>1, <1>2, <1>8
<1>10. fast \in Seq(W)
  <2>1. <<"--fast-open">> \in Seq(W) /\ <<>> \in Seq(W)
    OBVIOUS
  <2>2. QED BY <2>1
<1>11. Settings \in Seq(W) /\ opts \o Settings = s7 \o fast
  <2>1. /\ Arg("-s") \in Seq(W) /\ Arg("-b") \in Seq(W) /\ Arg("-p") \in Seq(W) /\ Arg("-l") \in Seq(W)
        /\ Arg("-k") \in Seq(W) /\ Arg("-m") \in Seq(W) /\ Arg("-t") \in Seq(W)
    BY <1>1, <1>2, Zenon DEF FromFields
  <2> DEFINE Cat(a, b) == a \o b
  <2>2. \A a, b, c \in Seq(W) : Cat(b, c) \in Seq(W) /\ Cat(a, Cat(b, c)) = Cat(Cat(a, b), c)
    BY Regroup
  <2>3. /\ s1 = Cat(opts, Arg("-s")) /\ s2 = Cat(s1, Arg("-b")) /\ s3 = Cat(s2, Arg("-p"))
        /\ s4 = Cat(s3, Arg("-l"))   /\ s5 = Cat(s4, Arg("-k")) /\ s6 = Cat(s5, Arg("-m"))
        /\ s7 = Cat(s6, Arg("-t"))
    BY Zenon
  <2> DEFINE t2 == Cat(Arg("-s"), Arg("-b"))  t3 == Cat(t2, Arg("-p"))  t4 == Cat(t3, Arg("-l"))
             t5 == Cat(t4, Arg("-k"))         t6 == Cat(t5, Arg("-m"))  t7 == Cat(t6, Arg("-t"))
  <2>4. Settings = Cat(t7, fast) /\ s7 \o fast = Cat(s7, fast) /\ opts \o Settings = Cat(opts, Settings)
    BY Zenon DEF Settings
  <2> HIDE DEF Cat, fast, s1, s2, s3, s4, s5, s6, s7
  <2>5. t2 \in Seq(W) /\ Cat(opts, t2) = s2
    BY <2>1, <2>2, <2>3
  <2> HIDE DEF t2
  <2>6. t3 \in Seq(W) /\ Cat(opts, t3) = s3
    BY <2>1, <2>2, <2>3, <2>5
  <2> HIDE DEF t3
  <2>7. t4 \in Seq(W) /\ Cat(opts, t4) = s4
    BY <2>1, <2>2, <2>3, <2>6
  <2> HIDE DEF t4
  <2>8. t5 \in Seq(W) /\ Cat(opts, t5) = s5
    BY <2>1, <2>2, <2>3, <2>7
  <2> HIDE DEF t5
  <2>9. t6 \in Seq(W) /\ Cat(opts, t6) = s6
    BY <2>1, <2>2, <2>3, <2>8
  <2> HIDE DEF t6
  <2>10. t7 \in Seq(W) /\ Cat(opts, t7) = s7
    BY <2>1, <2>2, <2>3, <2>9
  <2> HIDE DEF t7
  <2>11. Cat(t7, fast) \in Seq(W) /\ Cat(opts, Cat(t7, fast)) = Cat(s7, fast)
    BY <1>10, <2>2, <2>10
  <2>12. QED BY <2>4, <2>11
<1>12. \A o \in FromFields : GivesIn(s7 \o fast, o) = GivesIn(s7, o)
  <2> HIDE DEF s7
  <2>1. CASE fastopen
    <3>1. "--fast-open" \notin Taking /\ "--fast-open" \in W
      BY DEF Taking, Option
    <3>2. \A q \in Taking : GivesIn(s7 \o <<"--fast-open">>, q) = GivesIn(s7, q)
      BY <1>9, <3>1, GivesFlag
    <3>3. QED BY <1>0, <2>1, <3>2
  <2>2. CASE ~fastopen
    <3>1. s7 \o <<>> = s7
      BY <1>9, ConcatEmptySeq
    <3>2. QED BY <2>2, <3>1
  <2>3. QED BY <2>1, <2>2
<1>13. \A o \in FromFields : info[Option[o]] # NULL => GivesIn(s7, o) = info[Option[o]].text
  <2>1. /\ info[Option["-s"]] # NULL => Says(s1, "-s", "-s")
        /\ info[Option["-b"]] # NULL => Says(s2, "-b", "-b")
        /\ info[Option["-p"]] # NULL => Says(s3, "-p", "-p")
        /\ info[Option["-l"]] # NULL => Says(s4, "-l", "-l")
        /\ info[Option["-k"]] # NULL => Says(s5, "-k", "-k")
        /\ info[Option["-m"]] # NULL => Says(s6, "-m", "-m")
        /\ info[Option["-t"]] # NULL => Says(s7, "-t", "-t")
    <3> HIDE DEF s1, s2, s3, s4, s5, s6
    <3>1. info[Option["-s"]] # NULL => Says(s1, "-s", "-s")
      BY <1>1, <1>2 DEF s1
    <3>2. info[Option["-b"]] # NULL => Says(s2, "-b", "-b")
      BY <1>1, <1>2, <1>3 DEF s2
    <3>3. info[Option["-p"]] # NULL => Says(s3, "-p", "-p")
      BY <1>1, <1>2, <1>4 DEF s3
    <3>4. info[Option["-l"]] # NULL => Says(s4, "-l", "-l")
      BY <1>1, <1>2, <1>5 DEF s4
    <3>5. info[Option["-k"]] # NULL => Says(s5, "-k", "-k")
      BY <1>1, <1>2, <1>6 DEF s5
    <3>6. info[Option["-m"]] # NULL => Says(s6, "-m", "-m")
      BY <1>1, <1>2, <1>7 DEF s6
    <3>7. info[Option["-t"]] # NULL => Says(s7, "-t", "-t")
      BY <1>1, <1>2, <1>8
    <3>8. QED BY <3>1, <3>2, <3>3, <3>4, <3>5, <3>6, <3>7
  <2>2. /\ \A q \in FromFields : q # "-b" => GivesIn(s2, q) = GivesIn(s1, q)
        /\ \A q \in FromFields : q # "-p" => GivesIn(s3, q) = GivesIn(s2, q)
        /\ \A q \in FromFields : q # "-l" => GivesIn(s4, q) = GivesIn(s3, q)
        /\ \A q \in FromFields : q # "-k" => GivesIn(s5, q) = GivesIn(s4, q)
        /\ \A q \in FromFields : q # "-m" => GivesIn(s6, q) = GivesIn(s5, q)
        /\ \A q \in FromFields : q # "-t" => GivesIn(s7, q) = GivesIn(s6, q)
    <3> HIDE DEF s1, s2, s3, s4, s5, s6, s7
    <3>1. \A q \in FromFields : q # "-b" => GivesIn(s2, q) = GivesIn(s1, q)
      BY <1>1, <1>2, <1>3 DEF s2
    <3>2. \A q \in FromFields : q # "-p" => GivesIn(s3, q) = GivesIn(s2, q)
      BY <1>1, <1>2, <1>4 DEF s3
    <3>3. \A q \in FromFields : q # "-l" => GivesIn(s4, q) = GivesIn(s3, q)
      BY <1>1, <1>2, <1>5 DEF s4
    <3>4. \A q \in FromFields : q # "-k" => GivesIn(s5, q) = GivesIn(s4, q)
      BY <1>1, <1>2, <1>6 DEF s5
    <3>5. \A q \in FromFields : q # "-m" => GivesIn(s6, q) = GivesIn(s5, q)
      BY <1>1, <1>2, <1>7 DEF s6
    <3>6. \A q \in FromFields : q # "-t" => GivesIn(s7, q) = GivesIn(s6, q)
      BY <1>1, <1>2, <1>8 DEF s7
    <3>7. QED BY <3>1, <3>2, <3>3, <3>4, <3>5, <3>6
  <2> HIDE DEF s1, s2, s3, s4, s5, s6, s7
  <2>3. QED BY <2>1, <2>2 DEF FromFields
<1> HIDE DEF s7, fast
<1>14. opts \o Settings \in Seq(W)
  BY <1>11, ConcatProperties
<1>15. QED BY <1>11, <1>12, <1>13, <1>14

-----------------------------------------------------------------------------
(* What shadowsocks, the plugin and the UDP proxy are told *)

OptsOK == \E W : opts \in Seq(W)

CInv == OptsOK /\ CommandMeansSettings /\ PluginIsInBetween

LEMMA GrownOptions ==
  ASSUME NEW W, NEW V, NEW s \in Seq(W), NEW t \in Seq(V)
  PROVE  \E U : s \o t \in Seq(U)
<1>1. s \in Seq(W \cup V) /\ t \in Seq(W \cup V)
  BY SeqMonotonic
<1>2. s \o t \in Seq(W \cup V)
  BY <1>1, ConcatProperties
<1>3. QED BY <1>2

LEMMA OptionsAreSequences ==
  ASSUME IInv, OptsOK, [Next]_vars
  PROVE  OptsOK'
<1>1. PICK W : opts \in Seq(W)
  BY DEF OptsOK
<1>2. CASE opts' = opts
  BY <1>2 DEF OptsOK
<1>3. CASE Unknown
  <2>1. opts' = Append(opts, argv[arg])
    BY <1>3 DEF Unknown
  <2>2. opts \in Seq(W \cup {argv[arg]})
    BY <1>1, SeqMonotonic
  <2>3. opts' \in Seq(W \cup {argv[arg]})
    BY <2>1, <2>2
  <2>4. QED BY <2>3 DEF OptsOK
<1>4. CASE ExtraOpts /\ opts' # opts
  <2> DEFINE read == Split(Value.chars)
             last == IF read.tmp = "" /\ ~read.escaped THEN <<>> ELSE <<read.tmp>>
  <2>1. /\ at = "json" /\ member <= Len(file.members) /\ Is("chars")
        /\ \/ opts' = opts \o read.words \o last
           \/ opts' = opts \o read.words \o last \o <<"garbage">>
    BY <1>4 DEF ExtraOpts, AtKey, Exit
  <2>2. member \in 1 .. Len(file.members)
    <3>1. Len(file.members) \in Nat
      BY DEF IInv, InputOK
    <3>2. member \in 1 .. Len(file.members) + 1
      BY DEF IInv, ControlOK
    <3>3. member <= Len(file.members)
      BY <1>4 DEF ExtraOpts, AtKey
    <3> HIDE DEF read, last
    <3>4. QED BY <3>1, <3>2, <3>3
  <2>3. PICK V : read.words \in Seq(V)
    BY <2>1, <2>2, CharMembers DEF IInv, Is, Value
  <2>4. \E U : last \in Seq(U)
    <3>1. <<>> \in Seq({read.tmp}) /\ <<read.tmp>> \in Seq({read.tmp})
      OBVIOUS
    <3>2. last \in Seq({read.tmp})
      BY <3>1
    <3>3. QED BY <3>2
  <2> HIDE DEF read, last
  <2>5. \E U : opts \o read.words \in Seq(U)
    BY <1>1, <2>3, GrownOptions
  <2>6. \E U : opts \o read.words \o last \in Seq(U)
    BY <2>4, <2>5, GrownOptions
  <2>7. <<"garbage">> \in Seq({"garbage"})
    OBVIOUS
  <2>8. \E U : opts \o read.words \o last \o <<"garbage">> \in Seq(U)
    <3> DEFINE all == opts \o read.words \o last
    <3>1. PICK U : all \in Seq(U)
      BY <2>6
    <3> HIDE DEF all
    <3>2. \E X : all \o <<"garbage">> \in Seq(X)
      BY <2>7, <3>1, GrownOptions
    <3>3. QED BY <3>2 DEF all
  <2>9. QED BY <2>1, <2>6, <2>8 DEF OptsOK
<1>5. opts' = opts \/ Unknown \/ (ExtraOpts /\ opts' # opts)
  <2>1. CASE LoadStep
    <3>1. ASSUME NEW o \in DOMAIN Option, AddField(o) PROVE opts' = opts
      BY <3>1 DEF AddField, Exit
    <3>2. ASSUME NEW k \in DOMAIN Key, SetMember(k) PROVE opts' = opts
      BY <3>2 DEF SetMember, Exit
    <3>3. LoadFile => opts' = opts
      BY DEF LoadFile, Read, Exit
    <3>4. SetNoUdp \/ SetFastOpen \/ UnknownMember \/ EndOfFile \/ Default => opts' = opts
      BY DEF SetNoUdp, SetFastOpen, UnknownMember, EndOfFile, Default, Exit
    <3>5. Help \/ Begin \/ Debug \/ FastOpen \/ NoUdp => opts' = opts
      BY DEF Help, Begin, Debug, FastOpen, NoUdp, Exit
    <3>6. QED BY <2>1, <3>1, <3>2, <3>3, <3>4, <3>5 DEF LoadStep, Load
  <2>2. LoadPlugin \/ NoPlugin \/ Command \/ Udp => opts' = opts
    BY DEF LoadPlugin, NoPlugin, Command, Udp
  <2>3. UNCHANGED vars => opts' = opts
    BY DEF vars, loadVars
  <2>4. QED BY <2>1, <2>2, <2>3 DEF Next
<1>6. QED BY <1>2, <1>3, <1>4, <1>5

LEMMA CommandTells ==
  ASSUME EndsOK, OptsOK, Command
  PROVE  CommandMeansSettings'
<1> SUFFICES ASSUME Complete PROVE CommandMeansSettings'
  <2>1. UNCHANGED opts
    BY DEF Command
  <2>2. Complete' => Complete
    BY <2>1 DEF Complete
  <2>3. QED BY <2>2 DEF CommandMeansSettings
<1> DEFINE name == IF info["shadowsocks"] = NULL THEN "default" ELSE info["shadowsocks"].text
<1>1. /\ at \in {"with_plugin", "without_plugin"} /\ UNCHANGED <<info, local>>
      /\ command' = <<name>> \o opts \o Settings
  BY DEF Command
<1> HIDE DEF name
<1>2. PICK V : opts \in Seq(V)
  BY DEF OptsOK
<1> DEFINE W == V \cup FromFields \cup {"--fast-open", name} \cup {info[f].text : f \in Fields}
<1>3. /\ opts \in Seq(W) /\ FromFields \cup {"--fast-open"} \subseteq W
      /\ \A f \in Fields : info[f].text \in W
      /\ name \in W
  BY <1>2, SeqMonotonic
<1> HIDE DEF W
<1>4. CompleteIn(opts)
  BY DEF Complete, CompleteIn
<1>5. /\ Settings \in Seq(W) /\ opts \o Settings \in Seq(W)
      /\ \A o \in FromFields : info[Option[o]] # NULL => GivesIn(opts \o Settings, o) = info[Option[o]].text
  BY <1>3, <1>4, GivesSettings
<1>6. Tail(command') = opts \o Settings /\ Len(Tail(command')) = Len(command') - 1
  <2>1. <<name>> \in Seq(W) /\ Len(<<name>>) = 1
    BY <1>3
  <2>2. command' = <<name>> \o (opts \o Settings)
    BY <1>1, <1>3, <1>5, <2>1, ConcatAssociative
  <2>3. \A r \in Seq(W) : Tail(<<name>> \o r) = r /\ Len(r) = Len(<<name>> \o r) - 1
    BY <1>3, <2>1
  <2>4. QED BY <1>5, <2>2, <2>3
<1>7. ASSUME NEW o \in FromFields, info[Option[o]] # NULL
      PROVE  CommandGives(o)' = info[Option[o]].text
  <2>1. CommandGives(o)' = GivesIn(Tail(command'), o)
    BY <1>6, Zenon DEF CommandGives, GivesIn, NULL
  <2>2. QED BY <1>5, <1>6, <1>7, <2>1
<1>8. ASSUME info["plugin"] # NULL
      PROVE  CommandGives("-s")' = local.host.text /\ CommandGives("-p")' = local.port.text
  <2>1. /\ info["server_addr"] = local.host /\ info["server_port"] = local.port
        /\ local.host # NULL /\ local.port # NULL
    BY <1>1, <1>8 DEF EndsOK, InBetween
  <2>2. "-s" \in FromFields /\ "-p" \in FromFields /\ Option["-s"] = "server_addr" /\ Option["-p"] = "server_port"
    BY DEF FromFields, Option
  <2>3. QED BY <1>7, <2>1, <2>2
<1>9. QED BY <1>1, <1>7, <1>8 DEF CommandMeansSettings, FromFields, NULL

\* A change of place alone keeps what has been told.
LEMMA ToldIsKept ==
  ASSUME UNCHANGED <<argv, file, info, opts, command, remote, local, local_mode>>
  PROVE  /\ Complete' = Complete /\ ServerGiven' = ServerGiven
         /\ \A o : CommandGives(o)' = CommandGives(o)
         /\ Given("server_port")' = Given("server_port")
BY GivenIsKept DEF Complete, CommandGives, ServerGiven, NULL

LEMMA UdpIsBetween ==
  ASSUME EndsOK, CInv, Udp
  PROVE  CommandMeansSettings' /\ PluginIsInBetween'
<1>1. /\ at = "udp" /\ UNCHANGED <<argv, file, info, opts, command, remote, local, local_mode>>
  BY DEF Udp
<1>2. CommandMeansSettings'
  BY <1>1, ToldIsKept DEF CInv, CommandMeansSettings, NULL
<1>3. /\ info["plugin"] # NULL /\ remote.port.text = Given("server_port") /\ remote.host.text = ServerGiven
      /\ udp = [listen |-> Nowhere, target |-> Nowhere]
      /\ remote = [host |-> remote.host, port |-> remote.port]
  BY <1>1 DEF EndsOK, InBetween
<1>4. Complete => CommandGives("-s") = local.host.text /\ CommandGives("-p") = local.port.text
  BY <1>1, <1>3 DEF CInv, CommandMeansSettings
<1> DEFINE Between(near, far) ==
             /\ CommandGives("-s") = near.host.text \/ ~Complete
             /\ CommandGives("-p") = near.port.text \/ ~Complete
             /\ far.port = remote.port /\ far.host \in Resolved(remote.host)
<1>5. ASSUME NEW ip \in Resolved(remote.host) PROVE Between(local, [remote EXCEPT !.host = ip])
  <2>1. [remote EXCEPT !.host = ip].port = remote.port /\ [remote EXCEPT !.host = ip].host = ip
    BY <1>3
  <2> HIDE DEF Between
  <2>2. QED BY <1>4, <1>5, <2>1 DEF Between
<1>6. \/ udp' = udp
      \/ \E ip \in Resolved(remote.host) :
           udp' = IF local_mode THEN [listen |-> local, target |-> [remote EXCEPT !.host = ip]]
                                ELSE [listen |-> [remote EXCEPT !.host = ip], target |-> local]
  BY DEF Udp
<1>7. udp'.listen # Nowhere =>
        Between(IF local_mode THEN udp'.listen ELSE udp'.target, IF local_mode THEN udp'.target ELSE udp'.listen)
  <2> HIDE DEF Between
  <2>1. CASE udp' = udp
    BY <1>3, <2>1
  <2>2. ASSUME NEW ip \in Resolved(remote.host),
               udp' = IF local_mode THEN [listen |-> local, target |-> [remote EXCEPT !.host = ip]]
                                    ELSE [listen |-> [remote EXCEPT !.host = ip], target |-> local]
        PROVE  Between(IF local_mode THEN udp'.listen ELSE udp'.target, IF local_mode THEN udp'.target ELSE udp'.listen)
    <3> DEFINE far == [remote EXCEPT !.host = ip]
    <3>1. Between(local, far)
      BY <1>5
    <3> HIDE DEF far
    <3>2. udp' = IF local_mode THEN [listen |-> local, target |-> far] ELSE [listen |-> far, target |-> local]
      BY <2>2 DEF far
    <3>3. CASE local_mode
      <4>1. udp'.listen = local /\ udp'.target = far
        BY <3>2, <3>3
      <4>2. QED BY <3>1, <3>3, <4>1
    <3>4. CASE ~local_mode
      <4>1. udp'.listen = far /\ udp'.target = local
        BY <3>2, <3>4
      <4>2. QED BY <3>1, <3>4, <4>1
    <3>5. QED BY <3>3, <3>4
  <2>3. QED BY <1>6, <2>1, <2>2
<1>8. PluginIsInBetween'
  <2>1. Nowhere' = Nowhere /\ Resolved(remote.host)' = Resolved(remote.host)
    BY <1>1 DEF Nowhere, NULL, Resolved
  <2>2. ServerGiven' = (IF Given("server_addr") = NULL.text THEN "127.0.0.1" ELSE Given("server_addr"))'
    BY DEF ServerGiven
  <2>3. remote'.port.text = Given("server_port")' /\ remote'.host.text = ServerGiven'
    BY <1>1, <1>3, ToldIsKept
  <2>4. QED BY <1>1, <1>7, <2>1, <2>2, <2>3, ToldIsKept DEF PluginIsInBetween
<1>9. QED BY <1>2, <1>8

LEMMA LaunchStepTells ==
  ASSUME IInv, EndsOK, EndsOK', CInv, Command
  PROVE  CommandMeansSettings' /\ PluginIsInBetween'
<1>1. CommandMeansSettings'
  BY CommandTells DEF CInv
<1>2. at # "started" /\ UNCHANGED udp
  BY DEF Command
<1>3. udp'.listen = Nowhere /\ Nowhere' = Nowhere
  BY <1>2 DEF EndsOK, Nowhere, NULL
<1>4. ASSUME at' \in {"udp", "started"}, info'["plugin"] # NULL'
      PROVE  remote'.port.text = Given("server_port")' /\ remote'.host.text = ServerGiven'
  BY <1>4 DEF EndsOK, InBetween
<1>5. PluginIsInBetween'
  BY <1>3, <1>4 DEF PluginIsInBetween, ServerGiven
<1>6. QED BY <1>1, <1>5

LEMMA CommandStep == IInv /\ EndsOK /\ EndsOK' /\ CInv /\ [Next]_vars => CInv'
<1> SUFFICES ASSUME IInv, EndsOK, EndsOK', CInv, [Next]_vars PROVE CInv'
  OBVIOUS
<1>1. OptsOK'
  BY OptionsAreSequences DEF CInv
<1>2. CommandMeansSettings' /\ PluginIsInBetween'
  <2>1. CASE LoadStep \/ LoadPlugin \/ NoPlugin
    <3>1. at' \notin {"udp", "started"}
      <4>1. LoadStep => at' \notin {"udp", "started"}
        BY LoadStaysBefore DEF LoadStep
      <4>2. QED BY <2>1, <4>1 DEF LoadPlugin, NoPlugin
    <3>2. QED BY <3>1 DEF CommandMeansSettings, PluginIsInBetween
  <2>2. CASE Command
    BY <2>2, LaunchStepTells
  <2>3. CASE Udp
    BY <2>3, UdpIsBetween
  <2>4. CASE UNCHANGED vars
    <3>1. UNCHANGED <<argv, file, at, info, opts, command, remote, local, local_mode, udp>>
      BY <2>4 DEF vars, loadVars, launchVars
    <3>2. CommandMeansSettings'
      BY <3>1, ToldIsKept DEF CInv, CommandMeansSettings, NULL
    <3>3. PluginIsInBetween'
      <4>1. Nowhere' = Nowhere /\ Resolved(remote.host)' = Resolved(remote.host) /\ NULL' = NULL
        BY <3>1 DEF Nowhere, NULL, Resolved
      <4>2. Given("server_addr")' = Given("server_addr")
        BY <3>1, GivenIsKept
      <4>3. QED BY <3>1, <4>1, <4>2, ToldIsKept DEF CInv, PluginIsInBetween
    <3>4. QED BY <3>2, <3>3
  <2>5. QED BY <2>1, <2>2, <2>3, <2>4 DEF Next
<1>3. QED BY <1>1, <1>2 DEF CInv

LEMMA LaunchTellsInductive == Spec => [](IInv /\ SInv /\ EndsOK /\ CInv)
<1>1. Init => IInv /\ SInv /\ EndsOK /\ CInv
  <2>1. Init => OptsOK
    <3>1. <<>> \in Seq({})
      OBVIOUS
    <3>2. QED BY <3>1 DEF Init, LoadInit, OptsOK
  <2>2. Init => CommandMeansSettings /\ PluginIsInBetween
    BY DEF Init, LoadInit, CommandMeansSettings, PluginIsInBetween
  <2>3. QED BY <2>1, <2>2, Initially, NothingToldYet, EndsInitially DEF CInv
<1>2. IInv /\ SInv /\ EndsOK /\ CInv /\ [Next]_vars => (IInv /\ SInv /\ EndsOK /\ CInv)'
  BY Stepwise, StepKeepsSettings, EndsStep, CommandStep
<1>3. QED BY <1>1, <1>2, PTL DEF Spec

-----------------------------------------------------------------------------
(* Theorems *)

\* Whatever the arguments and the file: what is well formed is never refused, and
\* crashes nothing but atoi(NULL) of start_bootstrap; and what is not well formed is
\* never loaded, but for extra_opts that end in a backslash (add_field, json_decode,
\* add_extra_opts).
THEOREM SettingsRefusesTheRest == Spec => []RefusesTheRest
<1>1. IInv /\ SInv /\ EndsOK /\ RInv => RefusesTheRest
  BY DEF RInv
<1>2. QED BY <1>1, RefusalInductive, PTL

\* Shadowsocks is told the bootstrap's settings whatever the options passed on before
\* them say, when these are complete; and with a plugin, the plugin's end and nothing
\* else (start_bootstrap, load_sip003).
THEOREM LaunchCommandMeansSettings == Spec => []CommandMeansSettings
<1>1. IInv /\ SInv /\ EndsOK /\ CInv => CommandMeansSettings
  BY DEF CInv
<1>2. QED BY <1>1, LaunchTellsInductive, PTL

\* The plugin is told the user's server, and the UDP proxy takes the way of the
\* plugin's TCP connections, on either side and whatever the name resolves to
\* (load_sip003, load_plugin_env, start_bootstrap).
THEOREM LaunchPluginIsInBetween == Spec => []PluginIsInBetween
<1>1. IInv /\ SInv /\ EndsOK /\ CInv => PluginIsInBetween
  BY DEF CInv
<1>2. QED BY <1>1, LaunchTellsInductive, PTL

=============================================================================
