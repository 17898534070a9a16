--------------------------- MODULE Sip003Properties ---------------------------
(***************************************************************************)
(* What the bootstrap makes of its arguments and its configuration file.   *)
(***************************************************************************)
EXTENDS Sip003, FiniteSets, FiniteSetsExt

\* Indices, pointers and blocks are in the range the code gives them.
TypeOK ==
  /\ at \in {"init", "args", "json", "loaded", "with_plugin", "without_plugin", "udp", "started",
             "help", "fatal", "crashed"}
  /\ arg \in 1 .. Len(argv) + 2 /\ member \in 1 .. Len(file.members) + 1
  /\ at = "json" => arg <= Len(argv)
  /\ is_udp_proxy \in BOOLEAN /\ fastopen \in BOOLEAN /\ local_mode \in BOOLEAN
  /\ heap \subseteq 1 .. made /\ corrupt \in BOOLEAN
  /\ \A f \in Fields : info[f].block \in 0 .. made

\* Every block has one owner: a field, or an end the plugin was told.  So free()
\* never gets a literal or a block that is gone, and nothing is lost on the way.
HeapOwned ==
  LET owners == {info[f] : f \in Fields} \cup {remote.host, remote.port, local.host, local.port}
  IN /\ ~corrupt
     /\ heap = {p.block : p \in owners} \ {0}
     /\ \A f, g \in Fields : f # g /\ info[f].block # 0 => info[f].block # info[g].block

-----------------------------------------------------------------------------
(* What an argument list means, without reading it step by step *)

\* s[i] is an option and not the value of the one before it; takes says which
\* options are followed by a value.
IsOption(s, takes) ==
  LET O[i \in 0 .. Len(s)] == IF i <= 1 THEN TRUE ELSE ~(O[i - 1] /\ s[i - 1] \in takes)
  IN O

ArgIsOption == IsOption(argv, DOMAIN Option \cup {"-c"})

\* Where field f is set: place <<i, 0>> by argument i, <<i, j>> by member j of the
\* file that argument i names.
Places(o, keys) ==
  {p \in (1 .. Len(argv)) \X (0 .. Len(file.members)) :
     /\ ArgIsOption[p[1]]
     /\ IF p[2] = 0 THEN argv[p[1]] = o ELSE argv[p[1]] = "-c" /\ file.members[p[2]].key \in keys}

Latest(places) ==
  CHOOSE p \in places : \A q \in places : q[1] < p[1] \/ (q[1] = p[1] /\ q[2] <= p[2])

OptionOf(f) == CHOOSE o \in DOMAIN Option : Option[o] = f

\* The text the user last gave field f.
Given(f) ==
  LET places == Places(OptionOf(f), {k \in DOMAIN Key : Key[k] = f})
      last   == Latest(places)
  IN IF places = {} THEN NULL.text
     ELSE IF last[2] = 0 THEN argv[last[1] + 1]
     ELSE LET value == file.members[last[2]].value
          IN IF "string" \in DOMAIN value THEN value.string ELSE ToString(value.number)

GivenFlag(o, key) ==
  LET places == Places(o, {key})
  IN IF places = {} THEN FALSE
     ELSE IF Latest(places)[2] = 0 THEN TRUE
     ELSE file.members[Latest(places)[2]].value.bool

Running == {"loaded", "with_plugin", "without_plugin", "udp", "started"}

\* The last setting wins, wherever it stands, a file counting where its -c stands;
\* and no value is taken for an option.
LastSettingWins ==
  at \in Running =>
    /\ \A f \in Fields \ {"server_addr", "server_port"} : info[f].text = Given(f)
    /\ at = "loaded" =>
         /\ info["server_port"].text = Given("server_port")
         /\ info["server_addr"].text = IF Given("server_addr") = NULL.text THEN "127.0.0.1"
                                                                          ELSE Given("server_addr")
    /\ fastopen = GivenFlag("--fast-open", "fast_open")
    /\ is_udp_proxy = ~GivenFlag("--no-udp", "no_udp")

-----------------------------------------------------------------------------
(* What is passed on, and what is refused *)

\* Which characters of extra_opts stand for themselves because of the backslash
\* before them.
Escaped(chars) ==
  LET E[n \in 0 .. Len(chars)] == n > 1 /\ chars[n - 1] = "\\" /\ ~E[n - 1]
  IN E

Dangling(chars) ==
  chars # <<>> /\ chars[Len(chars)] = "\\" /\ ~Escaped(chars)[Len(chars)]

\* The words of extra_opts: what stands between the spaces that are not escaped.
WordsOf(chars) ==
  LET escaped == Escaped(chars)
      space   == {0, Len(chars) + 1} \cup {n \in 1 .. Len(chars) : chars[n] = " " /\ ~escaped[n]}
      starts  == {n \in 1 .. Len(chars) : n - 1 \in space /\ n \notin space}
      Letter(n) == IF chars[n] = "\\" /\ ~escaped[n] THEN "" ELSE chars[n]
      Word(n) == LET W[k \in n - 1 .. Len(chars)] == IF k < n THEN "" ELSE W[k - 1] \o Letter(k)
                 IN W[Min({k \in space : k >= n}) - 1]
  IN [i \in 1 .. Cardinality(starts) |->
        Word(CHOOSE n \in starts : Cardinality({k \in starts : k <= n}) = i)]

\* The members that carry options, in order, and what they and the arguments say.
FileOpts ==
  LET F[j \in 0 .. Len(file.members)] ==
        IF j = 0 THEN <<>>
        ELSE F[j - 1] \o (IF file.members[j].key = "extra_opts" THEN WordsOf(file.members[j].value.chars)
                          ELSE <<>>)
  IN F[Len(file.members)]

PassedOn ==
  LET A[i \in 0 .. Len(argv)] ==
        IF i = 0 THEN <<>>
        ELSE A[i - 1] \o (IF ~ArgIsOption[i] THEN <<>>
                          ELSE IF argv[i] = "-c" THEN FileOpts
                          ELSE IF argv[i] \in Keyword \cup DOMAIN Option THEN <<>>
                          ELSE <<argv[i]>>)
  IN A[Len(argv)]

FileIsRead == \E i \in 1 .. Len(argv) : ArgIsOption[i] /\ argv[i] = "-c"

NoDangling ==
  FileIsRead => \A j \in 1 .. Len(file.members) :
    "chars" \in DOMAIN file.members[j].value => ~Dangling(file.members[j].value.chars)

\* Shadowsocks is passed every argument the bootstrap does not know and every word
\* of extra_opts, each once and in the order they were given in; unless a backslash
\* ends extra_opts, when the terminator is skipped (load.c:72).
OptionsInOrder == at \in {"loaded", "started"} /\ NoDangling => opts = PassedOn

GoodMember(m) ==
  LET type == DOMAIN m.value
  IN \/ m.key \in {"no_udp", "fast_open"} /\ "bool" \in type
     \/ m.key = "extra_opts" /\ "chars" \in type /\ ~Dangling(m.value.chars)
     \/ m.key \in DOMAIN Key /\ "string" \in type
     \/ m.key \in DOMAIN Key /\ Key[m.key] \in NumberFields /\ "number" \in type /\ m.value.number >= 0

WellFormed ==
  /\ \A i \in 1 .. Len(argv) :
       ArgIsOption[i] /\ argv[i] \in DOMAIN Option \cup {"-c"} => i < Len(argv)
  /\ FileIsRead => file.kind = "object" /\ \A j \in 1 .. Len(file.members) : GoodMember(file.members[j])

\* Arguments and files that are well formed are never refused, and crash nothing
\* but atoi(NULL), when the UDP proxy has a plugin and no server port.  What is not
\* is never started with, but for extra_opts that end in a backslash.
RefusesTheRest ==
  /\ at = "fatal" => ~WellFormed
  /\ at = "crashed" /\ WellFormed => /\ Given("server_port") = NULL.text
                                     /\ Given("plugin") # NULL.text
                                     /\ ~GivenFlag("--no-udp", "no_udp")
  /\ at = "loaded" /\ NoDangling => WellFormed

-----------------------------------------------------------------------------
(* What shadowsocks, the plugin and the UDP proxy are told *)

\* Shadowsocks reads its command the same way, the last setting winning; --acl
\* stands for its own options that take a value.
Taking == DOMAIN Option \cup {"--acl"}

CommandGives(o) ==
  LET C == IsOption(Tail(command), Taking)
      places == {i \in 1 .. Len(command) - 1 : C[i] /\ Tail(command)[i] = o}
  IN IF places = {} THEN NULL.text ELSE Tail(command)[Max(places) + 1]

\* The last option that is passed on is not left without its value.
Complete ==
  opts # <<>> => ~(IsOption(opts, Taking)[Len(opts)] /\ opts[Len(opts)] \in Taking)

\* Shadowsocks gets the bootstrap's settings whatever the options before them say;
\* with a plugin, it is to use the plugin's end and nothing else.
CommandMeansSettings ==
  at \in {"udp", "started"} /\ Complete =>
    /\ \A o \in {"-s", "-b", "-p", "-l", "-k", "-m", "-t"} :
         info[Option[o]] # NULL => CommandGives(o) = info[Option[o]].text
    /\ info["plugin"] # NULL =>
         CommandGives("-s") = local.host.text /\ CommandGives("-p") = local.port.text

\* The plugin is told the user's server, and the UDP proxy takes the way of the
\* plugin's TCP connections: from shadowsocks to the server on the client's side,
\* from the clients to shadowsocks on the server's side.
PluginIsInBetween ==
  at \in {"udp", "started"} /\ info["plugin"] # NULL =>
    /\ remote.port.text = Given("server_port")
    /\ remote.host.text = IF Given("server_addr") = NULL.text THEN "127.0.0.1" ELSE Given("server_addr")
    /\ udp.listen # Nowhere =>
         LET near == IF local_mode THEN udp.listen ELSE udp.target
             far  == IF local_mode THEN udp.target ELSE udp.listen
         IN /\ CommandGives("-s") = near.host.text \/ ~Complete
            /\ CommandGives("-p") = near.port.text \/ ~Complete
            /\ far.port = remote.port /\ far.host \in Resolved(remote.host)

=============================================================================
