-------------------------------- MODULE Config --------------------------------
(***************************************************************************)
(* init() of common.c and load_info() of load.c: the arguments are read    *)
(* from left to right, and the members of a JSON file where its -c stands; *)
(* each setting replaces, and frees, an earlier one of the same field.     *)
(***************************************************************************)
EXTENDS Naturals, Integers, Sequences, TLC

CONSTANTS
  Inputs,  \* what the program is given: the arguments without its name, and what
           \* the configuration file is, [argv, file : [kind, members]]
  NoText   \* what stands for the text of a pointer that is NULL

\* What cJSON makes of the value of a member: the field names the type of the node,
\* and text that becomes options is given by its characters.
Values ==
  [string : STRING] \cup [number : Int] \cup [bool : BOOLEAN] \cup [chars : Seq(STRING)]
    \cup [null : {"null"}]

ASSUME NoTextAssumption == NoText \notin STRING
\* A fact, stated because the provers do not know that literals are strings.
ASSUME LiteralsAssumption == {"127.0.0.1", "picked"} \subseteq STRING
ASSUME InputsAssumption ==
  \A input \in Inputs :
    /\ input.argv \in Seq(STRING)
    /\ input.file.kind \in {"missing", "directory", "pipe", "no_json", "array", "object"}
    /\ input.file.members \in Seq([key : STRING, value : Values])

\* Command-line options that take a value, and the field each of them sets.
Option ==
  [o \in {"-s", "-p", "-b", "-l", "-k", "-m", "-t", "--plugin", "--plugin-opts", "--shadowsocks"} |->
     CASE o = "-s" -> "server_addr"   [] o = "-p" -> "server_port"
       [] o = "-b" -> "client_addr"   [] o = "-l" -> "client_port"
       [] o = "-k" -> "password"      [] o = "-m" -> "method"      [] o = "-t" -> "timeout"
       [] o = "--plugin" -> "plugin"  [] o = "--plugin-opts" -> "plugin_opts"
       [] o = "--shadowsocks" -> "shadowsocks"]

\* The same for the keys of the JSON file.
Key ==
  [server |-> "server_addr", server_port |-> "server_port", local_address |-> "client_addr",
   local_port |-> "client_port", password |-> "password", method |-> "method",
   timeout |-> "timeout", plugin |-> "plugin", plugin_opts |-> "plugin_opts",
   shadowsocks |-> "shadowsocks"]

Fields == {Option[o] : o \in DOMAIN Option}

NumberFields == {"server_port", "client_port", "timeout"}

VARIABLES
  argv, file,
  at,       \* where load_info is, or how it ended
  arg,      \* index of the argument it is at
  member,   \* index of the JSON member json_decode is at
  info,     \* the char pointers of bootstrap: [text, block]
  is_udp_proxy, fastopen,
  opts,     \* shadowsocks_opts, without the program name
  heap,     \* the blocks of new_string and int_to_string not yet freed
  made,     \* the number of blocks made
  corrupt   \* free() was called with what is no live block

flags  == <<is_udp_proxy, fastopen>>
memory == <<heap, made, corrupt>>
loadVars == <<argv, file, at, arg, member, info, flags, opts, memory>>

\* A pointer to block 0 is NULL or points to a literal.
NULL == [text |-> NoText, block |-> 0]
Literal(s) == [text |-> s, block |-> 0]

\* Mutant: the default server address is set before the arguments are read.
InitInfoWithDefault == [f \in Fields |-> IF f = "server_addr" THEN Literal("127.0.0.1") ELSE NULL]

InitInfo == [f \in Fields |-> NULL]

LoadInit ==
  /\ \E input \in Inputs : argv = input.argv /\ file = input.file
  /\ at = "init" /\ arg = 1 /\ member = 1
  /\ info = InitInfo
  /\ is_udp_proxy = TRUE /\ fastopen = FALSE /\ opts = <<>>
  /\ heap = {} /\ made = 0 /\ corrupt = FALSE

\* log_fatal, and the help message.
Exit(how) ==
  /\ at' = how
  /\ UNCHANGED <<argv, file, arg, member, info, flags, opts, memory>>

Goto(where, a, m) == at' = where /\ arg' = a /\ member' = m /\ UNCHANGED <<argv, file>>

\* Mutant: the first setting of a field is kept.
SetFirst(field, s) ==
  IF info[field] # NULL THEN UNCHANGED <<info, memory>>
  ELSE /\ made' = made + 1
       /\ info' = [info EXCEPT ![field] = [text |-> s, block |-> made + 1]]
       /\ heap' = heap \cup {made + 1}
       /\ UNCHANGED corrupt

\* if (*target != NULL) free(*target); *target = new_string(s);
Set(field, s) ==
  LET old == info[field]
  IN /\ made' = made + 1
     /\ info' = [info EXCEPT ![field] = [text |-> s, block |-> made + 1]]
     /\ heap' = (heap \ {old.block}) \cup {made + 1}
     /\ corrupt' = (corrupt \/ (old # NULL /\ old.block \notin heap))

-----------------------------------------------------------------------------
(* The command line *)

\* init(): help is asked for anywhere, also where a value is meant, or there is
\* no argument at all.
Help ==
  /\ at = "init"
  /\ argv = <<>> \/ \E i \in 1 .. Len(argv) : argv[i] \in {"-h", "--help"}
  /\ Exit("help")

Begin ==
  /\ at = "init"
  /\ argv # <<>> /\ \A i \in 1 .. Len(argv) : argv[i] \notin {"-h", "--help"}
  /\ Goto("args", 1, 1)
  /\ UNCHANGED <<info, flags, opts, memory>>

AtArg(s) == at = "args" /\ arg <= Len(argv) /\ argv[arg] = s
\* Mutant: a value that is the last argument counts as missing.
MissingSoon == arg + 1 >= Len(argv)

\* No argument follows.
Missing == arg = Len(argv)

Debug ==
  /\ AtArg("--debug")
  /\ Goto("args", arg + 1, 1)
  /\ UNCHANGED <<info, flags, opts, memory>>

FastOpen ==
  /\ AtArg("--fast-open")
  /\ fastopen' = TRUE
  /\ Goto("args", arg + 1, 1)
  /\ UNCHANGED <<info, is_udp_proxy, opts, memory>>

NoUdp ==
  /\ AtArg("--no-udp")
  /\ is_udp_proxy' = FALSE
  /\ Goto("args", arg + 1, 1)
  /\ UNCHANGED <<info, fastopen, opts, memory>>

AddField(o) ==
  /\ AtArg(o)
  /\ IF Missing THEN Exit("fatal")
     ELSE /\ Set(Option[o], argv[arg + 1])
          /\ Goto("args", arg + 2, 1)
          /\ UNCHANGED <<flags, opts>>

\* read_file, cJSON_Parse and the first strcmp of json_decode: a file that is not
\* there, a directory and what is no JSON are reported, a pipe has the length -1,
\* and the elements of an array have no name.
Read(next) ==
  IF file.kind \in {"missing", "directory", "no_json"} THEN Exit("fatal")
  ELSE IF file.kind \in {"pipe", "array"} THEN Exit("crashed")
  ELSE next

\* Mutant: the argument behind -c is taken for granted.
LoadFileUnchecked ==
  /\ AtArg("-c")
  /\ Read(Goto("json", arg + 1, 1) /\ UNCHANGED <<info, flags, opts, memory>>)

LoadFile ==
  /\ AtArg("-c")
  /\ IF Missing THEN Exit("fatal")
     ELSE Read(Goto("json", arg + 1, 1) /\ UNCHANGED <<info, flags, opts, memory>>)

Keyword == {"--debug", "--fast-open", "--no-udp", "-c"}

Unknown ==
  /\ at = "args" /\ arg <= Len(argv)
  /\ argv[arg] \notin Keyword \cup DOMAIN Option
  /\ opts' = Append(opts, argv[arg])
  /\ Goto("args", arg + 1, 1)
  /\ UNCHANGED <<info, flags, memory>>

-----------------------------------------------------------------------------
(* json_decode: a member has a key, and a value whose field names its type *)

AtKey(k) == at = "json" /\ member <= Len(file.members) /\ file.members[member].key = k
Value == file.members[member].value
Is(type) == type \in DOMAIN Value

SetNoUdp ==
  /\ AtKey("no_udp")
  /\ IF ~Is("bool") THEN Exit("fatal")
     ELSE /\ is_udp_proxy' = ~Value.bool
          /\ Goto("json", arg, member + 1)
          /\ UNCHANGED <<info, fastopen, opts, memory>>

SetFastOpen ==
  /\ AtKey("fast_open")
  /\ IF ~Is("bool") THEN Exit("fatal")
     ELSE /\ fastopen' = Value.bool
          /\ Goto("json", arg, member + 1)
          /\ UNCHANGED <<info, is_udp_proxy, opts, memory>>

\* int_to_string ends the program for a negative number.
SetMember(k) ==
  /\ AtKey(k)
  /\ IF Is("string")
     THEN Set(Key[k], Value.string) /\ Goto("json", arg, member + 1) /\ UNCHANGED <<flags, opts>>
     ELSE IF Is("number") /\ Key[k] \in NumberFields /\ Value.number >= 0
     THEN Set(Key[k], ToString(Value.number)) /\ Goto("json", arg, member + 1) /\ UNCHANGED <<flags, opts>>
     ELSE Exit("fatal")

\* add_extra_opts: the words it has completed, the one it is copying (tmp), and
\* whether the next character is taken as it is.
Unread == [words |-> <<>>, tmp |-> "", escaped |-> FALSE]

\* One character.
Scan(r, c) ==
  IF r.escaped THEN [r EXCEPT !.tmp = @ \o c, !.escaped = FALSE]
  ELSE IF c = " " THEN [r EXCEPT !.words = @ \o (IF r.tmp = "" THEN <<>> ELSE <<r.tmp>>), !.tmp = ""]
  ELSE IF c = "\\" THEN [r EXCEPT !.escaped = TRUE]
  ELSE [r EXCEPT !.tmp = @ \o c]

\* The loop.
Split(chars) ==
  LET S[n \in 0 .. Len(chars)] == IF n = 0 THEN Unread ELSE Scan(S[n - 1], chars[n])
  IN S[Len(chars)]

\* Mutant: the words of the file replace the options before them.
ExtraOptsReplace ==
  /\ AtKey("extra_opts") /\ Is("chars")
  /\ opts' = Split(Append(Value.chars, " ")).words
  /\ Goto("json", arg, member + 1)
  /\ UNCHANGED <<info, flags, memory>>

\* A backslash at the end escapes the terminator, which ends the word; and what lies
\* behind the string is read: nothing much, more words, or a crash.
ExtraOpts ==
  LET read == Split(Value.chars)
      last == IF read.tmp = "" /\ ~read.escaped THEN <<>> ELSE <<read.tmp>>
  IN /\ AtKey("extra_opts")
     /\ \/ ~Is("chars") /\ Exit("fatal")
        \/ /\ Is("chars")
           /\ \/ opts' = opts \o read.words \o last
              \/ read.escaped /\ opts' = opts \o read.words \o last \o <<"garbage">>
           /\ Goto("json", arg, member + 1)
           /\ UNCHANGED <<info, flags, memory>>
        \/ Is("chars") /\ read.escaped /\ Exit("crashed")

UnknownMember ==
  /\ at = "json" /\ member <= Len(file.members)
  /\ file.members[member].key \notin DOMAIN Key \cup {"no_udp", "fast_open", "extra_opts"}
  /\ Exit("fatal")

EndOfFile ==
  /\ at = "json" /\ member > Len(file.members)
  /\ Goto("args", arg + 1, 1)
  /\ UNCHANGED <<info, flags, opts, memory>>

-----------------------------------------------------------------------------

Default ==
  /\ at = "args" /\ arg > Len(argv)
  /\ info' = IF info["server_addr"] = NULL
             THEN [info EXCEPT !["server_addr"] = Literal("127.0.0.1")] ELSE info
  /\ Goto("loaded", arg, 1)
  /\ UNCHANGED <<flags, opts, memory>>

Load ==
  \/ Help \/ Begin \/ Debug \/ FastOpen \/ NoUdp \/ LoadFile \/ Unknown
  \/ \E o \in DOMAIN Option : AddField(o)
  \/ SetNoUdp \/ SetFastOpen \/ ExtraOpts \/ UnknownMember \/ EndOfFile
  \/ \E k \in DOMAIN Key : SetMember(k)
  \/ Default

=============================================================================
