------------------------------- MODULE MCSip003 -------------------------------
(***************************************************************************)
(* Instance for TLC: any two arguments or groups of them with files of up  *)
(* to two members, three or four groups with files of one member, and      *)
(* every extra_opts of up to four letters, spaces and backslashes.         *)
(***************************************************************************)
EXTENDS Sip003Properties

Words == {"-s", "--plugin", "-c", "--no-udp", "--fast-open", "--debug", "-h", "-v", "a"}

Groups ==
  {<<"-s", "a">>, <<"-s", "1.1.1.1">>, <<"-p", "80">>, <<"--plugin", "p">>, <<"-c", "file">>,
   <<"--no-udp">>, <<"-v">>, <<"--acl", "-s">>, <<"-k", "-c">>}

\* Groups that matter together: four of them.
Core == {<<"-s", "1.1.1.1">>, <<"-p", "80">>, <<"--plugin", "p">>, <<"-c", "file">>}

Short == UNION {[1 .. n -> Words] : n \in 0 .. 2} \cup {a \o b : a, b \in Groups}
Long  == {a \o b \o c : a, b, c \in Groups} \cup {a \o b \o c \o d : a, b, c, d \in Core}

Good ==
  {[key |-> "server", value |-> [string |-> "b"]], [key |-> "plugin", value |-> [string |-> "q"]],
   [key |-> "server_port", value |-> [number |-> 8388]],
   [key |-> "no_udp", value |-> [bool |-> TRUE]], [key |-> "no_udp", value |-> [bool |-> FALSE]],
   [key |-> "fast_open", value |-> [bool |-> TRUE]],
   [key |-> "extra_opts", value |-> [chars |-> <<"-s", " ", " ", "c", "\\", " ", "d">>]]}

Poor ==
  {[key |-> "server", value |-> [bool |-> TRUE]],
   [key |-> "server_port", value |-> [number |-> -1]],
   [key |-> "server_port", value |-> [null |-> "null"]],
   [key |-> "no_udp", value |-> [number |-> 0]],
   [key |-> "fast_open", value |-> [string |-> "yes"]],
   [key |-> "extra_opts", value |-> [chars |-> <<"-v", "\\">>]],
   [key |-> "extra_opts", value |-> [null |-> "null"]],
   [key |-> "other", value |-> [null |-> "null"]]}

OneMember ==
  {[kind |-> k, members |-> <<>>] : k \in {"missing", "directory", "pipe", "no_json", "array", "object"}}
    \cup {[kind |-> "object", members |-> <<m>>] : m \in Good \cup Poor}

TwoMembers == {[kind |-> "object", members |-> <<m, n>>] : m, n \in Good}

\* Every extra_opts of up to four letters, spaces and backslashes.
Spelled ==
  {[kind |-> "object", members |-> <<[key |-> "extra_opts", value |-> [chars |-> c]]>>] :
     c \in UNION {[1 .. n -> {"a", " ", "\\"}] : n \in 0 .. 4}}

Reads(a) == \E i \in 1 .. Len(a) : a[i] = "-c"
NoFile == [kind |-> "missing", members |-> <<>>]

MCInputs ==
  {[argv |-> a, file |-> f] : a \in {b \in Short : Reads(b)}, f \in OneMember \cup TwoMembers}
    \cup {[argv |-> a, file |-> f] : a \in {b \in Long : Reads(b)}, f \in OneMember}
    \cup {[argv |-> a, file |-> NoFile] : a \in {b \in Short \cup Long : ~Reads(b)}}
    \cup {[argv |-> <<"-v", "-c", "file", "-s">> \o a, file |-> f] : a \in {<<>>, <<"1.1.1.1", "-v">>}, f \in Spelled}

=============================================================================
