---------------------------- MODULE SettingsProofs ----------------------------
(***************************************************************************)
(* What init() and load_info() make of every list of arguments and every   *)
(* configuration file: settings that are what was given, and memory that   *)
(* is owned; a loop that reads forward is compared with definitions that   *)
(* look at the whole.                                                      *)
(***************************************************************************)
EXTENDS Sip003Properties, Numbers, TLAPS

Loading == at \in {"init", "args", "json"}

\* What the program was given does not change, and is what the assumption says.
InputOK ==
  /\ argv \in Seq(STRING)
  /\ file.kind \in {"missing", "directory", "pipe", "no_json", "array", "object"}
  /\ file.members \in Seq([key : STRING, value : Values])

\* TypeOK, where load_info is and the flags.
ControlOK ==
  /\ at \in {"init", "args", "json", "loaded", "with_plugin", "without_plugin", "udp", "started",
             "help", "fatal", "crashed"}
  /\ arg \in 1 .. Len(argv) + 2 /\ member \in 1 .. Len(file.members) + 1
  /\ at = "json" => arg <= Len(argv)

FlagsOK == is_udp_proxy \in BOOLEAN /\ fastopen \in BOOLEAN

\* While settings are loaded every pointer that is not NULL points to a block, so
\* that the test of add_field tells what may be freed; literals come later.
PointersOK ==
  /\ info = [f \in Fields |-> info[f]]
  /\ Loading => \A f \in Fields : info[f].block = 0 => info[f] = NULL

\* The ends the plugin is told are set when the settings are complete.
NoPluginYet == Loading \/ at = "loaded" => remote = Nowhere /\ local = Nowhere

\* HeapOwned, and the range of the blocks.
Owners == {info[f] : f \in Fields} \cup {remote.host, remote.port, local.host, local.port}

MemoryOK ==
  /\ made \in Nat /\ heap \subseteq 1 .. made /\ corrupt = FALSE
  /\ \A f \in Fields : info[f].block \in 0 .. made
  /\ heap = {p.block : p \in Owners} \ {0}
  /\ \A f, g \in Fields : f # g /\ info[f].block # 0 => info[f].block # info[g].block

IInv ==
  /\ InputOK /\ ControlOK /\ FlagsOK /\ local_mode \in BOOLEAN
  /\ PointersOK /\ NoPluginYet /\ MemoryOK

-----------------------------------------------------------------------------
(* The tables, and what a step of load_info does *)

LEMMA FieldsAre ==
  Fields = {"server_addr", "server_port", "client_addr", "client_port", "password", "method",
            "timeout", "plugin", "plugin_opts", "shadowsocks"}
BY SMT DEF Fields, Option

LEMMA TablesNameFields ==
  /\ \A o \in DOMAIN Option : Option[o] \in Fields
  /\ \A k \in DOMAIN Key : Key[k] \in Fields
<1>1. \A k \in DOMAIN Key : Key[k] \in Fields
  BY FieldsAre DEF Key
<1>2. QED BY <1>1 DEF Fields

\* A step of load_info sets one field, or none, or is the last one.
LEMMA LoadEffect ==
  ASSUME Load
  PROVE  /\ UNCHANGED <<argv, file>>
         /\ \/ UNCHANGED <<info, memory>>
            \/ Loading /\ \E f \in Fields : \E s : Set(f, s)
            \/ Default
<1> DEFINE Effect == /\ UNCHANGED <<argv, file>>
                     /\ \/ UNCHANGED <<info, memory>>
                        \/ Loading /\ \E f \in Fields : \E s : Set(f, s)
                        \/ Default
<1>1. CASE Help \/ Begin
  BY <1>1 DEF Help, Begin, Exit, Goto
<1>2. CASE Debug \/ FastOpen \/ NoUdp \/ Unknown
  BY <1>2 DEF Debug, FastOpen, NoUdp, Unknown, Goto
<1>3. CASE LoadFile
  BY <1>3 DEF LoadFile, Read, Exit, Goto
<1>4. ASSUME NEW o \in DOMAIN Option, AddField(o) PROVE Effect
  BY <1>4, TablesNameFields DEF AddField, AtArg, Exit, Goto, Loading
<1>5. CASE SetNoUdp \/ SetFastOpen
  BY <1>5 DEF SetNoUdp, SetFastOpen, Exit, Goto
<1>6. CASE ExtraOpts \/ UnknownMember \/ EndOfFile
  BY <1>6 DEF ExtraOpts, UnknownMember, EndOfFile, Exit, Goto
<1>7. ASSUME NEW k \in DOMAIN Key, SetMember(k) PROVE Effect
  BY <1>7, TablesNameFields DEF SetMember, AtKey, Exit, Goto, Loading
<1>8. CASE Default
  BY <1>8 DEF Default, Goto
<1>9. QED BY <1>1, <1>2, <1>3, <1>4, <1>5, <1>6, <1>7, <1>8 DEF Load

-----------------------------------------------------------------------------
(* Control: where load_info is, and what it has read *)

LEMMA ControlStep ==
  ASSUME InputOK, ControlOK, Load
  PROVE  ControlOK'
<1>0. Len(argv) \in Nat /\ Len(file.members) \in Nat
  BY DEF InputOK
<1> USE DEF ControlOK
<1>1. CASE Help \/ Begin
  BY <1>0, <1>1 DEF Help, Begin, Exit, Goto
<1>2. CASE Debug \/ FastOpen \/ NoUdp
  BY <1>0, <1>2 DEF Debug, FastOpen, NoUdp, AtArg, Goto
<1>3. CASE Unknown
  BY <1>0, <1>3 DEF Unknown, Goto
<1>4. CASE LoadFile
  BY <1>0, <1>4 DEF LoadFile, Missing, Read, AtArg, Exit, Goto
<1>5. ASSUME NEW o \in DOMAIN Option, AddField(o) PROVE ControlOK'
  BY <1>0, <1>5 DEF AddField, Missing, AtArg, Exit, Goto
<1>6. CASE SetNoUdp \/ SetFastOpen
  BY <1>0, <1>6 DEF SetNoUdp, SetFastOpen, AtKey, Exit, Goto
<1>7. CASE ExtraOpts
  <2>1. /\ at = "json" /\ member <= Len(file.members)
        /\ Exit("fatal") \/ Goto("json", arg, member + 1) \/ Exit("crashed")
    BY <1>7 DEF ExtraOpts, AtKey
  <2>2. QED BY <1>0, <2>1 DEF Exit, Goto
<1>8. CASE UnknownMember \/ EndOfFile
  BY <1>0, <1>8 DEF UnknownMember, EndOfFile, Exit, Goto
<1>9. ASSUME NEW k \in DOMAIN Key, SetMember(k) PROVE ControlOK'
  BY <1>0, <1>9 DEF SetMember, AtKey, Exit, Goto
<1>10. CASE Default
  BY <1>0, <1>10 DEF Default, Goto
<1>11. QED BY <1>1, <1>2, <1>3, <1>4, <1>5, <1>6, <1>7, <1>8, <1>9, <1>10 DEF Load

\* The value of a member is a Boolean where the code asks cJSON_IsBool.
LEMMA BooleanMembers ==
  ASSUME InputOK, NEW j \in 1 .. Len(file.members), "bool" \in DOMAIN file.members[j].value
  PROVE  file.members[j].value.bool \in BOOLEAN
<1> DEFINE v == file.members[j].value
           m == file.members
<1>1. v \in Values
  <2> DEFINE Members == [key : STRING, value : Values]
  <2>1. m \in Seq(Members) /\ j \in 1 .. Len(m)
    BY DEF InputOK
  <2> HIDE DEF m, Members
  <2>2. m[j] \in Members
    BY <2>1
  <2>3. m[j].value \in Values
    BY <2>2 DEF Members
  <2>4. QED BY <2>3 DEF m
<1>2. "bool" \in DOMAIN v
  OBVIOUS
<1> HIDE DEF v
<1>3. v \in [bool : BOOLEAN]
  BY <1>1, <1>2 DEF Values
<1>4. v.bool \in BOOLEAN
  BY <1>3
<1>5. QED BY <1>4 DEF v

LEMMA FlagsStep ==
  ASSUME InputOK, ControlOK, FlagsOK, Load
  PROVE  FlagsOK'
<1> USE DEF FlagsOK, flags
<1>1. CASE Help \/ Begin \/ LoadFile
  BY <1>1 DEF Help, Begin, LoadFile, Read, Exit, Goto
<1>2. CASE Debug \/ FastOpen \/ NoUdp \/ Unknown
  BY <1>2 DEF Debug, FastOpen, NoUdp, Unknown
<1>3. ASSUME NEW o \in DOMAIN Option, AddField(o) PROVE FlagsOK'
  BY <1>3 DEF AddField, Exit
<1>4. CASE SetNoUdp
  <2>1. is_udp_proxy' \in BOOLEAN /\ fastopen' = fastopen
    BY <1>4 DEF SetNoUdp, Exit
  <2>2. QED BY <2>1
<1>5. CASE SetFastOpen
  <2>1. CASE Is("bool")
    <3>1. member \in 1 .. Len(file.members)
      BY <1>5 DEF SetFastOpen, AtKey, ControlOK, InputOK
    <3>2. Value.bool \in BOOLEAN
      BY <2>1, <3>1, BooleanMembers DEF Is, Value
    <3>3. QED BY <1>5, <2>1, <3>2 DEF SetFastOpen
  <2>2. CASE ~Is("bool")
    BY <1>5, <2>2 DEF SetFastOpen, Exit
  <2>3. QED BY <2>1, <2>2
<1>6. CASE ExtraOpts
  BY <1>6 DEF ExtraOpts, Exit
<1>7. CASE UnknownMember \/ EndOfFile
  BY <1>7 DEF UnknownMember, EndOfFile, Exit
<1>8. ASSUME NEW k \in DOMAIN Key, SetMember(k) PROVE FlagsOK'
  BY <1>8 DEF SetMember, Exit
<1>9. CASE Default
  BY <1>9 DEF Default
<1>10. QED BY <1>1, <1>2, <1>3, <1>4, <1>5, <1>6, <1>7, <1>8, <1>9 DEF Load

\* The steps of load_sip003 and start_bootstrap leave what was read alone.
LEMMA LaunchControl ==
  ASSUME ControlOK, FlagsOK, LoadPlugin \/ NoPlugin \/ Command \/ Udp
  PROVE  ControlOK' /\ FlagsOK' /\ UNCHANGED <<argv, file, local_mode>>
<1>1. at' \in {"with_plugin", "without_plugin", "udp", "started", "crashed"}
  BY DEF LoadPlugin, NoPlugin, Command, Udp, Resolved
<1>2. UNCHANGED <<argv, file, arg, member, flags, local_mode>>
  BY DEF LoadPlugin, NoPlugin, Command, Udp, launchVars
<1>3. QED BY <1>1, <1>2 DEF ControlOK, FlagsOK, flags

-----------------------------------------------------------------------------
(* Memory: blocks and their owners *)

\* Setting a field frees the block it owned, which no other pointer owns, and gives
\* it a new one.
LEMMA SetKeepsMemory ==
  ASSUME PointersOK, NoPluginYet, MemoryOK, Loading,
         NEW f \in Fields, NEW s, Set(f, s), UNCHANGED <<remote, local>>
  PROVE  MemoryOK' /\ PointersOK'
<1> DEFINE old == info[f].block
           new == made + 1
<1>1. /\ made' = new /\ info' = [info EXCEPT ![f] = [text |-> s, block |-> new]]
      /\ heap' = (heap \ {old}) \cup {new}
      /\ corrupt' = (corrupt \/ (info[f] # NULL /\ old \notin heap))
  BY DEF Set
<1>2. info' = [g \in Fields |-> info'[g]] /\ info'[f].block = new
      /\ \A g \in Fields : g # f => info'[g] = info[g]
  <2>1. info = [g \in Fields |-> info[g]]
    BY DEF PointersOK
  <2>2. QED BY <1>1, <2>1
<1>3. made \in Nat /\ new \in Nat /\ new > made /\ old \in 0 .. made /\ old # new
  BY DEF MemoryOK
<1>4. old = 0 \/ old \in heap
  BY <1>3 DEF MemoryOK, Owners
<1>5. old = 0 => info[f] = NULL
  BY DEF PointersOK
<1>6. remote = Nowhere /\ local = Nowhere /\ remote' = Nowhere /\ local' = Nowhere
  BY DEF NoPluginYet
<1>7. corrupt' = FALSE
  BY <1>1, <1>4, <1>5 DEF MemoryOK
<1>8. heap' \subseteq 1 .. made'
  <2>1. heap \subseteq 1 .. made
    BY DEF MemoryOK
  <2> HIDE DEF old
  <2>2. heap' \subseteq 1 .. made + 1
    BY <1>1, <1>3, <2>1
  <2>3. QED BY <1>1, <2>2
<1>9. \A g \in Fields : info'[g].block \in 0 .. made'
  BY <1>1, <1>2, <1>3 DEF MemoryOK
<1>10. \A b : b \in heap <=> b # 0 /\ \E g \in Fields : info[g].block = b
  BY <1>6 DEF MemoryOK, Owners, Nowhere, NULL
<1>11. \A g \in Fields : g # f /\ info[g].block # 0 => info[g].block # old
  BY DEF MemoryOK
<1>12. ASSUME NEW b
       PROVE  b \in heap' <=> b # 0 /\ \E g \in Fields : info'[g].block = b
  <2>1. CASE b = new
    BY <1>1, <1>2, <1>3, <2>1
  <2>2. CASE b # new
    <3>1. b \in heap' <=> b # old /\ b # 0 /\ \E g \in Fields : info[g].block = b
      BY <1>1, <1>10, <2>2
    <3>2. (\E g \in Fields : info'[g].block = b) <=> \E g \in Fields \ {f} : info[g].block = b
      BY <1>2, <2>2
    <3>3. QED BY <1>11, <3>1, <3>2
  <2>3. QED BY <2>1, <2>2
<1>13. heap' = {p.block : p \in Owners'} \ {0}
  BY <1>6, <1>12 DEF Owners, Nowhere, NULL
<1>14. \A g, h \in Fields : g # h /\ info'[g].block # 0 => info'[g].block # info'[h].block
  <2>1. \A g \in Fields : info[g].block # new
    BY <1>3 DEF MemoryOK
  <2>2. QED BY <1>2, <2>1 DEF MemoryOK
<1>15. MemoryOK'
  BY <1>1, <1>3, <1>7, <1>8, <1>9, <1>13, <1>14 DEF MemoryOK
<1>16. PointersOK'
  BY <1>1, <1>2, <1>3 DEF PointersOK
<1>17. QED BY <1>15, <1>16

\* The default address is a literal: no block is made or given up for it.
LEMMA DefaultKeepsMemory ==
  ASSUME PointersOK, NoPluginYet, MemoryOK, Default, UNCHANGED <<remote, local>>
  PROVE  MemoryOK' /\ PointersOK'
<1>1. /\ Loading /\ ~Loading' /\ UNCHANGED <<heap, made, corrupt>>
      /\ info' = IF info["server_addr"] = NULL
                 THEN [info EXCEPT !["server_addr"] = Literal("127.0.0.1")] ELSE info
  BY DEF Default, Goto, Loading, memory
<1>2. info' = [g \in Fields |-> info'[g]] /\ \A g \in Fields : info'[g].block = info[g].block
  <2>1. info = [g \in Fields |-> info[g]]
    BY DEF PointersOK
  <2>2. QED BY <1>1, <2>1 DEF NULL, Literal
<1>3. \A b : (\E p \in Owners' : p.block = b) <=> \E p \in Owners : p.block = b
  BY <1>2 DEF Owners
<1>4. {p.block : p \in Owners'} = {p.block : p \in Owners}
  BY <1>3
<1>5. MemoryOK'
  BY <1>1, <1>2, <1>4 DEF MemoryOK
<1>6. QED BY <1>1, <1>2, <1>5 DEF PointersOK

\* The plugin's ends take over the blocks of the server's address and port.
LEMMA PluginKeepsMemory ==
  ASSUME PointersOK, NoPluginYet, MemoryOK, LoadPlugin
  PROVE  MemoryOK' /\ PointersOK'
<1> DEFINE new == made + 1
           port == [text |-> Picked, block |-> new]
           addr == Literal("127.0.0.1")
<1>1. /\ at = "loaded" /\ at' = "with_plugin" /\ UNCHANGED corrupt
      /\ heap' = heap \cup {new} /\ made' = new
      /\ local' = [host |-> addr, port |-> port]
      /\ remote' = [host |-> info["server_addr"], port |-> info["server_port"]]
      /\ info' = [info EXCEPT !["server_addr"] = addr, !["server_port"] = port]
  BY DEF LoadPlugin, memory
<1>2. "server_addr" \in Fields /\ "server_port" \in Fields
  BY FieldsAre
<1>3. /\ info' = [g \in Fields |-> info'[g]]
      /\ info'["server_addr"] = addr /\ info'["server_port"] = port
      /\ \A g \in Fields \ {"server_addr", "server_port"} : info'[g] = info[g]
  <2>1. info = [g \in Fields |-> info[g]]
    BY DEF PointersOK
  <2> HIDE DEF addr, port
  <2>2. QED BY <1>1, <1>2, <2>1
<1>4. addr.block = 0 /\ port.block = new
  BY DEF Literal
<1>5. made \in Nat /\ new \in Nat /\ new > made /\ \A g \in Fields : info[g].block \in 0 .. made
  BY DEF MemoryOK
<1>6. remote = Nowhere /\ local = Nowhere
  BY <1>1 DEF NoPluginYet
<1>7. ASSUME NEW b
      PROVE  (\E p \in Owners' : p.block = b) <=> b \in {0, new} \/ \E g \in Fields : info[g].block = b
  <2>1. Owners' = {info'[g] : g \in Fields} \cup {info["server_addr"], info["server_port"], addr, port}
    BY <1>1 DEF Owners
  <2> HIDE DEF addr, port, new
  <2>2. CASE b \in {0, new}
    BY <1>4, <2>1, <2>2
  <2>3. CASE b \notin {0, new}
    BY <1>2, <1>3, <1>4, <2>1, <2>3
  <2>4. QED BY <2>2, <2>3
<1>8. \A b : b \in heap <=> b # 0 /\ \E g \in Fields : info[g].block = b
  BY <1>6 DEF MemoryOK, Owners, Nowhere, NULL
<1>9. heap' = {p.block : p \in Owners'} \ {0}
  BY <1>1, <1>5, <1>7, <1>8
<1>10. \A g, h \in Fields : g # h /\ info'[g].block # 0 => info'[g].block # info'[h].block
  <2>1. \A g \in Fields : info[g].block # new
    BY <1>5
  <2> HIDE DEF addr, port, new
  <2>2. QED BY <1>3, <1>4, <2>1 DEF MemoryOK
<1>11. \A g \in Fields : info'[g].block \in 0 .. made'
  <2> SUFFICES ASSUME NEW g \in Fields PROVE info'[g].block \in 0 .. made + 1
    BY <1>1
  <2> HIDE DEF addr, port
  <2>1. CASE g \in {"server_addr", "server_port"}
    BY <1>3, <1>4, <1>5, <2>1
  <2>2. CASE g \notin {"server_addr", "server_port"}
    BY <1>3, <1>5, <2>2
  <2>3. QED BY <2>1, <2>2
<1>12. heap' \subseteq 1 .. made'
  <2>1. heap \subseteq 1 .. made
    BY DEF MemoryOK
  <2>2. QED BY <1>1, <1>5, <2>1
<1>13. MemoryOK'
  BY <1>1, <1>5, <1>9, <1>10, <1>11, <1>12 DEF MemoryOK
<1>14. QED BY <1>1, <1>3, <1>13 DEF PointersOK, Loading

-----------------------------------------------------------------------------
(* The inductive invariant of control and memory *)

LEMMA Initially == Init => IInv
<1> SUFFICES ASSUME Init PROVE IInv
  OBVIOUS
<1> USE DEF Init, LoadInit
<1>1. InputOK
  BY InputsAssumption DEF InputOK
<1>2. ControlOK /\ FlagsOK /\ local_mode \in BOOLEAN
  <2>1. Len(argv) \in Nat /\ Len(file.members) \in Nat
    BY <1>1 DEF InputOK
  <2>2. ControlOK
    BY <2>1 DEF ControlOK
  <2>3. FlagsOK /\ local_mode \in BOOLEAN
    BY DEF FlagsOK
  <2>4. QED BY <2>2, <2>3
<1>3. info = [f \in Fields |-> NULL] /\ \A f \in Fields : info[f] = NULL
  BY DEF InitInfo
<1>4. PointersOK /\ NoPluginYet
  BY <1>3 DEF PointersOK, NoPluginYet
<1>5. MemoryOK
  <2>1. \A p \in Owners : p.block = 0
    BY <1>3 DEF Owners, Nowhere, NULL
  <2>2. QED BY <1>3, <2>1 DEF MemoryOK, NULL
<1>6. QED BY <1>1, <1>2, <1>4, <1>5 DEF IInv

\* Settings are loaded until they are complete, and the plugin comes after that.
LEMMA LoadingComesFirst ==
  /\ Load => Loading
  /\ LoadPlugin \/ NoPlugin \/ Command \/ Udp => at' \notin {"init", "args", "json", "loaded"}
<1>1. Load => Loading
  BY DEF Load, Loading, Help, Begin, Debug, FastOpen, NoUdp, LoadFile, Unknown, AddField, AtArg,
         SetNoUdp, SetFastOpen, ExtraOpts, UnknownMember, EndOfFile, SetMember, AtKey, Default
<1>2. LoadPlugin \/ NoPlugin \/ Command \/ Udp => at' \notin {"init", "args", "json", "loaded"}
  BY DEF LoadPlugin, NoPlugin, Command, Udp
<1>3. QED BY <1>1, <1>2

LEMMA Stepwise == IInv /\ [Next]_vars => IInv'
<1> SUFFICES ASSUME IInv, [Next]_vars PROVE IInv'
  OBVIOUS
<1>0. /\ InputOK /\ ControlOK /\ FlagsOK /\ local_mode \in BOOLEAN
      /\ PointersOK /\ NoPluginYet /\ MemoryOK
  BY DEF IInv
<1>1. CASE LoadStep
  <2>1. Load /\ UNCHANGED <<local_mode, remote, local>>
    BY <1>1 DEF LoadStep, launchVars
  <2>2. ControlOK' /\ FlagsOK' /\ local_mode' \in BOOLEAN
    BY <1>0, <2>1, ControlStep, FlagsStep
  <2>3. InputOK'
    BY <1>0, <2>1, LoadEffect DEF InputOK
  <2>4. NoPluginYet'
    BY <1>0, <2>1, LoadingComesFirst DEF NoPluginYet
  <2>5. MemoryOK' /\ PointersOK'
    <3>1. CASE UNCHANGED <<info, memory>>
      <4>1. MemoryOK'
        BY <1>0, <2>1, <3>1 DEF MemoryOK, Owners, memory
      <4>2. PointersOK'
        BY <1>0, <2>1, <3>1, LoadingComesFirst DEF PointersOK
      <4>3. QED BY <4>1, <4>2
    <3>2. CASE Loading /\ \E f \in Fields : \E s : Set(f, s)
      BY <1>0, <2>1, <3>2, SetKeepsMemory
    <3>3. CASE Default
      BY <1>0, <2>1, <3>3, DefaultKeepsMemory
    <3>4. QED BY <2>1, <3>1, <3>2, <3>3, LoadEffect
  <2>6. QED BY <2>2, <2>3, <2>4, <2>5 DEF IInv
<1>2. CASE LoadPlugin \/ NoPlugin \/ Command \/ Udp
  <2>1. ControlOK' /\ FlagsOK' /\ UNCHANGED <<argv, file, local_mode>>
    BY <1>0, <1>2, LaunchControl
  <2>2. InputOK' /\ NoPluginYet'
    BY <1>0, <1>2, <2>1, LoadingComesFirst DEF InputOK, NoPluginYet, Loading
  <2>3. MemoryOK' /\ PointersOK'
    <3>1. CASE LoadPlugin
      BY <1>0, <3>1, PluginKeepsMemory
    <3>2. CASE NoPlugin \/ Command \/ Udp
      <4>1. UNCHANGED <<info, memory, remote, local>>
        BY <3>2 DEF NoPlugin, Command, Udp, launchVars
      <4>2. ~Loading'
        BY <3>2, LoadingComesFirst DEF Loading
      <4>3. MemoryOK'
        BY <1>0, <4>1 DEF MemoryOK, Owners, memory
      <4>4. QED BY <1>0, <4>1, <4>2, <4>3 DEF PointersOK
    <3>3. QED BY <1>2, <3>1, <3>2
  <2>4. QED BY <1>0, <2>1, <2>2, <2>3 DEF IInv
<1>3. CASE UNCHANGED vars
  <2>1. UNCHANGED <<argv, file, at, arg, member, info, is_udp_proxy, fastopen, heap, made, corrupt,
                    local_mode, remote, local>>
    BY <1>3 DEF vars, loadVars, launchVars, flags, memory
  <2>2. InputOK' /\ ControlOK' /\ FlagsOK' /\ local_mode' \in BOOLEAN
    BY <1>0, <2>1 DEF InputOK, ControlOK, FlagsOK
  <2>3. PointersOK' /\ NoPluginYet' /\ MemoryOK'
    BY <1>0, <2>1 DEF PointersOK, NoPluginYet, MemoryOK, Loading, Owners
  <2>4. QED BY <2>2, <2>3 DEF IInv
<1>4. QED BY <1>1, <1>2, <1>3 DEF Next

LEMMA LaunchInductive == Spec => []IInv
BY Initially, Stepwise, PTL DEF Spec

-----------------------------------------------------------------------------
(* Options and values *)

\* The recursion that tells options from values has a solution: an argument is an
\* option exactly if the one before it is not an option that takes a value.
LEMMA IsOptionUnfolds ==
  ASSUME NEW s, NEW takes, Len(s) \in Nat
  PROVE  /\ \A i \in 0 .. Len(s) : i <= 1 => IsOption(s, takes)[i]
         /\ \A i \in 0 .. Len(s) :
              ~(i <= 1) => (IsOption(s, takes)[i] <=> ~(IsOption(s, takes)[i - 1] /\ s[i - 1] \in takes))
<1> DEFINE Step(g, i) == IF i <= 1 THEN TRUE ELSE ~(g[i - 1] /\ s[i - 1] \in takes)
           Solves(g, n) == g = [i \in 0 .. n |-> IF i <= 1 THEN TRUE ELSE ~(g[i - 1] /\ s[i - 1] \in takes)]
           solved == {n \in Nat : \E g : Solves(g, n)}
<1>1. 0 \in solved
  <2>1. Solves([i \in 0 .. 0 |-> TRUE], 0)
    OBVIOUS
  <2>2. QED BY <2>1
<1>2. ASSUME NEW n \in Nat, n \in solved PROVE n + 1 \in solved
  <2>1. PICK g : Solves(g, n)
    BY <1>2
  <2> DEFINE h == [i \in 0 .. n + 1 |-> IF i <= n THEN g[i] ELSE Step(g, i)]
  <2>2. Solves(h, n + 1)
    BY <2>1
  <2> HIDE DEF h, Solves
  <2>3. QED BY <2>2
<1>3. \A n \in Nat : n \in solved
  <2> HIDE DEF solved
  <2>1. QED BY <1>1, <1>2, InductiveSet
<1>4. \E O : O = [i \in 0 .. Len(s) |-> IF i <= 1 THEN TRUE ELSE ~(O[i - 1] /\ s[i - 1] \in takes)]
  BY <1>3
<1> DEFINE O == IsOption(s, takes)
<1>5. O = [i \in 0 .. Len(s) |-> IF i <= 1 THEN TRUE ELSE ~(O[i - 1] /\ s[i - 1] \in takes)]
  BY <1>4, Zenon DEF IsOption
<1> HIDE DEF O
<1>6. \A i \in 0 .. Len(s) : O[i] = IF i <= 1 THEN TRUE ELSE ~(O[i - 1] /\ s[i - 1] \in takes)
  BY <1>5
<1>7. QED BY <1>6, Zenon DEF O

-----------------------------------------------------------------------------
(* Places that set a field, as far as they have been read *)

Sizes == Len(argv) \in Nat /\ Len(file.members) \in Nat

\* The places before member j of the file that argument i names.
SeenAt(o, keys, i, j) == {p \in Places(o, keys) : p[1] < i \/ (p[1] = i /\ p[2] < j)}

LEMMA PlaceIs ==
  ASSUME Sizes, NEW o, NEW keys, NEW p \in Places(o, keys)
  PROVE  /\ p[1] \in Nat /\ 1 <= p[1] /\ p[1] <= Len(argv)
         /\ p[2] \in Nat /\ p[2] <= Len(file.members)
         /\ ArgIsOption[p[1]]
         /\ IF p[2] = 0 THEN argv[p[1]] = o ELSE argv[p[1]] = "-c" /\ file.members[p[2]].key \in keys
         /\ \A a, b : p = <<a, b>> <=> p[1] = a /\ p[2] = b
<1>1. /\ p \in (1 .. Len(argv)) \X (0 .. Len(file.members))
      /\ ArgIsOption[p[1]]
      /\ IF p[2] = 0 THEN argv[p[1]] = o ELSE argv[p[1]] = "-c" /\ file.members[p[2]].key \in keys
  BY DEF Places
<1>2. QED BY <1>1 DEF Sizes

LEMMA IsPlace ==
  ASSUME NEW o, NEW keys, NEW a \in 1 .. Len(argv), NEW b \in 0 .. Len(file.members), ArgIsOption[a],
         IF b = 0 THEN argv[a] = o ELSE argv[a] = "-c" /\ file.members[b].key \in keys
  PROVE  <<a, b>> \in Places(o, keys)
BY DEF Places

\* Behind an option that is not -c there is one more place if it sets the field.
LEMMA SeenOption ==
  ASSUME Sizes, NEW o, NEW keys, NEW i \in 1 .. Len(argv), ArgIsOption[i], argv[i] # "-c"
  PROVE  SeenAt(o, keys, i + 1, 0) = SeenAt(o, keys, i, 0) \cup (IF argv[i] = o THEN {<<i, 0>>} ELSE {})
<1>1. i \in Nat /\ 0 \in 0 .. Len(file.members)
  BY DEF Sizes
<1>2. argv[i] = o => <<i, 0>> \in Places(o, keys)
  BY <1>1, IsPlace
<1>3. ASSUME NEW p \in Places(o, keys)
      PROVE  (p[1] < i + 1 \/ (p[1] = i + 1 /\ p[2] < 0)) <=>
               (p[1] < i \/ (p[1] = i /\ p[2] < 0)) \/ (argv[i] = o /\ p = <<i, 0>>)
  BY <1>1, PlaceIs
<1>4. QED BY <1>2, <1>3 DEF SeenAt

\* Nothing is set behind a value, or at an argument that is not there.
LEMMA SeenValue ==
  ASSUME Sizes, NEW o, NEW keys, NEW i \in Nat \ {0}, i <= Len(argv) => ~ArgIsOption[i]
  PROVE  SeenAt(o, keys, i + 1, 0) = SeenAt(o, keys, i, 0)
<1>1. ASSUME NEW p \in Places(o, keys)
      PROVE  (p[1] < i + 1 \/ (p[1] = i + 1 /\ p[2] < 0)) <=> (p[1] < i \/ (p[1] = i /\ p[2] < 0))
  <2>1. p[1] # i
    BY PlaceIs
  <2>2. QED BY <2>1, PlaceIs
<1>2. QED BY <1>1 DEF SeenAt

\* The file is entered in front of its first member, and its -c sets nothing itself.
LEMMA SeenFile ==
  ASSUME Sizes, NEW o, NEW keys, NEW i \in 1 .. Len(argv), argv[i] = "-c", o # "-c"
  PROVE  SeenAt(o, keys, i, 1) = SeenAt(o, keys, i, 0)
<1>1. ASSUME NEW p \in Places(o, keys)
      PROVE  (p[1] < i \/ (p[1] = i /\ p[2] < 1)) <=> (p[1] < i \/ (p[1] = i /\ p[2] < 0))
  BY PlaceIs
<1>2. QED BY <1>1 DEF SeenAt

\* A member is one more place if it sets the field.
LEMMA SeenMember ==
  ASSUME Sizes, NEW o, NEW keys, NEW i \in 1 .. Len(argv), NEW j \in 1 .. Len(file.members),
         ArgIsOption[i], argv[i] = "-c"
  PROVE  SeenAt(o, keys, i, j + 1)
           = SeenAt(o, keys, i, j) \cup (IF file.members[j].key \in keys THEN {<<i, j>>} ELSE {})
<1>1. i \in Nat /\ j \in Nat /\ j # 0 /\ j \in 0 .. Len(file.members)
  BY DEF Sizes
<1>2. file.members[j].key \in keys => <<i, j>> \in Places(o, keys)
  BY <1>1, IsPlace
<1>3. ASSUME NEW p \in Places(o, keys)
      PROVE  (p[1] < i \/ (p[1] = i /\ p[2] < j + 1)) <=>
               (p[1] < i \/ (p[1] = i /\ p[2] < j)) \/ (file.members[j].key \in keys /\ p = <<i, j>>)
  <2>0. p[1] \in Nat /\ p[2] \in Nat /\ \A a, b : p = <<a, b>> <=> p[1] = a /\ p[2] = b
    BY PlaceIs
  <2>1. p[1] \in Nat /\ p[2] \in Nat /\ (p = <<i, j>> <=> p[1] = i /\ p[2] = j)
    BY <2>0, Zenon
  <2>2. p[1] = i /\ p[2] = j => file.members[j].key \in keys
    BY <1>1, PlaceIs
  <2>3. p[2] < j + 1 <=> p[2] < j \/ p[2] = j
    BY <1>1, <2>1
  <2>4. QED BY <2>1, <2>2, <2>3
<1>4. QED BY <1>2, <1>3 DEF SeenAt

\* Behind the last member is behind the argument.
LEMMA SeenWholeFile ==
  ASSUME Sizes, NEW o, NEW keys, NEW i \in 1 .. Len(argv), NEW j \in Nat, j > Len(file.members)
  PROVE  SeenAt(o, keys, i, j) = SeenAt(o, keys, i + 1, 0)
<1>1. ASSUME NEW p \in Places(o, keys)
      PROVE  (p[1] < i \/ (p[1] = i /\ p[2] < j)) <=> (p[1] < i + 1 \/ (p[1] = i + 1 /\ p[2] < 0))
  <2>1. p[2] < j
    BY PlaceIs DEF Sizes
  <2>2. QED BY <2>1, PlaceIs
<1>2. QED BY <1>1 DEF SeenAt

\* Behind the last argument everything has been seen, before the first one nothing.
LEMMA SeenEverything ==
  ASSUME Sizes, NEW o, NEW keys
  PROVE  SeenAt(o, keys, Len(argv) + 1, 0) = Places(o, keys) /\ SeenAt(o, keys, 1, 0) = {}
<1>1. ASSUME NEW p \in Places(o, keys)
      PROVE  p[1] < Len(argv) + 1 /\ ~(p[1] < 1 \/ (p[1] = 1 /\ p[2] < 0))
  BY PlaceIs DEF Sizes
<1>2. QED BY <1>1 DEF SeenAt

\* The place that is behind all others is the latest one.
LEMMA LatestIs ==
  ASSUME NEW P, NEW n \in P, n[1] \in Int, n[2] \in Int,
         \A p \in P : /\ p[1] \in Int /\ p[2] \in Int
                      /\ p[1] < n[1] \/ (p[1] = n[1] /\ p[2] <= n[2])
                      /\ p[1] = n[1] /\ p[2] = n[2] => p = n
  PROVE  Latest(P) = n
<1> DEFINE Last(p) == \A q \in P : q[1] < p[1] \/ (q[1] = p[1] /\ q[2] <= p[2])
<1>1. Last(n)
  OBVIOUS
<1>2. \A p \in P : Last(p) => p = n
  <2> SUFFICES ASSUME NEW p \in P, Last(p) PROVE p = n
    OBVIOUS
  <2>1. n[1] < p[1] \/ (n[1] = p[1] /\ n[2] <= p[2])
    OBVIOUS
  <2>2. p[1] \in Int /\ p[2] \in Int /\ (p[1] < n[1] \/ (p[1] = n[1] /\ p[2] <= n[2]))
    OBVIOUS
  <2>3. p[1] = n[1] /\ p[2] = n[2]
    BY <2>1, <2>2
  <2>4. QED BY <2>3
<1>3. Latest(P) = CHOOSE p \in P : Last(p)
  BY DEF Latest
<1> HIDE DEF Last
<1>4. QED BY <1>1, <1>2, <1>3

-----------------------------------------------------------------------------
(* What has been read, and what it set *)

\* Between two steps load_info is at an option or behind the last argument, and
\* json_decode reads the file that the option before the current argument names.
Position ==
  /\ at = "init" => arg = 1
  /\ at = "args" /\ arg <= Len(argv) => ArgIsOption[arg]
  /\ at = "json" => /\ arg > 1 /\ ArgIsOption[arg - 1] /\ argv[arg - 1] = "-c"
                    /\ ~ArgIsOption[arg]

\* The places that have been read.
ReadSoFar(o, keys) == IF at = "json" THEN SeenAt(o, keys, arg - 1, member) ELSE SeenAt(o, keys, arg, 0)

TextAt(place) ==
  IF place[2] = 0 THEN argv[place[1] + 1]
  ELSE LET value == file.members[place[2]].value
       IN IF "string" \in DOMAIN value THEN value.string ELSE ToString(value.number)

KeysOf(f) == {k \in DOMAIN Key : Key[k] = f}

\* Field f holds what the latest of these places says.
Told(f, places) ==
  IF places = {} THEN info[f] = NULL
  ELSE /\ info[f].block # 0 /\ info[f].text = TextAt(Latest(places))
       /\ f \notin NumberFields => info[f].text \in STRING

Said(places) ==
  IF places = {} THEN FALSE
  ELSE IF Latest(places)[2] = 0 THEN TRUE
  ELSE file.members[Latest(places)[2]].value.bool

ReadFor(f) == ReadSoFar(OptionOf(f), KeysOf(f))

FieldsTold == \A f \in Fields : Told(f, ReadFor(f))

FlagsTold ==
  /\ fastopen = Said(ReadSoFar("--fast-open", {"fast_open"}))
  /\ is_udp_proxy = ~Said(ReadSoFar("--no-udp", {"no_udp"}))

\* The option that sets a field is the only one.
LEMMA OptionOfField ==
  /\ \A o \in DOMAIN Option : OptionOf(Option[o]) = o
  /\ \A f \in Fields : OptionOf(f) \in DOMAIN Option /\ Option[OptionOf(f)] = f
<1>1. \A o, q \in DOMAIN Option : Option[o] = Option[q] => o = q
  BY SMT DEF Option
<1>2. \A o \in DOMAIN Option : OptionOf(Option[o]) = o
  BY <1>1 DEF OptionOf
<1>3. QED BY <1>2 DEF Fields

\* Taking a value decides what the next argument is.
LEMMA NextArg ==
  ASSUME Sizes, NEW i \in Nat, 1 <= i, i < Len(argv)
  PROVE  ArgIsOption[i + 1] <=> ~(ArgIsOption[i] /\ argv[i] \in DOMAIN Option \cup {"-c"})
<1> DEFINE takes == DOMAIN Option \cup {"-c"}
<1>1. i + 1 \in 0 .. Len(argv) /\ ~(i + 1 <= 1) /\ (i + 1) - 1 = i
  BY DEF Sizes
<1> HIDE DEF takes
<1>2. \A n \in 0 .. Len(argv) :
        ~(n <= 1) => (IsOption(argv, takes)[n] <=> ~(IsOption(argv, takes)[n - 1] /\ argv[n - 1] \in takes))
  BY IsOptionUnfolds, Zenon DEF Sizes
<1>3. IsOption(argv, takes)[i + 1] <=> ~(IsOption(argv, takes)[i] /\ argv[i] \in takes)
  BY <1>1, <1>2
<1>4. QED BY <1>3, Zenon DEF ArgIsOption, takes

LEMMA FirstArg == Sizes /\ Len(argv) >= 1 => ArgIsOption[1]
<1> SUFFICES ASSUME Sizes, Len(argv) >= 1 PROVE ArgIsOption[1]
  OBVIOUS
<1>1. 1 \in 0 .. Len(argv) /\ 1 <= 1
  BY DEF Sizes
<1>2. IsOption(argv, DOMAIN Option \cup {"-c"})[1]
  BY <1>1, IsOptionUnfolds, Zenon DEF Sizes
<1>3. QED BY <1>2, Zenon DEF ArgIsOption

-----------------------------------------------------------------------------
(* How a step moves the position, and what it reads *)

\* The place that is read next.
Here == IF at = "json" THEN <<arg - 1, member>> ELSE <<arg, 0>>

\* Everything but Here, and what is behind it, stays as it was.
Reads(o, keys, sets) ==
  ReadSoFar(o, keys)' = ReadSoFar(o, keys) \cup (IF sets THEN {Here} ELSE {})

LEMMA SeenKept ==
  ASSUME UNCHANGED <<argv, file>>, NEW o, NEW keys
  PROVE  ReadSoFar(o, keys)' = IF at' = "json" THEN SeenAt(o, keys, arg' - 1, member')
                               ELSE SeenAt(o, keys, arg', 0)
BY DEF ReadSoFar, SeenAt, Places, ArgIsOption

LEMMA PositionKept ==
  ASSUME UNCHANGED <<argv, file>>
  PROVE  Position' <=>
           /\ at' = "init" => arg' = 1
           /\ at' = "args" /\ arg' <= Len(argv) => ArgIsOption[arg']
           /\ at' = "json" => /\ arg' > 1 /\ ArgIsOption[arg' - 1] /\ argv[arg' - 1] = "-c"
                              /\ ~ArgIsOption[arg']
BY DEF Position, ArgIsOption

\* An option without a value.
LEMMA PassOption ==
  ASSUME Sizes, Position, at = "args", arg \in 1 .. Len(argv),
         argv[arg] \notin DOMAIN Option \cup {"-c"}, Goto("args", arg + 1, 1)
  PROVE  Position' /\ \A o, keys : Reads(o, keys, argv[arg] = o)
<1>1. UNCHANGED <<argv, file>> /\ at' = "args" /\ arg' = arg + 1
  BY DEF Goto
<1>2. ArgIsOption[arg]
  BY DEF Position
<1>3. arg \in Nat /\ 1 <= arg /\ (arg + 1 <= Len(argv) => arg < Len(argv))
  BY DEF Sizes
<1>4. arg + 1 <= Len(argv) => ArgIsOption[arg + 1]
  BY <1>2, <1>3, NextArg
<1>5. Position'
  BY <1>1, <1>4, PositionKept
<1>6. ASSUME NEW o, NEW keys PROVE Reads(o, keys, argv[arg] = o)
  <2>1. SeenAt(o, keys, arg + 1, 0) = SeenAt(o, keys, arg, 0) \cup (IF argv[arg] = o THEN {<<arg, 0>>} ELSE {})
    BY <1>2, SeenOption
  <2>2. ReadSoFar(o, keys)' = SeenAt(o, keys, arg + 1, 0)
    BY <1>1, SeenKept
  <2>3. QED BY <2>1, <2>2 DEF Reads, ReadSoFar, Here
<1>7. QED BY <1>5, <1>6

\* An option that takes a value, and the value.
LEMMA PassValueOption ==
  ASSUME Sizes, Position, at = "args", arg \in 1 .. Len(argv), arg # Len(argv),
         argv[arg] \in DOMAIN Option, Goto("args", arg + 2, 1)
  PROVE  Position' /\ \A o, keys : Reads(o, keys, argv[arg] = o)
<1>1. UNCHANGED <<argv, file>> /\ at' = "args" /\ arg' = arg + 2
  BY DEF Goto
<1>2. ArgIsOption[arg]
  BY DEF Position
<1>3. /\ arg \in Nat /\ 1 <= arg /\ arg < Len(argv) /\ arg + 1 \in Nat \ {0} /\ 1 <= arg + 1
      /\ (arg + 2 <= Len(argv) => arg + 1 < Len(argv)) /\ (arg + 1) + 1 = arg + 2
  BY DEF Sizes
<1>4. ~ArgIsOption[arg + 1]
  BY <1>2, <1>3, NextArg
<1>5. arg + 2 <= Len(argv) => ArgIsOption[arg + 2]
  BY <1>3, <1>4, NextArg
<1>6. Position'
  BY <1>1, <1>5, PositionKept
<1>7. argv[arg] # "-c"
  BY DEF Option
<1>8. ASSUME NEW o, NEW keys PROVE Reads(o, keys, argv[arg] = o)
  <2>1. SeenAt(o, keys, arg + 1, 0) = SeenAt(o, keys, arg, 0) \cup (IF argv[arg] = o THEN {<<arg, 0>>} ELSE {})
    BY <1>2, <1>7, SeenOption
  <2>2. SeenAt(o, keys, (arg + 1) + 1, 0) = SeenAt(o, keys, arg + 1, 0)
    BY <1>3, <1>4, SeenValue
  <2>3. ReadSoFar(o, keys)' = SeenAt(o, keys, arg + 2, 0)
    BY <1>1, SeenKept
  <2>4. QED BY <1>3, <2>1, <2>2, <2>3 DEF Reads, ReadSoFar, Here
<1>9. QED BY <1>6, <1>8

\* -c and its value: the members come next.
LEMMA EnterFile ==
  ASSUME Sizes, Position, at = "args", arg \in 1 .. Len(argv), arg # Len(argv),
         argv[arg] = "-c", Goto("json", arg + 1, 1)
  PROVE  Position' /\ \A o, keys : o # "-c" => Reads(o, keys, FALSE)
<1>1. UNCHANGED <<argv, file>> /\ at' = "json" /\ arg' = arg + 1 /\ member' = 1
  BY DEF Goto
<1>2. ArgIsOption[arg]
  BY DEF Position
<1>3. arg \in Nat /\ 1 <= arg /\ arg < Len(argv) /\ (arg + 1) - 1 = arg /\ arg + 1 > 1
  BY DEF Sizes
<1>4. ~ArgIsOption[arg + 1]
  BY <1>2, <1>3, NextArg
<1>5. Position'
  BY <1>1, <1>2, <1>3, <1>4, PositionKept
<1>6. ASSUME NEW o, NEW keys, o # "-c" PROVE Reads(o, keys, FALSE)
  <2>1. SeenAt(o, keys, arg, 1) = SeenAt(o, keys, arg, 0)
    BY <1>6, SeenFile
  <2>2. ReadSoFar(o, keys)' = SeenAt(o, keys, arg, 1)
    BY <1>1, <1>3, SeenKept
  <2>3. QED BY <2>1, <2>2 DEF Reads, ReadSoFar
<1>7. QED BY <1>5, <1>6

LEMMA PassMember ==
  ASSUME Sizes, Position, at = "json", arg \in 1 .. Len(argv), member \in 1 .. Len(file.members),
         Goto("json", arg, member + 1)
  PROVE  Position' /\ \A o, keys : Reads(o, keys, file.members[member].key \in keys)
<1>1. UNCHANGED <<argv, file>> /\ at' = "json" /\ arg' = arg /\ member' = member + 1
  BY DEF Goto
<1>2. Position'
  BY <1>1, PositionKept DEF Position
<1>3. arg - 1 \in 1 .. Len(argv) /\ ArgIsOption[arg - 1] /\ argv[arg - 1] = "-c"
  BY DEF Position, Sizes
<1>4. ASSUME NEW o, NEW keys PROVE Reads(o, keys, file.members[member].key \in keys)
  <2>1. SeenAt(o, keys, arg - 1, member + 1)
          = SeenAt(o, keys, arg - 1, member)
              \cup (IF file.members[member].key \in keys THEN {<<arg - 1, member>>} ELSE {})
    BY <1>3, SeenMember
  <2>2. ReadSoFar(o, keys)' = SeenAt(o, keys, arg - 1, member + 1)
    BY <1>1, SeenKept
  <2>3. QED BY <2>1, <2>2 DEF Reads, ReadSoFar, Here
<1>5. QED BY <1>2, <1>4

LEMMA LeaveFile ==
  ASSUME Sizes, Position, at = "json", arg \in 1 .. Len(argv), member \in Nat,
         member > Len(file.members), Goto("args", arg + 1, 1)
  PROVE  Position' /\ \A o, keys : Reads(o, keys, FALSE)
<1>1. UNCHANGED <<argv, file>> /\ at' = "args" /\ arg' = arg + 1
  BY DEF Goto
<1>2. /\ arg \in Nat \ {0} /\ 1 <= arg /\ arg - 1 \in 1 .. Len(argv) /\ (arg - 1) + 1 = arg
      /\ (arg + 1 <= Len(argv) => arg < Len(argv))
  BY DEF Position, Sizes
<1>3. ~ArgIsOption[arg]
  BY DEF Position
<1>4. arg + 1 <= Len(argv) => ArgIsOption[arg + 1]
  BY <1>2, <1>3, NextArg
<1>5. Position'
  BY <1>1, <1>4, PositionKept
<1>6. ASSUME NEW o, NEW keys PROVE Reads(o, keys, FALSE)
  <2>1. SeenAt(o, keys, arg - 1, member) = SeenAt(o, keys, (arg - 1) + 1, 0)
    BY <1>2, SeenWholeFile
  <2>2. SeenAt(o, keys, arg + 1, 0) = SeenAt(o, keys, arg, 0)
    BY <1>2, <1>3, SeenValue
  <2>3. ReadSoFar(o, keys)' = SeenAt(o, keys, arg + 1, 0)
    BY <1>1, SeenKept
  <2>4. QED BY <1>2, <2>1, <2>2, <2>3 DEF Reads, ReadSoFar
<1>7. QED BY <1>5, <1>6

-----------------------------------------------------------------------------
(* What a step does to the fields and flags *)

ReaderOK == Sizes /\ arg \in Nat /\ member \in Nat

\* What is read now is later than everything before.
LEMMA HereIsLatest ==
  ASSUME ReaderOK, NEW o, NEW keys
  PROVE  Latest(ReadSoFar(o, keys) \cup {Here}) = Here
<1> DEFINE P == ReadSoFar(o, keys) \cup {Here}
<1>1. CASE at = "json"
  <2>1. Here = <<arg - 1, member>> /\ arg - 1 \in Int /\ member \in Nat
    BY <1>1 DEF Here, ReaderOK
  <2>2. ASSUME NEW p \in ReadSoFar(o, keys)
        PROVE  /\ p[1] \in Int /\ p[2] \in Int
               /\ p[1] < arg - 1 \/ (p[1] = arg - 1 /\ p[2] < member)
    BY <1>1, <2>2, PlaceIs DEF ReadSoFar, SeenAt, ReaderOK
  <2>3. \A p \in P : /\ p[1] \in Int /\ p[2] \in Int
                     /\ p[1] < Here[1] \/ (p[1] = Here[1] /\ p[2] <= Here[2])
                     /\ p[1] = Here[1] /\ p[2] = Here[2] => p = Here
    BY <2>1, <2>2
  <2>4. Here \in P /\ Here[1] \in Int /\ Here[2] \in Int
    BY <2>1
  <2> HIDE DEF P
  <2>5. Latest(P) = Here
    BY <2>3, <2>4, LatestIs
  <2>6. QED BY <2>5 DEF P
<1>2. CASE at # "json"
  <2>1. Here = <<arg, 0>> /\ arg \in Int
    BY <1>2 DEF Here, ReaderOK
  <2>2. ASSUME NEW p \in ReadSoFar(o, keys)
        PROVE  /\ p[1] \in Int /\ p[2] \in Int
               /\ p[1] < arg \/ (p[1] = arg /\ p[2] < 0)
    BY <1>2, <2>2, PlaceIs DEF ReadSoFar, SeenAt, ReaderOK
  <2>3. \A p \in P : /\ p[1] \in Int /\ p[2] \in Int
                     /\ p[1] < Here[1] \/ (p[1] = Here[1] /\ p[2] <= Here[2])
                     /\ p[1] = Here[1] /\ p[2] = Here[2] => p = Here
    BY <2>1, <2>2
  <2>4. Here \in P /\ Here[1] \in Int /\ Here[2] \in Int
    BY <2>1
  <2> HIDE DEF P
  <2>5. Latest(P) = Here
    BY <2>3, <2>4, LatestIs
  <2>6. QED BY <2>5 DEF P
<1>3. QED BY <1>1, <1>2

\* A field that is not set keeps what it was told.
LEMMA FieldKept ==
  ASSUME NEW f \in Fields, UNCHANGED <<argv, file>>, info'[f] = info[f],
         Told(f, ReadFor(f)), ReadFor(f)' = ReadFor(f)
  PROVE  Told(f, ReadFor(f))'
BY DEF Told, TextAt, NULL

\* A field that is set is told what is read now.
LEMMA FieldSet ==
  ASSUME ReaderOK, NEW f \in Fields, UNCHANGED <<argv, file>>, ReadFor(f)' = ReadFor(f) \cup {Here},
         info'[f].block # 0, info'[f].text = TextAt(Here),
         f \notin NumberFields => info'[f].text \in STRING
  PROVE  Told(f, ReadFor(f))'
<1>1. Latest(ReadFor(f)') = Here
  BY HereIsLatest DEF ReadFor
<1>2. ReadFor(f)' # {}
  OBVIOUS
<1>3. info'[f].text = IF Here[2] = 0 THEN argv'[Here[1] + 1]
                      ELSE LET value == file'.members[Here[2]].value
                           IN IF "string" \in DOMAIN value THEN value.string ELSE ToString(value.number)
  BY DEF TextAt
<1>4. QED BY <1>1, <1>2, <1>3 DEF Told, TextAt

LEMMA SaidKept ==
  ASSUME UNCHANGED file, NEW o, NEW keys, ReadSoFar(o, keys)' = ReadSoFar(o, keys)
  PROVE  Said(ReadSoFar(o, keys))' = Said(ReadSoFar(o, keys))
BY DEF Said

LEMMA SaidNow ==
  ASSUME ReaderOK, UNCHANGED file, NEW o, NEW keys,
         ReadSoFar(o, keys)' = ReadSoFar(o, keys) \cup {Here}
  PROVE  Said(ReadSoFar(o, keys))' = IF Here[2] = 0 THEN TRUE ELSE file.members[Here[2]].value.bool
<1>1. Latest(ReadSoFar(o, keys)') = Here
  BY HereIsLatest
<1>2. ReadSoFar(o, keys)' # {}
  OBVIOUS
<1>3. QED BY <1>1, <1>2 DEF Said

-----------------------------------------------------------------------------
(* Reading on keeps what was told true *)

AsTold == Position /\ FieldsTold /\ FlagsTold

\* The inductive invariant: what the reader was told, and what that was in the end.
SInv == (Loading => AsTold) /\ LastSettingWins

LEMMA ReaderIsOK == InputOK /\ ControlOK => ReaderOK
<1> SUFFICES ASSUME InputOK, ControlOK PROVE ReaderOK
  OBVIOUS
<1>1. Len(argv) \in Nat /\ Len(file.members) \in Nat
  BY DEF InputOK
<1>2. arg \in Nat /\ member \in Nat
  BY <1>1 DEF ControlOK
<1>3. QED BY <1>1, <1>2 DEF ReaderOK, Sizes

\* No option and no key sets both a field and a flag.
LEMMA FlagsAreNoFields ==
  /\ DOMAIN Option \cap Keyword = {}
  /\ \A f \in Fields : KeysOf(f) \subseteq DOMAIN Key
  /\ "no_udp" \notin DOMAIN Key /\ "fast_open" \notin DOMAIN Key /\ "extra_opts" \notin DOMAIN Key
BY DEF Option, Keyword, Key, KeysOf

LEMMA FieldsKept ==
  ASSUME UNCHANGED <<argv, file, info>>, FieldsTold, \A f \in Fields : ReadFor(f)' = ReadFor(f)
  PROVE  FieldsTold'
<1>1. \A f \in Fields : Told(f, ReadFor(f))'
  <2> TAKE f \in Fields
  <2>1. Told(f, ReadFor(f)) /\ ReadFor(f)' = ReadFor(f) /\ info'[f] = info[f]
    BY DEF FieldsTold
  <2>2. QED BY <2>1, FieldKept
<1>2. QED BY <1>1 DEF FieldsTold

LEMMA OneFieldSet ==
  ASSUME ReaderOK, UNCHANGED <<argv, file>>, FieldsTold, PointersOK, made \in Nat,
         NEW f \in Fields, NEW s, Set(f, s), s = TextAt(Here), f \notin NumberFields => s \in STRING,
         ReadFor(f)' = ReadFor(f) \cup {Here},
         \A g \in Fields : g # f => ReadFor(g)' = ReadFor(g)
  PROVE  FieldsTold'
<1>1. info' = [info EXCEPT ![f] = [text |-> s, block |-> made + 1]]
  BY DEF Set
<1>2. info = [g \in Fields |-> info[g]]
  BY DEF PointersOK
<1>3. /\ \A g \in Fields : g # f => info'[g] = info[g]
      /\ info'[f] = [text |-> s, block |-> made + 1]
  BY <1>1, <1>2
<1>4. info'[f].text = s /\ info'[f].block # 0
  BY <1>3
<1>5. Told(f, ReadFor(f))'
  BY <1>4, FieldSet
<1>6. \A g \in Fields : Told(g, ReadFor(g))'
  <2> TAKE g \in Fields
  <2>1. CASE g = f
    BY <1>5, <2>1
  <2>2. CASE g # f
    <3>1. Told(g, ReadFor(g)) /\ ReadFor(g)' = ReadFor(g) /\ info'[g] = info[g]
      BY <1>3, <2>2 DEF FieldsTold
    <3>2. QED BY <3>1, FieldKept
  <2>3. QED BY <2>1, <2>2
<1>7. QED BY <1>6 DEF FieldsTold

LEMMA FlagsKept ==
  ASSUME UNCHANGED <<argv, file, is_udp_proxy, fastopen>>, FlagsTold,
         ReadSoFar("--fast-open", {"fast_open"})' = ReadSoFar("--fast-open", {"fast_open"}),
         ReadSoFar("--no-udp", {"no_udp"})' = ReadSoFar("--no-udp", {"no_udp"})
  PROVE  FlagsTold'
BY SaidKept DEF FlagsTold

\* Options without a value.
LEMMA PlainOptionsTold ==
  ASSUME InputOK, ControlOK, AsTold, Debug \/ FastOpen \/ NoUdp \/ Unknown
  PROVE  AsTold'
<1>1. ReaderOK /\ Sizes /\ Position /\ FieldsTold /\ FlagsTold
  BY ReaderIsOK DEF AsTold, ReaderOK
<1>2. /\ at = "args" /\ arg <= Len(argv) /\ argv[arg] \notin DOMAIN Option \cup {"-c"}
      /\ Goto("args", arg + 1, 1) /\ UNCHANGED info
  BY FlagsAreNoFields DEF Debug, FastOpen, NoUdp, Unknown, AtArg, Keyword
<1>3. arg \in 1 .. Len(argv)
  BY <1>1, <1>2 DEF ControlOK, ReaderOK, Sizes
<1>4. UNCHANGED <<argv, file>> /\ Here = <<arg, 0>>
  BY <1>2 DEF Goto, Here
<1>5. Position' /\ \A o, keys : Reads(o, keys, argv[arg] = o)
  BY <1>1, <1>2, <1>3, PassOption
<1>6. \A o, keys : argv[arg] # o => ReadSoFar(o, keys)' = ReadSoFar(o, keys)
  BY <1>5 DEF Reads
<1>7. FieldsTold'
  <2>1. \A f \in Fields : argv[arg] # OptionOf(f)
    BY <1>2, OptionOfField
  <2>2. \A f \in Fields : ReadFor(f)' = ReadFor(f)
    BY <1>6, <2>1 DEF ReadFor
  <2>3. QED BY <1>1, <1>2, <1>4, <2>2, FieldsKept
<1>8. FlagsTold'
  <2>1. CASE Debug \/ Unknown
    <3>1. UNCHANGED flags /\ argv[arg] # "--fast-open" /\ argv[arg] # "--no-udp"
      BY <2>1 DEF Debug, Unknown, AtArg, Keyword
    <3>2. QED BY <1>1, <1>4, <1>6, <3>1, FlagsKept DEF flags
  <2>2. CASE FastOpen
    <3>1. argv[arg] = "--fast-open" /\ fastopen' = TRUE /\ UNCHANGED is_udp_proxy
      BY <2>2 DEF FastOpen, AtArg
    <3>2. ReadSoFar("--fast-open", {"fast_open"})' = ReadSoFar("--fast-open", {"fast_open"}) \cup {Here}
      BY <1>5, <3>1 DEF Reads
    <3>3. Said(ReadSoFar("--fast-open", {"fast_open"}))' = TRUE
      BY <1>1, <1>4, <3>2, SaidNow
    <3>4. Said(ReadSoFar("--no-udp", {"no_udp"}))' = Said(ReadSoFar("--no-udp", {"no_udp"}))
      BY <1>4, <1>6, <3>1, SaidKept
    <3>5. QED BY <1>1, <3>1, <3>3, <3>4 DEF FlagsTold
  <2>3. CASE NoUdp
    <3>1. argv[arg] = "--no-udp" /\ is_udp_proxy' = FALSE /\ UNCHANGED fastopen
      BY <2>3 DEF NoUdp, AtArg
    <3>2. ReadSoFar("--no-udp", {"no_udp"})' = ReadSoFar("--no-udp", {"no_udp"}) \cup {Here}
      BY <1>5, <3>1 DEF Reads
    <3>3. Said(ReadSoFar("--no-udp", {"no_udp"}))' = TRUE
      BY <1>1, <1>4, <3>2, SaidNow
    <3>4. Said(ReadSoFar("--fast-open", {"fast_open"}))' = Said(ReadSoFar("--fast-open", {"fast_open"}))
      BY <1>4, <1>6, <3>1, SaidKept
    <3>5. QED BY <1>1, <3>1, <3>3, <3>4 DEF FlagsTold
  <2>4. QED BY <1>2, <2>1, <2>2, <2>3
<1>9. QED BY <1>5, <1>7, <1>8 DEF AsTold

\* Options with a value.
LEMMA AddFieldTold ==
  ASSUME InputOK, ControlOK, PointersOK, made \in Nat, AsTold, NEW o \in DOMAIN Option, AddField(o)
  PROVE  AsTold' \/ at' = "fatal"
<1> SUFFICES ASSUME ~Missing PROVE AsTold'
  BY DEF AddField, Exit
<1>1. ReaderOK /\ Sizes /\ Position /\ FieldsTold /\ FlagsTold
  BY ReaderIsOK DEF AsTold, ReaderOK
<1>2. /\ at = "args" /\ arg <= Len(argv) /\ argv[arg] = o /\ arg # Len(argv)
      /\ Set(Option[o], argv[arg + 1]) /\ Goto("args", arg + 2, 1) /\ UNCHANGED flags
  BY DEF AddField, AtArg, Missing
<1>3. arg \in 1 .. Len(argv) /\ arg + 1 \in 1 .. Len(argv)
  BY <1>1, <1>2 DEF ControlOK, ReaderOK, Sizes
<1>4. UNCHANGED <<argv, file>> /\ Here = <<arg, 0>>
  BY <1>2 DEF Goto, Here
<1>5. Position' /\ \A q, keys : Reads(q, keys, argv[arg] = q)
  BY <1>1, <1>2, <1>3, PassValueOption
<1>6. Option[o] \in Fields /\ OptionOf(Option[o]) = o
  BY TablesNameFields, OptionOfField
<1>7. ReadFor(Option[o])' = ReadFor(Option[o]) \cup {Here}
  BY <1>2, <1>5, <1>6 DEF Reads, ReadFor
<1>8. \A g \in Fields : g # Option[o] => ReadFor(g)' = ReadFor(g)
  <2>1. \A g \in Fields : g # Option[o] => OptionOf(g) # o
    BY OptionOfField
  <2>2. QED BY <1>2, <1>5, <2>1 DEF Reads, ReadFor
<1>9. argv[arg + 1] = TextAt(Here) /\ argv[arg + 1] \in STRING
  BY <1>3, <1>4 DEF TextAt, InputOK
<1>10. FieldsTold'
  BY <1>1, <1>2, <1>4, <1>6, <1>7, <1>8, <1>9, OneFieldSet
<1>11. FlagsTold'
  <2>1. argv[arg] # "--fast-open" /\ argv[arg] # "--no-udp"
    BY <1>2, FlagsAreNoFields DEF Keyword
  <2>2. QED BY <1>1, <1>2, <1>4, <1>5, <2>1, FlagsKept DEF Reads, flags
<1>12. QED BY <1>5, <1>10, <1>11 DEF AsTold

\* Into the file, and out of it.
LEMMA FileEndsTold ==
  ASSUME InputOK, ControlOK, AsTold, LoadFile \/ EndOfFile
  PROVE  AsTold' \/ at' \in {"fatal", "crashed"}
<1>1. ReaderOK /\ Sizes /\ Position /\ FieldsTold /\ FlagsTold
  BY ReaderIsOK DEF AsTold, ReaderOK
<1>2. /\ OptionOf("server_addr") # "-c"
      /\ \A f \in Fields : OptionOf(f) # "-c"
  BY OptionOfField, FlagsAreNoFields, FieldsAre DEF Keyword
<1>3. ASSUME UNCHANGED <<argv, file, info, flags>>, Position', \A o, keys : o # "-c" => Reads(o, keys, FALSE)
      PROVE  AsTold'
  <2>1. FieldsTold'
    BY <1>1, <1>2, <1>3, FieldsKept DEF Reads, ReadFor
  <2>2. FlagsTold'
    BY <1>1, <1>3, FlagsKept DEF Reads, flags
  <2>3. QED BY <1>3, <2>1, <2>2 DEF AsTold
<1>4. CASE LoadFile
  <2>1. \/ at' \in {"fatal", "crashed"}
        \/ /\ at = "args" /\ arg <= Len(argv) /\ argv[arg] = "-c" /\ arg # Len(argv)
           /\ Goto("json", arg + 1, 1) /\ UNCHANGED <<info, flags>>
    BY <1>4 DEF LoadFile, AtArg, Missing, Read, Exit
  <2>2. arg <= Len(argv) => arg \in 1 .. Len(argv)
    BY <1>1 DEF ControlOK, ReaderOK, Sizes
  <2>3. QED BY <1>1, <1>3, <2>1, <2>2, EnterFile DEF Goto
<1>5. CASE EndOfFile
  <2>1. /\ at = "json" /\ member > Len(file.members)
        /\ Goto("args", arg + 1, 1) /\ UNCHANGED <<info, flags>>
    BY <1>5 DEF EndOfFile
  <2>2. arg \in 1 .. Len(argv) /\ member \in Nat
    BY <1>1, <2>1 DEF ControlOK, ReaderOK, Sizes
  <2>3. QED BY <1>1, <1>3, <2>1, <2>2, LeaveFile DEF Goto
<1>6. QED BY <1>4, <1>5

\* What a member holds where json_decode reads a string.
LEMMA StringMembers ==
  ASSUME InputOK, NEW j \in 1 .. Len(file.members), "string" \in DOMAIN file.members[j].value
  PROVE  file.members[j].value.string \in STRING
<1> DEFINE v == file.members[j].value
           m == file.members
           Members == [key : STRING, value : Values]
<1>1. v \in Values
  <2>1. m \in Seq(Members) /\ j \in 1 .. Len(m)
    BY DEF InputOK
  <2> HIDE DEF m, Members
  <2>2. m[j] \in Members
    BY <2>1
  <2>3. m[j].value \in Values
    BY <2>2 DEF Members
  <2>4. QED BY <2>3 DEF m
<1>2. "string" \in DOMAIN v
  OBVIOUS
<1> HIDE DEF v
<1>3. v \in [string : STRING]
  BY <1>1, <1>2 DEF Values
<1>4. v.string \in STRING
  BY <1>3
<1>5. QED BY <1>4 DEF v

LEMMA AtMember ==
  ASSUME InputOK, ControlOK, AsTold, at = "json", member <= Len(file.members),
         Goto("json", arg, member + 1)
  PROVE  /\ ReaderOK /\ Position /\ FieldsTold /\ FlagsTold /\ member \in 1 .. Len(file.members)
         /\ UNCHANGED <<argv, file>> /\ Here = <<arg - 1, member>>
         /\ Position' /\ \A o, keys : Reads(o, keys, file.members[member].key \in keys)
<1>1. ReaderOK /\ Sizes /\ Position /\ FieldsTold /\ FlagsTold
  BY ReaderIsOK DEF AsTold, ReaderOK
<1>2. arg \in 1 .. Len(argv) /\ member \in 1 .. Len(file.members)
  BY <1>1 DEF ControlOK, ReaderOK, Sizes
<1>3. Position' /\ \A o, keys : Reads(o, keys, file.members[member].key \in keys)
  BY <1>1, <1>2, PassMember
<1>4. QED BY <1>1, <1>2, <1>3 DEF Goto, Here

\* Keys that set no field.
LEMMA PlainMembersTold ==
  ASSUME InputOK, ControlOK, AsTold, SetNoUdp \/ SetFastOpen \/ ExtraOpts
  PROVE  AsTold' \/ at' \in {"fatal", "crashed"}
<1> DEFINE key == file.members[member].key
           flag == file.members[member].value.bool
<1>1. \/ at' \in {"fatal", "crashed"}
      \/ /\ at = "json" /\ member <= Len(file.members) /\ Goto("json", arg, member + 1) /\ UNCHANGED info
         /\ \/ key = "no_udp" /\ is_udp_proxy' = ~flag /\ UNCHANGED fastopen
            \/ key = "fast_open" /\ fastopen' = flag /\ UNCHANGED is_udp_proxy
            \/ key = "extra_opts" /\ UNCHANGED flags
  <2>1. CASE SetNoUdp \/ SetFastOpen
    BY <2>1 DEF SetNoUdp, SetFastOpen, AtKey, Exit, Value
  <2>2. CASE ExtraOpts
    BY <2>2 DEF ExtraOpts, AtKey, Exit
  <2>3. QED BY <2>1, <2>2
<1> SUFFICES ASSUME at' \notin {"fatal", "crashed"} PROVE AsTold'
  OBVIOUS
<1>2. /\ ReaderOK /\ Position /\ FieldsTold /\ FlagsTold /\ member \in 1 .. Len(file.members)
      /\ UNCHANGED <<argv, file>> /\ Here = <<arg - 1, member>>
      /\ Position' /\ \A o, keys : Reads(o, keys, key \in keys)
  BY <1>1, AtMember
<1>3. FieldsTold'
  <2>1. \A f \in Fields : key \notin KeysOf(f)
    BY <1>1, FlagsAreNoFields
  <2>2. \A f \in Fields : ReadFor(f)' = ReadFor(f)
    BY <1>2, <2>1 DEF Reads, ReadFor
  <2>3. QED BY <1>1, <1>2, <2>2, FieldsKept
<1>4. Here[2] = member /\ member # 0
  BY <1>2
<1>5. FlagsTold'
  <2> DEFINE Fast == ReadSoFar("--fast-open", {"fast_open"})
             NoU  == ReadSoFar("--no-udp", {"no_udp"})
  <2>1. /\ Reads("--fast-open", {"fast_open"}, key \in {"fast_open"})
        /\ Reads("--no-udp", {"no_udp"}, key \in {"no_udp"})
    BY <1>2
  <2>2. CASE key = "no_udp" /\ is_udp_proxy' = ~flag /\ UNCHANGED fastopen
    <3>1. NoU' = NoU \cup {Here} /\ Fast' = Fast
      BY <2>1, <2>2 DEF Reads
    <3>2. Said(NoU)' = flag
      BY <1>2, <1>4, <3>1, SaidNow
    <3>3. Said(Fast)' = Said(Fast)
      BY <1>2, <3>1, SaidKept
    <3>4. QED BY <1>2, <2>2, <3>2, <3>3, Zenon DEF FlagsTold
  <2>3. CASE key = "fast_open" /\ fastopen' = flag /\ UNCHANGED is_udp_proxy
    <3>1. NoU' = NoU /\ Fast' = Fast \cup {Here}
      BY <2>1, <2>3 DEF Reads
    <3>2. Said(Fast)' = flag
      BY <1>2, <1>4, <3>1, SaidNow
    <3>3. Said(NoU)' = Said(NoU)
      BY <1>2, <3>1, SaidKept
    <3>4. QED BY <1>2, <2>3, <3>2, <3>3, Zenon DEF FlagsTold
  <2>4. CASE key = "extra_opts" /\ UNCHANGED flags
    <3>1. NoU' = NoU /\ Fast' = Fast
      BY <2>1, <2>4 DEF Reads
    <3>2. QED BY <1>2, <2>4, <3>1, FlagsKept DEF flags
  <2>5. QED BY <1>1, <2>2, <2>3, <2>4
<1>6. QED BY <1>2, <1>3, <1>5 DEF AsTold

\* Keys that set a field.
LEMMA SetMemberTold ==
  ASSUME InputOK, ControlOK, PointersOK, made \in Nat, AsTold, NEW k \in DOMAIN Key, SetMember(k)
  PROVE  AsTold' \/ at' = "fatal"
<1> DEFINE value == file.members[member].value
           text  == IF "string" \in DOMAIN value THEN value.string ELSE ToString(value.number)
<1>1. \/ at' = "fatal"
      \/ /\ at = "json" /\ member <= Len(file.members) /\ file.members[member].key = k
         /\ Set(Key[k], text) /\ Goto("json", arg, member + 1) /\ UNCHANGED flags
         /\ "string" \in DOMAIN value \/ Key[k] \in NumberFields
  BY DEF SetMember, AtKey, Exit, Value, Is
<1> SUFFICES ASSUME at' # "fatal" PROVE AsTold'
  OBVIOUS
<1>2. /\ ReaderOK /\ Position /\ FieldsTold /\ FlagsTold /\ member \in 1 .. Len(file.members)
      /\ UNCHANGED <<argv, file>> /\ Here = <<arg - 1, member>>
      /\ Position' /\ \A o, keys : Reads(o, keys, k \in keys)
  BY <1>1, AtMember
<1>3. Key[k] \in Fields /\ \A f \in Fields : k \in KeysOf(f) <=> f = Key[k]
  BY TablesNameFields DEF KeysOf
<1>4. /\ ReadFor(Key[k])' = ReadFor(Key[k]) \cup {Here}
      /\ \A f \in Fields : f # Key[k] => ReadFor(f)' = ReadFor(f)
  BY <1>2, <1>3 DEF Reads, ReadFor
<1>5. text = TextAt(Here)
  <2>1. Here[2] = member /\ member # 0
    BY <1>2
  <2>2. QED BY <2>1 DEF TextAt
<1>6. Key[k] \notin NumberFields => text \in STRING
  BY <1>1, <1>2, StringMembers
<1> HIDE DEF text
<1>7. FieldsTold'
  BY <1>1, <1>2, <1>3, <1>4, <1>5, <1>6, OneFieldSet
<1>8. FlagsTold'
  <2>1. k \notin {"fast_open"} /\ k \notin {"no_udp"}
    BY FlagsAreNoFields
  <2>2. QED BY <1>1, <1>2, <2>1, FlagsKept DEF Reads, flags
<1>9. QED BY <1>2, <1>7, <1>8 DEF AsTold

-----------------------------------------------------------------------------
(* The end: what was told is what was given *)

\* Behind the last argument, every place has been read.
LEMMA AllRead ==
  ASSUME ReaderOK, at = "args", arg > Len(argv), NEW o, NEW keys
  PROVE  ReadSoFar(o, keys) = Places(o, keys)
<1>1. ASSUME NEW p \in Places(o, keys) PROVE p[1] < arg
  BY PlaceIs DEF ReaderOK, Sizes
<1>2. QED BY <1>1 DEF ReadSoFar, SeenAt

LEMMA ToldIsGiven ==
  ASSUME ReaderOK, AsTold, at = "args", arg > Len(argv)
  PROVE  /\ \A f \in Fields : info[f].text = Given(f)
         /\ \A f \in Fields : info[f] = NULL \/ (info[f] # NULL /\ (f \notin NumberFields => Given(f) \in STRING))
         /\ fastopen = GivenFlag("--fast-open", "fast_open")
         /\ is_udp_proxy = ~GivenFlag("--no-udp", "no_udp")
<1>1. \A f \in Fields : ReadFor(f) = Places(OptionOf(f), {k \in DOMAIN Key : Key[k] = f})
  BY AllRead DEF ReadFor, KeysOf
<1>2. ASSUME NEW f \in Fields
      PROVE  /\ info[f].text = Given(f)
             /\ info[f] = NULL \/ (info[f] # NULL /\ (f \notin NumberFields => Given(f) \in STRING))
  <2>1. Told(f, ReadFor(f))
    BY DEF AsTold, FieldsTold
  <2>2. Given(f) = IF ReadFor(f) = {} THEN NULL.text ELSE TextAt(Latest(ReadFor(f)))
    BY <1>1 DEF Given, TextAt
  <2>3. CASE ReadFor(f) = {}
    BY <2>1, <2>2, <2>3 DEF Told
  <2>4. CASE ReadFor(f) # {}
    <3>1. info[f].text = Given(f) /\ info[f].block # 0 /\ (f \notin NumberFields => info[f].text \in STRING)
      BY <2>1, <2>2, <2>4 DEF Told
    <3>2. info[f] # NULL
      BY <3>1 DEF NULL
    <3>3. QED BY <3>1, <3>2
  <2>5. QED BY <2>3, <2>4
<1>3. fastopen = GivenFlag("--fast-open", "fast_open") /\ is_udp_proxy = ~GivenFlag("--no-udp", "no_udp")
  <2>1. \A o, keys : ReadSoFar(o, keys) = Places(o, keys)
    BY AllRead
  <2>2. /\ fastopen = Said(Places("--fast-open", {"fast_open"}))
        /\ is_udp_proxy = ~Said(Places("--no-udp", {"no_udp"}))
    BY <2>1, Zenon DEF AsTold, FlagsTold
  <2>3. QED BY <2>2, Zenon DEF Said, GivenFlag
<1>4. QED BY <1>2, <1>3

LEMMA GivenIsKept ==
  ASSUME UNCHANGED <<argv, file>>
  PROVE  /\ \A f : Given(f)' = Given(f)
         /\ \A o, key : GivenFlag(o, key)' = GivenFlag(o, key)
BY DEF Given, GivenFlag, Places, ArgIsOption, NULL

LEMMA DefaultIsGiven ==
  ASSUME InputOK, ControlOK, PointersOK, AsTold, Default
  PROVE  LastSettingWins'
<1>1. /\ at = "args" /\ arg > Len(argv) /\ at' = "loaded" /\ UNCHANGED <<argv, file, fastopen, is_udp_proxy>>
      /\ info' = IF info["server_addr"] = NULL
                 THEN [info EXCEPT !["server_addr"] = Literal("127.0.0.1")] ELSE info
  BY DEF Default, Goto, flags
<1>2. /\ \A f \in Fields : info[f].text = Given(f)
      /\ \A f \in Fields : info[f] = NULL \/ (info[f] # NULL /\ (f \notin NumberFields => Given(f) \in STRING))
      /\ fastopen = GivenFlag("--fast-open", "fast_open")
      /\ is_udp_proxy = ~GivenFlag("--no-udp", "no_udp")
  BY <1>1, ReaderIsOK, ToldIsGiven
<1>3. /\ \A f \in Fields : f # "server_addr" => info'[f] = info[f]
      /\ info'["server_addr"] = IF info["server_addr"] = NULL THEN Literal("127.0.0.1") ELSE info["server_addr"]
  <2>1. info = [f \in Fields |-> info[f]] /\ "server_addr" \in Fields
    BY FieldsAre DEF PointersOK
  <2>2. QED BY <1>1, <2>1
<1>4. info'["server_addr"].text = IF Given("server_addr") = NULL.text THEN "127.0.0.1" ELSE Given("server_addr")
  <2>1. "server_addr" \in Fields /\ "server_addr" \notin NumberFields /\ NULL.text \notin STRING
    BY FieldsAre, NoTextAssumption DEF NumberFields, NULL
  <2>2. QED BY <1>2, <1>3, <2>1 DEF Literal
<1>5. \A f \in Fields : f # "server_addr" => info'[f].text = Given(f)
  BY <1>2, <1>3
<1>6. "server_port" \in Fields /\ "server_port" # "server_addr"
  BY FieldsAre
<1>7. NULL.text' = NULL.text
  BY DEF NULL
<1>8. QED BY <1>1, <1>2, <1>4, <1>5, <1>6, <1>7, GivenIsKept DEF LastSettingWins

-----------------------------------------------------------------------------
(* The inductive invariant of the settings *)

LEMMA NothingToldYet == IInv /\ Init => SInv
<1> SUFFICES ASSUME IInv, Init PROVE SInv
  OBVIOUS
<1>1. ReaderOK /\ Sizes
  BY ReaderIsOK DEF IInv, ReaderOK
<1>2. at = "init" /\ arg = 1 /\ is_udp_proxy = TRUE /\ fastopen = FALSE /\ \A f \in Fields : info[f] = NULL
  BY DEF Init, LoadInit, InitInfo
<1>3. \A o, keys : ReadSoFar(o, keys) = {}
  BY <1>1, <1>2, SeenEverything DEF ReadSoFar
<1>4. AsTold
  <2>1. Position
    BY <1>2 DEF Position
  <2>2. FieldsTold
    BY <1>2, <1>3 DEF FieldsTold, Told, ReadFor
  <2>3. FlagsTold
    BY <1>2, <1>3 DEF FlagsTold, Said
  <2>4. QED BY <2>1, <2>2, <2>3 DEF AsTold
<1>5. QED BY <1>2, <1>4 DEF SInv, LastSettingWins, Running

LEMMA BeginTold ==
  ASSUME InputOK, ControlOK, AsTold, Help \/ Begin
  PROVE  AsTold' \/ at' = "help"
<1>1. ReaderOK /\ Sizes /\ Position /\ FieldsTold /\ FlagsTold
  BY ReaderIsOK DEF AsTold, ReaderOK
<1> SUFFICES ASSUME Begin PROVE AsTold'
  BY DEF Help, Exit
<1>2. /\ at = "init" /\ argv # <<>> /\ arg = 1
      /\ UNCHANGED <<argv, file, info, flags>> /\ at' = "args" /\ arg' = 1
  BY <1>1 DEF Begin, Goto, Position
<1>3. Position'
  <2>1. ArgIsOption[1]
    <3>1. Len(argv) >= 1
      BY <1>1, <1>2 DEF InputOK, Sizes
    <3>2. QED BY <1>1, <3>1, FirstArg
  <2>2. QED BY <1>2, <2>1, PositionKept
<1>4. \A o, keys : ReadSoFar(o, keys)' = ReadSoFar(o, keys)
  BY <1>2, SeenKept DEF ReadSoFar
<1>5. FieldsTold'
  BY <1>1, <1>2, <1>4, FieldsKept DEF ReadFor
<1>6. FlagsTold'
  BY <1>1, <1>2, <1>4, FlagsKept DEF flags
<1>7. QED BY <1>3, <1>5, <1>6 DEF AsTold

\* The steps after loading leave alone what the property speaks of, but for the
\* server's address and port, which the plugin takes over.
LEMMA LaunchKeepsSettings ==
  ASSUME IInv, LastSettingWins, LoadPlugin \/ NoPlugin \/ Command \/ Udp
  PROVE  LastSettingWins'
<1>1. /\ at \in Running /\ at' # "loaded" /\ UNCHANGED <<argv, file, is_udp_proxy, fastopen>>
      /\ \A f \in Fields \ {"server_addr", "server_port"} : info'[f] = info[f]
  <2>1. CASE LoadPlugin
    <3>1. info = [f \in Fields |-> info[f]]
      BY DEF IInv, PointersOK
    <3>2. /\ at = "loaded" /\ at' = "with_plugin" /\ UNCHANGED <<argv, file, flags>>
          /\ info' = [info EXCEPT !["server_addr"] = local'.host, !["server_port"] = local'.port]
      BY <2>1 DEF LoadPlugin
    <3>3. \A f \in Fields \ {"server_addr", "server_port"} : info'[f] = info[f]
      BY <3>1, <3>2
    <3>4. QED BY <3>2, <3>3 DEF Running, flags
  <2>2. CASE NoPlugin \/ Command \/ Udp
    BY <2>2 DEF NoPlugin, Command, Udp, Running, flags
  <2>3. QED BY <2>1, <2>2
<1>2. QED BY <1>1, GivenIsKept DEF LastSettingWins

LEMMA ReadOn ==
  ASSUME IInv, AsTold, Load
  PROVE  \/ AsTold' /\ Loading'
         \/ LastSettingWins' /\ at' = "loaded"
         \/ at' \in {"help", "fatal", "crashed"}
<1>1. InputOK /\ ControlOK /\ PointersOK /\ made \in Nat
  BY DEF IInv, MemoryOK
<1>2. CASE Help \/ Begin
  <2>1. at' \in {"args", "help"}
    BY <1>2 DEF Help, Begin, Exit, Goto
  <2>2. QED BY <1>1, <1>2, <2>1, BeginTold DEF Loading
<1>3. CASE Debug \/ FastOpen \/ NoUdp \/ Unknown
  BY <1>1, <1>3, PlainOptionsTold DEF Debug, FastOpen, NoUdp, Unknown, Goto, Loading
<1>4. CASE LoadFile \/ EndOfFile
  <2>1. at' \in {"args", "json", "fatal", "crashed"}
    BY <1>4 DEF LoadFile, EndOfFile, Read, Goto, Exit
  <2>2. QED BY <1>1, <1>4, <2>1, FileEndsTold DEF Loading
<1>5. ASSUME NEW o \in DOMAIN Option, AddField(o) PROVE (AsTold' /\ Loading') \/ at' = "fatal"
  <2>1. at' \in {"args", "fatal"}
    BY <1>5 DEF AddField, Goto, Exit
  <2>2. QED BY <1>1, <1>5, <2>1, AddFieldTold DEF Loading
<1>6. CASE SetNoUdp \/ SetFastOpen \/ ExtraOpts
  <2>1. at' \in {"json", "fatal", "crashed"}
    <3>1. CASE SetNoUdp \/ SetFastOpen
      BY <3>1 DEF SetNoUdp, SetFastOpen, Goto, Exit
    <3>2. CASE ExtraOpts
      BY <3>2 DEF ExtraOpts, Goto, Exit
    <3>3. QED BY <1>6, <3>1, <3>2
  <2>2. QED BY <1>1, <1>6, <2>1, PlainMembersTold DEF Loading
<1>7. CASE UnknownMember
  BY <1>7 DEF UnknownMember, Exit
<1>8. ASSUME NEW k \in DOMAIN Key, SetMember(k) PROVE (AsTold' /\ Loading') \/ at' = "fatal"
  <2>1. at' \in {"json", "fatal"}
    BY <1>8 DEF SetMember, Goto, Exit
  <2>2. QED BY <1>1, <1>8, <2>1, SetMemberTold DEF Loading
<1>9. CASE Default
  BY <1>1, <1>9, DefaultIsGiven DEF Default, Goto
<1>10. QED BY <1>2, <1>3, <1>4, <1>5, <1>6, <1>7, <1>8, <1>9 DEF Load

LEMMA StepKeepsSettings == IInv /\ SInv /\ [Next]_vars => SInv'
<1> SUFFICES ASSUME IInv, SInv, [Next]_vars PROVE SInv'
  OBVIOUS
<1>1. CASE LoadStep
  <2>1. Load /\ AsTold
    BY <1>1, LoadingComesFirst DEF LoadStep, SInv
  <2>2. Loading' \/ at' \in {"help", "fatal", "crashed"} => LastSettingWins'
    BY DEF Loading, LastSettingWins, Running
  <2>3. QED BY <2>1, <2>2, ReadOn DEF SInv, Loading
<1>2. CASE LoadPlugin \/ NoPlugin \/ Command \/ Udp
  BY <1>2, LaunchKeepsSettings, LoadingComesFirst DEF SInv, Loading
<1>3. CASE UNCHANGED vars
  <2>1. UNCHANGED <<argv, file, at, arg, member, info, is_udp_proxy, fastopen>>
    BY <1>3 DEF vars, loadVars, flags
  <2>2. LastSettingWins'
    BY <2>1, GivenIsKept DEF SInv, LastSettingWins
  <2>3. Loading' => AsTold'
    <3> SUFFICES ASSUME Loading' PROVE AsTold'
      OBVIOUS
    <3>1. AsTold
      BY <2>1 DEF SInv, Loading
    <3>2. \A o, keys : ReadSoFar(o, keys)' = ReadSoFar(o, keys)
      BY <2>1, SeenKept DEF ReadSoFar
    <3>3. Position'
      BY <2>1, <3>1, PositionKept DEF AsTold, Position
    <3>4. FieldsTold' /\ FlagsTold'
      BY <2>1, <3>1, <3>2, FieldsKept, FlagsKept DEF AsTold, ReadFor
    <3>5. QED BY <3>3, <3>4 DEF AsTold
  <2>4. QED BY <2>2, <2>3 DEF SInv
<1>4. QED BY <1>1, <1>2, <1>3 DEF Next

LEMMA SettingsInductive == Spec => [](IInv /\ SInv)
<1>1. Init => IInv /\ SInv
  BY Initially, NothingToldYet
<1>2. IInv /\ SInv /\ [Next]_vars => (IInv /\ SInv)'
  BY Stepwise, StepKeepsSettings
<1>3. QED BY <1>1, <1>2, PTL DEF Spec

-----------------------------------------------------------------------------
(* Theorems *)

\* For every list of arguments and every file, load_info stays inside both, and the
\* flags and pointers have the values the code gives them (load.c, common.c).
THEOREM LaunchTypeCorrect == Spec => []TypeOK
<1>1. IInv => TypeOK
  BY DEF IInv, TypeOK, ControlOK, FlagsOK, MemoryOK
<1>2. QED BY <1>1, LaunchInductive, PTL

\* However often and wherever a setting is repeated, in arguments and in the file,
\* every block has one owner: free() never gets a literal or a block that is gone,
\* and no block is lost, also when the plugin takes the server's place
\* (add_field and json_decode of load.c, load_sip003 of sip003.c).
THEOREM LaunchHeapOwned == Spec => []HeapOwned
<1>1. IInv => HeapOwned
  BY DEF IInv, MemoryOK, HeapOwned, Owners
<1>2. QED BY <1>1, LaunchInductive, PTL

\* Whatever the arguments and the file, and however often a field is set in either,
\* the bootstrap ends up with the last setting, a file counting where its -c
\* stands; and no value is taken for an option (init, load_info, json_decode).
THEOREM SettingsLastWins == Spec => []LastSettingWins
<1>1. IInv /\ SInv => LastSettingWins
  BY DEF SInv
<1>2. QED BY <1>1, SettingsInductive, PTL

=============================================================================
