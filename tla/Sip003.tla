-------------------------------- MODULE Sip003 --------------------------------
(***************************************************************************)
(* load_sip003() of sip003.c, load_plugin_env() and the UDP part of        *)
(* start_bootstrap() in process.c: what the loaded settings make of the    *)
(* command of shadowsocks, the environment of the plugin and the two ends  *)
(* of the UDP proxy.                                                       *)
(***************************************************************************)
EXTENDS Config

CONSTANTS
  Addresses  \* the texts that are IP addresses; other hosts are looked up

VARIABLES
  local_mode,  \* ss-bootstrap-local or ss-bootstrap-server
  remote,      \* SS_REMOTE_HOST, SS_REMOTE_PORT
  local,       \* SS_LOCAL_HOST, SS_LOCAL_PORT
  command,     \* the arguments shadowsocks is started with
  udp          \* the ends of the UDP proxy: [listen, target]

launchVars == <<local_mode, remote, local, command, udp>>

vars == <<loadVars, launchVars>>

Nowhere == [host |-> NULL, port |-> NULL]

Init ==
  /\ LoadInit
  /\ local_mode \in BOOLEAN
  /\ remote = Nowhere /\ local = Nowhere
  /\ command = <<>>
  /\ udp = [listen |-> Nowhere, target |-> Nowhere]

LoadStep == Load /\ UNCHANGED launchVars

Picked == "picked"   \* the port get_available_port returns

\* The plugin takes the server's place, at a port of its own.
LoadPlugin ==
  /\ at = "loaded" /\ info["plugin"] # NULL
  /\ local' = [host |-> Literal("127.0.0.1"), port |-> [text |-> Picked, block |-> made + 1]]
  /\ remote' = [host |-> info["server_addr"], port |-> info["server_port"]]
  /\ info' = [info EXCEPT !["server_addr"] = local'.host, !["server_port"] = local'.port]
  /\ heap' = heap \cup {made + 1} /\ made' = made + 1
  /\ at' = "with_plugin"
  /\ UNCHANGED <<argv, file, arg, member, flags, opts, corrupt, local_mode, command, udp>>

NoPlugin ==
  /\ at = "loaded" /\ info["plugin"] = NULL
  /\ at' = "without_plugin"
  /\ UNCHANGED <<argv, file, arg, member, info, flags, opts, memory, launchVars>>

\* add_sip003_arg
Arg(o) == IF info[Option[o]] = NULL THEN <<>> ELSE <<o, info[Option[o]].text>>

Settings ==
  Arg("-s") \o Arg("-b") \o Arg("-p") \o Arg("-l") \o Arg("-k") \o Arg("-m") \o Arg("-t")
    \o IF fastopen THEN <<"--fast-open">> ELSE <<>>

\* Mutant: the settings come before the options for shadowsocks.
CommandSettingsFirst ==
  /\ at \in {"with_plugin", "without_plugin"}
  /\ command' = <<IF info["shadowsocks"] = NULL THEN "default" ELSE info["shadowsocks"].text>>
                  \o Settings \o opts
  /\ at' = IF at = "with_plugin" /\ is_udp_proxy THEN "udp" ELSE "started"
  /\ UNCHANGED <<argv, file, arg, member, info, flags, opts, memory, local_mode, remote, local, udp>>

\* The bootstrap's settings come behind the options it passes on.
Command ==
  /\ at \in {"with_plugin", "without_plugin"}
  /\ command' = <<IF info["shadowsocks"] = NULL THEN "default" ELSE info["shadowsocks"].text>>
                  \o opts \o Settings
  /\ at' = IF at = "with_plugin" /\ is_udp_proxy THEN "udp" ELSE "started"
  /\ UNCHANGED <<argv, file, arg, member, info, flags, opts, memory, local_mode, remote, local, udp>>

\* dns_resolve: the first IPv4 address, or else the first IPv6 address, or none.
Resolved(host) ==
  IF host.text \in Addresses THEN {host}
  ELSE {[host EXCEPT !.text = "v4 address"], [host EXCEPT !.text = "v6 address"], NULL}

\* Mutant: the server's side is forgotten.
UdpOneWay ==
  /\ at = "udp"
  /\ \E ip \in Resolved(remote.host) :
       IF ip = NULL THEN at' = "started" /\ UNCHANGED udp
       ELSE IF remote.port = NULL THEN at' = "crashed" /\ UNCHANGED udp
       ELSE /\ at' = "started"
            /\ udp' = [listen |-> local, target |-> [remote EXCEPT !.host = ip]]
  /\ UNCHANGED <<argv, file, arg, member, info, flags, opts, memory, local_mode, remote, local, command>>

\* atoi(NULL) ends the program when no server port was given.
Udp ==
  /\ at = "udp"
  /\ \E ip \in Resolved(remote.host) :
       LET far == [remote EXCEPT !.host = ip]
       IN IF ip = NULL THEN at' = "started" /\ UNCHANGED udp
          ELSE IF remote.port = NULL THEN at' = "crashed" /\ UNCHANGED udp
          ELSE /\ at' = "started"
               /\ udp' = IF local_mode THEN [listen |-> local, target |-> far]
                                       ELSE [listen |-> far, target |-> local]
  /\ UNCHANGED <<argv, file, arg, member, info, flags, opts, memory, local_mode, remote, local, command>>

Next == LoadStep \/ LoadPlugin \/ NoPlugin \/ Command \/ Udp

Spec == Init /\ [][Next]_vars

=============================================================================
