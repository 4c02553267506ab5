----------------------------- MODULE MCService -----------------------------
(* The service, for TLC, with the configuration files it may find.         *)
EXTENDS Service

Text(word) == [type |-> "stringValue", value |-> word]
Int32(n)   == [type |-> "intValue", value |-> n]

(* src/config.json, and the same with the key that main() reads.           *)
Shipped ==
  [kind |-> "object",
   members |-> [comand |-> Text("start"), port |-> Int32(2000),
                log_filter |-> Text("info"), ice_server |-> Text("turn")]]

Corrected ==
  [kind |-> "object",
   members |-> [command |-> Text("start"), port |-> Int32(2000),
                log_filter |-> Text("info"), ice_server |-> Text("turn")]]

(* A port in quotes: asInt() throws.                                       *)
Quoted == [kind |-> "object", members |-> [port |-> Text("2000")]]

MCShippedDisk ==
  ("config.json" :> Shipped) @@ ("bad.json" :> [kind |-> "garbage"]) @@ ("quoted.json" :> Quoted)
MCCorrectedDisk == "config.json" :> Corrected

(* 74538 is 9002 as a uint16_t.                                            *)
MCNumber == ("2000" :> 2000) @@ ("74538" :> 74538)

MCStartLine ==
  {<<"wsSignalServer", "-c", "service">>,
   <<"wsSignalServer", "-c", "daemon", "-f", "none.json", "-p", "74538">>,
   <<"wsSignalServer", "-f", "quoted.json", "-c", "service">>}

MCStopLine ==
  {<<"wsSignalServer", "-c", "stop">>,
   <<"wsSignalServer", "-f", "bad.json", "-c", "stop">>}
=============================================================================
