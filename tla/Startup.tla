------------------------------ MODULE Startup ------------------------------
(***************************************************************************)
(* What the program does with its command line and its configuration file: *)
(* arg_option and main() of WebsocketSignalServer.cpp, up to the branch    *)
(* that main() takes.  It is sequential and decided before any thread      *)
(* starts, so it is a function of the command line and the file.  The ICE  *)
(* string is parsed in IceServer; the log filter has no effect here.       *)
(***************************************************************************)
EXTENDS Integers, Sequences, SequencesExt

CONSTANTS
  Disk,    \* path -> file, for the files that can be opened
  Number   \* word -> integer, for the words that atoi() reads as numbers

(* arg_option::get(): the word after the first such option, the last word  *)
(* of the command line being nobody's option.                              *)
get(argv, option, default) ==
  LET i == SelectInSeq(Front(argv), LAMBDA word : word = option) IN
  IF i = 0 THEN default ELSE argv[i + 1]

atoi(word) == IF word \in DOMAIN Number THEN Number[word] ELSE 0

-----------------------------------------------------------------------------
(* A file is [kind |-> "garbage"], which Reader::parse refuses,            *)
(* [kind |-> "array"], any root that is neither object nor null, whose     *)
(* isMember() throws, or an object.  The value of a member is what         *)
(* asString() or, for the port, asInt() makes of it; "outOfInt" is a       *)
(* number beyond an int.                                                   *)

NoFile == [kind |-> "none"]

ConfigFile(argv) ==
  LET path == get(argv, "-f", "config.json") IN
  IF path # "" /\ path \in DOMAIN Disk THEN Disk[path] ELSE NoFile

Has(file, key) == file.kind = "object" /\ key \in DOMAIN file.members

asStringThrows(v) == v.type \in {"arrayValue", "objectValue"}
asIntThrows(v)    == v.type \in {"stringValue", "arrayValue", "objectValue", "outOfInt"}

(* Whether reading the file throws, which nothing in main() catches.       *)
ConfigThrows(file) ==
  \/ file.kind = "array"
  \/ \E key \in {"command", "log_filter", "ice_server"} :
       Has(file, key) /\ asStringThrows(file.members[key])
  \/ Has(file, "port") /\ asIntThrows(file.members["port"])

(* The file overrides the command line.                                    *)
Setting(file, key, word) ==
  IF Has(file, key) THEN file.members[key].value ELSE word

(* Mutant: the key as config.json spells it.                               *)
Command_Misspelt(argv, file) == Setting(file, "comand", get(argv, "-c", "start"))

Command(argv, file) == Setting(file, "command", get(argv, "-c", "start"))

(* The port run() listens on: an int, taken for a uint16_t.                *)
Port(argv, file) ==
  Setting(file, "port", atoi(get(argv, "-p", "2000"))) % 65536

(* The branch of main(): "listen" in the foreground, "daemon" (listen if   *)
(* daemon() succeeds), "stop", "none" for a command it does not know, and  *)
(* "terminated" for an exception.                                          *)
Branch(argv) ==
  LET file    == ConfigFile(argv)
      command == Command(argv, file)
  IN  IF ConfigThrows(file) THEN "terminated"
      ELSE CASE command = "start" -> "listen"
             [] command \in {"daemon", "service"} -> "daemon"
             [] command = "stop" -> "stop"
             [] OTHER -> "none"
=============================================================================
