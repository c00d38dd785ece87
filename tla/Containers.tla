----------------------------- MODULE Containers -----------------------------
(***************************************************************************)
(* A program that keeps its data in a memory file, in a hashmap, or in the *)
(* dictionary of a configuration, each with its own promise.  They share   *)
(* nothing, so one at a time is enough.                                    *)
(***************************************************************************)
EXTENDS MFile, HashMap, IniParser

VARIABLE keeps

vars == <<keeps, fileVars, hashVars, iniVars>>

\* Those that are not used start in one state each.
Init ==
    /\ keeps \in {"file", "map", "settings"}
    /\ FileInit
    /\ HashInit /\ (keeps # "map" => map.idx = 1 /\ use = "sized")
    /\ IniInit /\ (keeps # "settings" =>
                      input = [how |-> "load_mem", lines |-> <<>>, newline |-> TRUE])

UsesFile == keeps = "file" /\ FileNext /\ UNCHANGED <<keeps, hashVars, iniVars>>

UsesMap == keeps = "map" /\ HashNext /\ UNCHANGED <<keeps, fileVars, iniVars>>

UsesSettings == keeps = "settings" /\ IniNext /\ UNCHANGED <<keeps, fileVars, hashVars>>

Next == UsesFile \/ UsesMap \/ UsesSettings

Spec == Init /\ [][Next]_vars
=============================================================================
