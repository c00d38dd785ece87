---------------------------- MODULE MCContainers ----------------------------
(***************************************************************************)
(* Memory files with blocks of two bytes, into which letters, line ends    *)
(* and a zero byte are written in pieces; tables of one, two and three     *)
(* chains: the first two keys are in the same chain of every table, the    *)
(* third leaves them when the table of three comes; and every text of at   *)
(* most three of the lines below, with a dictionary of one slot at first.  *)
(***************************************************************************)
EXTENDS Containers

CONSTANTS k1, k2, k3

MCChunks == {<<"x">>, <<LF>>, <<CR, LF>>, <<NUL>>, <<"x", "y", "x">>}
MCReadSizes == {3}
MCRooms == {4, 6}

MCCode == [k \in Keys |-> CASE k = k1 -> 0 [] k = k2 -> 6 [] k = k3 -> 2]
MCPrimes == <<1, 1, 2, 3>>

MCLower ==
    [s \in {"g", "G", "port", "PORT", "level", "cut"} |->
        CASE s = "G" -> "g" [] s = "PORT" -> "port" [] OTHER -> s]

MCNumber == [w \in {"80", "-1", "", "cut"} |->
                CASE w = "80" -> 80 [] w = "-1" -> -1 [] OTHER -> 0]

Lines ==
    {<<>>,
     <<Tok("sec", "G")>>,                                        \* [G]
     <<Tok("sec", "")>>,                                         \* []
     <<Tok("hash", ""), Tok("key", "port"), Tok("word", "80"), Tok("word", "80")>>,
                                                                 \* # port = 80 80
     <<Tok("key", "PORT"), Tok("word", "80"), Backslash>>,       \* PORT = 80 \
     <<Tok("key", "port"), Tok("word", "-1"), Tok("hash", "")>>, \* port = -1 #
     <<Tok("key", "level"), Tok("hash", "")>>,                   \* level = #
     <<Tok("word", "80")>>}                                      \* 80

\* level = "#", in a section and outside.
Quoted == <<Tok("key", "level"), Tok("quoted", "#")>>

MCFiles ==
    UNION {[1 .. n -> Lines] : n \in 0 .. 3} \cup
    {<<Quoted>>, <<<<Tok("sec", "G")>>, Quoted>>}

MCPrograms ==
    {[key |-> <<"g", "port">>, val |-> Null], [key |-> <<"g", "level">>, val |-> <<"80">>]}
=============================================================================
