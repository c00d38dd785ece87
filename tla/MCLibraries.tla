---------------------------- MODULE MCLibraries ----------------------------
(***************************************************************************)
(* Inputs for the libraries: all short texts over the bytes that differ,   *)
(* and a few longer ones.                                                  *)
(***************************************************************************)
EXTENDS Libraries

UpTo(n, S) == UNION {[1 .. m -> S] : m \in 0 .. n}

\* Two groups of characters, with a newline anywhere.
Quartets == <<19, 22, 5, 46, 1, 2, Pad, Pad>>
Broken == {SubSeq(Quartets, 1, i) \o <<Newline>> \o SubSeq(Quartets, i + 1, 8) : i \in 0 .. 8}

MCRaws  == UpTo(4, {0, 77, 255})
MCTexts == UpTo(4, {1, 62, Pad, Newline, Other}) \cup Broken

\* Characters of one, two, three and six bytes, whole and cut.
MCStrings ==
    UpTo(4, {"a", " ", "\n", "c3", "e3", "80"}) \cup
    {<<"fc", "80", "80", "80", "80", "80">>, <<"e3", "80", "80", "e3", "80", "80", "a">>}

MCWords == {<<"a">>, <<"b", "a", "b">>}

\* Files with empty packets, a length that is too large and a negative one.
MCForeign == {<<2, 0, 1>>, <<0, 1, 0>>, <<1, 9>>, <<-1>>}
=============================================================================
