-------------------------------- MODULE Utf8 --------------------------------
(***************************************************************************)
(* str_utf8: the first characters of a text, tidied, and its start.  A     *)
(* byte is named for what utf8_check makes of it.                          *)
(***************************************************************************)
EXTENDS Naturals, Sequences, SequencesExt

CONSTANTS
    Strings,     \* the texts, whole characters or not
    Maxima       \* values of max

Bytes == {"a", " ", "\n", "c3", "e3", "fc", "80"}

ASSUME Utf8Assumption == Strings \subseteq Seq(Bytes) /\ Maxima \subseteq Nat \ {0}

VARIABLES
    str,         \* the text
    copied       \* the last copy: from what, at most how many characters, and
                 \* what is in dest; max is 0 when there was none

utf8Vars == <<str, copied>>

\* The length of the character a byte starts: none for one from the middle of
\* a character.  What follows is not looked at.
Utf8Check(c) == CASE c \in {"a", " ", "\n"} -> 1
                  [] c = "c3" -> 2
                  [] c = "e3" -> 3
                  [] c = "fc" -> 6
                  [] c = "80" -> 0

\* Whether a character that starts at s[i] is there to its end.
CharAt(s, i) == Utf8Check(s[i]) > 0 /\ i + Utf8Check(s[i]) - 1 <= Len(s)

\* The bytes from the start of s that are characters, and their number.
Utf8Scan(s) ==
    LET turn[k \in 0 .. Len(s)] ==
            IF k = 0 THEN [i |-> 1, n |-> 0]
            ELSE LET t == turn[k - 1]
                 IN  IF t.i <= Len(s) /\ CharAt(s, t.i)
                     THEN [i |-> t.i + Utf8Check(s[t.i]), n |-> t.n + 1] ELSE t
    IN  turn[Len(s)]

Utf8Strlen(s) == Utf8Scan(s).n

\* Variant: max counts bytes.
Utf8StrncpyBytes(s, max) == SubSeq(s, 1, IF Len(s) < max THEN Len(s) ELSE max)

\* A space is written only after a character that is not one; ends of lines
\* are passed over.
Utf8Strncpy(s, max) ==
    LET turn[k \in 0 .. Len(s)] ==
            IF k = 0 THEN [i |-> 1, n |-> 0, flag |-> TRUE, out |-> <<>>]
            ELSE LET t == turn[k - 1]
                     c == s[t.i]
                 IN  CASE t.i > Len(s) \/ t.n = max -> t
                       [] t.i <= Len(s) /\ t.n < max /\ c = "\n" -> [t EXCEPT !.i = @ + 1]
                       [] t.i <= Len(s) /\ t.n < max /\ c = " " ->
                            IF t.flag THEN [t EXCEPT !.i = @ + 1]
                            ELSE [i |-> t.i + 1, n |-> t.n + 1, flag |-> TRUE,
                                  out |-> Append(t.out, " ")]
                       [] OTHER ->
                            IF CharAt(s, t.i)
                            THEN [i |-> t.i + Utf8Check(c), n |-> t.n + 1, flag |-> FALSE,
                                  out |-> t.out \o SubSeq(s, t.i, t.i + Utf8Check(c) - 1)]
                            ELSE t
    IN  turn[Len(s)].out

WideSpace == <<"e3", "80", "80">>

\* The text behind the spaces, narrow and wide, it starts with.
SpaceAt(s) == IF IsPrefix(<<" ">>, s) THEN 1 ELSE IF IsPrefix(WideSpace, s) THEN 3 ELSE 0

Utf8Ltrim(s) ==
    LET left[k \in 0 .. Len(s)] ==
            IF k = 0 THEN s
            ELSE SubSeq(left[k - 1], SpaceAt(left[k - 1]) + 1, Len(left[k - 1]))
    IN  left[Len(s)]

---------------------------------------------------------------------------

NoCopy == [of |-> <<>>, max |-> 0, out |-> <<>>]

Utf8Init == str \in Strings /\ copied = NoCopy

TrimText ==
    /\ str' = Utf8Ltrim(str)
    /\ UNCHANGED copied

CopyText(max) ==
    /\ copied' = [of |-> str, max |-> max, out |-> Utf8Strncpy(str, max)]
    /\ UNCHANGED str

Utf8Next == TrimText \/ \E max \in Maxima : CopyText(max)

---------------------------------------------------------------------------
(* Properties. *)

\* Every character is a byte that starts one and as many others as it says.
Proper(s) ==
    /\ Utf8Scan(s).i = Len(s) + 1
    /\ \A i \in 1 .. Len(s) :
        /\ s[i] = "80" => \E j \in 1 .. i - 1 : Utf8Check(s[j]) > i - j
        /\ \A d \in 1 .. Utf8Check(s[i]) - 1 : i + d <= Len(s) /\ s[i + d] = "80"

Visible(s) == SelectSeq(s, LAMBDA c : c \notin {" ", "\n"})

\* A text cut at any byte and any number of characters: a copy never ends
\* inside a character, and has at most max of them in at most six times max
\* bytes.  Of a proper text it is proper, with no end of a line, no space at the
\* start and never two in a row; it has all that is visible of the text unless
\* max is reached; and copying it again changes nothing.  A text that was
\* trimmed does not start with a space.
CopiesAreWhole ==
    LET s == copied.of
        c == copied.out
    IN  /\ str \in Seq(Bytes)
        /\ Utf8Scan(c).i = Len(c) + 1
        /\ Utf8Strlen(c) <= copied.max /\ Len(c) <= 6 * copied.max
        /\ copied.max > 0 /\ Proper(s) =>
            /\ Proper(c) /\ Utf8Strncpy(c, copied.max) = c
            /\ \A i \in 1 .. Len(c) :
                /\ c[i] # "\n"
                /\ c[i] = " " => i > 1 /\ c[i - 1] # " "
            /\ IsPrefix(Visible(c), Visible(s))
            /\ Visible(c) = Visible(s) \/ Utf8Strlen(c) = copied.max
        /\ SpaceAt(Utf8Ltrim(str)) = 0
=============================================================================
