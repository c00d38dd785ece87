------------------------------ MODULE ByteFile ------------------------------
(***************************************************************************)
(* What a memory file promises: a sequence of bytes that grows at either   *)
(* end and a position from which it is read, with no blocks, no cursors    *)
(* and no pushed-back character.  Bytes are a few values that the line     *)
(* reader tells apart.                                                     *)
(***************************************************************************)
EXTENDS Naturals, Sequences

CONSTANTS
    CR, LF, NUL,   \* the bytes that end a line
    Chunks,        \* what may be written by one call
    ReadSizes,     \* how much one call of mread asks for
    Rooms,         \* sizes of the buffer of mread_line
    MaxBytes       \* bound: bytes in the file

VARIABLES
    content,
    pos,
    out            \* what the last call returned

byteVars == <<content, pos, out>>

Rest == SubSeq(content, pos + 1, Len(content))

\* The first byte of the rest that ends a line, or one behind the last.
LineStop ==
    LET ends == {i \in 1 .. Len(Rest) : Rest[i] \in {LF, NUL}}
    IN  CHOOSE i \in ends \cup {Len(Rest) + 1} :
            \A j \in ends \cup {Len(Rest) + 1} : i <= j

Returns(bytes, n) == out' = bytes /\ pos' = pos + n /\ UNCHANGED content

Init == content = <<>> /\ pos = 0 /\ out = <<>>

\* All of d; a call that fails may have stored the beginning of it.
Extend(d) ==
    \E k \in 0 .. Len(d) :
        content' = content \o SubSeq(d, 1, k) /\ out' = <<>> /\ UNCHANGED pos

\* Only before anything is read, so that the position stays the start.
Prepend(d) == pos = 0 /\ content' = d \o content /\ out' = <<>> /\ UNCHANGED pos

Read(n) ==
    LET k == IF n <= Len(Rest) THEN n ELSE Len(Rest)
    IN  Returns(SubSeq(Rest, 1, k), k)

Getc == IF Rest = <<>> THEN Returns(<<NUL>>, 0) ELSE Returns(<<Rest[1]>>, 1)

\* A line with its end, or what is left when it is shorter than the room; a
\* NUL ends a line and is dropped; a line that does not fit is dropped.
ReadLine(room) ==
    LET most == room - 2
        stop == LineStop
        fits == stop <= most \/ (stop = most + 1 /\ Rest[most] = CR)
    IN  \/ /\ stop <= Len(Rest) /\ Rest[stop] = LF /\ fits
           /\ Returns(SubSeq(Rest, 1, stop), stop)
        \/ /\ stop <= Len(Rest) /\ Rest[stop] = NUL /\ stop <= most
           /\ Returns(SubSeq(Rest, 1, stop - 1), stop)
        \/ /\ stop > Len(Rest) /\ stop <= most
           /\ Returns(Rest, Len(Rest))
        \/ /\ IF stop <= Len(Rest) /\ Rest[stop] = LF THEN ~fits ELSE stop > most
           /\ Returns(<<>>, most)

SeekTo(p) == pos' = p /\ out' = <<>> /\ UNCHANGED content

\* The bytes from s to e, as far as there are any, in another file.
Copy(s, e) ==
    LET last == IF e <= Len(content) THEN e ELSE Len(content)
    IN  /\ out' = SubSeq(content, s + 1, last)
        /\ pos' = IF s < last THEN last ELSE s
        /\ UNCHANGED content

Dump == Returns(content, 0)

Clear == content' = <<>> /\ pos' = 0 /\ out' = <<>>

Next ==
    \/ \E d \in Chunks : Extend(d) \/ Prepend(d)
    \/ \E n \in ReadSizes : Read(n)
    \/ \E room \in Rooms : ReadLine(room)
    \/ \E p \in 0 .. Len(content) : SeekTo(p) \/ \E q \in p .. MaxBytes : Copy(p, q)
    \/ Getc
    \/ Dump
    \/ Clear

Spec == Init /\ [][Next]_byteVars
=============================================================================
