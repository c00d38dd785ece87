------------------------------- MODULE Base64 -------------------------------
(***************************************************************************)
(* base64: encoding, and decoding of a text that comes in pieces.  A       *)
(* character is a number: 0 .. 63 for one of the alphabet, and Pad,        *)
(* Newline or Other.                                                       *)
(***************************************************************************)
EXTENDS Naturals, Sequences, SequencesExt

CONSTANTS
    Raws,        \* sequences of bytes, to encode
    Texts,       \* texts from elsewhere
    MaxPiece     \* bound: characters in a piece

Pad == 64
Newline == 65
Other == 66

ASSUME Base64Assumption ==
    /\ MaxPiece \in Nat \ {0}
    /\ Raws \subseteq Seq(0 .. 255) /\ Texts \subseteq Seq(0 .. Other)

VARIABLES
    raw,         \* what was encoded, if the text is from base64_encode
    text, fed,   \* the text, and how much of it was given to the decoder
    ctx,         \* base64_decode_context: the characters in its buffer
    decoded,     \* the bytes that came out
    lost,        \* those for which there was no room
    valid        \* no call has returned false, and the last one was a flush

b64Vars == <<raw, text, fed, ctx, decoded, lost, valid>>

---------------------------------------------------------------------------
(* Encoding. *)

EncodeGroup(b) ==
    LET second == IF Len(b) > 1 THEN b[2] ELSE 0
        third  == IF Len(b) > 2 THEN b[3] ELSE 0
    IN  <<b[1] \div 4, (b[1] % 4) * 16 + second \div 16,
          IF Len(b) > 1 THEN (second % 16) * 4 + third \div 64 ELSE Pad,
          IF Len(b) > 2 THEN third % 64 ELSE Pad>>

Base64Encode(bytes) ==
    FlattenSeq([g \in 1 .. (Len(bytes) + 2) \div 3 |->
        EncodeGroup(SubSeq(bytes, 3 * g - 2, IF 3 * g < Len(bytes) THEN 3 * g ELSE Len(bytes)))])

---------------------------------------------------------------------------
(* Decoding. *)

Isbase64(ch) == ch < 64

ClearGarbage(chars) == SelectSeq(chars, LAMBDA ch : Isbase64(ch) \/ ch = Pad)

\* At most four characters: whether they are good, and the bytes that were
\* written before that was known.
Decode4(in) ==
    LET n     == Len(in)
        one   == <<(in[1] * 4 + in[2] \div 16) % 256>>
        two   == one \o <<((in[2] * 16) % 256) + in[3] \div 4>>
        three == two \o <<((in[3] * 64) % 256) + in[4]>>
        No(b) == [ok |-> FALSE, bytes |-> b]
        Ok(b) == [ok |-> TRUE, bytes |-> b]
    IN  CASE n < 2                                          -> No(<<>>)
          [] n >= 2 /\ ~(Isbase64(in[1]) /\ Isbase64(in[2])) -> No(<<>>)
          [] OTHER ->
            CASE n = 2                           -> No(one)
              [] n > 2 /\ in[3] = Pad            ->
                    IF n = 4 /\ in[4] = Pad THEN Ok(one) ELSE No(one)
              [] n > 2 /\ in[3] \in {Newline, Other} -> No(one)
              [] n = 3 /\ Isbase64(in[3])        -> No(two)
              [] n > 3 /\ Isbase64(in[3])        ->
                    IF in[4] = Pad THEN Ok(two)
                    ELSE IF Isbase64(in[4]) THEN Ok(three) ELSE No(two)

First4(in) == SubSeq(in, 1, IF Len(in) < 4 THEN Len(in) ELSE 4)
After(in, n) == SubSeq(in, n + 1, Len(in))

\* Variant: newlines are characters like others.
Get4Lines(buf, in) ==
    LET kept == IF Len(buf) = 4 THEN <<>> ELSE buf
        most == 4 - Len(kept)
        n    == IF Len(in) < most THEN Len(in) ELSE most
        all  == kept \o SubSeq(in, 1, n)
    IN  [buf |-> all, in |-> After(in, n), four |-> all]

\* get_4: four characters from the input, or as many as can be collected in
\* the buffer without the newlines.
Get4(buf, in) ==
    LET kept == IF Len(buf) = 4 THEN <<>> ELSE buf
        upto == {n \in 0 .. Len(in) :
                    Len(kept) + Len(SelectSeq(SubSeq(in, 1, n), LAMBDA c : c # Newline)) <= 4}
        n    == CHOOSE i \in upto :
                    \/ i = Len(in) /\ Len(kept) + Len(SelectSeq(in, LAMBDA c : c # Newline)) < 4
                    \/ /\ Len(kept) + Len(SelectSeq(SubSeq(in, 1, i), LAMBDA c : c # Newline)) = 4
                       /\ \A j \in upto :
                            Len(kept) + Len(SelectSeq(SubSeq(in, 1, j), LAMBDA c : c # Newline)) = 4
                                => i <= j
        all  == kept \o SelectSeq(SubSeq(in, 1, n), LAMBDA c : c # Newline)
    IN  IF kept = <<>> /\ Len(in) >= 4 /\ Newline \notin ToSet(First4(in))
        THEN [buf |-> <<>>, in |-> After(in, 4), four |-> First4(in)]
        ELSE [buf |-> all, in |-> After(in, n), four |-> all]

\* base64_decode_ctx with a context: groups of four straight from the input
\* when nothing was in the buffer at the start, from the buffer otherwise.
Base64DecodeCtx(buf, in) ==
    LET fast  == buf = <<>> /\ in # <<>>
        flush == in = <<>>
        turn[k \in 0 .. Len(in) + 1] ==
            IF k = 0 THEN [buf |-> buf, in |-> in, out |-> <<>>, ok |-> TRUE, done |-> FALSE]
            ELSE LET s == turn[k - 1]
                     g == Get4(s.buf, s.in)
                     d == Decode4(g.four)
                 IN  CASE s.done -> s
                       [] ~s.done /\ fast /\ Decode4(First4(s.in)).ok ->
                            [s EXCEPT !.in = After(s.in, 4),
                                      !.out = @ \o Decode4(First4(s.in)).bytes]
                       [] ~s.done /\ ~(fast /\ Decode4(First4(s.in)).ok)
                                  /\ s.in = <<>> /\ ~flush -> [s EXCEPT !.done = TRUE]
                       [] ~s.done /\ s.in # <<>> /\ s.in[1] = Newline ->
                            [s EXCEPT !.in = Tail(s.in)]
                       [] OTHER ->
                            IF Len(g.four) = 0 \/ (Len(g.four) < 4 /\ ~flush)
                            THEN [s EXCEPT !.buf = g.buf, !.in = <<>>, !.done = TRUE]
                            ELSE [buf |-> g.buf, in |-> g.in, out |-> s.out \o d.bytes,
                                  ok |-> d.ok, done |-> ~d.ok]
        final == turn[Len(in) + 1]
    IN  [buf |-> final.buf, out |-> final.out, ok |-> final.ok]

\* The room that base64_decode_alloc_ctx allocates for n characters.
NeedLen(n) == 3 * (n \div 4) + 2

---------------------------------------------------------------------------

Base64Init ==
    /\ \/ raw \in Raws /\ text = Base64Encode(raw)
       \/ raw = <<>> /\ text \in Texts
    /\ fed = 0 /\ ctx = <<>> /\ decoded = <<>> /\ lost = <<>>
    /\ valid = "unknown"

Clear ==
    /\ fed = 0 /\ text # ClearGarbage(text)
    /\ text' = ClearGarbage(text)
    /\ UNCHANGED <<raw, fed, ctx, decoded, lost, valid>>

\* base64_decode_alloc_ctx on the next n characters, or none for a flush.
\* Bytes that do not fit are not written, and the call says true.
DecodePiece(n) ==
    /\ valid = "unknown" /\ fed + n <= Len(text)
    /\ n = 0 => fed = Len(text)
    /\ LET r == Base64DecodeCtx(ctx, SubSeq(text, fed + 1, fed + n))
           w == IF Len(r.out) < NeedLen(n) THEN Len(r.out) ELSE NeedLen(n)
       IN  /\ ctx' = r.buf
           /\ decoded' = IF r.ok THEN decoded \o SubSeq(r.out, 1, w) ELSE decoded
           /\ lost' = lost \o After(r.out, w)
           /\ valid' = IF ~r.ok THEN "no" ELSE IF n = 0 THEN "yes" ELSE "unknown"
    /\ fed' = fed + n
    /\ UNCHANGED <<raw, text>>

Base64Next == Clear \/ \E n \in 0 .. MaxPiece : DecodePiece(n)

---------------------------------------------------------------------------
(* Properties. *)

\* What a text means: without its newlines it is groups of four.
Plain(chars)  == SelectSeq(chars, LAMBDA ch : ch # Newline)
Group(s, g)   == Decode4(SubSeq(s, 4 * g - 3, 4 * g))
Good(s) ==
    Len(s) % 4 = 0 /\ \A g \in 1 .. Len(s) \div 4 : Group(s, g).ok
Meaning(s) == FlattenSeq([g \in 1 .. Len(s) \div 4 |-> Group(s, g).bytes])

\* However a text is cut into pieces, with the ends of the pieces, of its
\* lines and of its groups anywhere, the decoder accepts it if and only if its
\* groups are good, and what comes out is what they mean, unless a call had too
\* little room; and a text from the encoder gives back what was encoded.
PiecesMakeTheWhole ==
    /\ Len(ctx) <= 4 /\ valid \in {"unknown", "yes", "no"}
    /\ valid = "yes" => Good(Plain(text))
    /\ valid = "no" => ~Good(Plain(text))
    /\ valid = "yes" /\ lost = <<>> => decoded = Meaning(Plain(text))
    /\ raw # <<>> => valid # "no" /\ (valid = "yes" /\ lost = <<>> => decoded = raw)
=============================================================================
