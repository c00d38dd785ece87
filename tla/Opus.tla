-------------------------------- MODULE Opus --------------------------------
(***************************************************************************)
(* opus_api: a file of samples becomes a file of packets, and that a file  *)
(* of samples, with or without a WAV header.                               *)
(*                                                                         *)
(* A packet in a file is its length in four bytes, four more that the      *)
(* decoder passes over, and that many bytes.  The codec is external: it    *)
(* makes one packet of a frame, and may fail.  The disk may be full, and   *)
(* the program may die.                                                    *)
(***************************************************************************)
EXTENDS Integers, FiniteSets, SequencesExt

CONSTANTS
    FrameSize,   \* samples in a frame
    MaxSamples,  \* bound: samples to encode
    PacketLens,  \* lengths of packets, in any file
    MaxPacket,   \* MAX_PACKET
    Foreign      \* packets of files that are not from encode_with_opus

ASSUME OpusAssumption ==
    /\ FrameSize \in Nat \ {0} /\ MaxSamples \in Nat /\ MaxPacket \in Nat
    /\ PacketLens \subseteq 1 .. MaxPacket /\ Foreign \subseteq Seq(Int)

VARIABLES
    working,     \* "nothing", or the call that runs
    held,        \* what it has open or allocated
    samples,     \* in the file to encode
    packets,     \* the lengths of those written to the encoded file
    onDisk,      \* bytes of the encoded file
    at,          \* samples or packets that were read
    played,      \* for each packet, whether its sound is in the decoded file
    header,      \* of that file: whether it is wanted, and the data it counts
    wavSays,     \* the length of the data that the file's header gives
    done         \* what the last call did

opusVars == <<working, held, samples, packets, onDisk, at, played, header, wavSays, done>>

All     == {"fin", "fout", "codec", "buffers"}
Nothing == [call |-> "none", ok |-> FALSE]

\* The four bytes of the length are read first.
Field == 4

PacketSize(len) == 2 * Field + IF len > 0 THEN len ELSE 0

\* Where the n-th packet of p ends.
EndOf(p, n) ==
    LET end[k \in 0 .. Len(p)] == IF k = 0 THEN 0 ELSE end[k - 1] + PacketSize(p[k])
    IN  end[n]

Offset(n) == EndOf(packets, n)

OpusInit ==
    /\ working = "nothing" /\ held = {}
    /\ samples \in 0 .. MaxSamples
    /\ packets \in Foreign \cup {<<>>} /\ onDisk \in 0 .. Offset(Len(packets))
    /\ at = 0 /\ played = <<>> /\ wavSays = 0
    /\ header = [wanted |-> FALSE, size |-> 0] /\ done = Nothing

---------------------------------------------------------------------------
(* What both calls do first and last. *)

Opened == /\ working = "nothing" /\ at' = 0 /\ done' = Nothing

\* encode_clean and decode_clean release all that there is.
Returns(ok) ==
    /\ working' = "nothing" /\ held' = {}
    /\ done' = [call |-> working, ok |-> ok]

---------------------------------------------------------------------------
(* encode_with_opus. *)

EncodeStarts ==
    /\ Opened /\ working' = "encode" /\ held' = All
    /\ packets' = <<>> /\ onDisk' = 0
    /\ UNCHANGED <<samples, played, header, wavSays>>

\* With an input that cannot be opened, the old file is still there.
EncodeCannotStart ==
    /\ Opened
    /\ \/ UNCHANGED <<packets, onDisk>>
       \/ packets' = <<>> /\ onDisk' = 0
    /\ UNCHANGED <<working, held, samples, played, header, wavSays>>

\* The last frame is the one that is not full: it is filled up with silence, and
\* is nothing else when the samples are a number of whole frames.
EncodeFrame(len) ==
    /\ working = "encode" /\ at <= samples
    /\ at' = at + FrameSize
    /\ packets' = Append(packets, len)
    /\ UNCHANGED <<working, held, samples, onDisk, played, header, wavSays, done>>

\* The bytes of the file that are there when the call is over: the last ones
\* may be lost in fclose, whose result is not looked at.
Flushed == onDisk' \in 0 .. Offset(Len(packets))

EncodeEnds ==
    /\ working = "encode" /\ at > samples
    /\ Returns(TRUE) /\ Flushed
    /\ UNCHANGED <<samples, packets, at, played, header, wavSays>>

\* The codec fails, or a write does.
EncodeFails ==
    /\ working = "encode" /\ at <= samples
    /\ Returns(FALSE)
    /\ \/ Flushed /\ UNCHANGED packets
       \/ \E len \in PacketLens :
            /\ packets' = Append(packets, len)
            /\ onDisk' \in 0 .. Offset(Len(packets)) + PacketSize(len) - 1
    /\ UNCHANGED <<samples, at, played, header, wavSays>>

---------------------------------------------------------------------------
(* decode_with_opus. *)

DecodeStarts(wav) ==
    /\ Opened /\ working' = "decode" /\ held' = All
    /\ played' = <<>> /\ wavSays' = 0
    /\ header' = [wanted |-> wav, size |-> 0]
    /\ UNCHANGED <<samples, packets, onDisk>>

DecodeCannotStart ==
    /\ Opened
    /\ \/ UNCHANGED <<played, wavSays>>
       \/ played' = <<>> /\ wavSays' = 0
    /\ UNCHANGED <<working, held, samples, packets, onDisk, header>>

Left == onDisk - Offset(at)
NextLen == packets[at + 1]

\* Less than a length is left: the end of the file, also in the middle of it.
AtEnd == Left < Field

Valid == 0 <= NextLen /\ NextLen <= MaxPacket

\* Variant: nobody looks how many bytes were read.
CompleteUnchecked == TRUE

\* The packet's bytes are there.
Complete == NextLen = 0 \/ Left >= PacketSize(NextLen)

\* The sound of a packet, or what the codec makes up for one that is empty,
\* which it cannot do for the first.
DecodePacket ==
    /\ working = "decode" /\ ~AtEnd /\ Valid /\ Complete
    /\ NextLen = 0 => TRUE \in ToSet(played)
    /\ at' = at + 1 /\ played' = Append(played, TRUE)
    /\ header' = IF header.wanted THEN [header EXCEPT !.size = @ + FrameSize] ELSE header
    /\ UNCHANGED <<working, held, samples, packets, onDisk, wavSays, done>>

\* The codec's error is printed, and the next packet is read.
DecodePacketError ==
    /\ working = "decode" /\ ~AtEnd /\ Valid /\ Complete
    /\ at' = at + 1 /\ played' = Append(played, FALSE)
    /\ UNCHANGED <<working, held, samples, packets, onDisk, header, wavSays, done>>

\* A length that cannot be, bytes that are missing, or a full disk.  The header
\* is left blank.
DecodeFails ==
    /\ working = "decode" /\ ~AtEnd
    /\ Returns(FALSE)
    /\ UNCHANGED <<samples, packets, onDisk, at, played, header, wavSays>>

DecodeEnds ==
    /\ working = "decode" /\ AtEnd
    /\ Returns(TRUE)
    /\ wavSays' = IF header.wanted THEN header.size ELSE 0
    /\ UNCHANGED <<samples, packets, onDisk, at, played, header>>

---------------------------------------------------------------------------

\* A program that dies leaves a part of the encoded file.
OpusDies ==
    /\ working # "nothing"
    /\ working' = "nothing" /\ held' = {} /\ done' = Nothing
    /\ IF working = "encode" THEN Flushed ELSE UNCHANGED onDisk
    /\ UNCHANGED <<samples, packets, at, played, header, wavSays>>

OpusNext ==
    \/ EncodeStarts \/ EncodeCannotStart \/ EncodeEnds \/ EncodeFails
    \/ \E len \in PacketLens : EncodeFrame(len)
    \/ \E wav \in BOOLEAN : DecodeStarts(wav)
    \/ DecodeCannotStart \/ DecodePacket \/ DecodePacketError \/ DecodeFails
    \/ DecodeEnds \/ OpusDies

---------------------------------------------------------------------------
(* Properties. *)

\* The packets whose bytes are all in the file, those with no bytes included.
Whole == {n \in 1 .. Len(packets) : Offset(n) <= onDisk}

Sounds == Cardinality({i \in DOMAIN played : played[i]})

\* Wherever a call, the disk or the program fails: nothing is left open; an
\* encoding that succeeds has handed over every sample; a decoding that
\* succeeds has read every packet that is whole in the file, each once and in
\* order, one that fails no other ones; only an empty packet may be cut; and
\* the header, if any, counts just the sounds that are in the decoded file.
SamplesArrive ==
    /\ held = IF working = "nothing" THEN {} ELSE All
    /\ done = [call |-> "encode", ok |-> TRUE] =>
            /\ Len(packets) = samples \div FrameSize + 1
            /\ onDisk <= Offset(Len(packets))
    /\ done = [call |-> "decode", ok |-> TRUE] =>
            /\ at = Len(played) /\ Whole \subseteq 1 .. at
            /\ \A n \in 1 .. at \ Whole : packets[n] = 0
            /\ wavSays = IF header.wanted THEN Sounds * FrameSize ELSE 0
    /\ done = [call |-> "decode", ok |-> FALSE] =>
            /\ wavSays = 0
            /\ \A n \in 1 .. Len(played) : n \in Whole \/ packets[n] = 0
=============================================================================
