------------------------------- MODULE MFile -------------------------------
(***************************************************************************)
(* libmfile: a file in memory, kept as a list of blocks, with one cursor   *)
(* for writing and one for reading, and one character that mread_line has  *)
(* read ahead.                                                             *)
(*                                                                         *)
(* The calls are operators on a file, a record, and the actions are what a *)
(* program may do with one.  The functions do not guard themselves against *)
(* every order of calls; each action says which orders its caller must     *)
(* avoid (Careful...), and with them the file is a ByteFile.  What goes    *)
(* wrong otherwise is said there too.                                      *)
(***************************************************************************)
EXTENDS Naturals, Sequences, SequencesExt

CONSTANTS
    CR, LF, NUL,
    Junk,          \* a byte from behind the data of a block
    Chunks, ReadSizes, Rooms,
    BlockSize,     \* DATA_BLOCK_SIZE
    CopySize,      \* the buffer of mfile_copy
    MaxIov,        \* MAX_BLOCK_NUMBER of mwrite_file
    MaxBytes,      \* bound: bytes in the file
    MaxFaults      \* bound: allocations that fail

ASSUME MFileAssumption ==
    /\ BlockSize \in Nat \ {0} /\ CopySize \in Nat \ {0} /\ MaxIov \in Nat
    /\ MaxBytes \in Nat /\ MaxFaults \in Nat
    /\ CR # LF /\ NUL \notin {CR, LF}
    /\ \A n \in ReadSizes : n \in Nat \ {0}
    /\ \A room \in Rooms : room \in Nat /\ room > 2
    /\ \A d \in Chunks : d \in Seq(UNION {ToSet(c) : c \in Chunks}) /\ d # <<>>
    /\ \A d \in Chunks : Junk \notin ToSet(d)

VARIABLES
    file,
    out,           \* what the last call returned to its caller
    faults

fileVars == <<file, out, faults>>

\* A file that was just opened.  ccache = LF says that nothing is read ahead.
Mopen == [blocks |-> <<>>, full |-> TRUE, empty |-> FALSE, readp |-> 0,
          ccache |-> LF, total |-> 0, header |-> 0]

\* current_write_count is the length of a block's data.
Block(d) == [data |-> d, rd |-> 0]

Bytes(f) == FlattenSeq([i \in 1 .. Len(f.blocks) |-> f.blocks[i].data])

---------------------------------------------------------------------------
(* The calls. *)

\* What fits in the last block goes there, the rest into new ones.
MWrite(f, d) ==
    LET n     == Len(f.blocks)
        room  == IF f.full THEN 0 ELSE BlockSize - Len(f.blocks[n].data)
        here  == SubSeq(d, 1, IF room < Len(d) THEN room ELSE Len(d))
        left  == Len(d) - Len(here)
        fresh == [i \in 1 .. (left + BlockSize - 1) \div BlockSize |->
                    Block(SubSeq(d, Len(here) + (i - 1) * BlockSize + 1,
                        IF i * BlockSize < left THEN Len(here) + i * BlockSize
                                                ELSE Len(d)))]
        old   == IF here = <<>> THEN f.blocks
                 ELSE [f.blocks EXCEPT ![n].data = @ \o here]
        all   == old \o fresh
    IN  [f EXCEPT !.blocks = all,
                  !.full = Len(all[Len(all)].data) = BlockSize,
                  !.total = @ + Len(d)]

\* The lengths at which mwrite asks for a new block: what it has stored when
\* that allocation fails.  The size is counted before anything is stored.
AllocAt(f, d) ==
    LET room == IF f.full THEN 0 ELSE BlockSize - Len(f.blocks[Len(f.blocks)].data)
    IN  {k \in 0 .. Len(d) - 1 : k >= room /\ (k - room) % BlockSize = 0}

MWriteFail(f, d, k) ==
    [(IF k = 0 THEN f ELSE MWrite(f, SubSeq(d, 1, k))) EXCEPT !.total = f.total + Len(d)]

MWriteHead(f, d) ==
    [f EXCEPT !.blocks = <<Block(d)>> \o @,
              !.readp = IF @ = 0 THEN 0 ELSE @ + 1,
              !.total = @ + Len(d), !.header = @ + Len(d)]

\* Variant: the mark of an empty block is not looked at.
ReadBlockAgain(f) == IF f.readp = 0 THEN 1 ELSE f.readp

\* mread and mgetc: the block the next byte comes from.
ReadBlock(f) == (IF f.readp = 0 THEN 1 ELSE f.readp) + (IF f.empty THEN 1 ELSE 0)

\* One byte further in block i; the block is empty when it was the last one.
Step(f, i) ==
    LET b == f.blocks[i]
    IN  [f EXCEPT !.readp = i, !.blocks[i].rd = @ + 1,
                  !.empty = (b.rd + 1 = Len(b.data))]

ByteAt(f, i) ==
    LET b == f.blocks[i] IN IF b.rd < Len(b.data) THEN b.data[b.rd + 1] ELSE Junk

\* mread copies block by block; byte by byte it does the same.
MRead(f, n) ==
    LET take[k \in 0 .. n] ==
            IF k = 0 THEN [f |-> f, out |-> <<>>]
            ELSE LET s == take[k - 1]
                     i == ReadBlock(s.f)
                 IN  IF i > Len(s.f.blocks) \/ s.f.blocks[i].rd >= Len(s.f.blocks[i].data)
                     THEN s
                     ELSE [f |-> Step(s.f, i), out |-> Append(s.out, ByteAt(s.f, i))]
    IN  take[n]

\* mgetc does not look whether there is anything to read in the block.
MGetc(f) ==
    LET i == ReadBlock(f)
    IN  IF i > Len(f.blocks) THEN [f |-> f, c |-> NUL]
        ELSE [f |-> Step(f, i), c |-> ByteAt(f, i)]

\* The character that was read ahead comes first; what is left in its place
\* is CR, which is not the mark of an empty one.
NextChar(f) ==
    IF f.ccache = LF THEN MGetc(f)
    ELSE [f |-> [f EXCEPT !.ccache = CR], c |-> f.ccache]

\* At most room - 2 turns of the loop; a line that has not ended by then is
\* lost, and the call returns 0.
MReadLine(f, room) ==
    LET turn[k \in 0 .. room - 2] ==
            IF k = 0 THEN [f |-> f, out |-> <<>>, done |-> FALSE]
            ELSE LET s == turn[k - 1]
                     g == NextChar(s.f)
                     p == MGetc(g.f)
                     End(file_, bytes) ==
                        [f |-> file_, out |-> s.out \o bytes, done |-> TRUE]
                 IN  CASE s.done    -> s
                       [] ~s.done /\ g.c = CR ->
                            End([p.f EXCEPT !.ccache = p.c],
                                IF p.c \in {LF, NUL} THEN <<CR, LF>> ELSE <<CR>>)
                       [] ~s.done /\ g.c = LF  -> End(g.f, <<LF>>)
                       [] ~s.done /\ g.c = NUL -> End(g.f, <<>>)
                       [] OTHER -> [f |-> g.f, out |-> Append(s.out, g.c), done |-> FALSE]
        last == turn[room - 2]
    IN  [f |-> last.f, out |-> IF last.done THEN last.out ELSE <<>>]

\* Variant: the block that was read to its end is still marked as empty.
MSeekStillEmpty(f) ==
    [f EXCEPT !.readp = 0, !.blocks = [i \in 1 .. Len(@) |-> [@[i] EXCEPT !.rd = 0]]]

\* For reading again from the start; what was read ahead stays.
MSeek(f) ==
    [f EXCEPT !.empty = FALSE, !.readp = 0,
              !.blocks = [i \in 1 .. Len(@) |-> [@[i] EXCEPT !.rd = 0]]]

\* The data in front of block i.
BytesBefore(f, i) ==
    LET before[k \in 0 .. i - 1] ==
            IF k = 0 THEN 0 ELSE before[k - 1] + Len(f.blocks[k].data)
    IN  before[i - 1]

\* The first block that p does not lie behind.
MSeekPos(f, p) ==
    LET g    == MSeek(f)
        hits == {i \in 1 .. Len(g.blocks) : p <= BytesBefore(g, i + 1)}
        i    == CHOOSE j \in hits : \A k \in hits : j <= k
    IN  IF hits = {} THEN g
        ELSE [g EXCEPT !.readp = i, !.blocks[i].rd = p - BytesBefore(g, i)]

\* Pieces of CopySize from s on, into a new file: the first short read ends it.
MCopy(f, s, e) ==
    LET pieces == (e - s + CopySize - 1) \div CopySize
        piece[k \in 0 .. pieces] ==
            IF k = 0 THEN [f |-> MSeekPos(f, s), dest |-> Mopen, done |-> FALSE]
            ELSE LET c    == piece[k - 1]
                     want == IF e - s - (k - 1) * CopySize < CopySize
                             THEN e - s - (k - 1) * CopySize ELSE CopySize
                     r    == MRead(c.f, want)
                 IN  IF c.done THEN c
                     ELSE IF r.out = <<>> THEN [c EXCEPT !.done = TRUE]
                     ELSE [f |-> r.f, dest |-> MWrite(c.dest, r.out),
                           done |-> Len(r.out) < CopySize]
    IN  piece[pieces]

---------------------------------------------------------------------------
(* What a caller must know. *)

\* A block that was read to its end is marked as empty, and what is appended
\* to it afterwards is skipped: its reader waits for the next block.
CarefulWrite(f) == ~(f.empty /\ f.readp = Len(f.blocks) /\ ~f.full)

\* The end of a block is taken for a place in that block, where nothing can
\* be read; a place behind the end is taken for the start.
CarefulSeek(f, p) ==
    /\ p <= Len(Bytes(f))
    /\ \A i \in 1 .. Len(f.blocks) : p # BytesBefore(f, i + 1)

\* A CR that is not followed by LF is returned again behind the next byte, so
\* its reader never has a character that was read ahead.
CarefulLines(f) ==
    /\ f.ccache = LF
    /\ LET b == Bytes(f)
       IN  \A i \in 1 .. Len(b) : b[i] = CR => i < Len(b) /\ b[i + 1] = LF

---------------------------------------------------------------------------

FileInit == file = Mopen /\ out = <<>> /\ faults = 0

Fits(d) == file.total + Len(d) <= MaxBytes

Write(d) ==
    /\ Fits(d) /\ CarefulWrite(file)
    /\ file' = MWrite(file, d) /\ out' = <<>>
    /\ UNCHANGED faults

WriteFail(d) ==
    /\ Fits(d) /\ CarefulWrite(file) /\ faults < MaxFaults
    /\ \E k \in AllocAt(file, d) : file' = MWriteFail(file, d, k)
    /\ out' = <<>>
    /\ faults' = faults + 1

\* Too much for a block is refused.  Once something was read the reader does
\* not see a new head.
WriteHead(d) ==
    /\ Fits(d) /\ Len(d) <= BlockSize /\ file.readp = 0
    /\ file' = MWriteHead(file, d) /\ out' = <<>>
    /\ UNCHANGED faults

Read(n) ==
    /\ LET r == MRead(file, n) IN file' = r.f /\ out' = r.out
    /\ UNCHANGED faults

Getc ==
    /\ LET g == MGetc(file) IN file' = g.f /\ out' = <<g.c>>
    /\ UNCHANGED faults

ReadLine(room) ==
    /\ CarefulLines(file)
    /\ LET r == MReadLine(file, room) IN file' = r.f /\ out' = r.out
    /\ UNCHANGED faults

Seek ==
    /\ file' = MSeek(file) /\ out' = <<>>
    /\ UNCHANGED faults

SeekPos(p) ==
    /\ CarefulSeek(file, p)
    /\ file' = MSeekPos(file, p) /\ out' = <<>>
    /\ UNCHANGED faults

Copy(s, e) ==
    /\ CarefulSeek(file, s)
    /\ LET c == MCopy(file, s, e) IN file' = c.f /\ out' = Bytes(c.dest)
    /\ UNCHANGED faults

\* One writev of all blocks, when they are fewer than MaxIov.
WriteFile ==
    /\ Len(file.blocks) < MaxIov
    /\ out' = Bytes(file)
    /\ UNCHANGED <<file, faults>>

\* mclose, and a file that is opened afterwards.
Close ==
    /\ file' = Mopen /\ out' = <<>>
    /\ UNCHANGED faults

FileNext ==
    \/ \E d \in Chunks : Write(d) \/ WriteFail(d) \/ WriteHead(d)
    \/ \E n \in ReadSizes : Read(n)
    \/ \E room \in Rooms : ReadLine(room)
    \/ \E p \in 0 .. MaxBytes : SeekPos(p)
    \/ \E s \in 0 .. MaxBytes : \E e \in s .. MaxBytes : Copy(s, e)
    \/ Getc
    \/ Seek
    \/ WriteFile
    \/ Close

---------------------------------------------------------------------------
(* Properties. *)

\* The types of the file and of the count of faults.
FileTypeOK ==
    /\ file.blocks \in Seq([data : Seq(UNION {ToSet(c) : c \in Chunks}), rd : Nat])
    /\ file.full \in BOOLEAN /\ file.empty \in BOOLEAN
    /\ file.readp \in 0 .. Len(file.blocks)
    /\ file.total \in Nat /\ file.header \in Nat
    /\ faults \in 0 .. MaxFaults

\* The cursors agree with the blocks: no block is without data or larger than
\* its buffer, the last one has room if and only if the file is not full, no
\* cursor is behind the data, and a block is marked as empty if and only if
\* it was read to its end; blocks the reader has not reached are unread.  And
\* msize, which counts what was asked for, is the number of bytes in the
\* blocks as long as no allocation failed, and never less.
CursorsAgree ==
    /\ FileTypeOK
    /\ \A i \in 1 .. Len(file.blocks) :
        /\ Len(file.blocks[i].data) \in 1 .. BlockSize
        /\ file.blocks[i].rd <= Len(file.blocks[i].data)
        /\ i > file.readp => file.blocks[i].rd = 0
    /\ ~file.full => /\ file.blocks # <<>>
                     /\ Len(file.blocks[Len(file.blocks)].data) < BlockSize
    /\ file.empty <=> /\ file.readp # 0
                      /\ file.blocks[file.readp].rd = Len(file.blocks[file.readp].data)
    /\ file.total >= Len(Bytes(file))
    /\ faults = 0 => file.total = Len(Bytes(file))

Position ==
    IF file.readp = 0 THEN 0
    ELSE BytesBefore(file, file.readp) + file.blocks[file.readp].rd

\* However its calls follow one another, a file in the hands of a careful
\* caller is a sequence of bytes with a position: every call returns what the
\* sequence returns, across blocks, headers, line ends and seeks.
AsBytes == INSTANCE ByteFile WITH content <- Bytes(file), pos <- Position
ImplementsByteFile == AsBytes!Spec
=============================================================================
