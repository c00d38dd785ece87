------------------------------ MODULE StrAlloc ------------------------------
(***************************************************************************)
(* libstralloc: texts that grow, in blocks from a static space while it    *)
(* lasts, and from the heap, which may have no memory, after that.         *)
(***************************************************************************)
EXTENDS Integers, Sequences, FiniteSets

CONSTANTS
    Handles,     \* the strallocs
    Words,       \* what is copied and appended
    SpaceSize,   \* SPACE
    Alignment,   \* ALIGNMENT
    Slack,       \* the bytes that are added when a text grows, besides 1/8
    MaxText      \* bound: bytes of a text that is appended to

ASSUME StrAllocAssumption ==
    /\ Alignment \in Nat \ {0} /\ Slack \in Nat /\ MaxText \in Nat
    /\ SpaceSize \in Nat /\ SpaceSize % Alignment = 0
    /\ IsFiniteSet(Handles) /\ \A w \in Words : w \in Seq({w[i] : i \in DOMAIN w})

VARIABLES
    sa,          \* the strallocs: the block of s, a, len, and the bytes at s
    avail,       \* of the static space
    heap,        \* blocks from malloc that are not freed
    saMeant      \* the text each should hold

strVars == <<sa, avail, heap, saMeant>>

\* Where a block is: NULL, an offset in the space or the heap, and its size.
NoBlock == [at |-> "NULL", off |-> 0, size |-> 0]
NoText  == [s |-> NoBlock, a |-> 0, len |-> 0, bytes |-> <<>>]

\* What is read from a block that was freed.
Unknown(n) == [i \in 1 .. n |-> "?"]

StrInit ==
    /\ sa = [h \in Handles |-> NoText] /\ saMeant = [h \in Handles |-> <<>>]
    /\ avail = SpaceSize /\ heap = 0

---------------------------------------------------------------------------
(* _alloc, _alloc_free and _alloc_re. *)

\* Variant: rounded down.
AlignedDown(n) == n - (n % Alignment)

\* A multiple of Alignment that is greater than n.
Aligned(n) == Alignment + n - (n % Alignment)

FromSpace(n) == Aligned(n) <= avail

\* The block for n bytes; none if it is from the heap and that has none.
Block(n) ==
    IF FromSpace(n) THEN [at |-> "space", off |-> avail - Aligned(n), size |-> Aligned(n)]
    ELSE [at |-> "heap", off |-> 0, size |-> Aligned(n)]

Takes(n) == avail' = IF FromSpace(n) THEN avail - Aligned(n) ELSE avail

Heaps(blk) == IF blk.at = "heap" THEN 1 ELSE 0

---------------------------------------------------------------------------
(* stralloc_ready, stralloc_readyplus and what is built on them. *)

\* The block an existing text is moved to when n bytes are needed.
Enlarged(n) == Slack + n + n \div 8

\* x[h] has room for n bytes, as it is, in its first block or in a new one;
\* the new text is what `bytes` makes of it.
Made(h, n, bytes, len, meant) ==
    LET x    == sa[h]
        need == IF x.s = NoBlock THEN n ELSE Enlarged(n)
        grow == x.s = NoBlock \/ n > x.a
    IN  /\ IF grow THEN Takes(need) ELSE UNCHANGED avail
        /\ heap' = heap + IF grow THEN Heaps(Block(need)) - Heaps(x.s) ELSE 0
        /\ sa' = [sa EXCEPT ![h] = [s |-> IF grow THEN Block(need) ELSE x.s,
                                    a |-> IF grow THEN need ELSE x.a,
                                    len |-> len, bytes |-> bytes]]
        /\ saMeant' = [saMeant EXCEPT ![h] = meant]

\* No memory.  The size of a first block stays behind.
NotMade(h, n) ==
    LET x == sa[h]
    IN  /\ \/ x.s = NoBlock /\ ~FromSpace(n)
           \/ x.s # NoBlock /\ n > x.a /\ ~FromSpace(Enlarged(n))
        /\ sa' = [sa EXCEPT ![h].a = IF x.s = NoBlock THEN n ELSE @]
        /\ UNCHANGED <<avail, heap, saMeant>>

\* Text that is copied from the block that is given back when this one grows.
Freed(h, from, n) == from = h /\ n > sa[h].a /\ sa[h].s.at = "heap"

Copyb(h, word) == Made(h, Len(word) + 1, word, Len(word), word)

Catb(h, from, word) ==
    LET x   == sa[h]
        n   == Len(word) + x.len + 1
        add == IF Freed(h, from, n) THEN Unknown(Len(word)) ELSE word
    IN  /\ x.s # NoBlock
        /\ Made(h, n, x.bytes \o add, x.len + Len(word), saMeant[h] \o word)

Copys(h, word) == Copyb(h, word)

Copy(h, src) == sa[src].s # NoBlock /\ Copyb(h, sa[src].bytes)

\* A text without a block is copied to.
Cats(h, word) ==
    /\ sa[h].len + Len(word) <= MaxText
    /\ IF sa[h].s = NoBlock THEN Copyb(h, word) ELSE Catb(h, "none", word)

Cat(h, src) ==
    /\ sa[src].s # NoBlock /\ sa[h].len + sa[src].len <= MaxText
    /\ IF sa[h].s = NoBlock THEN Copyb(h, sa[src].bytes) ELSE Catb(h, src, sa[src].bytes)

CopyFails(h, word) == NotMade(h, Len(word) + 1)

CatFails(h, word) ==
    /\ sa[h].s # NoBlock /\ sa[h].len + Len(word) <= MaxText
    /\ NotMade(h, sa[h].len + Len(word) + 1)

\* A block of the static space is not given back.
StrFree(h) ==
    /\ sa[h].s # NoBlock
    /\ heap' = heap - Heaps(sa[h].s)
    /\ sa' = [sa EXCEPT ![h] = NoText] /\ saMeant' = [saMeant EXCEPT ![h] = <<>>]
    /\ UNCHANGED avail

StrNext ==
    \E h \in Handles :
        \/ StrFree(h)
        \/ \E word \in Words : \/ Copys(h, word) \/ Cats(h, word)
                               \/ CopyFails(h, word) \/ CatFails(h, word)
        \/ \E src \in Handles : Copy(h, src) \/ Cat(h, src)

---------------------------------------------------------------------------
(* Properties. *)

InSpace(h) == {sa[h].s.off + i : i \in 0 .. sa[h].s.size - 1}

\* Any sequence of calls, with and without memory: a text is what it should be
\* (but for what was appended from a block that the same call gave back), it
\* fits in its block with the zero behind it, no two blocks of the static
\* space overlap, and every heap block belongs to a text.
TextsAreKept ==
    /\ \A h \in Handles :
        LET x == sa[h]
        IN  /\ x.s.at \in {"NULL", "space", "heap"}
            /\ x.len = Len(saMeant[h]) /\ x.len = Len(x.bytes)
            /\ \A i \in 1 .. x.len : x.bytes[i] \in {saMeant[h][i], "?"}
            /\ x.s # NoBlock => x.len < x.a /\ x.a <= x.s.size
            /\ x.s.at = "space" => InSpace(h) \subseteq avail .. SpaceSize - 1
            /\ \A g \in Handles \ {h} :
                x.s.at = "space" /\ sa[g].s.at = "space" => InSpace(h) \cap InSpace(g) = {}
    /\ heap = Cardinality({h \in Handles : sa[h].s.at = "heap"})
=============================================================================
