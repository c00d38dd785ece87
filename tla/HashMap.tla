------------------------------ MODULE HashMap ------------------------------
(***************************************************************************)
(* hashmap: a table of doubly linked chains that grows to the next prime   *)
(* when it holds as many entries as it has chains.                         *)
(*                                                                         *)
(* Entries are cells of a heap, so that the links are what the code makes  *)
(* them.  hashmap_link does not set the back link of the entry it puts in  *)
(* front: relinked by hashmap_grow, that entry keeps the one it had in the *)
(* old table.  A program is therefore of one of two kinds, use:            *)
(*   "sized"    it never has more entries than the first table has chains, *)
(*              and inserts, repeats and deletes as it likes;              *)
(*   "growing"  it lets the table grow, and neither deletes nor repeats a  *)
(*              key: growth turns the chains around, and the oldest value  *)
(*              of a key becomes the one that is found.                    *)
(***************************************************************************)
EXTENDS Naturals, FiniteSets, Sequences, SequencesExt

CONSTANTS
    Keys, Values, NULL,
    Code,        \* what hashcode_index makes of a key, before the modulo
    Primes,      \* the sizes of a table
    UsedMod,     \* used is a uint16_t: 2^16
    Cells,       \* the heap, a set of numbers: bound on the entries
    MaxFailures  \* bound: allocations that fail

ASSUME HashMapAssumption ==
    /\ Code \in [Keys -> Nat]
    /\ Primes \in Seq(Nat \ {0}) /\ Len(Primes) > 1
    /\ \A i \in 2 .. Len(Primes) - 1 : Primes[i] < Primes[i + 1]
    /\ UsedMod \in Nat \ {0} /\ MaxFailures \in Nat
    /\ IsFiniteSet(Cells) /\ Cells \subseteq Nat
    /\ NULL \notin Cells /\ NULL \notin Keys

VARIABLES
    map,         \* idx, size, used, head of each chain, and the cells
    use,
    returned,    \* what the last call returned
    failures

hashVars == <<map, use, returned, failures>>

Free == [key |-> NULL, value |-> NULL, next |-> NULL, prev |-> NULL]

\* No table before the first insert; idx is that of the first prime above the
\* wanted size, and the first table has the size after it.
HashmapCreate(i) ==
    [idx |-> i, size |-> 0, used |-> 0, head |-> <<>>, lost |-> FALSE,
     cell |-> [c \in Cells |-> Free]]

Bucket(m, k) == Code[k] % m.size

\* The chain of a bucket, from its head along the next links.
Chain(m, b) ==
    LET N    == Cardinality(Cells)
        next == [e \in Cells \cup {NULL} |-> IF e = NULL THEN NULL ELSE m.cell[e].next]
        at[i \in 0 .. N] == IF i = 0 THEN m.head[b] ELSE next[at[i - 1]]
    IN  [i \in 1 .. Cardinality({j \in 1 .. N : at[j - 1] # NULL}) |-> at[i - 1]]

Members(m) == FlattenSeq([i \in 1 .. m.size |-> Chain(m, i - 1)])

\* Variant: the entry that was in front does not learn of the new one.
HashmapLinkOneWay(m, e) ==
    LET b == Bucket(m, m.cell[e].key)
    IN  [m EXCEPT !.head[b] = e, !.used = (@ + 1) % UsedMod,
                  !.cell[e].next = m.head[b]]

HashmapLink(m, e) ==
    LET b     == Bucket(m, m.cell[e].key)
        first == m.head[b]
    IN  [m EXCEPT !.head[b] = e,
                  !.used = (@ + 1) % UsedMod,
                  !.cell = [c \in Cells |->
                      IF c = e THEN [@[c] EXCEPT !.next = first]
                      ELSE IF c = first THEN [@[c] EXCEPT !.prev = e] ELSE @[c]]]

\* The entries of a sequence, linked one after the other.
LinkAll(m, es) ==
    LET linked[i \in 0 .. Len(es)] ==
            IF i = 0 THEN m ELSE HashmapLink(linked[i - 1], es[i])
    IN  linked[Len(es)]

\* Variant: the entries that are linked again are counted again.
HashmapGrowRecounts(m) ==
    LinkAll([m EXCEPT !.idx = @ + 1, !.size = Primes[m.idx + 1],
                      !.head = [b \in 0 .. Primes[m.idx + 1] - 1 |-> NULL]],
            Members(m))

\* A new table of the next size, into which the entries of the old one are
\* linked in the order they have there.
HashmapGrow(m) ==
    LinkAll([m EXCEPT !.idx = @ + 1, !.size = Primes[m.idx + 1], !.used = 0,
                      !.head = [b \in 0 .. Primes[m.idx + 1] - 1 |-> NULL]],
            Members(m))

Grown(m) == IF m.used >= m.size THEN HashmapGrow(m) ELSE m

HashmapInsert(m, e, k, v) ==
    HashmapLink([Grown(m) EXCEPT !.cell[e] = [Free EXCEPT !.key = k, !.value = v]], e)

\* Variant: the search goes on to the end of the chain.
HashmapLocateLast(m, k) ==
    LET c    == Chain(m, Bucket(m, k))
        hits == {i \in DOMAIN c : m.cell[c[i]].key = k}
    IN  IF hits = {} THEN NULL ELSE c[Max(hits)]

\* The entry that a search finds.
HashmapLocate(m, k) ==
    LET c    == Chain(m, Bucket(m, k))
        hits == {i \in DOMAIN c : m.cell[c[i]].key = k}
    IN  IF hits = {} THEN NULL ELSE c[Min(hits)]

HashmapFind(m, k) ==
    LET e == HashmapLocate(m, k) IN IF e = NULL THEN <<>> ELSE <<m.cell[e].value>>

\* Taken returned between its neighbours as its own two links name them.
HashmapDelete(m, k) ==
    LET e == HashmapLocate(m, k)
        n == m.cell[e].next
        p == m.cell[e].prev
    IN  [m EXCEPT !.used = (@ + UsedMod - 1) % UsedMod,
                  !.head[Bucket(m, k)] = IF p = NULL THEN n ELSE @,
                  !.cell = [c \in Cells |->
                      IF c = e THEN Free
                      ELSE [m.cell[c] EXCEPT !.prev = IF c = n THEN p ELSE @,
                                             !.next = IF c = p THEN n ELSE @]]]

---------------------------------------------------------------------------

Alive(m) == {c \in Cells : m.cell[c] # Free}

Has(k) == \E c \in Alive(map) : map.cell[c].key = k

\* With no table the modulo divides by zero; with a lost one NULL is read.
Usable == map.size > 0 /\ ~map.lost

HashInit ==
    /\ map \in {HashmapCreate(i) : i \in 1 .. Len(Primes) - 1}
    /\ use \in {"sized", "growing"}
    /\ returned = <<>> /\ failures = 0

MayInsert(k) ==
    /\ ~map.lost
    /\ map.used >= map.size => map.idx < Len(Primes)
    /\ CASE use = "sized"   -> map.size = 0 \/ map.used < map.size
         [] use = "growing" -> ~Has(k)

Insert(k, v) ==
    /\ MayInsert(k)
    /\ \E e \in Cells \ Alive(map) :
        /\ \A c \in Cells \ Alive(map) : e <= c
        /\ map' = HashmapInsert(map, e, k, v)
    /\ returned' = <<v>>
    /\ UNCHANGED <<use, failures>>

\* No memory for the entry, after the table has grown.
InsertFail(k) ==
    /\ MayInsert(k) /\ failures < MaxFailures
    /\ map' = Grown(map)
    /\ returned' = <<>> /\ failures' = failures + 1
    /\ UNCHANGED use

\* No memory for a larger table: the pointer to the old one is overwritten,
\* its size stays.
GrowFail(k) ==
    /\ MayInsert(k) /\ failures < MaxFailures
    /\ map.used >= map.size
    /\ map' = [map EXCEPT !.idx = @ + 1, !.lost = map.size > 0]
    /\ returned' = <<>> /\ failures' = failures + 1
    /\ UNCHANGED use

Find(k) ==
    /\ Usable
    /\ returned' = HashmapFind(map, k)
    /\ UNCHANGED <<map, use, failures>>

Delete(k) ==
    /\ Usable /\ use = "sized"
    /\ IF HashmapLocate(map, k) = NULL THEN returned' = <<1>> /\ UNCHANGED map
       ELSE returned' = <<0>> /\ map' = HashmapDelete(map, k)
    /\ UNCHANGED <<use, failures>>

\* hashmap_walk and hashmap_list: every entry of every chain.
List ==
    /\ ~map.lost
    /\ LET listed == Members(map) IN
        returned' = [k \in Keys |-> [v \in Values |->
            Cardinality({i \in DOMAIN listed : /\ map.cell[listed[i]].key = k
                                               /\ map.cell[listed[i]].value = v})]]
    /\ UNCHANGED <<map, use, failures>>

\* hashmap_free, or the loss of a map that cannot even be freed; then a new one.
Renew ==
    /\ \E i \in 1 .. Len(Primes) - 1 : map' = HashmapCreate(i)
    /\ returned' = <<>>
    /\ UNCHANGED <<use, failures>>

HashNext ==
    \/ \E k \in Keys : \/ InsertFail(k) \/ GrowFail(k) \/ Find(k) \/ Delete(k)
                       \/ \E v \in Values : Insert(k, v)
    \/ List \/ Renew

---------------------------------------------------------------------------
(* Properties. *)

\* The types of the map and of what its program does with it.
HashTypeOK ==
    /\ map.idx \in 1 .. Len(Primes) /\ map.used \in 0 .. UsedMod - 1
    /\ map.size \in {0} \cup {Primes[i] : i \in DOMAIN Primes}
    /\ map.head \in [0 .. map.size - 1 -> Cells \cup {NULL}] \/ map.size = 0
    /\ map.cell \in [Cells -> [key : Keys \cup {NULL}, value : Values \cup {NULL},
                               next : Cells \cup {NULL}, prev : Cells \cup {NULL}]]
    /\ map.lost \in BOOLEAN /\ use \in {"sized", "growing"}
    /\ failures \in 0 .. MaxFailures

\* Every entry is in the chain of its key's bucket and in no other, once, and
\* no chain leads to memory that was freed, through insertions, deletions and
\* growth: nothing gets lost and nothing is found that is gone.  As long as the
\* entries are fewer than used can count, it counts them, so that the used + 1
\* slots of hashmap_list are enough, and they are never more than the chains.
ChainsHoldEntries ==
    /\ HashTypeOK
    /\ \A b \in DOMAIN map.head : LET c == Chain(map, b) IN
        /\ IsInjective(c)
        /\ ToSet(c) = {e \in Alive(map) : Bucket(map, map.cell[e].key) = b}
    /\ Cardinality(Alive(map)) < UsedMod =>
        map.used = Cardinality(Alive(map)) /\ map.used <= map.size

\* A deletion may rely on the back links: behind the head of a chain they name
\* the entry before, and at the head they name none as long as no table with
\* entries in it has grown.
BackLinks ==
    \A b \in DOMAIN map.head : LET c == Chain(map, b) IN
        /\ \A i \in 2 .. Len(c) : map.cell[c[i]].prev = c[i - 1]
        /\ use = "sized" /\ c # <<>> => map.cell[c[1]].prev = NULL

\* The values of a key along a chain.
ValuesOf(m, k, c) ==
    LET found[i \in 0 .. Len(c)] ==
            IF i = 0 THEN <<>>
            ELSE found[i - 1] \o (IF m.cell[c[i]].key = k THEN <<m.cell[c[i]].value>> ELSE <<>>)
    IN  found[Len(c)]

Stacks ==
    [k \in Keys |-> IF Usable THEN ValuesOf(map, k, Chain(map, Bucket(map, k))) ELSE <<>>]

\* In the hands of either kind of program the table is a stack of values under
\* every key, whatever the collisions, growths and failed allocations.
AsStacks == INSTANCE KeyStacks WITH stacks <- Stacks, out <- returned
ImplementsKeyStacks == AsStacks!Spec
=============================================================================
