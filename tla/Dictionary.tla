----------------------------- MODULE Dictionary -----------------------------
(***************************************************************************)
(* dictionary: keys and values in slots, the first empty one of which      *)
(* takes a new key.  A slot is empty when its key is Null.  The hash of a  *)
(* key only saves comparisons and is left out.                             *)
(***************************************************************************)
EXTENDS Naturals, Sequences

CONSTANTS
    Null, NOTFOUND,
    DictMinSz        \* DICTMINSZ

ASSUME DictionaryAssumption ==
    DictMinSz \in Nat \ {0} /\ Null # NOTFOUND

EmptySlot == [key |-> Null, val |-> Null]

DictionaryNew == [slot |-> [i \in 1 .. DictMinSz |-> EmptySlot], n |-> 0]

SlotsOf(d, k) == {i \in DOMAIN d.slot : d.slot[i].key = k}

First(S) == CHOOSE i \in S : \A j \in S : i <= j

DictionaryGet(d, k) ==
    IF SlotsOf(d, k) = {} THEN NOTFOUND ELSE d.slot[First(SlotsOf(d, k))].val

\* Variant: nothing is copied to the new slots.
MemDoubleEmpty(d) ==
    IF d.n = Len(d.slot)
    THEN [d EXCEPT !.slot = [i \in 1 .. 2 * Len(@) |-> EmptySlot]] ELSE d

\* Twice as many slots when all are counted as taken.
MemDouble(d) ==
    IF d.n = Len(d.slot)
    THEN [d EXCEPT !.slot = @ \o [i \in DOMAIN @ |-> EmptySlot]] ELSE d

DictionarySet(d, k, v) ==
    IF SlotsOf(d, k) # {}
    THEN [d EXCEPT !.slot[First(SlotsOf(d, k))].val = v]
    ELSE LET g == MemDouble(d)
         IN  [g EXCEPT !.slot[First(SlotsOf(g, Null))] = [key |-> k, val |-> v],
                       !.n = @ + 1]

\* There was no memory for the copy of a new key: the slot stays empty and is
\* counted, and the call says it succeeded.
DictionarySetNoKey(d) == [MemDouble(d) EXCEPT !.n = @ + 1]

\* Variant: the slot is still counted.
DictionaryUnsetCounted(d, k) ==
    IF SlotsOf(d, k) = {} THEN d ELSE [d EXCEPT !.slot[First(SlotsOf(d, k))] = EmptySlot]

DictionaryUnset(d, k) ==
    IF SlotsOf(d, k) = {} THEN d
    ELSE [d EXCEPT !.slot[First(SlotsOf(d, k))] = EmptySlot, !.n = @ - 1]

Content(d) == [k \in {d.slot[i].key : i \in DOMAIN d.slot} \ {Null} |-> DictionaryGet(d, k)]
=============================================================================
