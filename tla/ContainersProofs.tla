-------------------------- MODULE ContainersProofs --------------------------
(***************************************************************************)
(* Proofs about what a program keeps its data in.  The settings: the slots *)
(* of the dictionary are a partial function from keys to values, whatever  *)
(* is loaded, set, unset and asked for, and whatever allocation fails.     *)
(* The memory file: what MFileProofs says of its steps, for every run.     *)
(* The hashmap: what HashMapProofs says of its steps.                      *)
(***************************************************************************)
EXTENDS Containers, HashMapProofs

---------------------------------------------------------------------------
(* The dictionary.  No key is in two slots, and the count of slots taken   *)
(* is never below their number: so there is an empty one when the count    *)
(* has not reached the size, and what is found under a key is unique.      *)

Taken(d) == {i \in DOMAIN d.slot : d.slot[i].key # Null}

DictOK(d) ==
    /\ d = [slot |-> d.slot, n |-> d.n]
    /\ d.slot \in Seq(ToSet(d.slot)) /\ d.n \in Nat
    /\ \A i \in DOMAIN d.slot : d.slot[i] = [key |-> d.slot[i].key, val |-> d.slot[i].val]
    /\ \A i, j \in Taken(d) : d.slot[i].key = d.slot[j].key => i = j
    /\ Cardinality(Taken(d)) <= d.n /\ d.n <= Len(d.slot) /\ Len(d.slot) > 0

\* How far the count is above the slots taken.
Excess(d) == d.n - Cardinality(Taken(d))

\* A sequence is one over its own elements.
LEMMA OwnSeq ==
    ASSUME NEW n \in Nat, NEW s, s = [i \in 1 .. n |-> s[i]]
    PROVE  s \in Seq(ToSet(s)) /\ Len(s) = n /\ DOMAIN s = 1 .. n
<1>1. DOMAIN s = 1 .. n
  OBVIOUS
<1>2. s \in [1 .. n -> ToSet(s)]
  BY <1>1 DEF ToSet
<1>3. s \in Seq(ToSet(s))
  BY <1>2, SeqDef
<1> QED BY <1>1, <1>3

\* First is the least number of a set.
LEMMA FirstIs ==
    ASSUME NEW S, S \subseteq Nat, S # {}
    PROVE  First(S) \in S /\ \A j \in S : First(S) <= j
<1>1. \E i \in S : \A j \in S : i <= j
  BY LeastOf
<1> QED BY <1>1 DEF First

\* The slots taken are finitely many.
LEMMA TakenFinite ==
    ASSUME NEW d, DictOK(d)
    PROVE  /\ DOMAIN d.slot = 1 .. Len(d.slot) /\ Len(d.slot) \in Nat
           /\ Taken(d) \subseteq 1 .. Len(d.slot)
           /\ IsFiniteSet(Taken(d)) /\ Cardinality(Taken(d)) \in Nat
<1>1. DOMAIN d.slot = 1 .. Len(d.slot) /\ Len(d.slot) \in Nat
  BY LenProperties DEF DictOK
<1>2. Taken(d) \subseteq 1 .. Len(d.slot)
  BY <1>1 DEF Taken
<1>3. IsFiniteSet(1 .. Len(d.slot))
  BY <1>1, FS_Interval
<1>4. IsFiniteSet(Taken(d)) /\ Cardinality(Taken(d)) \in Nat
  BY <1>2, <1>3, FS_Subset, FS_CardinalityType
<1> QED BY <1>1, <1>2, <1>4

\* What is found under a key.
LEMMA GetIs ==
    ASSUME NEW d, DictOK(d)
    PROVE  /\ \A i \in Taken(d) : DictionaryGet(d, d.slot[i].key) = d.slot[i].val
           /\ \A k : (\A i \in DOMAIN d.slot : d.slot[i].key # k)
                        => DictionaryGet(d, k) = NOTFOUND
<1>1. ASSUME NEW i \in Taken(d)
      PROVE  DictionaryGet(d, d.slot[i].key) = d.slot[i].val
  <2>1. SlotsOf(d, d.slot[i].key) = {i}
    BY DEF SlotsOf, DictOK, Taken
  <2>2. First(SlotsOf(d, d.slot[i].key)) = i
    BY <2>1, FirstIs, TakenFinite
  <2> QED BY <2>1, <2>2 DEF DictionaryGet
<1>2. ASSUME NEW k, \A i \in DOMAIN d.slot : d.slot[i].key # k
      PROVE  DictionaryGet(d, k) = NOTFOUND
  BY <1>2 DEF DictionaryGet, SlotsOf
<1> QED BY <1>1, <1>2

\* The content is what the slots taken have.
LEMMA ContentIs ==
    ASSUME NEW d, DictOK(d)
    PROVE  /\ DOMAIN Content(d) = {d.slot[i].key : i \in Taken(d)}
           /\ \A i \in Taken(d) : Content(d)[d.slot[i].key] = d.slot[i].val
           /\ Content(d) = [k \in DOMAIN Content(d) |-> Content(d)[k]]
           /\ \A k : k # Null =>
                DictionaryGet(d, k) = IF k \in DOMAIN Content(d) THEN Content(d)[k]
                                      ELSE NOTFOUND
<1>1. Content(d) = [k \in {d.slot[i].key : i \in DOMAIN d.slot} \ {Null} |->
                        DictionaryGet(d, k)]
  BY DEF Content
<1>2. {d.slot[i].key : i \in DOMAIN d.slot} \ {Null} = {d.slot[i].key : i \in Taken(d)}
  BY DEF Taken
<1>3. /\ DOMAIN Content(d) = {d.slot[i].key : i \in Taken(d)}
      /\ \A k \in DOMAIN Content(d) : Content(d)[k] = DictionaryGet(d, k)
      /\ Content(d) = [k \in DOMAIN Content(d) |-> Content(d)[k]]
  BY <1>1, <1>2
<1>4. ASSUME NEW k, k # Null, k \notin DOMAIN Content(d)
      PROVE  DictionaryGet(d, k) = NOTFOUND
  <2>1. \A i \in DOMAIN d.slot : d.slot[i].key # k
    BY <1>3, <1>4 DEF Taken
  <2> QED BY <2>1, GetIs
<1> QED BY <1>3, <1>4, GetIs

\* A new dictionary has no key.
LEMMA NewOK ==
    /\ DictOK(DictionaryNew) /\ Excess(DictionaryNew) = 0
    /\ Content(DictionaryNew) = [k \in {} |-> Null]
<1> DEFINE d == DictionaryNew
<1>1. /\ DictMinSz \in Nat /\ DictMinSz > 0
      /\ d.slot = [i \in 1 .. DictMinSz |-> EmptySlot] /\ d.n = 0
      /\ d = [slot |-> d.slot, n |-> d.n]
  BY DictionaryAssumption DEF DictionaryNew
<1>2. d.slot = [i \in 1 .. DictMinSz |-> d.slot[i]]
  BY <1>1
<1>3. /\ d.slot \in Seq(ToSet(d.slot)) /\ Len(d.slot) = DictMinSz
      /\ DOMAIN d.slot = 1 .. DictMinSz
  BY <1>1, <1>2, OwnSeq
<1>4. \A i \in DOMAIN d.slot : d.slot[i] = EmptySlot
  BY <1>1, <1>3
<1>5. Taken(d) = {}
  BY <1>4 DEF Taken, EmptySlot
<1>6. Cardinality(Taken(d)) = 0
  BY <1>5, FS_EmptySet
<1>7. DictOK(d)
  BY <1>1, <1>3, <1>4, <1>5, <1>6 DEF DictOK, EmptySlot
<1>8. Content(d) = [k \in {} |-> Null]
  <2>1. DOMAIN Content(d) = {}
    BY <1>5, <1>7, ContentIs
  <2> QED BY <1>7, <2>1, ContentIs
<1> QED BY <1>1, <1>6, <1>7, <1>8 DEF Excess

\* What the slots taken say is all that matters.
LEMMA SameContent ==
    ASSUME NEW d, NEW g, DictOK(d), DictOK(g), Taken(g) = Taken(d),
           \A i \in Taken(d) : g.slot[i] = d.slot[i]
    PROVE  Content(g) = Content(d)
<1>1. /\ DOMAIN Content(d) = {d.slot[i].key : i \in Taken(d)}
      /\ \A i \in Taken(d) : Content(d)[d.slot[i].key] = d.slot[i].val
      /\ Content(d) = [k \in DOMAIN Content(d) |-> Content(d)[k]]
  BY ContentIs
<1>2. /\ DOMAIN Content(g) = {g.slot[i].key : i \in Taken(g)}
      /\ \A i \in Taken(g) : Content(g)[g.slot[i].key] = g.slot[i].val
      /\ Content(g) = [k \in DOMAIN Content(g) |-> Content(g)[k]]
  BY ContentIs
<1>3. DOMAIN Content(g) = DOMAIN Content(d)
  BY <1>1, <1>2
<1>4. \A k \in DOMAIN Content(d) : Content(g)[k] = Content(d)[k]
  BY <1>1, <1>2
<1> HIDE DEF Content
<1> QED BY <1>1, <1>2, <1>3, <1>4

\* A dictionary with twice the slots has the same content, and one to spare.
LEMMA DoubleKept ==
    ASSUME NEW d, DictOK(d)
    PROVE  LET g == MemDouble(d)
           IN  /\ DictOK(g) /\ Taken(g) = Taken(d) /\ g.n = d.n /\ d.n < Len(g.slot)
               /\ \A i \in Taken(d) : g.slot[i] = d.slot[i]
               /\ Content(g) = Content(d)
<1> DEFINE g == MemDouble(d)
<1>1. /\ DOMAIN d.slot = 1 .. Len(d.slot) /\ Len(d.slot) \in Nat
      /\ Taken(d) \subseteq 1 .. Len(d.slot) /\ Cardinality(Taken(d)) \in Nat
  BY TakenFinite
<1>2. CASE d.n # Len(d.slot)
  <2>1. g = d
    BY <1>2 DEF MemDouble
  <2>2. d.n < Len(d.slot)
    BY <1>1, <1>2 DEF DictOK
  <2> HIDE DEF g
  <2> QED BY <2>1, <2>2 DEF g
<1>3. CASE d.n = Len(d.slot)
  <2> DEFINE more == [i \in DOMAIN d.slot |-> EmptySlot]
             S    == ToSet(d.slot) \cup {EmptySlot}
             len  == Len(d.slot)
  <2>1. g = [slot |-> d.slot \o more, n |-> d.n]
    BY <1>3 DEF MemDouble, DictOK
  <2>2. d.slot \in Seq(S) /\ len = Len(d.slot) /\ len \in Nat /\ len > 0
    <3>1. d.slot \in Seq(ToSet(d.slot)) /\ len > 0
      BY DEF DictOK
    <3> QED BY <1>1, <3>1, SeqMonotonic
  <2>3. more \in Seq(S) /\ Len(more) = len
    <3>1. more = [i \in 1 .. len |-> more[i]]
      BY <1>1
    <3>2. more \in Seq(ToSet(more)) /\ Len(more) = len
      BY <2>2, <3>1, OwnSeq
    <3>3. ToSet(more) \subseteq S
      BY DEF ToSet
    <3> QED BY <3>2, <3>3, SeqMonotonic
  <2> HIDE DEF S
  <2>4. /\ d.slot \o more \in Seq(S) /\ Len(d.slot \o more) = 2 * len
        /\ \A i \in 1 .. 2 * len : (d.slot \o more)[i] = IF i <= len THEN d.slot[i] ELSE more[i - len]
    BY <2>2, <2>3, ConcatProperties
  <2>5. /\ g.slot = d.slot \o more /\ g.n = d.n /\ g = [slot |-> g.slot, n |-> g.n]
        /\ Len(g.slot) = 2 * len /\ DOMAIN g.slot = 1 .. 2 * len
    BY <2>1, <2>4, LenProperties
  <2>6. \A i \in 1 .. 2 * len : g.slot[i] = IF i <= len THEN d.slot[i] ELSE EmptySlot
    <3>1. \A i \in 1 .. 2 * len : ~(i <= len) => more[i - len] = EmptySlot
      BY <1>1, <2>2
    <3> QED BY <2>4, <2>5, <3>1
  <2> HIDE DEF g, more
  <2>7. Taken(g) = Taken(d)
    BY <1>1, <2>2, <2>5, <2>6 DEF Taken, EmptySlot
  <2>8. \A i \in Taken(d) : g.slot[i] = d.slot[i]
    BY <1>1, <2>2, <2>6
  <2>9. g.slot \in Seq(ToSet(g.slot))
    <3>1. g.slot \in [1 .. 2 * len -> S] /\ 2 * len \in Nat
      BY <2>2, <2>4, <2>5, LenProperties
    <3>2. g.slot = [i \in 1 .. 2 * len |-> g.slot[i]]
      BY <3>1
    <3> QED BY <3>1, <3>2, OwnSeq
  <2>10. \A i \in DOMAIN g.slot : g.slot[i] = [key |-> g.slot[i].key, val |-> g.slot[i].val]
    BY <1>1, <2>2, <2>5, <2>6 DEF DictOK, EmptySlot
  <2>11. \A i, j \in Taken(g) : g.slot[i].key = g.slot[j].key => i = j
    BY <2>7, <2>8 DEF DictOK
  <2>12. /\ g.n \in Nat /\ Cardinality(Taken(g)) <= g.n /\ g.n < Len(g.slot)
         /\ g.n <= Len(g.slot) /\ Len(g.slot) > 0
    BY <1>3, <2>2, <2>5, <2>7 DEF DictOK
  <2>13. DictOK(g)
    BY <2>5, <2>9, <2>10, <2>11, <2>12, Zenon DEF DictOK
  <2>14. Content(g) = Content(d)
    BY <2>7, <2>8, <2>13, SameContent
  <2> QED BY <2>5, <2>7, <2>8, <2>12, <2>13, <2>14 DEF g
<1> QED BY <1>2, <1>3

\* e is d with something else in slot i, and the count m.
Changed(d, e, i, k, v, m) ==
    /\ e = [slot |-> e.slot, n |-> e.n] /\ e.n = m
    /\ e.slot \in Seq(ToSet(e.slot)) /\ Len(e.slot) = Len(d.slot)
    /\ DOMAIN e.slot = DOMAIN d.slot
    /\ \A j \in DOMAIN d.slot :
            e.slot[j] = IF j = i THEN [key |-> k, val |-> v] ELSE d.slot[j]
    /\ \A j \in DOMAIN e.slot : e.slot[j] = [key |-> e.slot[j].key, val |-> e.slot[j].val]

\* What the dictionary is after one slot was written and the count set.
LEMMA SlotChanged ==
    ASSUME NEW d, DictOK(d), NEW i \in DOMAIN d.slot, NEW k, NEW v, NEW m
    PROVE  Changed(d, [d EXCEPT !.slot[i] = [key |-> k, val |-> v], !.n = m], i, k, v, m)
<1> DEFINE e == [d EXCEPT !.slot[i] = [key |-> k, val |-> v], !.n = m]
<1>1. /\ DOMAIN d.slot = 1 .. Len(d.slot) /\ Len(d.slot) \in Nat
      /\ d = [slot |-> d.slot, n |-> d.n]
  BY TakenFinite DEF DictOK
<1>2. e.slot = [d.slot EXCEPT ![i] = [key |-> k, val |-> v]] /\ e.n = m
      /\ e = [slot |-> e.slot, n |-> e.n]
  <2>1. ASSUME NEW s, NEW l, NEW x, NEW f,
               f = [[slot |-> s, n |-> l] EXCEPT !.slot[i] = x, !.n = m]
        PROVE  f.slot = [s EXCEPT ![i] = x] /\ f.n = m /\ f = [slot |-> f.slot, n |-> f.n]
    BY <2>1
  <2> DEFINE x == [key |-> k, val |-> v]
  <2>2. e = [[slot |-> d.slot, n |-> d.n] EXCEPT !.slot[i] = x, !.n = m]
    BY <1>1, Zenon
  <2> HIDE DEF e, x
  <2>3. e.slot = [d.slot EXCEPT ![i] = x] /\ e.n = m /\ e = [slot |-> e.slot, n |-> e.n]
    BY <2>1, <2>2, Zenon
  <2> QED BY <2>3 DEF x
<1> HIDE DEF e
<1>3. d.slot = [j \in 1 .. Len(d.slot) |-> d.slot[j]]
  <2>1. d.slot \in [1 .. Len(d.slot) -> ToSet(d.slot)]
    BY LenProperties DEF DictOK
  <2> QED BY <2>1
<1>4. /\ e.slot = [j \in 1 .. Len(d.slot) |-> e.slot[j]]
      /\ \A j \in DOMAIN d.slot :
            e.slot[j] = IF j = i THEN [key |-> k, val |-> v] ELSE d.slot[j]
  BY <1>1, <1>2, <1>3
<1>5. /\ e.slot \in Seq(ToSet(e.slot)) /\ Len(e.slot) = Len(d.slot)
      /\ DOMAIN e.slot = 1 .. Len(d.slot)
  BY <1>1, <1>4, OwnSeq
<1>6. \A j \in DOMAIN e.slot : e.slot[j] = [key |-> e.slot[j].key, val |-> e.slot[j].val]
  BY <1>1, <1>4, <1>5 DEF DictOK
<1>7. Changed(d, e, i, k, v, m)
  BY <1>1, <1>2, <1>4, <1>5, <1>6, Zenon DEF Changed
<1> QED BY <1>7 DEF e

With(c, k, v) == [j \in DOMAIN c \cup {k} |-> IF j = k THEN v ELSE c[j]]
Without(c, k) == [j \in DOMAIN c \ {k} |-> c[j]]

\* A key that was not there is put into an empty slot.
LEMMA PutKept ==
    ASSUME NEW g, DictOK(g), NEW k, k # Null, k \notin DOMAIN Content(g), NEW v,
           NEW i \in DOMAIN g.slot, i \notin Taken(g), g.n < Len(g.slot), NEW e,
           Changed(g, e, i, k, v, g.n + 1)
    PROVE  DictOK(e) /\ Excess(e) = Excess(g) /\ Content(e) = With(Content(g), k, v)
<1>1. /\ e = [slot |-> e.slot, n |-> e.n] /\ e.n = g.n + 1
      /\ e.slot \in Seq(ToSet(e.slot)) /\ Len(e.slot) = Len(g.slot)
      /\ DOMAIN e.slot = DOMAIN g.slot
      /\ \A j \in DOMAIN g.slot :
            e.slot[j] = IF j = i THEN [key |-> k, val |-> v] ELSE g.slot[j]
      /\ \A j \in DOMAIN e.slot : e.slot[j] = [key |-> e.slot[j].key, val |-> e.slot[j].val]
  BY Zenon DEF Changed
<1>2. /\ Taken(g) \subseteq DOMAIN g.slot
      /\ IsFiniteSet(Taken(g)) /\ Cardinality(Taken(g)) \in Nat
      /\ g.n \in Nat /\ Len(g.slot) \in Nat
      /\ Cardinality(Taken(g)) <= g.n
      /\ \A j \in Taken(g) : g.slot[j].key # k
  <2>1. \A j \in Taken(g) : g.slot[j].key # k
    <3>1. DOMAIN Content(g) = {g.slot[j].key : j \in Taken(g)}
      BY ContentIs
    <3> QED BY <3>1
  <2> QED BY <2>1, TakenFinite DEF DictOK
<1>3. Taken(e) = Taken(g) \cup {i}
  BY <1>1, <1>2 DEF Taken
<1>4. Cardinality(Taken(e)) = Cardinality(Taken(g)) + 1
  BY <1>2, <1>3, FS_AddElement
<1>5. \A j, l \in Taken(e) : e.slot[j].key = e.slot[l].key => j = l
  BY <1>1, <1>2, <1>3 DEF DictOK
<1>6. DictOK(e)
  <2>1. e.n \in Nat /\ Cardinality(Taken(e)) <= e.n /\ e.n <= Len(e.slot) /\ Len(e.slot) > 0
    BY <1>1, <1>2, <1>4
  <2> QED BY <1>1, <1>5, <2>1, Zenon DEF DictOK
<1>7. Excess(e) = Excess(g)
  <2>1. e.n = g.n + 1
    BY <1>1, Zenon
  <2> QED BY <1>2, <1>4, <2>1 DEF Excess
<1>8. Content(e) = With(Content(g), k, v)
  <2>1. /\ DOMAIN Content(g) = {g.slot[j].key : j \in Taken(g)}
        /\ \A j \in Taken(g) : Content(g)[g.slot[j].key] = g.slot[j].val
    BY ContentIs
  <2>2. /\ DOMAIN Content(e) = {e.slot[j].key : j \in Taken(e)}
        /\ \A j \in Taken(e) : Content(e)[e.slot[j].key] = e.slot[j].val
        /\ Content(e) = [j \in DOMAIN Content(e) |-> Content(e)[j]]
    BY <1>6, ContentIs
  <2>3. /\ \A j \in Taken(g) : e.slot[j] = g.slot[j]
        /\ e.slot[i].key = k /\ e.slot[i].val = v
    BY <1>1, <1>2
  <2>4. DOMAIN Content(e) = DOMAIN Content(g) \cup {k}
    BY <1>3, <2>1, <2>2, <2>3
  <2>5. Content(e)[k] = v
    BY <1>3, <2>2, <2>3
  <2>6. \A c \in DOMAIN Content(g) : Content(e)[c] = Content(g)[c] /\ c # k
    BY <1>3, <2>1, <2>2, <2>3
  <2>7. \A c \in DOMAIN Content(e) :
            Content(e)[c] = IF c = k THEN v ELSE Content(g)[c]
    BY <2>4, <2>5, <2>6
  <2> QED BY <2>2, <2>4, <2>7 DEF With
<1> QED BY <1>6, <1>7, <1>8

\* A key that is there gets another value.
LEMMA ChangeKept ==
    ASSUME NEW d, DictOK(d), NEW i \in Taken(d), NEW v, NEW k, k = d.slot[i].key, NEW e,
           Changed(d, e, i, k, v, d.n)
    PROVE  DictOK(e) /\ Excess(e) = Excess(d) /\ Content(e) = With(Content(d), k, v)
<1>1. i \in DOMAIN d.slot /\ k # Null
  BY DEF Taken
<1>3. /\ e = [slot |-> e.slot, n |-> e.n] /\ e.n = d.n
      /\ e.slot \in Seq(ToSet(e.slot)) /\ Len(e.slot) = Len(d.slot)
      /\ DOMAIN e.slot = DOMAIN d.slot
      /\ \A j \in DOMAIN d.slot :
            e.slot[j] = IF j = i THEN [key |-> k, val |-> v] ELSE d.slot[j]
      /\ \A j \in DOMAIN e.slot : e.slot[j] = [key |-> e.slot[j].key, val |-> e.slot[j].val]
  BY Zenon DEF Changed
<1>4. \A j \in DOMAIN d.slot : e.slot[j].key = d.slot[j].key
  BY <1>3
<1>5. Taken(e) = Taken(d)
  BY <1>3, <1>4 DEF Taken
<1>6. DictOK(e)
  <2>1. \A j, l \in Taken(e) : e.slot[j].key = e.slot[l].key => j = l
    BY <1>4, <1>5 DEF DictOK, Taken
  <2>2. e.n \in Nat /\ Cardinality(Taken(e)) <= e.n /\ e.n <= Len(e.slot) /\ Len(e.slot) > 0
    BY <1>3, <1>5 DEF DictOK
  <2> QED BY <1>3, <2>1, <2>2, Zenon DEF DictOK
<1>7. Excess(e) = Excess(d)
  BY <1>3, <1>5 DEF Excess
<1>8. Content(e) = With(Content(d), k, v)
  <2>1. /\ DOMAIN Content(d) = {d.slot[j].key : j \in Taken(d)}
        /\ \A j \in Taken(d) : Content(d)[d.slot[j].key] = d.slot[j].val
    BY ContentIs
  <2>2. /\ DOMAIN Content(e) = {e.slot[j].key : j \in Taken(e)}
        /\ \A j \in Taken(e) : Content(e)[e.slot[j].key] = e.slot[j].val
        /\ Content(e) = [j \in DOMAIN Content(e) |-> Content(e)[j]]
    BY <1>6, ContentIs
  <2>3. DOMAIN Content(e) = DOMAIN Content(d) /\ k \in DOMAIN Content(d)
    BY <1>4, <1>5, <2>1, <2>2 DEF Taken
  <2>4. Content(e)[k] = v
    BY <1>1, <1>3, <1>5, <2>2
  <2>5. ASSUME NEW c \in DOMAIN Content(d), c # k PROVE Content(e)[c] = Content(d)[c]
    <3>1. PICK j \in Taken(d) : c = d.slot[j].key
      BY <2>1
    <3>2. j # i /\ j \in DOMAIN d.slot
      BY <2>5, <3>1 DEF Taken
    <3>3. e.slot[j] = d.slot[j]
      BY <1>3, <3>2
    <3> QED BY <1>5, <2>1, <2>2, <3>1, <3>3
  <2>6. \A c \in DOMAIN Content(e) :
            Content(e)[c] = IF c = k THEN v ELSE Content(d)[c]
    BY <2>3, <2>4, <2>5
  <2>7. DOMAIN Content(e) = DOMAIN Content(d) \cup {k}
    BY <2>3
  <2> QED BY <2>2, <2>6, <2>7 DEF With
<1> QED BY <1>6, <1>7, <1>8

\* A key that is there is emptied.
LEMMA EmptiedKept ==
    ASSUME NEW d, DictOK(d), NEW i \in Taken(d), NEW k, k = d.slot[i].key, NEW e,
           Changed(d, e, i, Null, Null, d.n - 1)
    PROVE  DictOK(e) /\ Excess(e) = Excess(d) /\ Content(e) = Without(Content(d), k)
<1>1. /\ e = [slot |-> e.slot, n |-> e.n] /\ e.n = d.n - 1
      /\ e.slot \in Seq(ToSet(e.slot)) /\ Len(e.slot) = Len(d.slot)
      /\ DOMAIN e.slot = DOMAIN d.slot
      /\ \A j \in DOMAIN d.slot :
            e.slot[j] = IF j = i THEN [key |-> Null, val |-> Null] ELSE d.slot[j]
      /\ \A j \in DOMAIN e.slot : e.slot[j] = [key |-> e.slot[j].key, val |-> e.slot[j].val]
  BY Zenon DEF Changed
<1>2. /\ Taken(d) \subseteq DOMAIN d.slot
      /\ IsFiniteSet(Taken(d)) /\ Cardinality(Taken(d)) \in Nat
      /\ d.n \in Nat /\ Len(d.slot) \in Nat /\ Len(d.slot) > 0
      /\ Cardinality(Taken(d)) <= d.n /\ d.n <= Len(d.slot)
  BY TakenFinite DEF DictOK
<1>3. Taken(e) = Taken(d) \ {i}
  BY <1>1, <1>2 DEF Taken
<1>4. Cardinality(Taken(e)) = Cardinality(Taken(d)) - 1 /\ Cardinality(Taken(e)) \in Nat
  <2>1. IsFiniteSet(Taken(e)) /\ Cardinality(Taken(e)) = Cardinality(Taken(d)) - 1
    BY <1>2, <1>3, FS_RemoveElement
  <2> QED BY <2>1, FS_CardinalityType
<1>5. \A j \in Taken(e) : e.slot[j] = d.slot[j] /\ j \in Taken(d) /\ j # i
  BY <1>1, <1>2, <1>3
<1>6. \A j, l \in Taken(e) : e.slot[j].key = e.slot[l].key => j = l
  BY <1>5 DEF DictOK
<1>7. e.n = d.n - 1 /\ Len(e.slot) = Len(d.slot)
  BY <1>1, Zenon
<1>8. DictOK(e)
  <2>1. e.n \in Nat /\ Cardinality(Taken(e)) <= e.n /\ e.n <= Len(e.slot) /\ Len(e.slot) > 0
    BY <1>2, <1>4, <1>7
  <2> QED BY <1>1, <1>6, <2>1, Zenon DEF DictOK
<1>9. Excess(e) = Excess(d)
  BY <1>2, <1>4, <1>7 DEF Excess
<1>10. Content(e) = Without(Content(d), k)
  <2>1. /\ DOMAIN Content(d) = {d.slot[j].key : j \in Taken(d)}
        /\ \A j \in Taken(d) : Content(d)[d.slot[j].key] = d.slot[j].val
    BY ContentIs
  <2>2. /\ DOMAIN Content(e) = {e.slot[j].key : j \in Taken(e)}
        /\ \A j \in Taken(e) : Content(e)[e.slot[j].key] = e.slot[j].val
        /\ Content(e) = [j \in DOMAIN Content(e) |-> Content(e)[j]]
    BY <1>8, ContentIs
  <2>3. DOMAIN Content(e) = DOMAIN Content(d) \ {k}
    <3>1. \A j \in Taken(d) : d.slot[j].key = k => j = i
      BY DEF DictOK
    <3>2. \A j \in Taken(d) : j # i => j \in Taken(e)
      BY <1>3
    <3> QED BY <1>5, <2>1, <2>2, <3>1, <3>2
  <2>4. ASSUME NEW c \in DOMAIN Content(e) PROVE Content(e)[c] = Content(d)[c]
    <3>1. PICK j \in Taken(e) : c = e.slot[j].key
      BY <2>2
    <3> QED BY <1>5, <2>1, <2>2, <3>1
  <2> QED BY <2>2, <2>3, <2>4 DEF Without
<1> QED BY <1>8, <1>9, <1>10

\* dictionary_set puts v under k, whether k was there or not and whether the
\* slots were full or not.
LEMMA SetKept ==
    ASSUME NEW d, DictOK(d), NEW k, k # Null, NEW v
    PROVE  /\ DictOK(DictionarySet(d, k, v)) /\ Excess(DictionarySet(d, k, v)) = Excess(d)
           /\ Content(DictionarySet(d, k, v)) = With(Content(d), k, v)
<1> DEFINE e == DictionarySet(d, k, v)
<1>1. DOMAIN d.slot \subseteq Nat
  BY TakenFinite
<1>2. CASE SlotsOf(d, k) # {}
  <2> DEFINE i == First(SlotsOf(d, k))
  <2>1. i \in SlotsOf(d, k)
    BY <1>1, <1>2, FirstIs DEF SlotsOf
  <2>2. i \in Taken(d) /\ i \in DOMAIN d.slot /\ k = d.slot[i].key
    BY <2>1 DEF SlotsOf, Taken
  <2>3. e = [d EXCEPT !.slot[i].val = v]
    BY <1>2 DEF DictionarySet
  <2> HIDE DEF i, e
  <2>4. Changed(d, e, i, k, v, d.n)
    <3>1. Changed(d, [d EXCEPT !.slot[i] = [key |-> k, val |-> v], !.n = d.n], i, k, v, d.n)
      BY <2>2, SlotChanged
    <3>2. e = [d EXCEPT !.slot[i] = [key |-> k, val |-> v], !.n = d.n]
      <4>1. d.slot[i] = [key |-> k, val |-> d.slot[i].val] /\ d = [slot |-> d.slot, n |-> d.n]
        BY <2>2 DEF DictOK
      <4>2. [d.slot[i] EXCEPT !.val = v] = [key |-> k, val |-> v]
        BY <4>1
      <4> QED BY <2>3, <4>1, <4>2
    <3> QED BY <3>1, <3>2, Zenon
  <2>5. DictOK(e) /\ Excess(e) = Excess(d) /\ Content(e) = With(Content(d), k, v)
    BY <2>2, <2>4, ChangeKept
  <2> QED BY <2>5 DEF e
<1>3. CASE SlotsOf(d, k) = {}
  <2> DEFINE g == MemDouble(d)
             i == First(SlotsOf(g, Null))
  <2>1. /\ DictOK(g) /\ Taken(g) = Taken(d) /\ g.n = d.n /\ d.n < Len(g.slot)
        /\ Content(g) = Content(d)
    BY DoubleKept
  <2>2. e = [g EXCEPT !.slot[i] = [key |-> k, val |-> v], !.n = @ + 1]
    BY <1>3 DEF DictionarySet
  <2> HIDE DEF g
  <2>3. /\ DOMAIN g.slot = 1 .. Len(g.slot) /\ Len(g.slot) \in Nat
        /\ Taken(g) \subseteq 1 .. Len(g.slot) /\ Cardinality(Taken(g)) <= g.n
        /\ g.n \in Nat /\ Cardinality(Taken(g)) \in Nat
    BY <2>1, TakenFinite DEF DictOK
  <2>4. SlotsOf(g, Null) # {}
    <3> SUFFICES ASSUME SlotsOf(g, Null) = {} PROVE FALSE
      OBVIOUS
    <3>1. Taken(g) = 1 .. Len(g.slot)
      BY <2>3 DEF SlotsOf, Taken
    <3>2. Len(g.slot) \in Nat
      BY <2>3
    <3>3. Cardinality(1 .. Len(g.slot)) = Len(g.slot)
      BY <3>2, FS_Interval, SMTT(30)
    <3> QED BY <2>1, <2>3, <3>1, <3>3
  <2>5. i \in SlotsOf(g, Null)
    <3>1. SlotsOf(g, Null) \subseteq Nat
      BY <2>3 DEF SlotsOf
    <3> QED BY <2>4, <3>1, FirstIs
  <2>6. i \in DOMAIN g.slot /\ i \notin Taken(g)
    BY <2>5 DEF SlotsOf, Taken
  <2> HIDE DEF i, e
  <2>7. Changed(g, e, i, k, v, g.n + 1)
    <3>1. e = [g EXCEPT !.slot[i] = [key |-> k, val |-> v], !.n = g.n + 1]
      BY <2>2
    <3> QED BY <2>1, <2>6, <3>1, SlotChanged
  <2>8. k \notin DOMAIN Content(g)
    <3>1. \A j \in Taken(d) : d.slot[j].key # k
      BY <1>3 DEF SlotsOf, Taken
    <3>2. DOMAIN Content(d) = {d.slot[j].key : j \in Taken(d)}
      BY ContentIs
    <3> QED BY <2>1, <3>1, <3>2
  <2>9. DictOK(e) /\ Excess(e) = Excess(g) /\ Content(e) = With(Content(g), k, v)
    BY <2>1, <2>6, <2>7, <2>8, PutKept
  <2>10. Excess(g) = Excess(d)
    BY <2>1 DEF Excess
  <2> QED BY <2>1, <2>9, <2>10 DEF e
<1> QED BY <1>2, <1>3

\* Without memory for the copy of the key, no slot is taken but one more counted.
LEMMA NoKeyKept ==
    ASSUME NEW d, DictOK(d)
    PROVE  LET e == DictionarySetNoKey(d)
           IN  DictOK(e) /\ Excess(e) = Excess(d) + 1 /\ Content(e) = Content(d)
<1> DEFINE g == MemDouble(d)
           e == DictionarySetNoKey(d)
<1>1. /\ DictOK(g) /\ Taken(g) = Taken(d) /\ g.n = d.n /\ d.n < Len(g.slot)
      /\ Content(g) = Content(d)
  BY DoubleKept
<1>2. e = [g EXCEPT !.n = @ + 1]
  BY DEF DictionarySetNoKey
<1> HIDE DEF g, e
<1>3. e.slot = g.slot /\ e.n = g.n + 1 /\ e = [slot |-> e.slot, n |-> e.n]
  <2>1. g = [slot |-> g.slot, n |-> g.n]
    BY <1>1 DEF DictOK
  <2> QED BY <1>2, <2>1
<1>4. Taken(e) = Taken(g)
  BY <1>3 DEF Taken
<1>5. /\ Len(g.slot) \in Nat /\ Cardinality(Taken(g)) \in Nat /\ g.n \in Nat
      /\ Cardinality(Taken(g)) <= g.n /\ Len(g.slot) > 0 /\ g.n < Len(g.slot)
  BY <1>1, TakenFinite DEF DictOK
<1>6. DictOK(e)
  <2>1. e.n \in Nat /\ Cardinality(Taken(e)) <= e.n /\ e.n <= Len(e.slot) /\ Len(e.slot) > 0
    <3>1. g.n + 1 \in Nat /\ Cardinality(Taken(g)) <= g.n + 1 /\ g.n + 1 <= Len(g.slot)
      BY <1>5
    <3> QED BY <1>3, <1>4, <1>5, <3>1, Zenon
  <2>2. /\ e.slot \in Seq(ToSet(e.slot))
        /\ \A i \in DOMAIN e.slot : e.slot[i] = [key |-> e.slot[i].key, val |-> e.slot[i].val]
    BY <1>1, <1>3 DEF DictOK
  <2>3. \A i, j \in Taken(e) : e.slot[i].key = e.slot[j].key => i = j
    BY <1>1, <1>3, <1>4 DEF DictOK
  <2> QED BY <1>3, <2>1, <2>2, <2>3, Zenon DEF DictOK
<1>7. Excess(e) = Excess(d) + 1
  <2>1. Cardinality(Taken(e)) = Cardinality(Taken(d)) /\ e.n = d.n + 1
    BY <1>1, <1>3, <1>4, Zenon
  <2>2. d.n \in Nat /\ Cardinality(Taken(d)) \in Nat
    BY TakenFinite DEF DictOK
  <2> QED BY <2>1, <2>2 DEF Excess
<1>8. Content(e) = Content(g)
  <2>1. \A i \in Taken(g) : e.slot[i] = g.slot[i]
    BY <1>3
  <2> QED BY <1>1, <1>4, <1>6, <2>1, SameContent
<1> QED BY <1>1, <1>6, <1>7, <1>8 DEF e

\* dictionary_unset takes the key away, or leaves the dictionary alone when the
\* key is not there.
LEMMA UnsetKept ==
    ASSUME NEW d, DictOK(d), NEW k, k # Null
    PROVE  LET e == DictionaryUnset(d, k)
           IN  /\ DictOK(e) /\ Excess(e) = Excess(d)
               /\ \/ e = d
                  \/ k \in DOMAIN Content(d) /\ Content(e) = Without(Content(d), k)
<1> DEFINE e == DictionaryUnset(d, k)
<1>1. CASE SlotsOf(d, k) = {}
  <2>1. e = d
    BY <1>1 DEF DictionaryUnset
  <2> HIDE DEF e
  <2> QED BY <2>1 DEF e
<1>2. CASE SlotsOf(d, k) # {}
  <2> DEFINE i == First(SlotsOf(d, k))
  <2>1. i \in SlotsOf(d, k)
    <3>1. SlotsOf(d, k) \subseteq Nat
      BY TakenFinite DEF SlotsOf
    <3> QED BY <1>2, <3>1, FirstIs
  <2>2. i \in Taken(d) /\ i \in DOMAIN d.slot /\ k = d.slot[i].key
    BY <2>1 DEF SlotsOf, Taken
  <2>3. e = [d EXCEPT !.slot[i] = EmptySlot, !.n = @ - 1]
    BY <1>2 DEF DictionaryUnset
  <2> HIDE DEF i, e
  <2>4. Changed(d, e, i, Null, Null, d.n - 1)
    <3>1. e = [d EXCEPT !.slot[i] = [key |-> Null, val |-> Null], !.n = d.n - 1]
      BY <2>3 DEF EmptySlot
    <3> QED BY <2>2, <3>1, SlotChanged
  <2>5. DictOK(e) /\ Excess(e) = Excess(d) /\ Content(e) = Without(Content(d), k)
    BY <2>2, <2>4, EmptiedKept
  <2>6. k \in DOMAIN Content(d)
    <3>1. DOMAIN Content(d) = {d.slot[j].key : j \in Taken(d)}
      BY ContentIs
    <3> QED BY <2>2, <3>1
  <2> QED BY <2>5, <2>6 DEF e
<1> QED BY <1>1, <1>2

---------------------------------------------------------------------------
(* The parser.  Every name that it can meet, the one of a line without its *)
(* first character too, is one that strlwc knows: so the keys it sets are  *)
(* keys.  Errors are counted at most one per line.                         *)

TextOK(t) == t \in Seq(ToSet(t)) /\ \A x \in ToSet(t) : Named(x)

LoaderInv ==
    /\ input \in [how : {"load", "load_mem"}, lines : Files, newline : BOOLEAN]
    /\ pos \in 1 .. Len(input.lines) + 1
    /\ TextOK(pending) /\ Len(pending) <= LineSize
    /\ below \in {"backslash", "other", "short", "used"}
    /\ section \in Names
    /\ errs \in -1 .. pos - 1
    /\ status \in {"reading", "loaded", "null", "crashed", "changed",
                   "configured", "read", "refused"}
    /\ DOMAIN settings = IntOptions \cup StrOptions
    /\ misses \in 0 .. MaxMisses

DictInv == DictOK(dict) /\ Excess(dict) <= misses

ParserInv == LoaderInv /\ DictInv

\* A text all tokens of which are from a set of good ones is one.
LEMMA TextOver ==
    ASSUME NEW S, \A x \in S : Named(x), NEW t \in Seq(S)
    PROVE  TextOK(t)
<1>1. Len(t) \in Nat /\ DOMAIN t = 1 .. Len(t) /\ t \in [1 .. Len(t) -> S]
  BY LenProperties
<1>2. t = [i \in 1 .. Len(t) |-> t[i]]
  BY <1>1
<1>3. t \in Seq(ToSet(t))
  BY <1>1, <1>2, OwnSeq
<1>4. ToSet(t) \subseteq S
  BY <1>1 DEF ToSet
<1> QED BY <1>3, <1>4 DEF TextOK

\* The text of a line, with what is pending, is made of good tokens.
LEMMA TextIsOK ==
    LoaderInv /\ Reading => TextOK(Text)
<1> SUFFICES ASSUME LoaderInv, Reading PROVE TextOK(Text)
  OBVIOUS
<1> DEFINE l == input.lines[pos]
           t == pending \o l
           S == {x \in ToSet(pending) \cup ToSet(l) \cup {Tok("key", "cut"), Tok("word", "cut")} :
                    Named(x)}
<1>1. l \in Seq(ToSet(l)) /\ \A x \in ToSet(l) : Named(x)
  <2>1. input.lines \in Files /\ pos \in 1 .. Len(input.lines)
    BY DEF LoaderInv, Reading
  <2>2. /\ input.lines \in Seq(ToSet(input.lines))
        /\ \A k \in ToSet(input.lines) : k \in Seq(ToSet(k)) /\ \A x \in ToSet(k) : Named(x)
    BY <2>1, IniParserAssumption
  <2>3. DOMAIN input.lines = 1 .. Len(input.lines)
    BY <2>2, LenProperties
  <2>4. l \in ToSet(input.lines)
    BY <2>1, <2>3 DEF ToSet
  <2> QED BY <2>2, <2>4
<1>2. pending \in Seq(ToSet(pending)) /\ \A x \in ToSet(pending) : Named(x)
  BY DEF LoaderInv, TextOK
<1>3. Named(Tok("key", "cut")) /\ Named(Tok("word", "cut"))
  BY IniParserAssumption DEF Named, Tok
<1>4. /\ ToSet(pending) \subseteq S /\ ToSet(l) \subseteq S
      /\ Tok("key", "cut") \in S /\ Tok("word", "cut") \in S
      /\ \A x \in S : Named(x)
  BY <1>1, <1>2, <1>3
<1> HIDE DEF S, l
<1>5. pending \in Seq(S) /\ l \in Seq(S)
  BY <1>1, <1>2, <1>4, SeqMonotonic
<1>6. t \in Seq(S)
  BY <1>5, ConcatProperties
<1> HIDE DEF t
<1>7. Cut(t) \in Seq(S)
  <2>1. CASE t = <<>>
    BY <1>6, <2>1 DEF Cut
  <2>2. CASE t # <<>>
    <3> DEFINE c == IF t[1].t = "key" THEN Tok("key", "cut") ELSE Tok("word", "cut")
    <3>1. Cut(t) = [t EXCEPT ![1] = c]
      BY <2>2 DEF Cut
    <3>2. c \in S
      BY <1>4
    <3> HIDE DEF c
    <3> QED BY <1>6, <2>2, <3>1, <3>2, ExceptSeq
  <2> QED BY <2>1, <2>2
<1>8. Text = IF below = "short" THEN Cut(t) ELSE t
  BY DEF Text, t, l
<1> QED BY <1>4, <1>6, <1>7, <1>8, TextOver

\* What a line that goes on leaves pending.
LEMMA FrontIsOK ==
    ASSUME NEW t, TextOK(t), t # <<>>
    PROVE  TextOK(Front(t)) /\ Len(Front(t)) = Len(t) - 1
<1> DEFINE S == ToSet(t)
<1>1. t \in Seq(S) /\ \A x \in S : Named(x)
  BY DEF TextOK
<1> HIDE DEF S
<1>2. Len(t) \in Nat /\ Len(t) > 0
  BY <1>1, EmptySeq, LenProperties
<1> DEFINE n == Len(t) - 1
<1>3. SubSeq(t, 1, n) \in Seq(S) /\ Len(SubSeq(t, 1, n)) = n
  <2>1. n \in Nat /\ n \in 0 .. Len(t)
    BY <1>2
  <2> HIDE DEF n
  <2>2. \A i \in 1 .. n : t[i] \in S
    BY <1>1, <1>2, <2>1, ElementOfSeq
  <2>3. n = 0 => SubSeq(t, 1, n) = <<>>
    BY <2>1, SubSeqEmpty
  <2>4. n # 0 => SubSeq(t, 1, n) \in Seq(S) /\ Len(SubSeq(t, 1, n)) = n
    BY <2>1, <2>2, SubSeqProperties
  <2>5. <<>> \in Seq(S) /\ Len(<<>>) = 0
    BY EmptySeq
  <2> QED BY <2>3, <2>4, <2>5, Zenon
<1>4. Front(t) = SubSeq(t, 1, Len(t) - 1)
  BY DEF Front
<1> QED BY <1>1, <1>3, <1>4, TextOver

\* A line that sets something has a key, and a section that is a name.
LEMMA LineSets ==
    ASSUME NEW t, TextOK(t), NEW s \in Names,
           IniparserLine(t).kind \in {"section", "value"}
    PROVE  LET line == IniparserLine(t)
           IN  /\ line.kind = "section" => NewSection(line, s) \in Names
               /\ Assigned(line, s).key # Null
<1> DEFINE line == IniparserLine(t)
<1>1. t # <<>>
  BY DEF IniparserLine
<1>2. Named(t[1])
  <2>1. t \in Seq(ToSet(t)) /\ \A x \in ToSet(t) : Named(x)
    BY DEF TextOK
  <2>2. 1 \in DOMAIN t
    BY <1>1, <2>1, EmptySeq, LenProperties
  <2> QED BY <2>1, <2>2 DEF ToSet
<1>3. \/ t[1].t = "sec" /\ line = [kind |-> "section", name |-> t[1].s]
      \/ /\ t[1].t = "key"
         /\ line = [kind |-> "value", name |-> Lower[t[1].s], val |-> Value(t)]
  BY <1>1 DEF IniparserLine
<1> HIDE DEF line
<1>4. CASE t[1].t = "sec" /\ line = [kind |-> "section", name |-> t[1].s]
  <2>1. line.kind = "section" /\ line.name = t[1].s
    BY <1>4
  <2>2. NewSection(line, s) \in Names
    BY <1>2, <1>4, <2>1 DEF NewSection, Names, Named
  <2>3. Assigned(line, s).key = <<NewSection(line, s)>>
    BY <2>1 DEF Assigned
  <2> QED BY <2>2, <2>3, IniParserAssumption DEF line
<1>5. CASE /\ t[1].t = "key"
           /\ line = [kind |-> "value", name |-> Lower[t[1].s], val |-> Value(t)]
  <2>1. line.kind = "value" /\ line.name = Lower[t[1].s]
    BY <1>5
  <2>2. line.name \in Names
    BY <1>2, <1>5, <2>1 DEF Names, Named
  <2>3. Assigned(line, s).key = <<s, line.name>>
    BY <2>1 DEF Assigned
  <2> QED BY <2>1, <2>2, <2>3, IniParserAssumption DEF line
<1> QED BY <1>3, <1>4, <1>5

---------------------------------------------------------------------------
(* The first state, and what a step does to the dictionary: it is one of   *)
(* the steps of Settings.                                                  *)

LoadStep == [IniNext]_iniVars

AbsStep == [AsSettings!Next]_<<Content(dict), got>>

\* The parser starts before the text, with an empty dictionary.
LEMMA ParserInit == Init => ParserInv /\ AsSettings!Init
<1> SUFFICES ASSUME Init PROVE ParserInv /\ AsSettings!Init
  OBVIOUS
<1>1. IniInit
  BY DEF Init
<1>2. pending = <<>> /\ dict = DictionaryNew /\ misses = 0 /\ pos = 1 /\ got = NOTFOUND
  BY <1>1 DEF IniInit
<1>3. TextOK(pending) /\ Len(pending) = 0
  <2>1. <<>> \in Seq({}) /\ Len(<<>>) = 0
    BY EmptySeq
  <2> QED BY <1>2, <2>1, TextOver
<1>4. LoaderInv
  <2>1. input \in [how : {"load", "load_mem"}, lines : Files, newline : BOOLEAN]
    BY <1>1 DEF IniInit
  <2>2. Len(input.lines) \in Nat
    <3>1. input.lines \in Seq(ToSet(input.lines))
      BY <2>1, IniParserAssumption
    <3> QED BY <3>1, LenProperties
  <2>3. LineSize \in Nat /\ MaxMisses \in Nat
    BY IniParserAssumption
  <2>4. "" \in Names
    BY DEF Names
  <2>5. pos \in 1 .. Len(input.lines) + 1
    BY <1>2, <2>2
  <2>6. errs \in -1 .. pos - 1 /\ misses \in 0 .. MaxMisses /\ Len(pending) <= LineSize
    <3>1. errs = 0
      BY <1>1 DEF IniInit
    <3> QED BY <1>2, <1>3, <2>3, <3>1
  <2>7. /\ below \in {"backslash", "other", "short", "used"} /\ section = ""
        /\ status = "reading" /\ settings = Defaults
    BY <1>1 DEF IniInit
  <2>8. DOMAIN settings = IntOptions \cup StrOptions
    BY <2>7 DEF Defaults
  <2> QED BY <1>3, <2>1, <2>4, <2>5, <2>6, <2>7, <2>8 DEF LoaderInv
<1>5. DictInv
  BY <1>2, NewOK DEF DictInv
<1>6. AsSettings!Init
  BY <1>2, NewOK DEF AsSettings!Init, AsSettings!Empty
<1> QED BY <1>4, <1>5, <1>6 DEF ParserInv

\* Under a key something is put.
LEMMA SetIsAbstract ==
    ASSUME NEW k, NEW v, Content(dict') = With(Content(dict), k, v), got' = got
    PROVE  AbsStep
<1>1. /\ k \in DOMAIN Content(dict') /\ Content(dict')[k] = v
      /\ Content(dict') = [j \in DOMAIN Content(dict) \cup {k} |->
                                IF j = k THEN Content(dict')[k] ELSE Content(dict)[j]]
  BY DEF With
<1>2. AsSettings!Set(k, Content(dict')[k])
  BY <1>1 DEF AsSettings!Set
<1>3. AsSettings!Next
  BY <1>1, <1>2 DEF AsSettings!Next
<1> QED BY <1>3 DEF AbsStep

\* A key that is there is taken away.
LEMMA UnsetIsAbstract ==
    ASSUME NEW k \in DOMAIN Content(dict), Content(dict') = Without(Content(dict), k), got' = got
    PROVE  AbsStep
<1>1. AsSettings!Unset(k)
  BY DEF AsSettings!Unset, Without
<1>2. AsSettings!Next
  BY <1>1 DEF AsSettings!Next
<1> QED BY <1>2 DEF AbsStep

\* A key is asked for.
LEMMA GetIsAbstract ==
    ASSUME DictOK(dict), NEW p \in Programs, got' = DictionaryGet(dict, p.key), dict' = dict
    PROVE  AbsStep
<1>1. p.key # Null
  BY IniParserAssumption
<1>2. got' = IF p.key \in DOMAIN Content(dict) THEN Content(dict)[p.key] ELSE NOTFOUND
  BY <1>1, ContentIs
<1>3. AsSettings!Get(p.key)
  BY <1>2 DEF AsSettings!Get
<1>4. AsSettings!Next
  BY <1>3 DEF AsSettings!Next
<1> QED BY <1>4 DEF AbsStep

\* The dictionary is deleted.
LEMMA ClearIsAbstract ==
    ASSUME dict' = DictionaryNew, got' = got
    PROVE  AbsStep
<1>1. Content(dict') = [k \in {} |-> Null]
  BY NewOK
<1>2. AsSettings!Clear
  BY <1>1 DEF AsSettings!Clear, AsSettings!Empty
<1>3. AsSettings!Next
  BY <1>2 DEF AsSettings!Next
<1> QED BY <1>3 DEF AbsStep

\* Nothing that the dictionary says has changed.
LEMMA StutterIsAbstract ==
    ASSUME Content(dict') = Content(dict), got' = got
    PROVE  AbsStep
BY DEF AbsStep

---------------------------------------------------------------------------
(* Every action keeps the invariant, and is a step of Settings.            *)

\* What a line sets, in the dictionary of a load that has not ended.
LineSetsKey ==
    IniparserLine(Text).kind \in {"section", "value"} =>
        /\ Assigned(IniparserLine(Text), section).key # Null
        /\ IniparserLine(Text).kind = "section" =>
              NewSection(IniparserLine(Text), section) \in Names

\* Every line that a load reads sets a key, if it sets something.
LEMMA ReadLineSets ==
    LoaderInv /\ Reading => LineSetsKey
<1> SUFFICES ASSUME LoaderInv, Reading PROVE LineSetsKey
  OBVIOUS
<1>1. TextOK(Text) /\ section \in Names
  BY TextIsOK DEF LoaderInv
<1> QED BY <1>1, LineSets DEF LineSetsKey

\* What the dictionary is after a step, and what Settings sees of it.
DictStep == DictInv' /\ AbsStep

\* A step that leaves the dictionary alone, or deletes it.
LEMMA DictAlone ==
    ASSUME DictInv, MaxMisses \in Nat, misses \in 0 .. MaxMisses, misses' \in 0 .. MaxMisses,
           misses' >= misses, got' = got, dict' = dict \/ dict' = DictionaryNew
    PROVE  DictStep
<1>1. CASE dict' = dict
  <2>1. DictInv'
    <3>1. Excess(dict) <= misses
      BY DEF DictInv
    <3>2. Excess(dict) \in Int
      <4>1. DictOK(dict)
        BY DEF DictInv
      <4>2. dict.n \in Nat /\ Cardinality(Taken(dict)) \in Nat
        BY <4>1, TakenFinite DEF DictOK
      <4> QED BY <4>2 DEF Excess
    <3>3. Excess(dict) <= misses'
      BY <3>1, <3>2
    <3>4. DictOK(dict') /\ Excess(dict') <= misses'
      BY <1>1, <3>3 DEF DictInv
    <3> QED BY <3>4 DEF DictInv
  <2> QED BY <1>1, <2>1, StutterIsAbstract DEF DictStep
<1>2. CASE dict' = DictionaryNew
  <2>1. DictOK(dict') /\ Excess(dict') <= misses'
    BY <1>2, NewOK
  <2> QED BY <1>2, <2>1, ClearIsAbstract DEF DictStep, DictInv
<1> QED BY <1>1, <1>2

\* A step that puts something under a key.
LEMMA DictSet ==
    ASSUME DictInv, misses' = misses \/ misses' = misses + 1, misses \in Nat, got' = got,
           NEW k, k # Null, NEW v, dict' = DictionarySet(dict, k, v)
    PROVE  DictStep
<1>1. /\ DictOK(dict') /\ Excess(dict') = Excess(dict)
      /\ Content(dict') = With(Content(dict), k, v)
  BY SetKept DEF DictInv
<1>2. DictInv'
  <2>1. Excess(dict) \in Int /\ Excess(dict) <= misses
    BY TakenFinite DEF DictInv, DictOK, Excess
  <2>2. Excess(dict') <= misses'
    BY <1>1, <2>1
  <2> QED BY <1>1, <2>2 DEF DictInv
<1>3. AbsStep
  BY <1>1, SetIsAbstract
<1> QED BY <1>2, <1>3 DEF DictStep

\* A step that had no memory for a new key.
LEMMA DictNoKey ==
    ASSUME DictInv, misses' = misses + 1, misses \in Nat, got' = got,
           dict' = DictionarySetNoKey(dict)
    PROVE  DictStep
<1>1. DictOK(dict') /\ Excess(dict') = Excess(dict) + 1 /\ Content(dict') = Content(dict)
  BY NoKeyKept DEF DictInv
<1>2. DictInv'
  <2>1. Excess(dict) \in Int /\ Excess(dict) <= misses
    BY TakenFinite DEF DictInv, DictOK, Excess
  <2>2. Excess(dict') <= misses'
    BY <1>1, <2>1
  <2> QED BY <1>1, <2>2 DEF DictInv
<1>3. AbsStep
  BY <1>1, StutterIsAbstract
<1> QED BY <1>2, <1>3 DEF DictStep

\* A step that takes a key away.
LEMMA DictUnset ==
    ASSUME DictInv, misses' = misses, got' = got, NEW k, k # Null,
           dict' = DictionaryUnset(dict, k)
    PROVE  DictStep
<1>1. /\ DictOK(dict') /\ Excess(dict') = Excess(dict)
      /\ \/ dict' = dict
         \/ k \in DOMAIN Content(dict) /\ Content(dict') = Without(Content(dict), k)
  BY UnsetKept DEF DictInv
<1>2. DictInv'
  BY <1>1 DEF DictInv
<1>3. AbsStep
  BY <1>1, UnsetIsAbstract, StutterIsAbstract
<1> QED BY <1>2, <1>3 DEF DictStep

\* Every step of the parser does one of these things.
LEMMA DictNext ==
    ParserInv /\ LoadStep => DictStep
<1> SUFFICES ASSUME ParserInv, LoadStep PROVE DictStep
  OBVIOUS
<1>1. /\ LoaderInv /\ DictInv /\ misses \in 0 .. MaxMisses /\ MaxMisses \in Nat
      /\ misses \in Nat
  BY IniParserAssumption DEF ParserInv, LoaderInv
<1>2. CASE UNCHANGED iniVars
  BY <1>1, <1>2, DictAlone DEF iniVars
<1>3. CASE LoadTooLong \/ LoadMemTooLong \/ LoadEnds
  <2>1. misses' = misses /\ got' = got /\ (dict' = dict \/ dict' = DictionaryNew)
    BY <1>3 DEF LoadTooLong, LoadMemTooLong, LoadEnds, End
  <2> QED BY <1>1, <2>1, DictAlone
<1>4. CASE MultiLine \/ SkipLine \/ ErrorLine
  <2>1. misses' = misses /\ got' = got /\ dict' = dict
    BY <1>4 DEF MultiLine, SkipLine, ErrorLine, NextLine
  <2> QED BY <1>1, <2>1, DictAlone
<1>5. CASE SetLine
  <2> DEFINE k == Assigned(IniparserLine(Text), section).key
             v == Assigned(IniparserLine(Text), section).val
  <2>1. LineSetsKey
    BY <1>1, <1>5, ReadLineSets DEF SetLine, ReadsWhole, ReadsLine
  <2>2. k # Null /\ dict' = DictionarySet(dict, k, v) /\ misses' = misses /\ got' = got
    BY <1>5, <2>1 DEF SetLine, NextLine, LineSetsKey
  <2> HIDE DEF k, v
  <2> QED BY <1>1, <2>2, DictSet
<1>6. CASE SetLineNoCopy
  <2> DEFINE k == Assigned(IniparserLine(Text), section).key
  <2>1. LineSetsKey
    BY <1>1, <1>6, ReadLineSets DEF SetLineNoCopy, ReadsWhole, ReadsLine
  <2>2. /\ k # Null /\ misses' = misses + 1 /\ got' = got
        /\ dict' = DictionarySetNoKey(dict) \/ dict' = DictionarySet(dict, k, Null)
    BY <1>6, <2>1 DEF SetLineNoCopy, NextLine, LineSetsKey
  <2> HIDE DEF k
  <2> QED BY <1>1, <2>2, DictSet, DictNoKey
<1>7. CASE SetLineNoRoom
  <2>1. misses' = misses + 1 /\ misses < MaxMisses /\ got' = got /\ dict' = DictionaryNew
    BY <1>7 DEF SetLineNoRoom, NextLine
  <2>2. misses' \in 0 .. MaxMisses /\ misses' >= misses
    BY <1>1, <2>1
  <2> QED BY <1>1, <2>1, <2>2, DictAlone
<1>8. CASE ParseConfFile \/ ReadConfig
  <2>1. misses' = misses /\ got' = got /\ (dict' = dict \/ dict' = DictionaryNew)
    BY <1>8 DEF ParseConfFile, ReadConfig
  <2> QED BY <1>1, <2>1, DictAlone
<1>9. ASSUME NEW p \in Programs, IniparserSet(p) PROVE DictStep
  <2>1. p.key # Null
    BY IniParserAssumption
  <2>2. dict' = DictionarySet(dict, p.key, p.val) /\ misses' = misses /\ got' = got
    BY <1>9 DEF IniparserSet
  <2> QED BY <1>1, <2>1, <2>2, DictSet
<1>10. ASSUME NEW p \in Programs, IniparserUnset(p) PROVE DictStep
  <2>1. p.key # Null
    BY IniParserAssumption
  <2>2. dict' = DictionaryUnset(dict, p.key) /\ misses' = misses /\ got' = got
    BY <1>10 DEF IniparserUnset
  <2> QED BY <1>1, <2>1, <2>2, DictUnset
<1>11. ASSUME NEW p \in Programs, IniparserGetstring(p) PROVE DictStep
  <2>1. got' = DictionaryGet(dict, p.key) /\ dict' = dict /\ misses' = misses
    BY <1>11 DEF IniparserGetstring
  <2>2. DictInv'
    BY <1>1, <2>1 DEF DictInv
  <2>3. AbsStep
    BY <1>1, <2>1, GetIsAbstract DEF DictInv
  <2> QED BY <2>2, <2>3 DEF DictStep
<1> QED BY <1>2, <1>3, <1>4, <1>5, <1>6, <1>7, <1>8, <1>9, <1>10, <1>11
        DEF LoadStep, IniNext

\* The buffers, the counts and the state of the load after a step.
LEMMA LoaderNext ==
    ParserInv /\ LoadStep => LoaderInv'
<1> SUFFICES ASSUME LoaderInv, LoadStep PROVE LoaderInv'
  BY DEF ParserInv
<1> DEFINE How == [how : {"load", "load_mem"}, lines : Files, newline : BOOLEAN]
           Statuses == {"reading", "loaded", "null", "crashed", "changed",
                        "configured", "read", "refused"}
           Belows == {"backslash", "other", "short", "used"}
<1>1. /\ input \in How /\ TextOK(pending) /\ Len(pending) <= LineSize
      /\ pos \in 1 .. Len(input.lines) + 1 /\ below \in Belows /\ section \in Names
      /\ errs \in -1 .. pos - 1 /\ status \in Statuses
      /\ DOMAIN settings = IntOptions \cup StrOptions /\ misses \in 0 .. MaxMisses
  BY DEF LoaderInv
<1>2. Len(input.lines) \in Nat /\ LineSize \in Nat /\ MaxMisses \in Nat
  <2>1. input.lines \in Seq(ToSet(input.lines))
    BY <1>1, IniParserAssumption
  <2> QED BY <2>1, LenProperties, IniParserAssumption
<1> HIDE DEF How
<1>3. CASE UNCHANGED iniVars
  BY <1>1, <1>3 DEF LoaderInv, iniVars, How
<1>4. CASE LoadTooLong \/ LoadMemTooLong \/ LoadEnds \/ ParseConfFile \/ ReadConfig
  <2>1. UNCHANGED <<input, pos, pending, below, section, errs, misses>>
    BY <1>4 DEF LoadTooLong, LoadMemTooLong, LoadEnds, End, ParseConfFile, ReadConfig
  <2>2. status' \in Statuses
    BY <1>1, <1>4 DEF LoadTooLong, LoadMemTooLong, LoadEnds, End, ParseConfFile, ReadConfig
  <2>3. DOMAIN settings' = IntOptions \cup StrOptions
    BY <1>1, <1>4 DEF LoadTooLong, LoadMemTooLong, LoadEnds, End, ParseConfFile, ReadConfig
  <2> QED BY <1>1, <2>1, <2>2, <2>3 DEF LoaderInv, How
<1>5. ASSUME NEW p \in Programs, IniparserSet(p) \/ IniparserUnset(p) \/ IniparserGetstring(p)
      PROVE  LoaderInv'
  <2>1. /\ UNCHANGED <<input, pos, pending, below, section, errs, settings, misses>>
        /\ status' = "changed" \/ status' = status
    BY <1>5 DEF IniparserSet, IniparserUnset, IniparserGetstring
  <2> QED BY <1>1, <2>1 DEF LoaderInv, How
<1>6. CASE MultiLine
  <2>1. /\ Reading /\ ~TooLong /\ pos' = pos + 1
        /\ UNCHANGED <<input, section, errs, status, settings, misses>>
        /\ \/ pending' = Front(Text) /\ Text # <<>> /\ (below' = "used" \/ below' = below)
           \/ pending' = <<>> /\ below' = "short"
    BY <1>6 DEF MultiLine, ReadsLine, GoesOn
  <2>2. pos' \in 1 .. Len(input.lines) + 1 /\ errs \in -1 .. pos' - 1
    BY <1>1, <1>2, <2>1 DEF Reading
  <2>3. TextOK(pending') /\ Len(pending') <= LineSize
    <3>1. CASE pending' = <<>>
      <4>1. <<>> \in Seq({}) /\ Len(<<>>) = 0
        BY EmptySeq
      <4>2. TextOK(<<>>)
        BY <4>1, TextOver
      <4> QED BY <1>2, <3>1, <4>1, <4>2
    <3>2. CASE pending' = Front(Text) /\ Text # <<>>
      <4>1. TextOK(Text)
        BY <2>1, TextIsOK
      <4>2. TextOK(Front(Text)) /\ Len(Front(Text)) = Len(Text) - 1
        BY <3>2, <4>1, FrontIsOK
      <4>3. Len(Text) \in Nat
        BY <4>1, LenProperties DEF TextOK
      <4>4. Len(Text) <= LineSize
        BY <1>2, <2>1, <4>3 DEF TooLong
      <4>5. Len(Text) - 1 <= LineSize
        BY <1>2, <4>3, <4>4
      <4> QED BY <3>2, <4>2, <4>5
    <3> QED BY <2>1, <3>1, <3>2
  <2>4. below' \in Belows
    BY <1>1, <2>1
  <2> QED BY <1>1, <2>1, <2>2, <2>3, <2>4 DEF LoaderInv, How
<1>7. CASE SetLine \/ SkipLine \/ ErrorLine \/ SetLineNoCopy \/ SetLineNoRoom
  <2>1. /\ Reading /\ pos' = pos + 1 /\ pending' = <<>> /\ UNCHANGED <<input, settings>>
        /\ below' = "used" \/ below' = below
    BY <1>7 DEF SetLine, SkipLine, ErrorLine, SetLineNoCopy, SetLineNoRoom, NextLine,
                ReadsWhole, ReadsLine
  <2>2. pos' \in 1 .. Len(input.lines) + 1 /\ pos \in Nat /\ errs \in -1 .. pos - 1
    BY <1>1, <1>2, <2>1 DEF Reading
  <2>3. status' \in Statuses
    BY <1>1, <1>7 DEF SetLine, SkipLine, ErrorLine, SetLineNoCopy, SetLineNoRoom
  <2>4. errs' \in -1 .. pos' - 1
    <3>1. errs' \in {errs, errs + 1, 0, -1}
      BY <1>7 DEF SetLine, SkipLine, ErrorLine, SetLineNoCopy, SetLineNoRoom
    <3>2. pos >= 1
      BY <1>1, <1>2
    <3> QED BY <2>1, <2>2, <3>1, <3>2
  <2>5. misses' \in 0 .. MaxMisses
    BY <1>1, <1>2, <1>7 DEF SetLine, SkipLine, ErrorLine, SetLineNoCopy, SetLineNoRoom
  <2>6. section' \in Names
    <3>1. LineSetsKey
      BY <2>1, ReadLineSets
    <3>2. \/ section' = section
          \/ /\ IniparserLine(Text).kind = "section"
             /\ section' = NewSection(IniparserLine(Text), section)
      BY <1>7 DEF SetLine, SkipLine, ErrorLine, SetLineNoCopy, SetLineNoRoom
    <3> QED BY <1>1, <3>1, <3>2 DEF LineSetsKey
  <2>7. TextOK(pending') /\ Len(pending') <= LineSize
    <3>1. <<>> \in Seq({}) /\ Len(<<>>) = 0
      BY EmptySeq
    <3>2. TextOK(<<>>)
      BY <3>1, TextOver
    <3> QED BY <1>2, <2>1, <3>1, <3>2
  <2>8. below' \in Belows /\ input' \in How /\ DOMAIN settings' = IntOptions \cup StrOptions
    BY <1>1, <2>1
  <2>9. pos' \in 1 .. Len(input'.lines) + 1
    BY <2>1, <2>2
  <2> QED BY <2>3, <2>4, <2>5, <2>6, <2>7, <2>8, <2>9 DEF LoaderInv, How
<1> QED BY <1>3, <1>4, <1>5, <1>6, <1>7 DEF LoadStep, IniNext

---------------------------------------------------------------------------
(* The theorems.                                                           *)

\* A program that keeps other things leaves its settings alone.
LEMMA ContainersStep == [Next]_vars => LoadStep
BY DEF LoadStep, Next, vars, UsesFile, UsesMap, UsesSettings, iniVars

\* ParserInv is inductive: iniparser_load and iniparser_load_mem keep their
\* buffers and counts in bounds, and the dictionary is a partial function.
THEOREM ParserInvariance == Spec => []ParserInv
<1>1. Init => ParserInv
  BY ParserInit
<1>2. ParserInv /\ [Next]_vars => ParserInv'
  BY ContainersStep, LoaderNext, DictNext DEF ParserInv, DictStep
<1> QED BY <1>1, <1>2, PTL DEF Spec

\* Whatever is loaded, set and unset, and whatever allocation fails: no key is
\* in two slots of the dictionary, and the count of dictionary_set and
\* dictionary_unset is never below the slots taken and above them by at most
\* the copies that failed.
THEOREM SlotsAreConsistent == Spec => []SlotsConsistent
<1>1. ParserInv => SlotsConsistent
  <2> SUFFICES ASSUME ParserInv PROVE SlotsConsistent
    OBVIOUS
  <2> DEFINE taken == {i \in DOMAIN dict.slot : dict.slot[i].key # Null}
  <2>1. taken = Taken(dict)
    BY DEF Taken
  <2>2. LoaderInv /\ DictOK(dict) /\ Excess(dict) <= misses
    BY DEF ParserInv, DictInv
  <2>3. IniTypeOK
    <3>1. /\ input \in [how : {"load", "load_mem"}, lines : Files, newline : BOOLEAN]
          /\ pos \in 1 .. Len(input.lines) + 1 /\ errs \in -1 .. pos - 1
      BY <2>2 DEF LoaderInv
    <3>2. Len(input.lines) \in Nat
      <4>1. input.lines \in Seq(ToSet(input.lines))
        BY <3>1, IniParserAssumption
      <4> QED BY <4>1, LenProperties
    <3>3. errs \in -1 .. Len(input.lines)
      BY <3>1, <3>2
    <3> QED BY <2>2, <3>1, <3>3 DEF LoaderInv, IniTypeOK
  <2>4. /\ Cardinality(Taken(dict)) \in Nat /\ dict.n \in Nat /\ Len(dict.slot) \in Nat
        /\ Cardinality(Taken(dict)) <= dict.n /\ dict.n <= Len(dict.slot)
    BY <2>2, TakenFinite DEF DictOK
  <2>5. \A i, j \in Taken(dict) : dict.slot[i].key = dict.slot[j].key => i = j
    BY <2>2 DEF DictOK
  <2>6. /\ dict.n \in Cardinality(Taken(dict)) .. Len(dict.slot)
        /\ dict.n - Cardinality(Taken(dict)) <= misses
    BY <2>2, <2>4 DEF Excess
  <2> HIDE DEF taken
  <2>7. /\ \A i, j \in taken : dict.slot[i].key = dict.slot[j].key => i = j
        /\ dict.n \in Cardinality(taken) .. Len(dict.slot)
        /\ dict.n - Cardinality(taken) <= misses
    BY <2>1, <2>5, <2>6
  <2> QED BY <2>3, <2>7 DEF SlotsConsistent, taken
<1> QED BY <1>1, ParserInvariance, PTL

\* The dictionary keeps its promise: every call of the loaders and of the
\* program sets, takes away, asks for or clears a key of a partial function,
\* whichever slots they use, and however often the slots have been doubled.
THEOREM DictionaryIsSettings == Spec => ImplementsSettings
<1>1. Init => AsSettings!Init
  BY ParserInit
<1>2. ParserInv /\ [Next]_vars => [AsSettings!Next]_<<Content(dict), got>>
  BY ContainersStep, DictNext DEF DictStep, AbsStep
<1> QED BY <1>1, <1>2, ParserInvariance, PTL DEF Spec, ImplementsSettings, AsSettings!Spec

\* FileInv is inductive: the cursors of a memory file agree with its blocks,
\* and its count with its bytes.
THEOREM FileInvariance == Spec => []FileInv
<1>1. Init => FileInv
  BY FileInvInit DEF Init
<1>2. FileInv /\ [Next]_vars => FileInv'
  <2> SUFFICES ASSUME FileInv, [Next]_vars PROVE FileInv'
    OBVIOUS
  <2>1. CASE FileNext
    BY <2>1, FileInvNext
  <2>2. CASE UNCHANGED fileVars
    BY <2>2 DEF fileVars, FileInv, Cursors, Counted, Size, BytesBefore
  <2> QED BY <2>1, <2>2 DEF Next, vars, UsesFile, UsesMap, UsesSettings
<1> QED BY <1>1, <1>2, PTL DEF Spec

\* However it is written to at both ends, read by bytes and lines, sought in,
\* copied and closed, and whatever allocation fails: the cursors of a memory
\* file agree with its blocks, a block is marked as empty if and only if it was
\* read to its end, and msize is never below the bytes there are.
THEOREM CursorsAreRight == Spec => []CursorsAgree
<1>1. FileInv => CursorsAgree
  BY FileInvAgrees
<1> QED BY <1>1, FileInvariance, PTL

\* A memory file in the hands of a careful caller is a sequence of bytes with a
\* position: whatever the size of its blocks, every call of mwrite, mwrite_head,
\* mread, mgetc, mread_line, mseek, mseek_pos, mfile_copy, mwrite_file and mclose
\* returns what the sequence returns, and a mwrite that runs out of memory has
\* stored the beginning of what it was given.
THEOREM FileIsBytes == Spec => ImplementsByteFile
<1>1. Init => AsBytes!Init
  BY FileInitIsAbstract DEF Init
<1>2. FileInv /\ [Next]_vars => [AsBytes!Next]_<<Bytes(file), Position, out>>
  <2> SUFFICES ASSUME FileInv, [Next]_vars
               PROVE  AsBytes!Next \/ UNCHANGED <<Bytes(file), Position, out>>
    OBVIOUS
  <2>1. CASE FileNext
    BY <2>1, FileNextIsAbstract
  <2>2. CASE UNCHANGED fileVars
    BY <2>2, FileStutters
  <2> QED BY <2>1, <2>2 DEF Next, vars, UsesFile, UsesMap, UsesSettings
<1> QED BY <1>1, <1>2, FileInvariance, PTL
        DEF Spec, ImplementsByteFile, AsBytes!Spec, AsBytes!byteVars

\* MapInv is inductive: the links of every bucket lead through its entries, in
\* the hands of either kind of program.
THEOREM MapInvariance == Spec => []MapInv
<1>1. Init => MapInv
  BY MapInvInit DEF Init
<1>2. MapInv /\ [Next]_vars => MapInv'
  <2> SUFFICES ASSUME MapInv, [Next]_vars PROVE MapInv'
    OBVIOUS
  <2>1. CASE HashNext
    BY <2>1, MapInvNext
  <2>2. CASE UNCHANGED hashVars
    BY <2>2 DEF hashVars, MapInv
  <2> QED BY <2>1, <2>2 DEF Next, vars, UsesFile, UsesMap, UsesSettings
<1> QED BY <1>1, <1>2, PTL DEF Spec

\* Whatever is inserted and deleted, however often the table grows and
\* whatever allocation fails: every entry is once in the chain of its bucket
\* and in no other, and no link leads to a cell that is free.
THEOREM EntriesAreInTheirChains == Spec => []ChainsHoldEntries
<1>1. MapInv => ChainsHoldEntries
  BY MapInvHolds
<1> QED BY <1>1, MapInvariance, PTL

\* What hashmap_delete relies on: every back link names the entry before, and
\* at the head of a chain there is none as long as no entry was linked again.
THEOREM BackLinksAreRight == Spec => []BackLinks
<1>1. MapInv => BackLinks
  BY MapInvHolds
<1> QED BY <1>1, MapInvariance, PTL

\* A hashmap is a stack of values under every key: a value that is inserted is
\* the one found, and a deletion brings the one before it back, whatever the
\* keys that share a bucket, the growths and the allocations that fail.
THEOREM MapIsKeyStacks == Spec => ImplementsKeyStacks
<1>1. Init => AsStacks!Init
  BY StacksInit DEF Init
<1>2. MapInv /\ [Next]_vars => [AsStacks!Next]_<<Stacks, returned>>
  <2> SUFFICES ASSUME MapInv, [Next]_vars PROVE [HashNext]_hashVars
    BY StacksNext
  <2> QED BY DEF Next, vars, UsesFile, UsesMap, UsesSettings
<1> QED BY <1>1, <1>2, MapInvariance, PTL DEF Spec, ImplementsKeyStacks, AsStacks!Spec
=============================================================================
