---------------------------- MODULE HashMapProofs ----------------------------
(***************************************************************************)
(* Proofs about the hashmap.  The links of every bucket lead through a     *)
(* sequence of cells; insertion puts a cell in front of one of them,       *)
(* deletion takes one out, and growth links the cells of all of them       *)
(* again, one after the other, into a table that starts empty.             *)
(***************************************************************************)
EXTENDS HashMap, MFileProofs

---------------------------------------------------------------------------
(* The counter and the buckets. *)

\* Counting modulo M goes up with the number that is counted, and down.
LEMMA ModCounts ==
    ASSUME NEW M \in Nat \ {0}, NEW n \in Nat
    PROVE  /\ n % M \in 0 .. M - 1 /\ (n < M => n % M = n)
           /\ ((n % M) + 1) % M = (n + 1) % M
           /\ n > 0 => ((n % M) + M - 1) % M = (n - 1) % M
<1>1. ASSUME NEW a \in Nat, NEW q \in Nat, NEW p \in Int, p = M * q, NEW r \in 0 .. M - 1, a = p + r
      PROVE  a % M = r
  BY <1>1, SMTT(30)
<1>2. \A a \in 0 .. M - 1 : a % M = a
  BY SMTT(30)
<1>3. PICK q \in Nat, p \in Int, r \in 0 .. M - 1 : p = M * q /\ n = p + r
  <2> DEFINE q == n \div M
             p == M * q
  <2>1. q \in Nat /\ p \in Int /\ p <= n /\ n < p + M
    BY SMTT(30)
  <2> HIDE DEF q
  <2>2. p = M * q
    OBVIOUS
  <2> HIDE DEF p
  <2>3. n - p \in 0 .. M - 1 /\ n = p + (n - p)
    BY <2>1
  <2> QED BY <2>1, <2>2, <2>3
<1>4. n % M = r
  BY <1>1, <1>3
<1>5. \A a \in Nat : a = M => a % M = 0
  <2> SUFFICES ASSUME NEW a \in Nat, a = M PROVE a % M = 0
    OBVIOUS
  <2>1. M = M * 1 /\ M \in Int /\ a = M + 0 /\ 0 \in 0 .. M - 1
    OBVIOUS
  <2> QED BY <1>1, <2>1
<1>6. ((n % M) + 1) % M = (n + 1) % M
  <2>1. CASE r + 1 < M
    <3>1. r + 1 \in 0 .. M - 1 /\ n + 1 = p + (r + 1) /\ n + 1 \in Nat
      BY <1>3, <2>1
    <3>2. (n + 1) % M = r + 1 /\ (r + 1) % M = r + 1
      BY <1>1, <1>2, <1>3, <3>1
    <3> QED BY <1>4, <3>2
  <2>2. CASE r + 1 = M
    <3>1. p + M = M * (q + 1)
      BY <1>3, SMTT(30)
    <3>2. n + 1 = p + M + 0 /\ n + 1 \in Nat /\ q + 1 \in Nat /\ p + M \in Int /\ 0 \in 0 .. M - 1
      BY <1>3, <2>2
    <3>3. (n + 1) % M = 0
      BY <1>1, <3>1, <3>2
    <3>4. (r + 1) % M = 0
      BY <1>5, <2>2
    <3> QED BY <1>4, <3>3, <3>4
  <2> QED BY <2>1, <2>2
<1>7. n > 0 => ((n % M) + M - 1) % M = (n - 1) % M
  <2> SUFFICES ASSUME n > 0 PROVE ((n % M) + M - 1) % M = (n - 1) % M
    OBVIOUS
  <2>1. CASE r > 0
    <3>1. /\ r - 1 \in 0 .. M - 1 /\ n - 1 = p + (r - 1) /\ n - 1 \in Nat
          /\ r + M - 1 = M + (r - 1) /\ r + M - 1 \in Nat /\ M = M * 1 /\ M \in Int
      BY <1>3, <2>1
    <3>2. (n - 1) % M = r - 1
      BY <1>1, <1>3, <3>1
    <3>3. (r + M - 1) % M = r - 1
      BY <1>1, <3>1
    <3> QED BY <1>4, <3>2, <3>3
  <2>2. CASE r = 0
    <3>1. q # 0
      <4>1. M * 0 = 0
        OBVIOUS
      <4> QED BY <1>3, <2>2, <4>1
    <3>2. p - M = M * (q - 1)
      BY <1>3, SMTT(30)
    <3>3. /\ n - 1 = (p - M) + (M - 1) /\ n - 1 \in Nat /\ p - M \in Int
          /\ q - 1 \in Nat /\ M - 1 \in 0 .. M - 1
      BY <1>3, <2>2, <3>1
    <3>4. (n - 1) % M = M - 1
      BY <1>1, <3>2, <3>3
    <3>5. (r + M - 1) % M = M - 1
      BY <1>2, <2>2, <3>3
    <3> QED BY <1>4, <3>4, <3>5
  <2> QED BY <2>1, <2>2
<1>8. n < M => n % M = n
  BY <1>2
<1> QED BY <1>4, <1>6, <1>7, <1>8

---------------------------------------------------------------------------
(* The chains. *)

Rec(m) ==
    m = [idx |-> m.idx, size |-> m.size, used |-> m.used, head |-> m.head,
         lost |-> m.lost, cell |-> m.cell]

Entry == [key : Keys \cup {NULL}, value : Values \cup {NULL},
          next : Cells \cup {NULL}, prev : Cells \cup {NULL}]

Buckets(m) == 0 .. m.size - 1

\* From the head of bucket b the links lead through the cells of s.
Linked(m, b, s) ==
    /\ s \in Seq(Cells) /\ IsInjective(s)
    /\ m.head[b] = IF s = <<>> THEN NULL ELSE s[1]
    /\ \A i \in 1 .. Len(s) : m.cell[s[i]].next = IF i = Len(s) THEN NULL ELSE s[i + 1]
    /\ \A i \in 2 .. Len(s) : m.cell[s[i]].prev = s[i - 1]

\* There are n numbers from 1 to n.
LEMMA UpTo ==
    ASSUME NEW n \in Nat
    PROVE  IsFiniteSet(1 .. n) /\ Cardinality(1 .. n) = n
<1>1. IsFiniteSet(1 .. n) /\ Cardinality(1 .. n) = IF 1 > n THEN 0 ELSE n - 1 + 1
  BY FS_Interval
<1> QED BY <1>1

\* A sequence of cells, each at most once, is no longer than the heap.
LEMMA NoLonger ==
    ASSUME NEW s \in Seq(Cells), IsInjective(s)
    PROVE  /\ Cardinality(Cells) \in Nat /\ Len(s) \in 0 .. Cardinality(Cells)
           /\ DOMAIN s = 1 .. Len(s) /\ \A i \in 1 .. Len(s) : s[i] \in Cells
<1>1. Len(s) \in Nat /\ DOMAIN s = 1 .. Len(s) /\ s \in [1 .. Len(s) -> Cells]
  BY LenProperties
<1>2. IsFiniteSet(Cells) /\ Cardinality(Cells) \in Nat
  BY HashMapAssumption, FS_CardinalityType
<1>3. s \in Injection(1 .. Len(s), Cells)
  BY <1>1 DEF Injection
<1>4. Cardinality(1 .. Len(s)) <= Cardinality(Cells)
  BY <1>2, <1>3, FS_Injection
<1>5. Cardinality(1 .. Len(s)) = Len(s)
  BY <1>1, UpTo
<1> QED BY <1>1, <1>2, <1>4, <1>5

\* The chain of a bucket is what its links lead through.
LEMMA ChainIs ==
    ASSUME NEW m, NEW b, NEW s, m.cell \in [Cells -> Entry], Linked(m, b, s)
    PROVE  Chain(m, b) = s
<1> DEFINE N == Cardinality(Cells)
           L == Cells \cup {NULL}
           next == [e \in L |-> IF e = NULL THEN NULL ELSE m.cell[e].next]
           Is(at) == at = [i \in 0 .. N |-> IF i = 0 THEN m.head[b] ELSE next[at[i - 1]]]
           Some == CHOOSE at : Is(at)
           G == [x \in (1 .. N) \X L |-> next[x[2]]]
<1>1. /\ N \in Nat /\ Len(s) \in 0 .. N /\ DOMAIN s = 1 .. Len(s)
      /\ \A i \in 1 .. Len(s) : s[i] \in Cells
  BY NoLonger DEF Linked
<1>2. Chain(m, b) = [i \in 1 .. Cardinality({j \in 1 .. N : Some[j - 1] # NULL}) |-> Some[i - 1]]
  BY DEF Chain
<1>3. next[NULL] = NULL /\ \A e \in Cells : next[e] = m.cell[e].next
  BY HashMapAssumption
<1>4. \A e \in L : next[e] \in L
  BY <1>3 DEF Entry
<1>5. m.head[b] \in L
  <2>1. CASE s = <<>>
    BY <2>1 DEF Linked
  <2>2. CASE s # <<>>
    <3>1. Len(s) # 0
      BY <2>2, EmptySeq DEF Linked
    <3>2. 1 \in 1 .. Len(s)
      BY <1>1, <3>1
    <3>3. m.head[b] = s[1]
      BY <2>2 DEF Linked
    <3> QED BY <1>1, <3>2, <3>3
  <2> QED BY <2>1, <2>2
<1>6. \A k \in 1 .. N : \A e \in L : G[<<k, e>>] = next[e]
  <2> HIDE DEF next
  <2> QED OBVIOUS
<1> HIDE DEF G, next, Some, Is, L
<1>7. PICK f : Iteration(f, m.head[b], N, G, L)
  <2>1. \A k \in 1 .. N : \A e \in L : G[<<k, e>>] \in L
    BY <1>4, <1>6
  <2> QED BY <1>1, <1>5, <2>1, Iterates
<1>8. Is(f)
  <2>1. ASSUME NEW i \in 0 .. N
        PROVE  f[i] = IF i = 0 THEN m.head[b] ELSE next[f[i - 1]]
    <3>1. CASE i = 0
      BY <1>7, <3>1 DEF Iteration
    <3>2. CASE i # 0
      <4>1. i \in 1 .. N /\ i - 1 \in 0 .. N
        BY <1>1, <3>2
      <4>2. f[i - 1] \in L
        BY <1>7, <4>1 DEF Iteration
      <4>3. f[i] = G[<<i, f[i - 1]>>]
        BY <1>7, <4>1 DEF Iteration
      <4> QED BY <1>6, <3>2, <4>1, <4>2, <4>3
    <3> QED BY <3>1, <3>2
  <2>2. f = [i \in 0 .. N |-> f[i]]
    BY <1>7 DEF Iteration
  <2> QED BY <2>1, <2>2 DEF Is
<1>9. Is(Some)
  BY <1>8 DEF Some
<1>10. Some[0] = m.head[b] /\ \A i \in 1 .. N : Some[i] = next[Some[i - 1]]
  <2>1. \A i \in 0 .. N : Some[i] = IF i = 0 THEN m.head[b] ELSE next[Some[i - 1]]
    BY <1>9 DEF Is
  <2> QED BY <1>1, <2>1
<1> DEFINE T == {i \in Nat : i <= N => Some[i] = IF i < Len(s) THEN s[i + 1] ELSE NULL}
<1>11. 0 \in T
  <2>1. Len(s) = 0 <=> s = <<>>
    BY EmptySeq DEF Linked
  <2>2. m.head[b] = IF s = <<>> THEN NULL ELSE s[1]
    BY DEF Linked
  <2>3. Some[0] = IF 0 < Len(s) THEN s[0 + 1] ELSE NULL
    BY <1>1, <1>10, <2>1, <2>2
  <2> QED BY <2>3
<1>12. ASSUME NEW i \in Nat, i \in T PROVE i + 1 \in T
  <2> SUFFICES ASSUME i + 1 <= N
               PROVE  Some[i + 1] = IF i + 1 < Len(s) THEN s[i + 1 + 1] ELSE NULL
    OBVIOUS
  <2>1. Some[i] = IF i < Len(s) THEN s[i + 1] ELSE NULL
    BY <1>1, <1>12
  <2>2. Some[i + 1] = next[Some[i]]
    <3>1. i + 1 \in 1 .. N /\ i + 1 - 1 = i
      BY <1>1
    <3> QED BY <1>10, <3>1
  <2>3. CASE i < Len(s)
    <3>1. i + 1 \in 1 .. Len(s) /\ s[i + 1] \in Cells
      BY <1>1, <2>3
    <3>2. Some[i + 1] = m.cell[s[i + 1]].next
      BY <1>3, <2>1, <2>2, <2>3, <3>1
    <3>3. m.cell[s[i + 1]].next = IF i + 1 = Len(s) THEN NULL ELSE s[i + 1 + 1]
      BY <3>1 DEF Linked
    <3>4. Len(s) \in Nat
      BY <1>1
    <3>5. i + 1 = Len(s) <=> ~ (i + 1 < Len(s))
      BY <2>3, <3>4
    <3> QED BY <3>2, <3>3, <3>5
  <2>4. CASE ~ (i < Len(s))
    BY <1>1, <1>3, <2>1, <2>2, <2>4
  <2> QED BY <2>3, <2>4
<1> HIDE DEF T
<1>13. \A i \in Nat : i \in T
  BY <1>11, <1>12, NatSet
<1>14. \A j \in 1 .. N : Some[j - 1] = IF j <= Len(s) THEN s[j] ELSE NULL
  <2> SUFFICES ASSUME NEW j \in 1 .. N PROVE Some[j - 1] = IF j <= Len(s) THEN s[j] ELSE NULL
    OBVIOUS
  <2>1. j - 1 \in Nat /\ j - 1 <= N /\ j - 1 + 1 = j /\ (j - 1 < Len(s) <=> j <= Len(s))
    BY <1>1
  <2>2. Some[j - 1] = IF j - 1 < Len(s) THEN s[j - 1 + 1] ELSE NULL
    BY <1>13, <2>1 DEF T
  <2> QED BY <2>1, <2>2
<1>15. {j \in 1 .. N : Some[j - 1] # NULL} = 1 .. Len(s)
  BY <1>1, <1>14, HashMapAssumption
<1>16. Cardinality(1 .. Len(s)) = Len(s)
  <2>1. Len(s) \in Nat
    BY <1>1
  <2> QED BY <2>1, UpTo
<1>17. Chain(m, b) = [i \in 1 .. Len(s) |-> Some[i - 1]]
  BY <1>2, <1>15, <1>16
<1>18. \A i \in 1 .. Len(s) : Some[i - 1] = s[i]
  BY <1>1, <1>14
<1>19. s = [i \in 1 .. Len(s) |-> s[i]]
  BY LenProperties DEF Linked
<1> QED BY <1>17, <1>18, <1>19
---------------------------------------------------------------------------
(* A table. *)

\* m is a record with entries in its cells, of which those in D have a key,
\* and it has counted as many as there are in D.
Shape(m, D) ==
    /\ Rec(m) /\ m.size \in Nat
    /\ m.head \in [Buckets(m) -> Cells \cup {NULL}]
    /\ m.cell \in [Cells -> Entry]
    /\ D \subseteq Cells /\ \A e \in D : m.cell[e].key \in Keys
    /\ m.used = Cardinality(D) % UsedMod

\* The cells of D are in the chains ch of their buckets.
Held(m, ch, D) ==
    \A b \in Buckets(m) :
        /\ Linked(m, b, ch[b])
        /\ ToSet(ch[b]) = {e \in D : Bucket(m, m.cell[e].key) = b}

Chains(m) == [b \in Buckets(m) |-> Chain(m, b)]

Table(m, D) == Shape(m, D) /\ Held(m, Chains(m), D)

\* Sequences that the links lead through are the chains.
LEMMA TableIs ==
    ASSUME NEW m, NEW D, NEW ch, Shape(m, D), Held(m, ch, D)
    PROVE  Table(m, D) /\ \A b \in Buckets(m) : Chain(m, b) = ch[b]
<1>1. \A b \in Buckets(m) : Chain(m, b) = ch[b]
  BY ChainIs DEF Shape, Held
<1>2. \A b \in Buckets(m) : Chains(m)[b] = ch[b]
  BY <1>1 DEF Chains
<1> QED BY <1>1, <1>2 DEF Table, Held

\* What a table says of one of its chains.
LEMMA ChainOf ==
    ASSUME NEW m, NEW D, Table(m, D), NEW b \in Buckets(m)
    PROVE  /\ Linked(m, b, Chain(m, b))
           /\ ToSet(Chain(m, b)) = {e \in D : Bucket(m, m.cell[e].key) = b}
           /\ Chain(m, b) \in Seq(Cells) /\ IsInjective(Chain(m, b))
           /\ Len(Chain(m, b)) \in 0 .. Cardinality(Cells)
           /\ DOMAIN Chain(m, b) = 1 .. Len(Chain(m, b))
           /\ \A i \in 1 .. Len(Chain(m, b)) :
                /\ Chain(m, b)[i] \in D
                /\ Bucket(m, m.cell[Chain(m, b)[i]].key) = b
<1> DEFINE s == Chain(m, b)
<1>1. Linked(m, b, s) /\ ToSet(s) = {e \in D : Bucket(m, m.cell[e].key) = b}
  BY DEF Table, Held, Chains
<1>2. s \in Seq(Cells) /\ IsInjective(s)
  BY <1>1 DEF Linked
<1>3. Len(s) \in 0 .. Cardinality(Cells) /\ DOMAIN s = 1 .. Len(s)
  BY <1>2, NoLonger
<1>4. \A i \in 1 .. Len(s) : s[i] \in ToSet(s)
  BY <1>3 DEF ToSet
<1> QED BY <1>1, <1>2, <1>3, <1>4

\* The chains of a table that nothing is done to.
LEMMA SameLinked ==
    ASSUME NEW m, NEW n, NEW b, NEW s, Linked(m, b, s), n.head[b] = m.head[b],
           \A c \in ToSet(s) : n.cell[c].next = m.cell[c].next /\ n.cell[c].prev = m.cell[c].prev
    PROVE  Linked(n, b, s)
<1>1. DOMAIN s = 1 .. Len(s) /\ Len(s) \in Nat
  BY LenProperties DEF Linked
<1>2. \A i \in 1 .. Len(s) : s[i] \in ToSet(s)
  BY <1>1 DEF ToSet
<1>3. \A i \in 2 .. Len(s) : s[i] \in ToSet(s)
  BY <1>1, <1>2
<1> QED BY <1>2, <1>3 DEF Linked

\* An entry in front of a sequence.
LEMMA InFront ==
    ASSUME NEW S, NEW e \in S, NEW s \in Seq(S)
    PROVE  /\ <<e>> \o s \in Seq(S) /\ Len(<<e>> \o s) = Len(s) + 1 /\ Len(s) \in Nat
           /\ (<<e>> \o s)[1] = e /\ <<e>> \o s # <<>>
           /\ \A i \in 2 .. Len(s) + 1 : (<<e>> \o s)[i] = s[i - 1]
           /\ ToSet(<<e>> \o s) = {e} \cup ToSet(s)
<1> DEFINE t == <<e>> \o s
<1>1. <<e>> \in Seq(S) /\ Len(<<e>>) = 1 /\ <<e>>[1] = e
  OBVIOUS
<1>2. Len(s) \in Nat /\ DOMAIN s = 1 .. Len(s)
  BY LenProperties
<1>3. /\ t \in Seq(S) /\ Len(t) = 1 + Len(s)
      /\ \A i \in 1 .. 1 + Len(s) : t[i] = IF i <= 1 THEN <<e>>[i] ELSE s[i - 1]
  BY <1>1, ConcatProperties
<1> HIDE DEF t
<1>4. t[1] = e
  BY <1>1, <1>2, <1>3
<1>5. \A i \in 2 .. Len(s) + 1 : t[i] = s[i - 1]
  BY <1>2, <1>3
<1>6. DOMAIN t = 1 .. Len(s) + 1
  BY <1>2, <1>3, LenProperties
<1>7. t # <<>>
  BY <1>2, <1>3, EmptySeq
<1>8. ToSet(t) = {e} \cup ToSet(s)
  <2>1. ASSUME NEW x \in ToSet(t) PROVE x \in {e} \cup ToSet(s)
    <3>1. PICK i \in 1 .. Len(s) + 1 : x = t[i]
      BY <1>6 DEF ToSet
    <3>2. CASE i = 1
      BY <1>4, <3>1, <3>2
    <3>3. CASE i # 1
      <4>1. i \in 2 .. Len(s) + 1 /\ i - 1 \in 1 .. Len(s)
        BY <1>2, <3>3
      <4>2. x = s[i - 1]
        BY <1>5, <3>1, <4>1
      <4> QED BY <1>2, <4>1, <4>2 DEF ToSet
    <3> QED BY <3>2, <3>3
  <2>2. e \in ToSet(t)
    <3>1. 1 \in 1 .. Len(s) + 1
      BY <1>2
    <3> QED BY <1>4, <1>6, <3>1 DEF ToSet
  <2>3. ASSUME NEW x \in ToSet(s) PROVE x \in ToSet(t)
    <3>1. PICK i \in 1 .. Len(s) : x = s[i]
      BY <1>2 DEF ToSet
    <3>2. i + 1 \in 2 .. Len(s) + 1 /\ i + 1 \in 1 .. Len(s) + 1 /\ i + 1 - 1 = i
      BY <1>2
    <3>3. t[i + 1] = x
      BY <1>5, <3>1, <3>2
    <3> QED BY <1>6, <3>2, <3>3 DEF ToSet
  <2> QED BY <2>1, <2>2, <2>3
<1> QED BY <1>2, <1>3, <1>4, <1>5, <1>7, <1>8 DEF t

\* A key has a bucket when there is a table.
LEMMA BucketIs ==
    ASSUME NEW m, m.size \in Nat \ {0}, NEW k \in Keys
    PROVE  Bucket(m, k) \in Buckets(m)
<1>1. Code[k] \in Nat
  BY HashMapAssumption
<1> QED BY <1>1, ModCounts DEF Bucket, Buckets

\* What stays when entries are linked: the keys, the values, the size.
SameEntries(m, n) ==
    /\ n.idx = m.idx /\ n.size = m.size /\ n.lost = m.lost
    /\ \A c \in Cells : n.cell[c].key = m.cell[c].key /\ n.cell[c].value = m.cell[c].value

\* hashmap_link puts an entry in front of the chain of its bucket, and tells
\* the one that was there.
LEMMA LinkIs ==
    ASSUME NEW m, NEW D, Shape(m, D), m.size > 0, NEW e \in Cells \ D, m.cell[e].key \in Keys,
           NEW b, b = Bucket(m, m.cell[e].key), m.head[b] \in D \cup {NULL},
           NEW n, n = HashmapLink(m, e)
    PROVE  /\ SameEntries(m, n) /\ Shape(n, D \cup {e}) /\ b \in Buckets(m)
           /\ n.head[b] = e /\ \A a \in Buckets(m) \ {b} : n.head[a] = m.head[a]
           /\ n.cell[e].next = m.head[b] /\ n.cell[e].prev = m.cell[e].prev
           /\ \A c \in Cells \ {e} : n.cell[c].next = m.cell[c].next
           /\ \A c \in Cells \ {e, m.head[b]} : n.cell[c] = m.cell[c]
           /\ m.head[b] # NULL => n.cell[m.head[b]].prev = e
<1> DEFINE f == m.head[b]
           C == [c \in Cells |-> IF c = e THEN [m.cell[c] EXCEPT !.next = f]
                                 ELSE IF c = f THEN [m.cell[c] EXCEPT !.prev = e] ELSE m.cell[c]]
           H == [m.head EXCEPT ![b] = e]
           u == (m.used + 1) % UsedMod
<1>1. /\ Rec(m) /\ m.size \in Nat /\ m.head \in [Buckets(m) -> Cells \cup {NULL}]
      /\ m.cell \in [Cells -> Entry] /\ D \subseteq Cells
      /\ (\A c \in D : m.cell[c].key \in Keys) /\ m.used = Cardinality(D) % UsedMod
  BY DEF Shape
<1>2. b \in Buckets(m)
  BY <1>1, BucketIs
<1>3. n = [idx |-> m.idx, size |-> m.size, used |-> u, head |-> H, lost |-> m.lost, cell |-> C]
  BY <1>1 DEF HashmapLink, Rec
<1> HIDE DEF C, H, u
<1>4. /\ n.idx = m.idx /\ n.size = m.size /\ n.lost = m.lost
      /\ n.used = u /\ n.head = H /\ n.cell = C /\ Rec(n)
  BY <1>3 DEF Rec
<1>5. f # e /\ e \in Cells /\ f \in Cells \cup {NULL}
  BY <1>1, HashMapAssumption
<1>6. \A c \in Cells : m.cell[c] \in Entry
  BY <1>1
<1>7. C[e] = [m.cell[e] EXCEPT !.next = f]
  BY <1>5 DEF C
<1>8. f # NULL => C[f] = [m.cell[f] EXCEPT !.prev = e]
  BY <1>5 DEF C
<1>9. \A c \in Cells \ {e, f} : C[c] = m.cell[c]
  BY DEF C
<1>10. /\ C[e] \in Entry /\ C[e].key = m.cell[e].key /\ C[e].value = m.cell[e].value
       /\ C[e].next = f /\ C[e].prev = m.cell[e].prev
  <2> DEFINE x == m.cell[e]
  <2>1. x \in Entry
    BY <1>5, <1>6
  <2> HIDE DEF x
  <2>2. /\ [x EXCEPT !.next = f] \in Entry /\ [x EXCEPT !.next = f].key = x.key
        /\ [x EXCEPT !.next = f].value = x.value /\ [x EXCEPT !.next = f].next = f
        /\ [x EXCEPT !.next = f].prev = x.prev
    BY <1>5, <2>1 DEF Entry
  <2> QED BY <1>7, <2>2 DEF x
<1>11. f # NULL => /\ C[f] \in Entry /\ C[f].key = m.cell[f].key /\ C[f].value = m.cell[f].value
                   /\ C[f].next = m.cell[f].next /\ C[f].prev = e
  <2> SUFFICES ASSUME f # NULL
               PROVE  /\ C[f] \in Entry /\ C[f].key = m.cell[f].key /\ C[f].value = m.cell[f].value
                      /\ C[f].next = m.cell[f].next /\ C[f].prev = e
    OBVIOUS
  <2> DEFINE x == m.cell[f]
  <2>1. x \in Entry
    BY <1>5, <1>6
  <2> HIDE DEF x
  <2>2. /\ [x EXCEPT !.prev = e] \in Entry /\ [x EXCEPT !.prev = e].key = x.key
        /\ [x EXCEPT !.prev = e].value = x.value /\ [x EXCEPT !.prev = e].next = x.next
        /\ [x EXCEPT !.prev = e].prev = e
    BY <1>5, <2>1 DEF Entry
  <2> QED BY <1>8, <2>2 DEF x
<1> HIDE DEF f
<1>12. /\ \A c \in Cells : /\ C[c] \in Entry /\ C[c].key = m.cell[c].key
                           /\ C[c].value = m.cell[c].value
                           /\ c # e => C[c].next = m.cell[c].next
  <2> SUFFICES ASSUME NEW c \in Cells
               PROVE  /\ C[c] \in Entry /\ C[c].key = m.cell[c].key
                      /\ C[c].value = m.cell[c].value
                      /\ c # e => C[c].next = m.cell[c].next
    OBVIOUS
  <2>1. CASE c = e
    BY <1>10, <2>1
  <2>2. CASE c = f
    BY <1>5, <1>11, <2>2, HashMapAssumption
  <2>3. CASE c # e /\ c # f
    BY <1>6, <1>9, <2>3
  <2> QED BY <2>1, <2>2, <2>3
<1>13. C \in [Cells -> Entry]
  BY <1>12 DEF C
<1>14. /\ H \in [Buckets(m) -> Cells \cup {NULL}] /\ H[b] = e
       /\ \A a \in Buckets(m) \ {b} : H[a] = m.head[a]
  BY <1>1, <1>2, <1>5 DEF H
<1>15. u = Cardinality(D \cup {e}) % UsedMod
  <2>1. IsFiniteSet(D) /\ Cardinality(D) \in Nat
    BY <1>1, HashMapAssumption, FS_Subset, FS_CardinalityType
  <2>2. Cardinality(D \cup {e}) = Cardinality(D) + 1
    BY <2>1, FS_AddElement
  <2>3. UsedMod \in Nat \ {0}
    BY HashMapAssumption
  <2>4. ((Cardinality(D) % UsedMod) + 1) % UsedMod = (Cardinality(D) + 1) % UsedMod
    BY <2>1, <2>3, ModCounts
  <2> QED BY <1>1, <2>2, <2>4 DEF u
<1>16. \A c \in D \cup {e} : C[c].key \in Keys
  BY <1>1, <1>12
<1>17. Buckets(n) = Buckets(m)
  BY <1>4 DEF Buckets
<1>18. Shape(n, D \cup {e})
  BY <1>1, <1>4, <1>13, <1>14, <1>15, <1>16, <1>17 DEF Shape
<1>19. SameEntries(m, n)
  BY <1>4, <1>12 DEF SameEntries
<1> QED BY <1>2, <1>4, <1>9, <1>10, <1>11, <1>12, <1>14, <1>18, <1>19 DEF f

\* n is m with the entry e in front of bucket b.
PutInFront(m, n, D, b, e) ==
    /\ Table(n, D \cup {e}) /\ SameEntries(m, n) /\ b \in Buckets(m)
    /\ Chain(n, b) = <<e>> \o Chain(m, b)
    /\ \A a \in Buckets(m) \ {b} : Chain(n, a) = Chain(m, a)
    /\ n.cell[e].prev = m.cell[e].prev
    /\ \A c \in Cells \ D : c # e => n.cell[c] = m.cell[c]
    /\ \A a \in Buckets(m) \ {b} :
         \A i \in 1 .. Len(Chain(m, a)) : n.cell[Chain(m, a)[i]] = m.cell[Chain(m, a)[i]]

\* So a table stays one, with one more entry in it.
LEMMA LinkKept ==
    ASSUME NEW m, NEW D, Table(m, D), m.size > 0, NEW e \in Cells \ D, m.cell[e].key \in Keys,
           NEW b, b = Bucket(m, m.cell[e].key), NEW n, n = HashmapLink(m, e)
    PROVE  PutInFront(m, n, D, b, e)
<1> DEFINE s == Chain(m, b)
           f == m.head[b]
           t == <<e>> \o s
           ch == [a \in Buckets(m) |-> IF a = b THEN t ELSE Chain(m, a)]
<1>1. Shape(m, D) /\ D \subseteq Cells /\ m.size \in Nat
  BY DEF Table, Shape
<1>2. b \in Buckets(m)
  BY <1>1, BucketIs
<1>3. /\ Linked(m, b, s) /\ s \in Seq(Cells) /\ IsInjective(s) /\ Len(s) \in Nat
      /\ DOMAIN s = 1 .. Len(s) /\ ToSet(s) = {c \in D : Bucket(m, m.cell[c].key) = b}
      /\ \A i \in 1 .. Len(s) : s[i] \in D /\ s[i] \in ToSet(s)
  <2>1. /\ Linked(m, b, s) /\ s \in Seq(Cells) /\ IsInjective(s)
        /\ DOMAIN s = 1 .. Len(s) /\ ToSet(s) = {c \in D : Bucket(m, m.cell[c].key) = b}
        /\ \A i \in 1 .. Len(s) : s[i] \in D
    BY <1>2, ChainOf
  <2>2. Len(s) \in Nat
    BY <2>1, LenProperties
  <2>3. \A i \in 1 .. Len(s) : s[i] \in ToSet(s)
    BY <2>1 DEF ToSet
  <2> QED BY <2>1, <2>2, <2>3
<1>4. /\ f = IF s = <<>> THEN NULL ELSE s[1]
      /\ \A i \in 1 .. Len(s) : m.cell[s[i]].next = IF i = Len(s) THEN NULL ELSE s[i + 1]
      /\ \A i \in 2 .. Len(s) : m.cell[s[i]].prev = s[i - 1]
  BY <1>3 DEF Linked
<1>5. /\ s = <<>> => f = NULL /\ Len(s) = 0
      /\ s # <<>> => 1 \in 1 .. Len(s) /\ f = s[1] /\ f \in D /\ f \in ToSet(s) /\ f # NULL
  <2>1. CASE s = <<>>
    BY <1>4, <2>1, EmptySeq
  <2>2. CASE s # <<>>
    <3>1. Len(s) # 0
      BY <1>3, <2>2, EmptySeq
    <3>2. 1 \in 1 .. Len(s)
      BY <1>3, <3>1
    <3>3. f = s[1] /\ f \in D /\ f \in ToSet(s)
      BY <1>3, <1>4, <2>2, <3>2
    <3> QED BY <1>1, <2>2, <3>2, <3>3, HashMapAssumption
  <2> QED BY <2>1, <2>2
<1>6. f \in D \cup {NULL}
  BY <1>5
<1>7. /\ SameEntries(m, n) /\ Shape(n, D \cup {e})
      /\ n.head[b] = e /\ \A a \in Buckets(m) \ {b} : n.head[a] = m.head[a]
      /\ n.cell[e].next = f /\ n.cell[e].prev = m.cell[e].prev
      /\ \A c \in Cells \ {e} : n.cell[c].next = m.cell[c].next
      /\ \A c \in Cells \ {e, f} : n.cell[c] = m.cell[c]
      /\ f # NULL => n.cell[f].prev = e
  BY <1>1, <1>6, LinkIs
<1>8. /\ t \in Seq(Cells) /\ Len(t) = Len(s) + 1 /\ t[1] = e /\ t # <<>>
      /\ \A i \in 2 .. Len(s) + 1 : t[i] = s[i - 1]
      /\ ToSet(t) = {e} \cup ToSet(s)
  BY <1>3, InFront
<1>9. DOMAIN t = 1 .. Len(s) + 1
  BY <1>8, LenProperties
<1> HIDE DEF s, t, f
<1>10. IsInjective(t)
  <2> SUFFICES ASSUME NEW i \in 1 .. Len(s) + 1, NEW j \in 1 .. Len(s) + 1, t[i] = t[j], i # j
               PROVE  FALSE
    BY <1>9 DEF IsInjective
  <2>1. \A k \in 2 .. Len(s) + 1 : k - 1 \in 1 .. Len(s) /\ t[k] = s[k - 1] /\ s[k - 1] \in D
    BY <1>3, <1>8
  <2>2. CASE i = 1
    <3>1. j \in 2 .. Len(s) + 1
      BY <2>2
    <3> QED BY <1>8, <2>1, <2>2, <3>1
  <2>3. CASE j = 1
    <3>1. i \in 2 .. Len(s) + 1
      BY <2>3
    <3> QED BY <1>8, <2>1, <2>3, <3>1
  <2>4. CASE i # 1 /\ j # 1
    <3>1. i \in 2 .. Len(s) + 1 /\ j \in 2 .. Len(s) + 1
      BY <2>4
    <3>2. s[i - 1] = s[j - 1] /\ i - 1 \in 1 .. Len(s) /\ j - 1 \in 1 .. Len(s)
      BY <2>1, <3>1
    <3>3. i - 1 = j - 1
      BY <1>3, <3>2 DEF IsInjective
    <3> QED BY <3>3
  <2> QED BY <2>2, <2>3, <2>4
<1>11. \A i \in 1 .. Len(t) : n.cell[t[i]].next = IF i = Len(t) THEN NULL ELSE t[i + 1]
  <2> SUFFICES ASSUME NEW i \in 1 .. Len(s) + 1
               PROVE  n.cell[t[i]].next = IF i = Len(s) + 1 THEN NULL ELSE t[i + 1]
    BY <1>8
  <2>1. CASE i = 1
    <3>1. n.cell[t[i]].next = f
      BY <1>7, <1>8, <2>1
    <3>2. CASE s = <<>>
      BY <1>5, <2>1, <3>1, <3>2
    <3>3. CASE s # <<>>
      <4>1. 1 \in 1 .. Len(s) /\ f = s[1]
        BY <1>5, <3>3
      <4>2. 2 \in 2 .. Len(s) + 1 /\ 2 - 1 = 1 /\ i # Len(s) + 1 /\ i + 1 = 2
        BY <1>3, <2>1, <4>1
      <4>3. t[2] = s[2 - 1]
        BY <1>8, <4>2
      <4> QED BY <3>1, <4>1, <4>2, <4>3
    <3> QED BY <3>2, <3>3
  <2>2. CASE i # 1
    <3>1. i \in 2 .. Len(s) + 1 /\ i - 1 \in 1 .. Len(s) /\ i - 1 + 1 = i
      BY <1>3, <2>2
    <3>2. t[i] = s[i - 1] /\ s[i - 1] \in Cells \ {e}
      BY <1>1, <1>3, <1>8, <3>1
    <3>3. n.cell[t[i]].next = m.cell[s[i - 1]].next
      BY <1>7, <3>2
    <3>4. m.cell[s[i - 1]].next = IF i - 1 = Len(s) THEN NULL ELSE s[i]
      BY <1>4, <3>1
    <3>5. CASE i = Len(s) + 1
      BY <1>3, <3>3, <3>4, <3>5
    <3>6. CASE i # Len(s) + 1
      <4>1. i + 1 \in 2 .. Len(s) + 1 /\ i + 1 - 1 = i /\ i - 1 # Len(s)
        BY <1>3, <3>6
      <4>2. t[i + 1] = s[i + 1 - 1]
        BY <1>8, <4>1
      <4> QED BY <3>3, <3>4, <3>6, <4>1, <4>2
    <3> QED BY <3>5, <3>6
  <2> QED BY <2>1, <2>2
<1>12. \A i \in 2 .. Len(t) : n.cell[t[i]].prev = t[i - 1]
  <2> SUFFICES ASSUME NEW i \in 2 .. Len(s) + 1 PROVE n.cell[t[i]].prev = t[i - 1]
    BY <1>8
  <2>1. i - 1 \in 1 .. Len(s) /\ t[i] = s[i - 1] /\ s[i - 1] \in Cells \ {e}
    BY <1>1, <1>3, <1>8
  <2>2. CASE i = 2
    <3>1. 1 \in 1 .. Len(s) /\ i - 1 = 1
      BY <2>1, <2>2
    <3>2. s # <<>>
      BY <1>3, <1>5, <3>1
    <3>3. t[i] = f /\ f # NULL
      BY <1>5, <2>1, <3>1, <3>2
    <3> QED BY <1>7, <1>8, <3>1, <3>3
  <2>3. CASE i # 2
    <3>1. i - 1 \in 2 .. Len(s) /\ i - 1 \in 2 .. Len(s) + 1 /\ 1 \in 1 .. Len(s) /\ i - 1 # 1
      BY <1>3, <2>1, <2>3
    <3>2. s # <<>>
      BY <1>3, <1>5, <3>1
    <3>3. f = s[1] /\ s[i - 1] # f
      BY <1>3, <1>5, <2>1, <3>1, <3>2 DEF IsInjective
    <3>4. n.cell[t[i]].prev = m.cell[s[i - 1]].prev
      BY <1>7, <2>1, <3>3
    <3>5. m.cell[s[i - 1]].prev = s[i - 1 - 1]
      BY <1>4, <3>1
    <3>6. t[i - 1] = s[i - 1 - 1]
      BY <1>8, <3>1
    <3> QED BY <3>4, <3>5, <3>6
  <2> QED BY <2>2, <2>3
<1>13. Linked(n, b, t)
  BY <1>7, <1>8, <1>10, <1>11, <1>12 DEF Linked
<1>14. ASSUME NEW a \in Buckets(m) \ {b}
       PROVE  /\ Linked(n, a, Chain(m, a))
              /\ ToSet(Chain(m, a)) = {c \in D : Bucket(m, m.cell[c].key) = a}
              /\ \A c \in ToSet(Chain(m, a)) : n.cell[c] = m.cell[c]
  <2>1. /\ Linked(m, a, Chain(m, a))
        /\ ToSet(Chain(m, a)) = {c \in D : Bucket(m, m.cell[c].key) = a}
    BY ChainOf
  <2>2. \A c \in ToSet(Chain(m, a)) : c \in Cells \ {e, f}
    <3>1. f # NULL => Bucket(m, m.cell[f].key) = b
      BY <1>3, <1>5
    <3>2. \A c \in ToSet(Chain(m, a)) : c \in Cells /\ c # e /\ c # NULL /\ Bucket(m, m.cell[c].key) = a
      BY <1>1, <2>1, HashMapAssumption
    <3> QED BY <3>1, <3>2
  <2>3. \A c \in ToSet(Chain(m, a)) : n.cell[c] = m.cell[c]
    BY <1>7, <2>2
  <2>4. Linked(n, a, Chain(m, a))
    BY <1>7, <2>1, <2>3, SameLinked
  <2> QED BY <2>1, <2>3, <2>4
<1>15. /\ Buckets(n) = Buckets(m)
       /\ \A c \in Cells : Bucket(n, n.cell[c].key) = Bucket(m, m.cell[c].key)
  BY <1>7 DEF SameEntries, Buckets, Bucket
<1>16. ASSUME NEW a \in Buckets(m)
       PROVE  ToSet(ch[a]) = {c \in D \cup {e} : Bucket(n, n.cell[c].key) = a}
  <2>1. CASE a = b
    <3>1. ToSet(ch[a]) = {e} \cup {c \in D : Bucket(m, m.cell[c].key) = b}
      BY <1>3, <1>8, <2>1
    <3> QED BY <1>1, <1>15, <2>1, <3>1
  <2>2. CASE a # b
    <3>1. ToSet(ch[a]) = {c \in D : Bucket(m, m.cell[c].key) = a}
      BY <1>14, <2>2
    <3> QED BY <1>1, <1>15, <2>2, <3>1
  <2> QED BY <2>1, <2>2
<1>17. \A a \in Buckets(m) : Linked(n, a, ch[a])
  BY <1>13, <1>14
<1> HIDE DEF ch
<1>18. Held(n, ch, D \cup {e})
  BY <1>15, <1>16, <1>17 DEF Held
<1>19. Table(n, D \cup {e}) /\ \A a \in Buckets(m) : Chain(n, a) = ch[a]
  BY <1>7, <1>15, <1>18, TableIs
<1>20. Chain(n, b) = t /\ \A a \in Buckets(m) \ {b} : Chain(n, a) = Chain(m, a)
  BY <1>2, <1>19 DEF ch
<1>21. \A c \in Cells \ D : c # e => n.cell[c] = m.cell[c]
  BY <1>1, <1>5, <1>7, HashMapAssumption
<1>22. ASSUME NEW a \in Buckets(m) \ {b}, NEW i \in 1 .. Len(Chain(m, a))
       PROVE  n.cell[Chain(m, a)[i]] = m.cell[Chain(m, a)[i]]
  <2>1. Chain(m, a)[i] \in ToSet(Chain(m, a))
    BY ChainOf DEF ToSet
  <2> QED BY <1>14, <2>1
<1> QED BY <1>2, <1>7, <1>19, <1>20, <1>21, <1>22 DEF PutInFront, t, s

---------------------------------------------------------------------------
(* Search and deletion. *)

\* A search ends at the first entry of its key, or has seen every one.
LEMMA LocateIs ==
    ASSUME NEW m, NEW D, Table(m, D), m.size > 0, NEW k \in Keys,
           NEW s, s = Chain(m, Bucket(m, k)), NEW e, e = HashmapLocate(m, k)
    PROVE  \/ e = NULL /\ \A i \in 1 .. Len(s) : m.cell[s[i]].key # k
           \/ /\ e \in D /\ m.cell[e].key = k
              /\ \E j \in 1 .. Len(s) : e = s[j] /\ \A i \in 1 .. j - 1 : m.cell[s[i]].key # k
<1> DEFINE hits == {i \in DOMAIN s : m.cell[s[i]].key = k}
<1>1. Bucket(m, k) \in Buckets(m)
  BY BucketIs DEF Table, Shape
<1>2. DOMAIN s = 1 .. Len(s) /\ Len(s) \in Nat /\ \A i \in 1 .. Len(s) : s[i] \in D
  <2>1. /\ DOMAIN s = 1 .. Len(s) /\ s \in Seq(Cells)
        /\ \A i \in 1 .. Len(s) : s[i] \in D
    BY <1>1, ChainOf
  <2> QED BY <2>1, LenProperties
<1>3. e = IF hits = {} THEN NULL ELSE s[Min(hits)]
  BY DEF HashmapLocate
<1>4. CASE hits = {}
  BY <1>2, <1>3, <1>4
<1>5. CASE hits # {}
  <2>1. hits \subseteq Nat
    BY <1>2
  <2>2. \E x \in hits : \A y \in hits : x <= y
    BY <1>5, <2>1, LeastOf
  <2>3. Min(hits) \in hits /\ \A y \in hits : Min(hits) <= y
    BY <2>2 DEF Min
  <2>4. PICK j \in 1 .. Len(s) : j = Min(hits) /\ e = s[j] /\ m.cell[e].key = k
    BY <1>2, <1>3, <1>5, <2>3
  <2>5. ASSUME NEW i \in 1 .. j - 1 PROVE m.cell[s[i]].key # k
    <3> HIDE DEF hits
    <3>1. Len(s) \in Nat /\ j \in 1 .. Len(s)
      BY <1>2, <2>4
    <3>2. i \in 1 .. Len(s) /\ ~ (j <= i)
      BY <3>1
    <3>3. i \notin hits
      BY <2>3, <2>4, <3>2
    <3> QED BY <1>2, <3>2, <3>3 DEF hits
  <2> QED BY <1>2, <2>4, <2>5
<1> QED BY <1>4, <1>5

\* The first entries of the chains do not name one before them.
Heads(m) ==
    \A b \in Buckets(m) : Chain(m, b) # <<>> => m.cell[Chain(m, b)[1]].prev = NULL

\* s without its j-th element.
Removed(s, j) == [i \in 1 .. Len(s) - 1 |-> IF i < j THEN s[i] ELSE s[i + 1]]

\* What is left when one is taken out.
LEMMA RemovedIs ==
    ASSUME NEW s \in Seq(Cells), IsInjective(s), NEW j \in 1 .. Len(s),
           NEW r, r = Removed(s, j)
    PROVE  /\ r \in Seq(Cells) /\ IsInjective(r) /\ Len(r) = Len(s) - 1 /\ Len(r) \in Nat
           /\ \A i \in 1 .. Len(r) : r[i] = IF i < j THEN s[i] ELSE s[i + 1]
           /\ ToSet(r) = ToSet(s) \ {s[j]}
<1>1. Len(s) \in Nat /\ DOMAIN s = 1 .. Len(s) /\ \A i \in 1 .. Len(s) : s[i] \in Cells
  BY LenProperties
<1> DEFINE n == Len(s) - 1
<1>2. n \in Nat /\ r = [i \in 1 .. n |-> IF i < j THEN s[i] ELSE s[i + 1]]
  BY <1>1 DEF Removed
<1> HIDE DEF n
<1>3. \A i \in 1 .. n : /\ r[i] = IF i < j THEN s[i] ELSE s[i + 1]
                        /\ i \in 1 .. Len(s) /\ i + 1 \in 1 .. Len(s)
  BY <1>1, <1>2 DEF n
<1>4. \A i \in 1 .. n : r[i] \in Cells
  BY <1>1, <1>3
<1>5. r \in [1 .. n -> Cells]
  BY <1>2, <1>4
<1>6. r \in Seq(Cells) /\ DOMAIN r = 1 .. n
  BY <1>2, <1>5, SeqDef
<1>7. Len(r) = n
  BY <1>2, <1>6, LenProperties
<1>8. IsInjective(r)
  <2> SUFFICES ASSUME NEW a \in 1 .. n, NEW b \in 1 .. n, r[a] = r[b] PROVE a = b
    BY <1>6 DEF IsInjective
  <2> DEFINE at(i) == IF i < j THEN i ELSE i + 1
  <2>1. \A i \in 1 .. n : at(i) \in 1 .. Len(s) /\ r[i] = s[at(i)]
    BY <1>3
  <2>2. at(a) = at(b)
    BY <1>1, <2>1 DEF IsInjective
  <2> QED BY <2>2
<1>9. ToSet(r) = ToSet(s) \ {s[j]}
  <2>1. ASSUME NEW x \in ToSet(r) PROVE x \in ToSet(s) \ {s[j]}
    <3>1. PICK i \in 1 .. n : x = r[i]
      BY <1>6 DEF ToSet
    <3>2. PICK a \in 1 .. Len(s) : x = s[a] /\ a # j
      BY <1>3, <3>1
    <3> QED BY <1>1, <3>2 DEF ToSet, IsInjective
  <2>2. ASSUME NEW x \in ToSet(s) \ {s[j]} PROVE x \in ToSet(r)
    <3>1. PICK a \in 1 .. Len(s) : x = s[a] /\ a # j
      BY <1>1 DEF ToSet
    <3>2. CASE a < j
      <4>1. a \in 1 .. n /\ r[a] = s[a]
        BY <1>1, <1>3, <3>1, <3>2 DEF n
      <4> QED BY <1>6, <3>1, <4>1 DEF ToSet
    <3>3. CASE j < a
      <4>1. a - 1 \in 1 .. n /\ ~ (a - 1 < j) /\ a - 1 + 1 = a
        BY <1>1, <3>1, <3>3 DEF n
      <4>2. r[a - 1] = s[a - 1 + 1]
        BY <1>3, <4>1
      <4> QED BY <1>6, <3>1, <4>1, <4>2 DEF ToSet
    <3> QED BY <3>1, <3>2, <3>3
  <2> QED BY <2>1, <2>2
<1> QED BY <1>2, <1>3, <1>6, <1>7, <1>8, <1>9 DEF n

\* n is m without the entry e of bucket b, which was between p and q.
TakenOut(m, n, b, e, p, q) ==
    /\ n.idx = m.idx /\ n.size = m.size /\ n.lost = m.lost
    /\ n.head[b] = IF p = NULL THEN q ELSE m.head[b]
    /\ \A a \in Buckets(m) \ {b} : n.head[a] = m.head[a]
    /\ n.cell[e] = Free
    /\ \A c \in Cells \ {e} :
         /\ n.cell[c].key = m.cell[c].key /\ n.cell[c].value = m.cell[c].value
         /\ n.cell[c].prev = IF c = q THEN p ELSE m.cell[c].prev
         /\ n.cell[c].next = IF c = p THEN q ELSE m.cell[c].next
    /\ \A c \in Cells \ {e, p, q} : n.cell[c] = m.cell[c]

\* hashmap_delete makes the neighbours of the entry it finds each other's.
LEMMA DeleteIs ==
    ASSUME NEW m, NEW D, Shape(m, D), m.size > 0, NEW k \in Keys, NEW b, b = Bucket(m, k),
           NEW e \in D, e = HashmapLocate(m, k), NEW n, n = HashmapDelete(m, k),
           NEW p, p = m.cell[e].prev, NEW q, q = m.cell[e].next
    PROVE  Shape(n, D \ {e}) /\ TakenOut(m, n, b, e, p, q)
<1> DEFINE C == [c \in Cells |-> IF c = e THEN Free
                                 ELSE [m.cell[c] EXCEPT !.prev = IF c = q THEN p ELSE @,
                                                        !.next = IF c = p THEN q ELSE @]]
           H == [m.head EXCEPT ![b] = IF p = NULL THEN q ELSE @]
           u == (m.used + UsedMod - 1) % UsedMod
<1>1. /\ Rec(m) /\ m.size \in Nat /\ m.head \in [Buckets(m) -> Cells \cup {NULL}]
      /\ m.cell \in [Cells -> Entry] /\ D \subseteq Cells
      /\ (\A c \in D : m.cell[c].key \in Keys) /\ m.used = Cardinality(D) % UsedMod
  BY DEF Shape
<1>2. b \in Buckets(m)
  BY <1>1, BucketIs
<1>3. n = [idx |-> m.idx, size |-> m.size, used |-> u, head |-> H, lost |-> m.lost, cell |-> C]
  <2>1. n = [m EXCEPT !.used = (@ + UsedMod - 1) % UsedMod,
                      !.head[b] = IF p = NULL THEN q ELSE @, !.cell = C]
    BY Zenon DEF HashmapDelete
  <2> HIDE DEF C
  <2> QED BY <1>1, <2>1 DEF Rec
<1> HIDE DEF C, H, u
<1>4. /\ n.idx = m.idx /\ n.size = m.size /\ n.lost = m.lost
      /\ n.used = u /\ n.head = H /\ n.cell = C /\ Rec(n)
  BY <1>3 DEF Rec
<1>5. e \in Cells /\ p \in Cells \cup {NULL} /\ q \in Cells \cup {NULL}
  BY <1>1 DEF Entry
<1>6. C[e] = Free /\ Free \in Entry
  BY <1>5 DEF C, Free, Entry
<1>7. \A c \in Cells \ {e} :
        C[c] = [m.cell[c] EXCEPT !.prev = IF c = q THEN p ELSE @, !.next = IF c = p THEN q ELSE @]
  BY DEF C
<1>8. ASSUME NEW c \in Cells \ {e}
      PROVE  /\ C[c].key = m.cell[c].key /\ C[c].value = m.cell[c].value /\ C[c] \in Entry
             /\ C[c].prev = IF c = q THEN p ELSE m.cell[c].prev
             /\ C[c].next = IF c = p THEN q ELSE m.cell[c].next
             /\ c \notin {p, q} => C[c] = m.cell[c]
  <2> DEFINE x == m.cell[c]
             y == [x EXCEPT !.prev = IF c = q THEN p ELSE @, !.next = IF c = p THEN q ELSE @]
  <2>1. x \in Entry /\ C[c] = y
    BY <1>1, <1>7
  <2> HIDE DEF x
  <2>4. /\ x.key \in Keys \cup {NULL} /\ x.value \in Values \cup {NULL}
        /\ x.next \in Cells \cup {NULL} /\ x.prev \in Cells \cup {NULL}
        /\ x = [key |-> x.key, value |-> x.value, next |-> x.next, prev |-> x.prev]
    BY <2>1 DEF Entry
  <2>5. PICK back, on, z : /\ back = (IF c = q THEN p ELSE x.prev)
                           /\ on = (IF c = p THEN q ELSE x.next)
                           /\ z = [x EXCEPT !.prev = back, !.next = on]
    OBVIOUS
  <2>6. z = y
    BY <2>5
  <2> HIDE DEF y
  <2>7. back \in Cells \cup {NULL} /\ on \in Cells \cup {NULL}
    BY <1>5, <2>4, <2>5
  <2>8. z.key = x.key /\ z.value = x.value /\ z.prev = back /\ z.next = on
    BY <2>4, <2>5
  <2>9. z \in Entry
    <3>1. z = [x EXCEPT !.prev = back, !.next = on]
      BY <2>5
    <3> QED BY <2>1, <2>7, <3>1 DEF Entry
  <2>2. /\ y.key = x.key /\ y.value = x.value /\ y \in Entry
        /\ y.prev = IF c = q THEN p ELSE x.prev
        /\ y.next = IF c = p THEN q ELSE x.next
    BY <2>5, <2>6, <2>8, <2>9
  <2>3. c \notin {p, q} => y = x
    <3>1. x = [key |-> x.key, value |-> x.value, next |-> x.next, prev |-> x.prev]
      BY <2>1 DEF Entry
    <3> QED BY <3>1 DEF y
  <2> QED BY <2>1, <2>2, <2>3 DEF x
<1>9. C \in [Cells -> Entry]
  <2>1. \A c \in Cells : C[c] \in Entry
    BY <1>6, <1>8
  <2> QED BY <2>1 DEF C
<1>10. /\ H \in [Buckets(m) -> Cells \cup {NULL}] /\ H[b] = IF p = NULL THEN q ELSE m.head[b]
       /\ \A a \in Buckets(m) \ {b} : H[a] = m.head[a]
  BY <1>1, <1>2, <1>5 DEF H
<1>11. u = Cardinality(D \ {e}) % UsedMod
  <2>1. IsFiniteSet(D) /\ Cardinality(D) \in Nat
    BY <1>1, HashMapAssumption, FS_Subset, FS_CardinalityType
  <2>2. Cardinality(D \ {e}) = Cardinality(D) - 1 /\ Cardinality(D) # 0
    BY <2>1, FS_RemoveElement, FS_EmptySet
  <2>3. UsedMod \in Nat \ {0} /\ Cardinality(D) > 0
    BY <2>1, <2>2, HashMapAssumption
  <2>4. ((Cardinality(D) % UsedMod) + UsedMod - 1) % UsedMod = (Cardinality(D) - 1) % UsedMod
    BY <2>1, <2>3, ModCounts
  <2> QED BY <1>1, <2>2, <2>4 DEF u
<1>12. \A c \in D \ {e} : C[c].key \in Keys
  BY <1>1, <1>8
<1>13. Buckets(n) = Buckets(m)
  BY <1>4 DEF Buckets
<1>14. Shape(n, D \ {e})
  BY <1>1, <1>4, <1>9, <1>10, <1>11, <1>12, <1>13 DEF Shape
<1> QED BY <1>4, <1>6, <1>8, <1>10, <1>14 DEF TakenOut

\* n is m without the entry e, which is the first of key k in bucket b.
Deleted(m, n, D, b, e, k) ==
    /\ e \in D /\ m.cell[e].key = k /\ b \in Buckets(m)
    /\ Table(n, D \ {e}) /\ Heads(n)
    /\ n.idx = m.idx /\ n.size = m.size /\ n.lost = m.lost /\ n.cell[e] = Free
    /\ \A c \in Cells \ {e} :
         n.cell[c].key = m.cell[c].key /\ n.cell[c].value = m.cell[c].value
    /\ \A c \in Cells \ D : n.cell[c] = m.cell[c]
    /\ \E j \in 1 .. Len(Chain(m, b)) :
         /\ e = Chain(m, b)[j] /\ Chain(n, b) = Removed(Chain(m, b), j)
         /\ \A i \in 1 .. j - 1 : m.cell[Chain(m, b)[i]].key # k
    /\ \A a \in Buckets(m) \ {b} : Chain(n, a) = Chain(m, a)

\* So a table stays one, without the entry, when its heads name none before
\* them; and they still do not.
LEMMA DeleteKept ==
    ASSUME NEW m, NEW D, Table(m, D), Heads(m), m.size > 0, NEW k \in Keys,
           NEW b, b = Bucket(m, k), NEW e, e = HashmapLocate(m, k), e # NULL,
           NEW n, n = HashmapDelete(m, k)
    PROVE  Deleted(m, n, D, b, e, k)
<1> DEFINE s == Chain(m, b)
           p == m.cell[e].prev
           q == m.cell[e].next
<1>1. Shape(m, D) /\ D \subseteq Cells /\ m.size \in Nat /\ m.cell \in [Cells -> Entry]
  BY DEF Table, Shape
<1>2. b \in Buckets(m)
  BY <1>1, BucketIs
<1>3. /\ Linked(m, b, s) /\ s \in Seq(Cells) /\ IsInjective(s) /\ Len(s) \in Nat
      /\ DOMAIN s = 1 .. Len(s) /\ ToSet(s) = {c \in D : Bucket(m, m.cell[c].key) = b}
      /\ \A i \in 1 .. Len(s) : s[i] \in D /\ s[i] \in ToSet(s) /\ s[i] \in Cells
  <2>1. /\ Linked(m, b, s) /\ s \in Seq(Cells) /\ IsInjective(s)
        /\ DOMAIN s = 1 .. Len(s) /\ ToSet(s) = {c \in D : Bucket(m, m.cell[c].key) = b}
        /\ \A i \in 1 .. Len(s) : s[i] \in D
    BY <1>2, ChainOf
  <2>2. Len(s) \in Nat
    BY <2>1, LenProperties
  <2>3. \A i \in 1 .. Len(s) : s[i] \in ToSet(s)
    BY <2>1 DEF ToSet
  <2> QED BY <1>1, <2>1, <2>2, <2>3
<1>4. /\ m.head[b] = IF s = <<>> THEN NULL ELSE s[1]
      /\ \A i \in 1 .. Len(s) : m.cell[s[i]].next = IF i = Len(s) THEN NULL ELSE s[i + 1]
      /\ \A i \in 2 .. Len(s) : m.cell[s[i]].prev = s[i - 1]
  BY <1>3 DEF Linked
<1>5. /\ e \in D /\ m.cell[e].key = k
      /\ \E j \in 1 .. Len(s) : e = s[j] /\ \A i \in 1 .. j - 1 : m.cell[s[i]].key # k
  BY LocateIs
<1>6. PICK j \in 1 .. Len(s) : e = s[j] /\ \A i \in 1 .. j - 1 : m.cell[s[i]].key # k
  BY <1>5
<1>7. s # <<>> /\ m.head[b] = s[1] /\ m.cell[s[1]].prev = NULL
  <2>1. s # <<>>
    BY <1>3, <1>6, EmptySeq
  <2> QED BY <1>2, <1>4, <2>1 DEF Heads
<1> DEFINE r == Removed(s, j)
           ch == [a \in Buckets(m) |-> IF a = b THEN r ELSE Chain(m, a)]
<1>8. /\ r \in Seq(Cells) /\ IsInjective(r) /\ Len(r) = Len(s) - 1 /\ Len(r) \in Nat
      /\ \A i \in 1 .. Len(r) : r[i] = IF i < j THEN s[i] ELSE s[i + 1]
      /\ ToSet(r) = ToSet(s) \ {s[j]}
  <2>1. s \in Seq(Cells) /\ IsInjective(s) /\ Len(s) \in Nat
    BY <1>3
  <2> HIDE DEF s
  <2> QED BY <2>1, RemovedIs
<1>8a. Len(s) \in Nat /\ j \in 1 .. Len(s) /\ Len(r) = Len(s) - 1
  BY <1>3, <1>8
<1>9. /\ n.idx = m.idx /\ n.size = m.size /\ n.lost = m.lost /\ Shape(n, D \ {e})
      /\ n.head[b] = IF p = NULL THEN q ELSE m.head[b]
      /\ \A a \in Buckets(m) \ {b} : n.head[a] = m.head[a]
      /\ n.cell[e] = Free
      /\ \A c \in Cells \ {e} :
           /\ n.cell[c].key = m.cell[c].key /\ n.cell[c].value = m.cell[c].value
           /\ n.cell[c].prev = IF c = q THEN p ELSE m.cell[c].prev
           /\ n.cell[c].next = IF c = p THEN q ELSE m.cell[c].next
      /\ \A c \in Cells \ {e, p, q} : n.cell[c] = m.cell[c]
  <2>1. p = m.cell[e].prev /\ q = m.cell[e].next /\ Shape(m, D) /\ e \in D
    BY <1>1, <1>5
  <2> HIDE DEF p, q
  <2>2. Shape(n, D \ {e}) /\ TakenOut(m, n, b, e, p, q)
    BY <2>1, DeleteIs
  <2> QED BY <2>2 DEF TakenOut
<1>10. q = IF j = Len(s) THEN NULL ELSE s[j + 1]
  BY <1>4, <1>6
<1>11. p = IF j = 1 THEN NULL ELSE s[j - 1]
  <2>1. CASE j = 1
    BY <1>6, <1>7, <2>1
  <2>2. CASE j # 1
    <3>1. j \in 2 .. Len(s)
      BY <1>3, <2>2
    <3> QED BY <1>4, <1>6, <2>2, <3>1
  <2> QED BY <2>1, <2>2
<1> HIDE DEF s, p, q, r
<1>12. ASSUME NEW i \in 1 .. Len(s), i # j
       PROVE  /\ s[i] \in Cells \ {e} /\ s[i] # NULL
              /\ n.cell[s[i]].prev = IF i = j + 1 THEN p ELSE m.cell[s[i]].prev
              /\ n.cell[s[i]].next = IF i = j - 1 THEN q ELSE m.cell[s[i]].next
  <2>1. s[i] \in Cells \ {e} /\ s[i] # NULL
    BY <1>3, <1>6, <1>12, HashMapAssumption DEF IsInjective
  <2>2. s[i] = q <=> i = j + 1
    <3>1. CASE j = Len(s)
      BY <1>3, <1>10, <2>1, <3>1
    <3>2. CASE j # Len(s)
      <4>1. j + 1 \in 1 .. Len(s)
        BY <1>8a, <3>2
      <4>2. q = s[j + 1]
        BY <1>10, <3>2
      <4> QED BY <1>3, <4>1, <4>2 DEF IsInjective
    <3> QED BY <3>1, <3>2
  <2>3. s[i] = p <=> i = j - 1
    <3>1. CASE j = 1
      BY <1>3, <1>11, <2>1, <3>1
    <3>2. CASE j # 1
      <4>1. j - 1 \in 1 .. Len(s) /\ p = s[j - 1]
        BY <1>3, <1>11, <3>2
      <4> QED BY <1>3, <4>1 DEF IsInjective
    <3> QED BY <3>1, <3>2
  <2> QED BY <1>9, <2>1, <2>2, <2>3
<1>13. n.head[b] = IF r = <<>> THEN NULL ELSE r[1]
  <2>1. Len(r) = 0 <=> r = <<>>
    BY <1>8, EmptySeq
  <2>2. CASE j = 1
    <3>1. n.head[b] = q
      BY <1>9, <1>11, <2>2
    <3>2. CASE Len(s) = 1
      BY <1>8, <1>10, <2>1, <2>2, <3>1, <3>2
    <3>3. CASE Len(s) # 1
      <4>1. 1 \in 1 .. Len(r) /\ j # Len(s) /\ j + 1 = 1 + 1 /\ ~ (1 < j) /\ Len(r) # 0
        BY <1>3, <1>8, <2>2, <3>3
      <4>2. r[1] = s[1 + 1]
        BY <1>8, <4>1
      <4> QED BY <1>10, <2>1, <3>1, <4>1, <4>2
    <3> QED BY <3>2, <3>3
  <2>3. CASE j # 1
    <3>1. 1 < j /\ j - 1 \in 1 .. Len(s) /\ 1 \in 1 .. Len(r) /\ Len(r) # 0 /\ j - 1 # j
      BY <1>3, <1>8, <2>3
    <3>2. p # NULL
      BY <1>3, <1>11, <2>3, <3>1, HashMapAssumption
    <3>3. n.head[b] = s[1] /\ r[1] = s[1]
      BY <1>7, <1>8, <1>9, <3>1, <3>2
    <3> QED BY <2>1, <3>1, <3>3
  <2> QED BY <2>2, <2>3
<1>14. ASSUME NEW i \in 1 .. Len(r)
       PROVE  n.cell[r[i]].next = IF i = Len(r) THEN NULL ELSE r[i + 1]
  <2>1. i # Len(r) => i + 1 \in 1 .. Len(r)
    BY <1>8
  <2>2. CASE i < j - 1
    <3>1. /\ i \in 1 .. Len(s) /\ i # j /\ i # j - 1 /\ i < j /\ i + 1 < j
          /\ i # Len(r) /\ i # Len(s)
      BY <1>8a, <2>2
    <3>2. r[i] = s[i] /\ r[i + 1] = s[i + 1]
      BY <1>8, <2>1, <3>1
    <3>3. n.cell[s[i]].next = m.cell[s[i]].next
      BY <1>12, <3>1
    <3> QED BY <1>4, <3>1, <3>2, <3>3
  <2>3. CASE i = j - 1
    <3>1. /\ i \in 1 .. Len(s) /\ i # j /\ i < j /\ ~ (i + 1 < j) /\ i + 1 = j
          /\ (i = Len(r) <=> j = Len(s))
      BY <1>3, <1>8, <2>3
    <3>2. r[i] = s[i] /\ n.cell[s[i]].next = q
      BY <1>8, <1>12, <2>3, <3>1
    <3>3. i # Len(r) => r[i + 1] = s[j + 1]
      BY <1>8, <2>1, <3>1
    <3> QED BY <1>10, <3>1, <3>2, <3>3
  <2>4. CASE i >= j
    <3>1. /\ i + 1 \in 1 .. Len(s) /\ i + 1 # j /\ i + 1 # j - 1 /\ ~ (i < j) /\ ~ (i + 1 < j)
          /\ (i = Len(r) <=> i + 1 = Len(s))
      BY <1>3, <1>8, <2>4
    <3>2. r[i] = s[i + 1] /\ n.cell[s[i + 1]].next = m.cell[s[i + 1]].next
      BY <1>8, <1>12, <3>1
    <3>3. i # Len(r) => r[i + 1] = s[i + 1 + 1]
      BY <1>8, <2>1, <3>1
    <3>4. m.cell[s[i + 1]].next = IF i + 1 = Len(s) THEN NULL ELSE s[i + 1 + 1]
      BY <1>4, <3>1
    <3> QED BY <3>1, <3>2, <3>3, <3>4
  <2>5. i < j - 1 \/ i = j - 1 \/ i >= j
    BY <1>3, <1>8
  <2> QED BY <2>2, <2>3, <2>4, <2>5
<1>15. ASSUME NEW i \in 2 .. Len(r) PROVE n.cell[r[i]].prev = r[i - 1]
  <2>1. i \in 1 .. Len(r) /\ i - 1 \in 1 .. Len(r)
    BY <1>8
  <2>2. CASE i < j
    <3>1. i \in 1 .. Len(s) /\ i \in 2 .. Len(s) /\ i # j /\ i # j + 1 /\ i - 1 < j
      BY <1>3, <1>8, <2>2
    <3>2. r[i] = s[i] /\ r[i - 1] = s[i - 1]
      BY <1>8, <2>1, <2>2, <3>1
    <3>3. n.cell[s[i]].prev = m.cell[s[i]].prev
      BY <1>12, <3>1
    <3> QED BY <1>4, <3>1, <3>2, <3>3
  <2>3. CASE i = j
    <3>1. /\ i + 1 \in 1 .. Len(s) /\ i + 1 # j /\ i + 1 = j + 1 /\ ~ (i < j) /\ i - 1 < j
          /\ j # 1 /\ i - 1 = j - 1
      BY <1>3, <1>8, <2>3
    <3>2. r[i] = s[i + 1] /\ r[i - 1] = s[j - 1]
      BY <1>8, <2>1, <3>1
    <3>3. n.cell[s[i + 1]].prev = p
      BY <1>12, <3>1
    <3> QED BY <1>11, <3>1, <3>2, <3>3
  <2>4. CASE i > j
    <3>1. /\ i + 1 \in 1 .. Len(s) /\ i + 1 \in 2 .. Len(s) /\ i + 1 # j /\ i + 1 # j + 1
          /\ ~ (i < j) /\ ~ (i - 1 < j) /\ i - 1 + 1 = i /\ i + 1 - 1 = i
      BY <1>3, <1>8, <2>4
    <3>2. r[i] = s[i + 1] /\ r[i - 1] = s[i - 1 + 1]
      BY <1>8, <2>1, <3>1
    <3>3. n.cell[s[i + 1]].prev = m.cell[s[i + 1]].prev
      BY <1>12, <3>1
    <3>4. m.cell[s[i + 1]].prev = s[i + 1 - 1]
      BY <1>4, <3>1
    <3> QED BY <3>1, <3>2, <3>3, <3>4
  <2>5. i < j \/ i = j \/ i > j
    BY <1>3, <1>8
  <2> QED BY <2>2, <2>3, <2>4, <2>5
<1>16. Linked(n, b, r)
  BY <1>8, <1>13, <1>14, <1>15 DEF Linked
<1>17. r # <<>> => n.cell[r[1]].prev = NULL
  <2> SUFFICES ASSUME r # <<>> PROVE n.cell[r[1]].prev = NULL
    OBVIOUS
  <2>1. Len(r) # 0
    BY <1>8, EmptySeq
  <2>2. 1 \in 1 .. Len(r)
    BY <1>8, <2>1
  <2>3. CASE j = 1
    <3>1. 1 + 1 \in 1 .. Len(s) /\ 1 + 1 # j /\ 1 + 1 = j + 1 /\ ~ (1 < j)
      BY <1>3, <1>8, <2>2, <2>3
    <3>2. r[1] = s[1 + 1]
      BY <1>8, <2>2, <3>1
    <3>3. n.cell[s[1 + 1]].prev = p
      BY <1>12, <3>1
    <3> QED BY <1>11, <2>3, <3>2, <3>3
  <2>4. CASE j # 1
    <3>1. 1 \in 1 .. Len(s) /\ 1 # j /\ 1 # j + 1 /\ 1 < j
      BY <1>3, <1>8, <2>2, <2>4
    <3>2. r[1] = s[1]
      BY <1>8, <2>2, <3>1
    <3>3. n.cell[s[1]].prev = m.cell[s[1]].prev
      BY <1>12, <3>1
    <3> QED BY <1>7, <3>2, <3>3
  <2> QED BY <2>3, <2>4
<1>18. /\ p # NULL => p \in ToSet(s)
       /\ q # NULL => q \in ToSet(s)
  <2>1. j # 1 => j - 1 \in 1 .. Len(s)
    BY <1>8a
  <2>2. j # Len(s) => j + 1 \in 1 .. Len(s)
    BY <1>8a
  <2> QED BY <1>3, <1>10, <1>11, <2>1, <2>2
<1>19. ASSUME NEW a \in Buckets(m) \ {b}
       PROVE  /\ Linked(n, a, Chain(m, a))
              /\ ToSet(Chain(m, a)) = {c \in D : Bucket(m, m.cell[c].key) = a}
              /\ Chain(m, a) # <<>> => n.cell[Chain(m, a)[1]].prev = NULL
  <2>1. /\ Linked(m, a, Chain(m, a)) /\ Chain(m, a) \in Seq(Cells)
        /\ ToSet(Chain(m, a)) = {c \in D : Bucket(m, m.cell[c].key) = a}
    BY ChainOf
  <2>2. \A c \in ToSet(Chain(m, a)) : c \in Cells \ {e, p, q}
    <3>1. \A c \in ToSet(s) : Bucket(m, m.cell[c].key) = b
      BY <1>3
    <3>2. \A c \in ToSet(Chain(m, a)) : c \in Cells /\ c # NULL /\ Bucket(m, m.cell[c].key) = a
      BY <1>1, <2>1, HashMapAssumption
    <3>3. e \in ToSet(s)
      BY <1>3, <1>6
    <3> QED BY <1>18, <3>1, <3>2, <3>3
  <2>3. \A c \in ToSet(Chain(m, a)) : n.cell[c] = m.cell[c]
    BY <1>9, <2>2
  <2>4. Linked(n, a, Chain(m, a))
    BY <1>9, <2>1, <2>3, SameLinked
  <2>5. Chain(m, a) # <<>> => n.cell[Chain(m, a)[1]].prev = NULL
    <3> SUFFICES ASSUME Chain(m, a) # <<>> PROVE n.cell[Chain(m, a)[1]].prev = NULL
      OBVIOUS
    <3>1. DOMAIN Chain(m, a) = 1 .. Len(Chain(m, a)) /\ 1 \in 1 .. Len(Chain(m, a))
      BY <2>1, EmptySeq, LenProperties
    <3>2. Chain(m, a)[1] \in ToSet(Chain(m, a))
      BY <3>1 DEF ToSet
    <3>3. m.cell[Chain(m, a)[1]].prev = NULL
      BY DEF Heads
    <3> QED BY <2>3, <3>2, <3>3
  <2> QED BY <2>1, <2>4, <2>5
<1>20. /\ Buckets(n) = Buckets(m)
       /\ \A c \in Cells \ {e} : Bucket(n, n.cell[c].key) = Bucket(m, m.cell[c].key)
  BY <1>9 DEF Buckets, Bucket
<1>21. ASSUME NEW a \in Buckets(m)
       PROVE  ToSet(ch[a]) = {c \in D \ {e} : Bucket(n, n.cell[c].key) = a}
  <2>1. CASE a = b
    <3>1. ToSet(ch[a]) = {c \in D : Bucket(m, m.cell[c].key) = b} \ {e}
      BY <1>3, <1>6, <1>8, <2>1
    <3> QED BY <1>1, <1>20, <2>1, <3>1
  <2>2. CASE a # b
    <3>1. ToSet(ch[a]) = {c \in D : Bucket(m, m.cell[c].key) = a}
      BY <1>19, <2>2
    <3>2. Bucket(m, m.cell[e].key) = b
      BY <1>5
    <3> QED BY <1>1, <1>20, <2>2, <3>1, <3>2
  <2> QED BY <2>1, <2>2
<1>22. \A a \in Buckets(m) : Linked(n, a, ch[a])
  BY <1>16, <1>19
<1>23. \A a \in Buckets(m) : ch[a] # <<>> => n.cell[ch[a][1]].prev = NULL
  BY <1>17, <1>19
<1>24. ch[b] = r /\ \A a \in Buckets(m) \ {b} : ch[a] = Chain(m, a)
  BY <1>2
<1> HIDE DEF ch
<1>25. Held(n, ch, D \ {e})
  BY <1>20, <1>21, <1>22 DEF Held
<1>26. Table(n, D \ {e}) /\ \A a \in Buckets(m) : Chain(n, a) = ch[a]
  BY <1>9, <1>20, <1>25, TableIs
<1>27. Heads(n)
  BY <1>20, <1>23, <1>26 DEF Heads
<1>28. \A c \in Cells \ D : n.cell[c] = m.cell[c]
  BY <1>3, <1>5, <1>9, <1>18, HashMapAssumption
<1>29. /\ Chain(n, b) = Removed(s, j) /\ \A a \in Buckets(m) \ {b} : Chain(n, a) = Chain(m, a)
  BY <1>2, <1>24, <1>26 DEF r
<1>30. \E i \in 1 .. Len(s) : /\ e = s[i] /\ Chain(n, b) = Removed(s, i)
                             /\ \A h \in 1 .. i - 1 : m.cell[s[h]].key # k
  BY <1>5, <1>6, <1>29
<1>31. /\ e \in D /\ m.cell[e].key = k /\ b \in Buckets(m) /\ n.cell[e] = Free
       /\ n.idx = m.idx /\ n.size = m.size /\ n.lost = m.lost
  BY <1>2, <1>5, <1>9
<1>32. \A c \in Cells \ {e} : n.cell[c].key = m.cell[c].key /\ n.cell[c].value = m.cell[c].value
  BY <1>9
<1> QED BY <1>26, <1>27, <1>28, <1>29, <1>30, <1>31, <1>32 DEF s, Deleted

---------------------------------------------------------------------------
(* Growth. *)

\* Two sequences without a common element, one behind the other.
LEMMA Behind ==
    ASSUME NEW s \in Seq(Cells), NEW t \in Seq(Cells), IsInjective(s), IsInjective(t),
           ToSet(s) \cap ToSet(t) = {}
    PROVE  s \o t \in Seq(Cells) /\ IsInjective(s \o t) /\ ToSet(s \o t) = ToSet(s) \cup ToSet(t)
<1> DEFINE u == s \o t
<1>1. /\ Len(s) \in Nat /\ DOMAIN s = 1 .. Len(s) /\ Len(t) \in Nat /\ DOMAIN t = 1 .. Len(t)
  BY LenProperties
<1>2. /\ u \in Seq(Cells) /\ Len(u) = Len(s) + Len(t)
      /\ \A i \in 1 .. Len(s) + Len(t) : u[i] = IF i <= Len(s) THEN s[i] ELSE t[i - Len(s)]
  BY ConcatProperties
<1>3. DOMAIN u = 1 .. Len(s) + Len(t)
  BY <1>2, LenProperties
<1> HIDE DEF u
<1>4. ASSUME NEW i \in 1 .. Len(s) + Len(t)
      PROVE  \/ i \in 1 .. Len(s) /\ u[i] = s[i] /\ u[i] \in ToSet(s)
             \/ i - Len(s) \in 1 .. Len(t) /\ u[i] = t[i - Len(s)] /\ u[i] \in ToSet(t)
  <2>1. CASE i <= Len(s)
    <3>1. i \in 1 .. Len(s) /\ u[i] = s[i]
      BY <1>1, <1>2, <2>1
    <3> QED BY <1>1, <3>1 DEF ToSet
  <2>2. CASE ~ (i <= Len(s))
    <3>1. i - Len(s) \in 1 .. Len(t) /\ u[i] = t[i - Len(s)]
      BY <1>1, <1>2, <2>2
    <3> QED BY <1>1, <3>1 DEF ToSet
  <2> QED BY <2>1, <2>2
<1>5. IsInjective(u)
  <2> SUFFICES ASSUME NEW i \in 1 .. Len(s) + Len(t), NEW j \in 1 .. Len(s) + Len(t), u[i] = u[j]
               PROVE  i = j
    BY <1>3 DEF IsInjective
  <2>1. CASE u[i] \in ToSet(s)
    <3>1. i \in 1 .. Len(s) /\ j \in 1 .. Len(s) /\ s[i] = s[j]
      BY <1>4, <2>1
    <3> QED BY <1>1, <3>1 DEF IsInjective
  <2>2. CASE u[i] \in ToSet(t)
    <3>1. /\ i - Len(s) \in 1 .. Len(t) /\ j - Len(s) \in 1 .. Len(t)
          /\ t[i - Len(s)] = t[j - Len(s)]
      BY <1>4, <2>2
    <3>2. i - Len(s) = j - Len(s)
      BY <1>1, <3>1 DEF IsInjective
    <3> QED BY <1>1, <3>2
  <2> QED BY <1>4, <2>1, <2>2
<1>6. ToSet(u) = ToSet(s) \cup ToSet(t)
  <2>1. ASSUME NEW x \in ToSet(u) PROVE x \in ToSet(s) \cup ToSet(t)
    <3>1. PICK i \in 1 .. Len(s) + Len(t) : x = u[i]
      BY <1>3 DEF ToSet
    <3> QED BY <1>4, <3>1
  <2>2. ASSUME NEW x \in ToSet(s) PROVE x \in ToSet(u)
    <3>1. PICK i \in 1 .. Len(s) : x = s[i]
      BY <1>1 DEF ToSet
    <3>2. i \in 1 .. Len(s) + Len(t) /\ u[i] = s[i]
      BY <1>1, <1>2
    <3> QED BY <1>3, <3>1, <3>2 DEF ToSet
  <2>3. ASSUME NEW x \in ToSet(t) PROVE x \in ToSet(u)
    <3>1. PICK i \in 1 .. Len(t) : x = t[i]
      BY <1>1 DEF ToSet
    <3>2. /\ i + Len(s) \in 1 .. Len(s) + Len(t) /\ ~ (i + Len(s) <= Len(s))
          /\ i + Len(s) - Len(s) = i
      BY <1>1
    <3>3. u[i + Len(s)] = t[i]
      BY <1>2, <3>2
    <3> QED BY <1>3, <3>1, <3>2, <3>3 DEF ToSet
  <2> QED BY <2>1, <2>2, <2>3
<1> QED BY <1>2, <1>5, <1>6 DEF u

\* Every entry of a table is once in the list of its members.
LEMMA MembersAre ==
    ASSUME NEW m, NEW D, Table(m, D), m.size = 0 => D = {},
           NEW ms, ms = Members(m)
    PROVE  ms \in Seq(Cells) /\ IsInjective(ms) /\ ToSet(ms) = D
<1>1. m.size \in Nat /\ D \subseteq Cells /\ \A e \in D : m.cell[e].key \in Keys
  BY DEF Table, Shape
<1> DEFINE s == [i \in 1 .. m.size |-> Chain(m, i - 1)]
<1>2. ms = FlattenSeq(s)
  BY DEF Members
<1>3. CASE m.size = 0
  <2>1. s = <<>> /\ Len(s) = 0
    BY <1>3
  <2>2. ms = <<>>
    BY <1>2, <2>1 DEF FlattenSeq
  <2>3. DOMAIN <<>> = {} /\ <<>> \in Seq(Cells)
    OBVIOUS
  <2> QED BY <1>3, <2>2, <2>3 DEF IsInjective, ToSet
<1>4. CASE m.size > 0
  <2>1. \A i \in 1 .. m.size : i - 1 \in Buckets(m) /\ s[i] = Chain(m, i - 1)
    BY <1>1 DEF Buckets
  <2>2. s = [i \in 1 .. m.size |-> s[i]]
    OBVIOUS
  <2> HIDE DEF s
  <2>3. ASSUME NEW i \in 1 .. m.size
        PROVE  /\ s[i] \in Seq(Cells) /\ IsInjective(s[i])
               /\ ToSet(s[i]) = {e \in D : Bucket(m, m.cell[e].key) = i - 1}
    BY <2>1, ChainOf
  <2>4. s \in [1 .. m.size -> Seq(Cells)] /\ m.size \in Nat \ {0}
    BY <1>1, <1>4, <2>2, <2>3
  <2>5. PICK F : Flattens(F, s, m.size, Cells)
    BY <2>4, FlatIs
  <2>6. /\ ms = F[m.size] /\ F[1] = s[1]
        /\ \A k \in 1 .. m.size : F[k] \in Seq(Cells)
        /\ \A k \in 1 .. m.size - 1 : F[k + 1] = F[k] \o s[k + 1]
    BY <1>2, <2>5 DEF Flattens
  <2> DEFINE In(k) == {e \in D : Bucket(m, m.cell[e].key) < k}
             T == {k \in Nat : k + 1 <= m.size =>
                      IsInjective(F[k + 1]) /\ ToSet(F[k + 1]) = In(k + 1)}
  <2>7. \A e \in D : Bucket(m, m.cell[e].key) \in 0 .. m.size - 1
    <3> SUFFICES ASSUME NEW e \in D PROVE Bucket(m, m.cell[e].key) \in 0 .. m.size - 1
      OBVIOUS
    <3>1. m.cell[e].key \in Keys /\ m.size \in Nat \ {0}
      BY <1>1, <1>4
    <3> QED BY <3>1, BucketIs DEF Buckets
  <2>8. 0 \in T
    <3>1. 1 \in 1 .. m.size
      BY <1>1, <1>4
    <3>2. IsInjective(F[1]) /\ ToSet(F[1]) = {e \in D : Bucket(m, m.cell[e].key) = 1 - 1}
      BY <2>3, <2>6, <3>1
    <3>3. ToSet(F[1]) = In(1)
      BY <2>7, <3>2
    <3> HIDE DEF In
    <3> QED BY <3>2, <3>3
  <2>9. ASSUME NEW k \in Nat, k \in T PROVE k + 1 \in T
    <3> SUFFICES ASSUME k + 1 + 1 <= m.size
                 PROVE  IsInjective(F[k + 1 + 1]) /\ ToSet(F[k + 1 + 1]) = In(k + 1 + 1)
      OBVIOUS
    <3>1. k + 1 \in 1 .. m.size - 1 /\ k + 1 \in 1 .. m.size /\ k + 1 + 1 \in 1 .. m.size
      BY <1>1
    <3>2. IsInjective(F[k + 1]) /\ ToSet(F[k + 1]) = In(k + 1)
      BY <1>1, <2>9, <3>1
    <3> HIDE DEF In
    <3>3. /\ F[k + 1] \in Seq(Cells) /\ s[k + 1 + 1] \in Seq(Cells)
          /\ F[k + 1 + 1] = F[k + 1] \o s[k + 1 + 1] /\ IsInjective(s[k + 1 + 1])
          /\ ToSet(s[k + 1 + 1]) = {e \in D : Bucket(m, m.cell[e].key) = k + 1 + 1 - 1}
      <4>1. F[k + 1] \in Seq(Cells) /\ F[k + 1 + 1] = F[k + 1] \o s[k + 1 + 1]
        BY <2>6, <3>1
      <4>2. /\ s[k + 1 + 1] \in Seq(Cells) /\ IsInjective(s[k + 1 + 1])
            /\ ToSet(s[k + 1 + 1]) = {e \in D : Bucket(m, m.cell[e].key) = k + 1 + 1 - 1}
        BY <2>3, <3>1
      <4> QED BY <4>1, <4>2
    <3> USE DEF In
    <3>4. In(k + 1) \cap {e \in D : Bucket(m, m.cell[e].key) = k + 1 + 1 - 1} = {}
      BY <2>7
    <3>5. In(k + 1 + 1) = In(k + 1) \cup {e \in D : Bucket(m, m.cell[e].key) = k + 1 + 1 - 1}
      BY <1>1, <2>7
    <3> HIDE DEF In
    <3>6. ToSet(F[k + 1]) \cap ToSet(s[k + 1 + 1]) = {}
      BY <3>2, <3>3, <3>4
    <3>7. /\ IsInjective(F[k + 1] \o s[k + 1 + 1])
          /\ ToSet(F[k + 1] \o s[k + 1 + 1]) = ToSet(F[k + 1]) \cup ToSet(s[k + 1 + 1])
      BY <3>2, <3>3, <3>6, Behind
    <3> QED BY <3>2, <3>3, <3>5, <3>7
  <2> HIDE DEF T
  <2>10. m.size - 1 \in T
    <3>1. \A k \in Nat : k \in T
      BY <2>8, <2>9, NatSet
    <3>2. m.size - 1 \in Nat
      BY <1>1, <1>4
    <3> QED BY <3>1, <3>2
  <2>11. m.size - 1 + 1 = m.size /\ m.size \in 1 .. m.size
    BY <1>1, <1>4
  <2>12. IsInjective(F[m.size]) /\ ToSet(F[m.size]) = In(m.size)
    BY <2>10, <2>11 DEF T
  <2>13. In(m.size) = D
    BY <1>1, <2>7
  <2> QED BY <2>6, <2>11, <2>12, <2>13
<1> QED BY <1>1, <1>3, <1>4

\* A table whose chains are all empty.
LEMMA EmptyTable ==
    ASSUME NEW m, Shape(m, {}), \A b \in Buckets(m) : m.head[b] = NULL
    PROVE  Table(m, {}) /\ \A b \in Buckets(m) : Chain(m, b) = <<>>
<1> DEFINE ch == [b \in Buckets(m) |-> <<>>]
<1>1. <<>> \in Seq(Cells) /\ Len(<<>>) = 0 /\ DOMAIN <<>> = {}
  OBVIOUS
<1>2. IsInjective(<<>>) /\ ToSet(<<>>) = {}
  BY <1>1 DEF IsInjective, ToSet
<1>3. \A b \in Buckets(m) : Linked(m, b, <<>>)
  BY <1>1, <1>2 DEF Linked
<1>4. \A b \in Buckets(m) : ch[b] = <<>>
  OBVIOUS
<1> HIDE DEF ch
<1>5. Held(m, ch, {})
  BY <1>2, <1>3, <1>4 DEF Held
<1> QED BY <1>4, <1>5, TableIs

\* Of the entries of m those in D are linked in n, and the others as in m.
LinkedFrom(m, n, D) ==
    /\ Table(n, D) /\ SameEntries(m, n)
    /\ \A c \in Cells \ D : n.cell[c] = m.cell[c]

\* Linked one after the other into an empty table, they are all in it.
LEMMA LinkAllKept ==
    ASSUME NEW m, Table(m, {}), m.size > 0, NEW es \in Seq(Cells), IsInjective(es),
           \A i \in 1 .. Len(es) : m.cell[es[i]].key \in Keys,
           NEW n, n = LinkAll(m, es)
    PROVE  LinkedFrom(m, n, ToSet(es))
<1> DEFINE L == Len(es)
           Is(g) == g = [i \in 0 .. L |-> IF i = 0 THEN m ELSE HashmapLink(g[i - 1], es[i])]
           Some == CHOOSE g : Is(g)
           All == {x \in {[idx |-> m.idx, size |-> m.size, used |-> u, head |-> h,
                           lost |-> m.lost, cell |-> c] :
                              u \in Nat, h \in [Buckets(m) -> Cells \cup {NULL}],
                              c \in [Cells -> Entry]} : TRUE}
           G == [x \in (1 .. L) \X All |->
                    IF HashmapLink(x[2], es[x[1]]) \in All THEN HashmapLink(x[2], es[x[1]]) ELSE m]
           Before(j) == {es[i] : i \in 1 .. j}
           Good(x, j) == LinkedFrom(m, x, Before(j))
<1>1. L \in Nat /\ DOMAIN es = 1 .. L /\ \A i \in 1 .. L : es[i] \in Cells
  BY LenProperties
<1>2. n = Some[L]
  BY DEF LinkAll
<1>3. ToSet(es) = Before(L)
  BY <1>1 DEF ToSet
<1>4. /\ Shape(m, {}) /\ Rec(m) /\ m.size \in Nat
      /\ m.head \in [Buckets(m) -> Cells \cup {NULL}] /\ m.cell \in [Cells -> Entry]
  BY DEF Table, Shape
<1>5. \A x, D : LinkedFrom(m, x, D) => x \in All
  <2> SUFFICES ASSUME NEW x, NEW D, LinkedFrom(m, x, D) PROVE x \in All
    OBVIOUS
  <2>1. /\ Rec(x) /\ x.head \in [Buckets(x) -> Cells \cup {NULL}] /\ x.cell \in [Cells -> Entry]
        /\ x.idx = m.idx /\ x.size = m.size /\ x.lost = m.lost
        /\ D \subseteq Cells /\ x.used = Cardinality(D) % UsedMod
    BY DEF LinkedFrom, Table, Shape, SameEntries
  <2>2. Buckets(x) = Buckets(m)
    BY <2>1 DEF Buckets
  <2>3. x.used \in Nat
    <3>1. Cardinality(D) \in Nat
      BY <2>1, HashMapAssumption, FS_Subset, FS_CardinalityType
    <3>2. UsedMod \in Nat \ {0}
      BY HashMapAssumption
    <3>3. Cardinality(D) % UsedMod \in 0 .. UsedMod - 1
      BY <3>1, <3>2, ModCounts
    <3> QED BY <2>1, <3>2, <3>3
  <2>4. x = [idx |-> m.idx, size |-> m.size, used |-> x.used, head |-> x.head,
             lost |-> m.lost, cell |-> x.cell]
    BY <2>1 DEF Rec
  <2> QED BY <2>1, <2>2, <2>3, <2>4
<1>6. m.cell \in [Cells -> Entry]
  BY <1>4
<1>7. Good(m, 0)
  <2>1. Before(0) = {}
    OBVIOUS
  <2>2. SameEntries(m, m)
    BY DEF SameEntries
  <2> QED BY <2>1, <2>2 DEF LinkedFrom
<1>8. ASSUME NEW j \in 1 .. L, NEW x, Good(x, j - 1)
      PROVE  Good(HashmapLink(x, es[j]), j)
  <2> DEFINE D == Before(j - 1)
             e == es[j]
             y == HashmapLink(x, e)
  <2>1. Table(x, D) /\ SameEntries(m, x) /\ \A c \in Cells \ D : x.cell[c] = m.cell[c]
    BY <1>8 DEF LinkedFrom
  <2>2. e \in Cells \ D
    <3>1. ASSUME NEW i \in 1 .. j - 1 PROVE es[i] # e
      <4>1. i \in 1 .. L /\ i # j
        BY <1>1
      <4> QED BY <1>1, <4>1 DEF IsInjective
    <3> QED BY <1>1, <3>1
  <2>3. Before(j) = D \cup {e}
    <3>1. 1 .. j = (1 .. j - 1) \cup {j}
      BY <1>1
    <3> QED BY <3>1
  <2>4. x.size > 0 /\ x.cell[e].key \in Keys
    BY <2>1, <2>2 DEF SameEntries
  <2>5. PutInFront(x, y, D, Bucket(x, x.cell[e].key), e)
    BY <2>1, <2>2, <2>4, LinkKept
  <2> HIDE DEF D, e, y
  <2>6. SameEntries(m, y)
    BY <2>1, <2>5 DEF SameEntries, PutInFront
  <2>7. \A c \in Cells \ (D \cup {e}) : y.cell[c] = m.cell[c]
    BY <2>1, <2>5 DEF PutInFront
  <2>8. LinkedFrom(m, y, D \cup {e})
    BY <2>5, <2>6, <2>7 DEF LinkedFrom, PutInFront
  <2> QED BY <2>3, <2>8 DEF y, e
<1>9. m \in All
  BY <1>5, <1>7
<1>10. \A j \in 1 .. L : \A x \in All :
         /\ G[<<j, x>>] \in All
         /\ HashmapLink(x, es[j]) \in All => G[<<j, x>>] = HashmapLink(x, es[j])
  <2> HIDE DEF All
  <2> QED BY <1>9
<1> HIDE DEF G, All, Good, Is, Some, L
<1>11. PICK f : Iteration(f, m, L, G, All)
  BY <1>1, <1>9, <1>10, Iterates
<1>12. f[0] = m /\ f \in [0 .. L -> All] /\ \A j \in 1 .. L : f[j] = G[<<j, f[j - 1]>>]
  BY <1>11 DEF Iteration
<1> DEFINE T == {j \in Nat : j <= L => Good(f[j], j)}
<1>13. 0 \in T
  BY <1>7, <1>12
<1>14. ASSUME NEW j \in Nat, j \in T PROVE j + 1 \in T
  <2> SUFFICES ASSUME j + 1 <= L PROVE Good(f[j + 1], j + 1)
    OBVIOUS
  <2>1. j + 1 \in 1 .. L /\ j + 1 - 1 = j /\ j \in 0 .. L
    BY <1>1
  <2>2. Good(f[j], j) /\ f[j] \in All
    BY <1>1, <1>12, <1>14, <2>1
  <2>3. Good(HashmapLink(f[j], es[j + 1]), j + 1)
    BY <1>8, <2>1, <2>2
  <2>4. HashmapLink(f[j], es[j + 1]) \in All
    BY <1>5, <2>3 DEF Good
  <2>5. f[j + 1] = HashmapLink(f[j], es[j + 1])
    <3>1. f[j + 1] = G[<<j + 1, f[j + 1 - 1]>>]
      BY <1>12, <2>1
    <3>2. G[<<j + 1, f[j]>>] = HashmapLink(f[j], es[j + 1])
      BY <1>10, <2>1, <2>2, <2>4
    <3> QED BY <2>1, <3>1, <3>2
  <2> QED BY <2>3, <2>5
<1> HIDE DEF T
<1>15. \A j \in Nat : j \in T
  BY <1>13, <1>14, NatSet
<1>16. \A j \in 0 .. L : Good(f[j], j)
  BY <1>1, <1>15 DEF T
<1>17. Is(f)
  <2>1. ASSUME NEW i \in 0 .. L
        PROVE  f[i] = IF i = 0 THEN m ELSE HashmapLink(f[i - 1], es[i])
    <3>1. CASE i = 0
      BY <1>12, <3>1
    <3>2. CASE i # 0
      <4>1. i \in 1 .. L /\ i - 1 \in 0 .. L
        BY <1>1, <3>2
      <4>2. Good(HashmapLink(f[i - 1], es[i]), i) /\ f[i - 1] \in All
        BY <1>8, <1>12, <1>16, <4>1
      <4>3. HashmapLink(f[i - 1], es[i]) \in All
        BY <1>5, <4>2 DEF Good
      <4> QED BY <1>10, <1>12, <3>2, <4>1, <4>2, <4>3
    <3> QED BY <3>1, <3>2
  <2>2. f = [i \in 0 .. L |-> f[i]]
    BY <1>12
  <2> QED BY <2>1, <2>2 DEF Is
<1>18. Is(Some)
  BY <1>17 DEF Some
<1>19. Some[0] = m /\ \A j \in 1 .. L : Some[j] = HashmapLink(Some[j - 1], es[j])
  <2>1. \A i \in 0 .. L : Some[i] = IF i = 0 THEN m ELSE HashmapLink(Some[i - 1], es[i])
    BY <1>18 DEF Is
  <2> QED BY <1>1, <2>1
<1> DEFINE R == {j \in Nat : j <= L => Good(Some[j], j)}
<1>20. 0 \in R
  BY <1>7, <1>19
<1>21. ASSUME NEW j \in Nat, j \in R PROVE j + 1 \in R
  <2> SUFFICES ASSUME j + 1 <= L PROVE Good(Some[j + 1], j + 1)
    OBVIOUS
  <2>1. j + 1 \in 1 .. L /\ j + 1 - 1 = j
    BY <1>1
  <2>2. Good(Some[j], j)
    BY <1>1, <1>21, <2>1
  <2> QED BY <1>8, <1>19, <2>1, <2>2
<1> HIDE DEF R
<1>22. L \in R
  BY <1>1, <1>20, <1>21, NatSet
<1>23. Good(Some[L], L)
  BY <1>1, <1>22 DEF R
<1> QED BY <1>2, <1>3, <1>23 DEF Good

\* The fields that hashmap_grow gives a map.
LEMMA NewFields ==
    ASSUME NEW m, Rec(m), NEW i, NEW p, NEW h, NEW n,
           n = [m EXCEPT !.idx = i, !.size = p, !.used = 0, !.head = h]
    PROVE  n = [idx |-> i, size |-> p, used |-> 0, head |-> h, lost |-> m.lost, cell |-> m.cell]
BY DEF Rec

\* n is m with its entries, those of D, in a table of the next size.
GrownTo(m, n, D) ==
    /\ Table(n, D) /\ n.idx = m.idx + 1 /\ n.size = Primes[m.idx + 1] /\ n.lost = m.lost
    /\ \A c \in Cells : n.cell[c].key = m.cell[c].key /\ n.cell[c].value = m.cell[c].value
    /\ \A c \in Cells \ D : n.cell[c] = m.cell[c]

\* hashmap_grow: a table of the next size, in which every entry is.
LEMMA GrowKept ==
    ASSUME NEW m, NEW D, Table(m, D), m.size = 0 => D = {},
           m.idx + 1 \in DOMAIN Primes, NEW n, n = HashmapGrow(m)
    PROVE  GrownTo(m, n, D)
<1> DEFINE p == Primes[m.idx + 1]
           H == [b \in 0 .. p - 1 |-> NULL]
           ms == Members(m)
<1>0. PICK x : x = m.idx + 1
  OBVIOUS
<1>1. PICK w : /\ w = [m EXCEPT !.idx = x, !.size = p, !.used = 0, !.head = H]
               /\ n = LinkAll(w, ms)
  BY <1>0 DEF HashmapGrow
<1>2. /\ Rec(m) /\ m.cell \in [Cells -> Entry] /\ D \subseteq Cells
      /\ \A c \in D : m.cell[c].key \in Keys
  BY DEF Table, Shape
<1>3. p \in Nat /\ p > 0
  <2>1. p \in Nat \ {0}
    BY HashMapAssumption, LenProperties
  <2> QED BY <2>1
<1> HIDE DEF p, H
<1>4. /\ w.idx = m.idx + 1 /\ w.size = p /\ w.used = 0 /\ w.head = H
      /\ w.lost = m.lost /\ w.cell = m.cell /\ Rec(w)
  <2>1. w = [idx |-> x, size |-> p, used |-> 0, head |-> H, lost |-> m.lost,
             cell |-> m.cell]
    BY <1>1, <1>2, NewFields
  <2> QED BY <1>0, <2>1 DEF Rec
<1> HIDE DEF ms
<1>5. Cardinality({}) % UsedMod = 0
  <2>1. Cardinality({}) = 0 /\ UsedMod \in Nat \ {0}
    BY FS_EmptySet, HashMapAssumption
  <2> QED BY <2>1, ModCounts
<1>6. Buckets(w) = 0 .. p - 1
  BY <1>4 DEF Buckets
<1>7. H \in [0 .. p - 1 -> Cells \cup {NULL}] /\ \A b \in 0 .. p - 1 : H[b] = NULL
  BY DEF H
<1>8. Shape(w, {})
  BY <1>2, <1>3, <1>4, <1>5, <1>6, <1>7 DEF Shape
<1>9. Table(w, {})
  BY <1>4, <1>6, <1>7, <1>8, EmptyTable
<1>10. ms \in Seq(Cells) /\ IsInjective(ms) /\ ToSet(ms) = D
  BY MembersAre DEF ms
<1>11. \A i \in 1 .. Len(ms) : w.cell[ms[i]].key \in Keys
  <2>1. \A i \in 1 .. Len(ms) : ms[i] \in ToSet(ms)
    BY <1>10, LenProperties DEF ToSet
  <2> QED BY <1>2, <1>4, <1>10, <2>1
<1>12. LinkedFrom(w, n, D)
  BY <1>1, <1>3, <1>4, <1>9, <1>10, <1>11, LinkAllKept
<1> QED BY <1>0, <1>4, <1>12 DEF LinkedFrom, SameEntries, GrownTo, p

---------------------------------------------------------------------------
(* The invariant.                                                          *)

Unique(m) == \A c, d \in Alive(m) : m.cell[c].key = m.cell[d].key => c = d

\* A map in the hands of a program of kind u.  A program that lets it grow
\* never has a key twice, and one that deletes never lets the entries be more
\* than the chains, so that no entry is linked again and every head knows that
\* there is none before it.
MapOK(m, u) ==
    /\ Table(m, Alive(m))
    /\ m.idx \in 1 .. Len(Primes) /\ m.lost \in BOOLEAN
    /\ m.size = 0 => Alive(m) = {} /\ ~m.lost
    /\ m.size # 0 => \E i \in 2 .. Len(Primes) : m.size = Primes[i] /\ (m.lost \/ m.idx = i)
    /\ u = "sized" => /\ Heads(m)
                      /\ Cardinality(Alive(m)) <= m.size \/ UsedMod <= m.size
    /\ u = "growing" => /\ Unique(m)
                        /\ Cardinality(Alive(m)) < UsedMod => Cardinality(Alive(m)) <= m.size

MapInv ==
    /\ MapOK(map, use)
    /\ use \in {"sized", "growing"} /\ failures \in 0 .. MaxFailures

\* What there is of numbers.
LEMMA MapNumbers ==
    ASSUME NEW m, NEW u, MapOK(m, u)
    PROVE  /\ m.size \in Nat /\ Len(Primes) \in Nat /\ UsedMod \in Nat \ {0}
           /\ Alive(m) \subseteq Cells /\ IsFiniteSet(Alive(m))
           /\ Cardinality(Alive(m)) \in Nat
           /\ m.used = Cardinality(Alive(m)) % UsedMod
           /\ m.used \in 0 .. UsedMod - 1
           /\ Cardinality(Alive(m)) < UsedMod => m.used = Cardinality(Alive(m))
           /\ \A i \in 1 .. Len(Primes) : Primes[i] \in Nat \ {0}
<1>1. /\ m.size \in Nat /\ Alive(m) \subseteq Cells
      /\ m.used = Cardinality(Alive(m)) % UsedMod
  BY DEF MapOK, Table, Shape
<1>2. IsFiniteSet(Alive(m)) /\ Cardinality(Alive(m)) \in Nat
  BY <1>1, HashMapAssumption, FS_Subset, FS_CardinalityType
<1>3. Len(Primes) \in Nat /\ UsedMod \in Nat \ {0}
  BY HashMapAssumption, LenProperties
<1>4. \A i \in 1 .. Len(Primes) : Primes[i] \in Nat \ {0}
  BY HashMapAssumption, LenProperties
<1>5. /\ m.used \in 0 .. UsedMod - 1
      /\ Cardinality(Alive(m)) < UsedMod => m.used = Cardinality(Alive(m))
  BY <1>1, <1>2, <1>3, ModCounts
<1> QED BY <1>1, <1>2, <1>3, <1>4, <1>5

\* The entries of a table, when what is not in it is free.
LEMMA AliveIs ==
    ASSUME NEW m, NEW D, Table(m, D), \A c \in Cells \ D : m.cell[c] = Free
    PROVE  Alive(m) = D
<1>1. D \subseteq Cells /\ \A c \in D : m.cell[c].key \in Keys
  BY DEF Table, Shape
<1>2. Free.key = NULL
  BY DEF Free
<1>3. \A c \in D : m.cell[c] # Free
  BY <1>1, <1>2, HashMapAssumption
<1> QED BY <1>1, <1>3 DEF Alive

\* What is not alive is free.
LEMMA DeadAreFree ==
    ASSUME NEW m
    PROVE  \A c \in Cells \ Alive(m) : m.cell[c] = Free
BY DEF Alive

\* Something is put into a cell that no chain leads to.
SetCell(m, w, D, e, x) ==
    /\ Table(w, D)
    /\ w.idx = m.idx /\ w.size = m.size /\ w.lost = m.lost
    /\ \A b \in Buckets(m) : Chain(w, b) = Chain(m, b)
    /\ w.cell[e] = x /\ \A c \in Cells \ {e} : w.cell[c] = m.cell[c]

\* A cell that is outside of all chains may be set.
LEMMA SetCellKept ==
    ASSUME NEW m, NEW D, Table(m, D), NEW e \in Cells \ D, NEW x \in Entry,
           NEW w, w = [m EXCEPT !.cell[e] = x]
    PROVE  SetCell(m, w, D, e, x)
<1> DEFINE C == [m.cell EXCEPT ![e] = x]
<1>1. Shape(m, D) /\ Rec(m) /\ m.cell \in [Cells -> Entry] /\ D \subseteq Cells
  BY DEF Table, Shape
<1>2. w = [idx |-> m.idx, size |-> m.size, used |-> m.used, head |-> m.head,
           lost |-> m.lost, cell |-> C]
  BY <1>1 DEF Rec
<1>3. C \in [Cells -> Entry] /\ C[e] = x /\ \A c \in Cells \ {e} : C[c] = m.cell[c]
  BY <1>1
<1> HIDE DEF C
<1>4. /\ w.idx = m.idx /\ w.size = m.size /\ w.used = m.used /\ w.head = m.head
      /\ w.lost = m.lost /\ w.cell = C
  BY <1>2
<1>12. Rec(w)
  BY <1>2, <1>4 DEF Rec
<1>5. Buckets(w) = Buckets(m)
  BY <1>4 DEF Buckets
<1>6. \A c \in D : w.cell[c] = m.cell[c] /\ c \in Cells
  BY <1>1, <1>3, <1>4
<1>7. Shape(w, D)
  BY <1>1, <1>3, <1>4, <1>5, <1>6, <1>12 DEF Shape
<1>8. ASSUME NEW b \in Buckets(m)
      PROVE  /\ Linked(w, b, Chains(m)[b])
             /\ ToSet(Chains(m)[b]) = {c \in D : Bucket(w, w.cell[c].key) = b}
  <2>1. Chains(m)[b] = Chain(m, b)
    BY DEF Chains
  <2>2. /\ Linked(m, b, Chain(m, b))
        /\ ToSet(Chain(m, b)) = {c \in D : Bucket(m, m.cell[c].key) = b}
    BY ChainOf
  <2>3. Linked(w, b, Chain(m, b))
    <3>1. w.head[b] = m.head[b]
      BY <1>4
    <3>2. \A c \in ToSet(Chain(m, b)) :
             w.cell[c].next = m.cell[c].next /\ w.cell[c].prev = m.cell[c].prev
      BY <1>6, <2>2
    <3> QED BY <2>2, <3>1, <3>2, SameLinked
  <2>4. \A c \in D : Bucket(w, w.cell[c].key) = Bucket(m, m.cell[c].key)
    BY <1>4, <1>6 DEF Bucket
  <2> QED BY <2>1, <2>2, <2>3, <2>4
<1>9. Held(w, Chains(m), D)
  BY <1>5, <1>8 DEF Held
<1>10. Table(w, D) /\ \A b \in Buckets(w) : Chain(w, b) = Chains(m)[b]
  BY <1>7, <1>9, TableIs
<1>11. \A b \in Buckets(m) : Chain(w, b) = Chain(m, b)
  BY <1>5, <1>10 DEF Chains
<1> QED BY <1>3, <1>4, <1>10, <1>11 DEF SetCell

\* A new map.
LEMMA CreateOK ==
    ASSUME NEW i \in 1 .. Len(Primes) - 1, NEW n, n = HashmapCreate(i),
           NEW u \in {"sized", "growing"}
    PROVE  MapOK(n, u) /\ n.size = 0 /\ ~n.lost /\ Alive(n) = {}
<1>1. /\ n.idx = i /\ n.size = 0 /\ n.used = 0 /\ n.head = <<>> /\ n.lost = FALSE
      /\ n.cell = [c \in Cells |-> Free] /\ Rec(n)
  BY DEF HashmapCreate, Rec
<1>2. Free \in Entry
  BY DEF Free, Entry
<1>3. Buckets(n) = {}
  BY <1>1 DEF Buckets
<1>4. n.head \in [Buckets(n) -> Cells \cup {NULL}]
  <2>1. <<>> = [b \in {} |-> NULL]
    OBVIOUS
  <2> QED BY <1>1, <1>3, <2>1
<1>5. Cardinality({}) = 0 /\ UsedMod \in Nat \ {0} /\ Len(Primes) \in Nat
  BY FS_EmptySet, HashMapAssumption, LenProperties
<1>6. Cardinality({}) % UsedMod = 0
  BY <1>5, ModCounts
<1>7. Shape(n, {})
  BY <1>1, <1>2, <1>4, <1>6 DEF Shape
<1>8. Table(n, {})
  BY <1>3, <1>7, EmptyTable
<1>9. Alive(n) = {}
  BY <1>1 DEF Alive
<1>10. i \in 1 .. Len(Primes)
  BY <1>5
<1>11. Heads(n)
  BY <1>3 DEF Heads
<1>12. Unique(n)
  BY <1>9 DEF Unique
<1>13. Cardinality(Alive(n)) <= n.size
  BY <1>1, <1>5, <1>9
<1> QED BY <1>1, <1>8, <1>9, <1>10, <1>11, <1>12, <1>13 DEF MapOK

\* A map that has room for one more entry.
Roomy(m, n) ==
    /\ n.size > 0 /\ ~n.lost /\ Alive(n) = Alive(m)
    /\ \A c \in Cells : n.cell[c].key = m.cell[c].key /\ n.cell[c].value = m.cell[c].value
    /\ Cardinality(Alive(n)) < UsedMod => Cardinality(Alive(n)) < n.size

\* What hashmap_insert finds: the table as it was, or the one it has grown to.
LEMMA GrownOK ==
    ASSUME NEW m, NEW u \in {"sized", "growing"}, MapOK(m, u), ~m.lost,
           m.used >= m.size => m.idx < Len(Primes),
           u = "sized" => m.size = 0 \/ m.used < m.size,
           NEW n, n = Grown(m)
    PROVE  MapOK(n, u) /\ Roomy(m, n)
<1> DEFINE A == Alive(m)
<1>1. /\ m.size \in Nat /\ Len(Primes) \in Nat /\ UsedMod \in Nat \ {0}
      /\ A \subseteq Cells /\ Cardinality(A) \in Nat /\ m.used \in 0 .. UsedMod - 1
      /\ Cardinality(A) < UsedMod => m.used = Cardinality(A)
  BY MapNumbers
<1>2. \A i \in 1 .. Len(Primes) : Primes[i] \in Nat \ {0}
  BY MapNumbers
<1>3. /\ Table(m, A) /\ m.idx \in 1 .. Len(Primes) /\ m.lost \in BOOLEAN
      /\ m.size = 0 => A = {}
  BY DEF MapOK
<1>4. CASE m.used < m.size
  <2>1. n = m
    BY <1>1, <1>4 DEF Grown
  <2>2. Cardinality(A) < UsedMod => Cardinality(A) < m.size
    BY <1>1, <1>4
  <2>3. m.size > 0
    BY <1>1, <1>4
  <2> QED BY <2>1, <2>2, <2>3 DEF Roomy
<1>5. CASE ~(m.used < m.size)
  <2>1. m.used >= m.size /\ m.idx < Len(Primes)
    BY <1>1, <1>5
  <2>2. n = HashmapGrow(m)
    BY <2>1 DEF Grown
  <2>3. m.idx + 1 \in 2 .. Len(Primes) /\ m.idx + 1 \in DOMAIN Primes
    <3>1. DOMAIN Primes = 1 .. Len(Primes)
      BY HashMapAssumption, LenProperties
    <3> QED BY <1>1, <1>3, <2>1, <3>1
  <2>4. /\ Table(n, A) /\ n.idx = m.idx + 1 /\ n.size = Primes[m.idx + 1] /\ n.lost = m.lost
        /\ \A c \in Cells : n.cell[c].key = m.cell[c].key /\ n.cell[c].value = m.cell[c].value
        /\ \A c \in Cells \ A : n.cell[c] = m.cell[c]
    <3>1. GrownTo(m, n, A)
      BY <1>3, <2>2, <2>3, GrowKept
    <3> QED BY <3>1 DEF GrownTo
  <2>5. Alive(n) = A
    <3>1. \A c \in Cells \ A : n.cell[c] = Free
      BY <2>4, DeadAreFree
    <3> QED BY <2>4, <3>1, AliveIs
  <2>6. n.size \in Nat /\ n.size > 0
    <3>1. Primes[m.idx + 1] \in Nat \ {0}
      BY <1>1, <1>2, <2>3
    <3> QED BY <2>4, <3>1
  <2>7. u = "sized" => A = {}
    BY <1>1, <1>3, <1>5
  <2>8. Cardinality(A) < UsedMod => Cardinality(A) < n.size
    <3>1. CASE A = {}
      BY <2>6, <3>1, FS_EmptySet
    <3>2. CASE A # {}
      <4>1. m.size # 0 /\ u = "growing"
        BY <1>3, <2>7, <3>2
      <4>2. PICK i \in 2 .. Len(Primes) : m.size = Primes[i] /\ m.idx = i
        BY <4>1 DEF MapOK
      <4>3. m.size < n.size
        <5>1. i \in 2 .. Len(Primes) - 1
          BY <1>1, <2>1, <4>2
        <5>2. Primes[i] < Primes[i + 1]
          BY <5>1, HashMapAssumption
        <5> QED BY <2>4, <4>2, <5>2
      <4>4. Cardinality(A) < UsedMod => Cardinality(A) <= m.size
        BY <4>1 DEF MapOK
      <4> QED BY <1>1, <2>6, <4>3, <4>4
    <3> QED BY <3>1, <3>2
  <2>9. Roomy(m, n)
    BY <2>4, <2>5, <2>6, <2>8 DEF Roomy
  <2>10. u = "sized" => Heads(n) /\ Cardinality(A) <= n.size
    <3> SUFFICES ASSUME u = "sized" PROVE Heads(n) /\ Cardinality(A) <= n.size
      OBVIOUS
    <3>1. A = {}
      BY <2>7
    <3>2. Cardinality(A) <= n.size
      BY <2>6, <3>1, FS_EmptySet
    <3>3. ASSUME NEW b \in Buckets(n) PROVE Chain(n, b) = <<>>
      <4>1. ToSet(Chain(n, b)) = {} /\ DOMAIN Chain(n, b) = 1 .. Len(Chain(n, b))
            /\ Chain(n, b) \in Seq(Cells)
        BY <2>4, <3>1, ChainOf
      <4>2. Len(Chain(n, b)) \in Nat
        BY <4>1, LenProperties
      <4>3. Len(Chain(n, b)) = 0
        <5> SUFFICES ASSUME 1 \in DOMAIN Chain(n, b) PROVE FALSE
          BY <4>1, <4>2
        <5>1. Chain(n, b)[1] \in ToSet(Chain(n, b))
          BY DEF ToSet
        <5> QED BY <4>1, <5>1
      <4> QED BY <4>1, <4>3, EmptySeq
    <3> QED BY <3>2, <3>3 DEF Heads
  <2>11. u = "growing" => Unique(n)
    <3>1. u = "growing" => Unique(m)
      BY DEF MapOK
    <3> QED BY <1>1, <2>4, <2>5, <3>1 DEF Unique
  <2>12. n.size # 0 => \E i \in 2 .. Len(Primes) : n.size = Primes[i] /\ (n.lost \/ n.idx = i)
    BY <2>3, <2>4
  <2>13. n.idx \in 1 .. Len(Primes) /\ n.lost \in BOOLEAN /\ n.size # 0
    BY <1>1, <1>3, <2>3, <2>4, <2>6
  <2>14. Cardinality(A) < UsedMod => Cardinality(A) <= n.size
    BY <1>1, <2>6, <2>8
  <2> QED BY <2>4, <2>5, <2>9, <2>10, <2>11, <2>12, <2>13, <2>14 DEF MapOK
<1> QED BY <1>4, <1>5

\* n is g with k and v in e, in front of its bucket.
Inserted(g, n, e, k, v) ==
    /\ n.size = g.size /\ n.lost = g.lost
    /\ Alive(n) = Alive(g) \cup {e} /\ n.cell[e].key = k /\ n.cell[e].value = v
    /\ \A c \in Cells \ {e} : n.cell[c].key = g.cell[c].key /\ n.cell[c].value = g.cell[c].value
    /\ Chain(n, Bucket(g, k)) = <<e>> \o Chain(g, Bucket(g, k))
    /\ \A a \in Buckets(g) \ {Bucket(g, k)} : Chain(n, a) = Chain(g, a)

\* hashmap_insert, once there is room.
LEMMA InsertOK ==
    ASSUME NEW m, NEW u \in {"sized", "growing"}, NEW g, MapOK(g, u), Roomy(m, g), g = Grown(m),
           NEW k \in Keys, NEW v \in Values, NEW e \in Cells \ Alive(g),
           u = "growing" => \A c \in Alive(g) : g.cell[c].key # k,
           NEW n, n = HashmapInsert(m, e, k, v)
    PROVE  MapOK(n, u) /\ Inserted(g, n, e, k, v)
<1> DEFINE A == Alive(g)
           x == [Free EXCEPT !.key = k, !.value = v]
           w == [g EXCEPT !.cell[e] = x]
           b == Bucket(g, k)
<1>1. /\ g.size \in Nat /\ Len(Primes) \in Nat /\ UsedMod \in Nat \ {0} /\ IsFiniteSet(A)
      /\ A \subseteq Cells /\ Cardinality(A) \in Nat
  BY MapNumbers
<1>2. /\ Table(g, A) /\ g.idx \in 1 .. Len(Primes) /\ g.size > 0 /\ ~g.lost
      /\ Cardinality(A) < UsedMod => Cardinality(A) < g.size
  BY DEF MapOK, Roomy
<1>3. n = HashmapLink(w, e)
  BY DEF HashmapInsert
<1>4. x \in Entry /\ x.key = k /\ x.value = v /\ x.prev = NULL
  BY DEF Free, Entry
<1> HIDE DEF x
<1>5. SetCell(g, w, A, e, x)
  BY <1>2, <1>4, SetCellKept
<1> HIDE DEF w
<1>6. /\ Table(w, A) /\ w.idx = g.idx /\ w.size = g.size /\ w.lost = g.lost
      /\ \A a \in Buckets(g) : Chain(w, a) = Chain(g, a)
      /\ w.cell[e] = x /\ \A c \in Cells \ {e} : w.cell[c] = g.cell[c]
  BY <1>5 DEF SetCell
<1>7. /\ b = Bucket(w, w.cell[e].key) /\ Buckets(w) = Buckets(g)
      /\ w.cell[e].key \in Keys /\ w.size > 0
  BY <1>2, <1>4, <1>6 DEF Bucket, Buckets
<1> HIDE DEF A, b
<1>8. e \in Cells \ A
  BY DEF A
<1>9. PutInFront(w, n, A, b, e)
  BY <1>3, <1>6, <1>7, <1>8, LinkKept
<1>10. /\ Table(n, A \cup {e}) /\ SameEntries(w, n) /\ b \in Buckets(w)
       /\ Chain(n, b) = <<e>> \o Chain(w, b) /\ n.cell[e].prev = w.cell[e].prev
  BY <1>9 DEF PutInFront
<1>11. \A a \in Buckets(w) \ {b} :
          /\ Chain(n, a) = Chain(w, a)
          /\ \A i \in 1 .. Len(Chain(w, a)) : n.cell[Chain(w, a)[i]] = w.cell[Chain(w, a)[i]]
  BY <1>9 DEF PutInFront
<1>12. \A c \in Cells \ A : c # e => n.cell[c] = w.cell[c]
  BY <1>9 DEF PutInFront
<1>13. n.idx = g.idx /\ n.size = g.size /\ n.lost = g.lost
  BY <1>6, <1>10 DEF SameEntries
<1>14. n.cell[e].key = k /\ n.cell[e].value = v /\ n.cell[e].prev = NULL
  BY <1>4, <1>6, <1>10 DEF SameEntries
<1>15. \A c \in Cells \ {e} : n.cell[c].key = g.cell[c].key /\ n.cell[c].value = g.cell[c].value
  BY <1>6, <1>10 DEF SameEntries
<1>16. Alive(n) = A \cup {e}
  <2>1. \A c \in Cells \ (A \cup {e}) : n.cell[c] = Free
    BY <1>6, <1>12, DeadAreFree DEF A
  <2> QED BY <1>10, <2>1, AliveIs
<1>17. /\ Chain(n, b) = <<e>> \o Chain(g, b)
       /\ \A a \in Buckets(g) \ {b} : Chain(n, a) = Chain(g, a)
  BY <1>6, <1>7, <1>10, <1>11
<1>18. Inserted(g, n, e, k, v)
  BY <1>13, <1>14, <1>15, <1>16, <1>17 DEF Inserted, A, b
<1>19. Cardinality(A \cup {e}) = Cardinality(A) + 1
  BY <1>1, <1>8, FS_AddElement
<1>20. Cardinality(Alive(n)) = Cardinality(A) + 1
  BY <1>16, <1>19
<1>21. Cardinality(A) < UsedMod => Cardinality(A) + 1 <= n.size
  BY <1>1, <1>2, <1>13
<1>22. Buckets(n) = Buckets(g)
  BY <1>13 DEF Buckets
<1>23. u = "sized" => Heads(n)
  <2> SUFFICES ASSUME u = "sized", NEW a \in Buckets(g), Chain(n, a) # <<>>
               PROVE  n.cell[Chain(n, a)[1]].prev = NULL
    BY <1>22 DEF Heads
  <2>1. Heads(g)
    BY DEF MapOK
  <2>2. CASE a = b
    <3>1. Chain(g, b) \in Seq(Cells)
      BY <1>2, <2>2, ChainOf
    <3>2. (<<e>> \o Chain(g, b))[1] = e
      BY <3>1, InFront
    <3> QED BY <1>14, <1>17, <2>2, <3>2
  <2>3. CASE a # b
    <3>1. Chain(n, a) = Chain(g, a) /\ Chain(w, a) = Chain(g, a)
      BY <1>6, <1>17, <2>3
    <3>2. g.cell[Chain(g, a)[1]].prev = NULL
      BY <2>1, <3>1 DEF Heads
    <3>3. 1 \in 1 .. Len(Chain(g, a)) /\ Chain(g, a)[1] \in A
      <4>1. Chain(g, a) \in Seq(Cells) /\ \A i \in 1 .. Len(Chain(g, a)) : Chain(g, a)[i] \in A
        BY <1>2, ChainOf
      <4>2. Len(Chain(g, a)) \in Nat /\ Len(Chain(g, a)) # 0
        BY <3>1, <4>1, LenProperties, EmptySeq
      <4>3. 1 \in 1 .. Len(Chain(g, a))
        BY <4>2
      <4> QED BY <4>1, <4>3
    <3>4. n.cell[Chain(g, a)[1]] = w.cell[Chain(g, a)[1]]
      BY <1>7, <1>11, <2>3, <3>1, <3>3
    <3>5. w.cell[Chain(g, a)[1]] = g.cell[Chain(g, a)[1]]
      BY <1>1, <1>6, <1>8, <3>3
    <3> QED BY <3>1, <3>2, <3>4, <3>5
  <2> QED BY <2>2, <2>3
<1>24. u = "growing" => Unique(n)
  <2> SUFFICES ASSUME u = "growing" PROVE Unique(n)
    OBVIOUS
  <2>1. Unique(g) /\ \A c \in A : g.cell[c].key # k /\ c \in Cells \ {e}
    BY <1>1, <1>8 DEF MapOK, A
  <2>2. \A c \in A : n.cell[c].key = g.cell[c].key
    BY <1>15, <2>1
  <2>3. \A c, d \in A : n.cell[c].key = n.cell[d].key => c = d
    BY <2>1, <2>2 DEF Unique, A
  <2>4. \A c \in A : n.cell[c].key # n.cell[e].key
    BY <1>14, <2>1, <2>2
  <2> QED BY <1>16, <2>3, <2>4 DEF Unique
<1>25. u = "sized" => Cardinality(Alive(n)) <= n.size \/ UsedMod <= n.size
  <2> SUFFICES ASSUME u = "sized" PROVE Cardinality(A) + 1 <= n.size \/ UsedMod <= n.size
    BY <1>20
  <2>1. Cardinality(A) <= g.size \/ UsedMod <= g.size
    BY DEF MapOK, A
  <2> QED BY <1>1, <1>13, <1>21, <2>1
<1>26. u = "growing" => (Cardinality(Alive(n)) < UsedMod => Cardinality(Alive(n)) <= n.size)
  BY <1>1, <1>20, <1>21
<1>27. n.size # 0 => \E i \in 2 .. Len(Primes) : n.size = Primes[i] /\ (n.lost \/ n.idx = i)
  BY <1>13 DEF MapOK
<1>28. n.idx \in 1 .. Len(Primes) /\ n.lost \in BOOLEAN /\ n.size # 0
  BY <1>1, <1>2, <1>13 DEF MapOK
<1> QED BY <1>10, <1>16, <1>18, <1>23, <1>24, <1>25, <1>26, <1>27, <1>28 DEF MapOK

\* hashmap_delete, when it has found an entry.
LEMMA DeleteOK ==
    ASSUME NEW m, MapOK(m, "sized"), m.size > 0, NEW k \in Keys, NEW b, b = Bucket(m, k),
           NEW e, e = HashmapLocate(m, k), e # NULL, NEW n, n = HashmapDelete(m, k)
    PROVE  /\ MapOK(n, "sized") /\ Deleted(m, n, Alive(m), b, e, k)
           /\ Alive(n) = Alive(m) \ {e}
<1> DEFINE A == Alive(m)
<1>1. m.size \in Nat /\ IsFiniteSet(A) /\ Cardinality(A) \in Nat /\ UsedMod \in Nat
  BY MapNumbers
<1>2. /\ Table(m, A) /\ Heads(m)
      /\ Cardinality(A) <= m.size \/ UsedMod <= m.size
  BY DEF MapOK
<1>3. Deleted(m, n, A, b, e, k)
  BY <1>2, DeleteKept
<1>4. /\ e \in A /\ Table(n, A \ {e}) /\ Heads(n) /\ n.idx = m.idx /\ n.size = m.size
      /\ n.lost = m.lost /\ n.cell[e] = Free
  BY <1>3 DEF Deleted
<1>5. \A c \in Cells \ A : n.cell[c] = m.cell[c]
  BY <1>3 DEF Deleted
<1>6. Alive(n) = A \ {e}
  <2>1. \A c \in Cells \ (A \ {e}) : n.cell[c] = Free
    BY <1>4, <1>5, DeadAreFree
  <2> QED BY <1>4, <2>1, AliveIs
<1>7. Cardinality(Alive(n)) <= n.size \/ UsedMod <= n.size
  <2>1. Cardinality(A \ {e}) = Cardinality(A) - 1
    BY <1>1, <1>4, FS_RemoveElement
  <2> QED BY <1>1, <1>2, <1>4, <1>6, <2>1
<1>8. n.size # 0 => \E i \in 2 .. Len(Primes) : n.size = Primes[i] /\ (n.lost \/ n.idx = i)
  BY <1>4 DEF MapOK
<1>9. n.idx \in 1 .. Len(Primes) /\ n.lost \in BOOLEAN /\ n.size # 0
  BY <1>1, <1>4 DEF MapOK
<1> QED BY <1>3, <1>4, <1>6, <1>7, <1>8, <1>9 DEF MapOK

\* The loss of the table when there is no memory for a larger one.
LEMMA LostOK ==
    ASSUME NEW m, NEW u \in {"sized", "growing"}, MapOK(m, u), ~m.lost, m.idx < Len(Primes),
           NEW n, n = [m EXCEPT !.idx = @ + 1, !.lost = m.size > 0]
    PROVE  MapOK(n, u) /\ (~n.lost => n.size = 0)
<1> DEFINE A == Alive(m)
<1>1. m.size \in Nat /\ Len(Primes) \in Nat /\ UsedMod \in Nat
  BY MapNumbers
<1>2. /\ Table(m, A) /\ Shape(m, A) /\ Rec(m) /\ m.idx \in 1 .. Len(Primes)
  BY DEF MapOK, Table, Shape
<1>3. PICK x : x = m.idx + 1
  OBVIOUS
<1>5. n = [m EXCEPT !.idx = x, !.lost = m.size > 0]
  BY <1>3
<1>6. m = [idx |-> m.idx, size |-> m.size, used |-> m.used, head |-> m.head,
           lost |-> m.lost, cell |-> m.cell]
  BY <1>2 DEF Rec
<1>7. /\ n.idx = x /\ n.size = m.size /\ n.used = m.used /\ n.head = m.head
      /\ n.cell = m.cell
  BY <1>5, <1>6
<1>8. Rec(n)
  BY <1>5, <1>6 DEF Rec
<1>9. Buckets(n) = Buckets(m) /\ Alive(n) = A
  BY <1>7 DEF Buckets, Alive
<1>10. Shape(n, A)
  BY <1>2, <1>7, <1>8, <1>9 DEF Shape
<1>11. Held(n, Chains(m), A)
  <2>1. Held(m, Chains(m), A)
    BY <1>2 DEF Table
  <2>2. \A b \in Buckets(m) : Linked(m, b, Chains(m)[b]) => Linked(n, b, Chains(m)[b])
    BY <1>7 DEF Linked
  <2>3. \A c \in A : Bucket(n, n.cell[c].key) = Bucket(m, m.cell[c].key)
    BY <1>7 DEF Bucket
  <2> QED BY <1>9, <2>1, <2>2, <2>3 DEF Held
<1>12. Table(n, A) /\ \A b \in Buckets(n) : Chain(n, b) = Chains(m)[b]
  BY <1>10, <1>11, TableIs
<1>13. Heads(m) => Heads(n)
  BY <1>7, <1>9, <1>12 DEF Heads, Chains
<1>14. Unique(m) => Unique(n)
  BY <1>7, <1>9 DEF Unique
<1>15. n.idx \in 1 .. Len(Primes)
  BY <1>1, <1>2, <1>3, <1>7
<1>16. n.lost \in BOOLEAN /\ (n.lost => n.size > 0) /\ (~n.lost => n.size = 0)
  <2>1. CASE m.size > 0
    <3>1. n.lost = TRUE
      BY <1>5, <1>6, <2>1
    <3> QED BY <1>7, <2>1, <3>1
  <2>2. CASE ~(m.size > 0)
    <3>1. (m.size > 0) = FALSE
      BY <2>2
    <3>2. n.lost = (m.size > 0)
      BY <1>5, <1>6
    <3>3. n.lost = FALSE
      BY <3>1, <3>2, Zenon
    <3> QED BY <1>1, <1>7, <2>2, <3>3
  <2> QED BY <2>1, <2>2
<1>17. n.size # 0 => \E i \in 2 .. Len(Primes) : n.size = Primes[i] /\ (n.lost \/ n.idx = i)
  <2>1. n.size # 0 => n.lost
    BY <1>1, <1>7, <1>16
  <2>2. m.size # 0 => \E i \in 2 .. Len(Primes) : m.size = Primes[i]
    BY DEF MapOK
  <2> QED BY <1>7, <2>1, <2>2
<1>18. n.size = 0 => Alive(n) = {} /\ ~n.lost
  BY <1>7, <1>9, <1>16 DEF MapOK
<1>19. u = "sized" => /\ Heads(n)
                      /\ Cardinality(Alive(n)) <= n.size \/ UsedMod <= n.size
  BY <1>7, <1>9, <1>13 DEF MapOK
<1>20. u = "growing" => /\ Unique(n)
                        /\ Cardinality(Alive(n)) < UsedMod => Cardinality(Alive(n)) <= n.size
  BY <1>7, <1>9, <1>14 DEF MapOK
<1>21. ~n.lost => n.size = 0
  BY <1>1, <1>7, <1>16
<1> QED BY <1>9, <1>12, <1>15, <1>16, <1>17, <1>18, <1>19, <1>20, <1>21 DEF MapOK

---------------------------------------------------------------------------
(* The steps of a program that uses a map.                                 *)

\* A new map meets it.
LEMMA MapInvInit == HashInit => MapInv
<1> SUFFICES ASSUME HashInit PROVE MapInv
  OBVIOUS
<1>1. PICK i \in 1 .. Len(Primes) - 1 : map = HashmapCreate(i)
  BY DEF HashInit
<1>2. use \in {"sized", "growing"} /\ failures \in 0 .. MaxFailures
  BY HashMapAssumption DEF HashInit
<1>3. MapOK(map, use)
  BY <1>1, <1>2, CreateOK
<1> QED BY <1>2, <1>3 DEF MapInv

\* What an insertion may rely on.
LEMMA MayInsertIs ==
    ASSUME MapInv, NEW k, MayInsert(k)
    PROVE  /\ ~map.lost /\ (map.used >= map.size => map.idx < Len(Primes))
           /\ use = "sized" => map.size = 0 \/ map.used < map.size
           /\ use = "growing" => \A c \in Alive(map) : map.cell[c].key # k
           /\ use \in {"sized", "growing"} /\ MapOK(map, use) /\ failures \in 0 .. MaxFailures
<1>1. use \in {"sized", "growing"} /\ MapOK(map, use) /\ failures \in 0 .. MaxFailures
  BY DEF MapInv
<1>2. ~map.lost /\ (map.used >= map.size => map.idx < Len(Primes))
  BY DEF MayInsert
<1>3. use = "sized" => map.size = 0 \/ map.used < map.size
  BY DEF MayInsert
<1>4. use = "growing" => ~Has(k)
  BY DEF MayInsert
<1> QED BY <1>1, <1>2, <1>3, <1>4 DEF Has

\* What an insertion does.
LEMMA InsertIs ==
    ASSUME MapInv, NEW k \in Keys, NEW v \in Values, Insert(k, v)
    PROVE  /\ MapOK(Grown(map), use) /\ Roomy(map, Grown(map)) /\ MapOK(map', use)
           /\ \E e \in Cells \ Alive(Grown(map)) : Inserted(Grown(map), map', e, k, v)
<1>1. /\ ~map.lost /\ (map.used >= map.size => map.idx < Len(Primes))
      /\ use = "sized" => map.size = 0 \/ map.used < map.size
      /\ use = "growing" => \A c \in Alive(map) : map.cell[c].key # k
      /\ use \in {"sized", "growing"} /\ MapOK(map, use)
  BY MayInsertIs DEF Insert
<1>2. PICK e \in Cells \ Alive(map) : map' = HashmapInsert(map, e, k, v)
  BY DEF Insert
<1>3. PICK g : g = Grown(map)
  OBVIOUS
<1>4. MapOK(g, use) /\ Roomy(map, g)
  BY <1>1, <1>3, GrownOK
<1>5. Alive(g) = Alive(map) /\ \A c \in Cells : g.cell[c].key = map.cell[c].key
  BY <1>4 DEF Roomy
<1>6. e \in Cells \ Alive(g)
  BY <1>2, <1>5
<1>7. use = "growing" => \A c \in Alive(g) : g.cell[c].key # k
  BY <1>1, <1>5 DEF Alive
<1>8. MapOK(map', use) /\ Inserted(g, map', e, k, v)
  BY <1>1, <1>2, <1>3, <1>4, <1>6, <1>7, InsertOK
<1> QED BY <1>3, <1>4, <1>6, <1>8

\* Every call keeps the invariant.
LEMMA MapInvNext == MapInv /\ HashNext => MapInv'
<1> SUFFICES ASSUME MapInv, HashNext PROVE MapInv'
  OBVIOUS
<1>1. use \in {"sized", "growing"} /\ MapOK(map, use) /\ failures \in 0 .. MaxFailures
  BY DEF MapInv
<1>2. MaxFailures \in Nat
  BY HashMapAssumption
<1> SUFFICES MapOK(map', use) /\ use' = use /\ failures' \in 0 .. MaxFailures
  BY <1>1 DEF MapInv
<1>3. ASSUME NEW k \in Keys, NEW v \in Values, Insert(k, v)
      PROVE  MapOK(map', use) /\ use' = use /\ failures' \in 0 .. MaxFailures
  <2>1. MapOK(map', use)
    BY <1>3, InsertIs
  <2> QED BY <1>1, <1>3, <2>1 DEF Insert
<1>4. ASSUME NEW k \in Keys, InsertFail(k)
      PROVE  MapOK(map', use) /\ use' = use /\ failures' \in 0 .. MaxFailures
  <2>1. MayInsert(k) /\ map' = Grown(map)
    BY <1>4 DEF InsertFail
  <2>2. MapOK(map', use)
    BY <2>1, MayInsertIs, GrownOK
  <2>3. use' = use /\ failures' = failures + 1 /\ failures < MaxFailures
    BY <1>4 DEF InsertFail
  <2> QED BY <1>1, <1>2, <2>2, <2>3
<1>5. ASSUME NEW k \in Keys, GrowFail(k)
      PROVE  MapOK(map', use) /\ use' = use /\ failures' \in 0 .. MaxFailures
  <2>1. /\ MayInsert(k) /\ map.used >= map.size
        /\ map' = [map EXCEPT !.idx = @ + 1, !.lost = map.size > 0]
    BY <1>5 DEF GrowFail
  <2>2. ~map.lost /\ map.idx < Len(Primes)
    BY <2>1, MayInsertIs
  <2>3. MapOK(map', use)
    BY <1>1, <2>1, <2>2, LostOK
  <2>4. use' = use /\ failures' = failures + 1 /\ failures < MaxFailures
    BY <1>5 DEF GrowFail
  <2> QED BY <1>1, <1>2, <2>3, <2>4
<1>6. ASSUME NEW k \in Keys, Find(k)
      PROVE  MapOK(map', use) /\ use' = use /\ failures' \in 0 .. MaxFailures
  BY <1>1, <1>6 DEF Find
<1>7. ASSUME NEW k \in Keys, Delete(k)
      PROVE  MapOK(map', use) /\ use' = use /\ failures' \in 0 .. MaxFailures
  <2>1. map.size > 0 /\ use = "sized" /\ use' = use /\ failures' = failures
    BY <1>7 DEF Delete, Usable
  <2>2. CASE HashmapLocate(map, k) = NULL
    BY <1>1, <1>7, <2>1, <2>2 DEF Delete
  <2>3. CASE HashmapLocate(map, k) # NULL
    <3>1. map' = HashmapDelete(map, k)
      BY <1>7, <2>3 DEF Delete
    <3>2. MapOK(map', use)
      BY <1>1, <2>1, <2>3, <3>1, DeleteOK
    <3> QED BY <1>1, <2>1, <3>2
  <2> QED BY <2>2, <2>3
<1>8. ASSUME List PROVE MapOK(map', use) /\ use' = use /\ failures' \in 0 .. MaxFailures
  BY <1>1, <1>8 DEF List
<1>9. ASSUME Renew PROVE MapOK(map', use) /\ use' = use /\ failures' \in 0 .. MaxFailures
  <2>1. PICK i \in 1 .. Len(Primes) - 1 : map' = HashmapCreate(i)
    BY <1>9 DEF Renew
  <2>2. MapOK(map', use)
    BY <1>1, <2>1, CreateOK
  <2> QED BY <1>1, <1>9, <2>2 DEF Renew
<1> QED BY <1>3, <1>4, <1>5, <1>6, <1>7, <1>8, <1>9 DEF HashNext

\* The invariant says what the runs check.
LEMMA MapInvHolds == MapInv => ChainsHoldEntries /\ BackLinks
<1> SUFFICES ASSUME MapInv PROVE ChainsHoldEntries /\ BackLinks
  OBVIOUS
<1> DEFINE A == Alive(map)
<1>1. /\ use \in {"sized", "growing"} /\ MapOK(map, use) /\ failures \in 0 .. MaxFailures
      /\ Table(map, A) /\ map.idx \in 1 .. Len(Primes) /\ map.lost \in BOOLEAN
  BY DEF MapInv, MapOK
<1>2. /\ map.size \in Nat /\ UsedMod \in Nat \ {0} /\ A \subseteq Cells /\ Cardinality(A) \in Nat
      /\ map.used \in 0 .. UsedMod - 1
      /\ Cardinality(A) < UsedMod => map.used = Cardinality(A)
  BY <1>1, MapNumbers
<1>3. /\ map.head \in [Buckets(map) -> Cells \cup {NULL}] /\ map.cell \in [Cells -> Entry]
  BY <1>1 DEF Table, Shape
<1>4. DOMAIN map.head = Buckets(map)
  BY <1>3
<1>5. HashTypeOK
  <2>1. map.size \in {0} \cup {Primes[i] : i \in DOMAIN Primes}
    <3>1. DOMAIN Primes = 1 .. Len(Primes) /\ Len(Primes) \in Nat
      BY HashMapAssumption, LenProperties
    <3>2. map.size # 0 => \E i \in 2 .. Len(Primes) : map.size = Primes[i]
      BY <1>1 DEF MapOK
    <3>3. map.size # 0 => \E i \in DOMAIN Primes : map.size = Primes[i]
      BY <3>1, <3>2
    <3> QED BY <3>3
  <2>2. map.head \in [0 .. map.size - 1 -> Cells \cup {NULL}]
    BY <1>3 DEF Buckets
  <2>3. map.cell \in [Cells -> [key : Keys \cup {NULL}, value : Values \cup {NULL},
                                next : Cells \cup {NULL}, prev : Cells \cup {NULL}]]
    BY <1>3 DEF Entry
  <2> QED BY <1>1, <1>2, <2>1, <2>2, <2>3 DEF HashTypeOK
<1>6. Cardinality(A) < UsedMod => map.used = Cardinality(A) /\ map.used <= map.size
  <2> SUFFICES ASSUME Cardinality(A) < UsedMod PROVE Cardinality(A) <= map.size
    BY <1>2
  <2>1. CASE use = "sized"
    <3>1. Cardinality(A) <= map.size \/ UsedMod <= map.size
      BY <1>1, <2>1 DEF MapOK
    <3> QED BY <1>2, <3>1
  <2>2. CASE use = "growing"
    BY <1>1, <2>2 DEF MapOK
  <2> QED BY <1>1, <2>1, <2>2
<1>7. ASSUME NEW b \in Buckets(map)
      PROVE  /\ IsInjective(Chain(map, b))
             /\ ToSet(Chain(map, b)) = {e \in A : Bucket(map, map.cell[e].key) = b}
  BY <1>1, ChainOf
<1>8. ChainsHoldEntries
  BY <1>4, <1>5, <1>6, <1>7 DEF ChainsHoldEntries
<1>9. ASSUME NEW b \in Buckets(map)
      PROVE  /\ \A i \in 2 .. Len(Chain(map, b)) :
                  map.cell[Chain(map, b)[i]].prev = Chain(map, b)[i - 1]
             /\ use = "sized" /\ Chain(map, b) # <<>> =>
                  map.cell[Chain(map, b)[1]].prev = NULL
  <2>1. Linked(map, b, Chain(map, b))
    BY <1>1, ChainOf
  <2>2. use = "sized" => Heads(map)
    BY <1>1 DEF MapOK
  <2> QED BY <2>1, <2>2 DEF Linked, Heads
<1>10. BackLinks
  BY <1>4, <1>9 DEF BackLinks
<1> QED BY <1>8, <1>10

---------------------------------------------------------------------------
(* What is found along a chain.                                            *)

Stored == Values \cup {NULL}

\* The value of a cell, when it has the key.
Hit(m, k, c) == IF m.cell[c].key = k THEN <<m.cell[c].value>> ELSE <<>>

\* f[i] are the values of k in the first i cells of s.
Found(m, k, s, f) ==
    /\ f \in [0 .. Len(s) -> Seq(Stored)] /\ f[0] = <<>>
    /\ \A i \in 1 .. Len(s) : f[i] = f[i - 1] \o Hit(m, k, s[i])

\* One value or none.
LEMMA HitIs ==
    ASSUME NEW m, m.cell \in [Cells -> Entry], NEW k, NEW c \in Cells
    PROVE  /\ Hit(m, k, c) \in Seq(Stored)
           /\ m.cell[c].key = k => Hit(m, k, c) = <<m.cell[c].value>>
           /\ m.cell[c].key # k => Hit(m, k, c) = <<>>
           /\ m.cell[c].value \in Stored
<1>1. m.cell[c].value \in Stored
  <2>1. m.cell[c] \in Entry
    OBVIOUS
  <2> QED BY <2>1 DEF Entry, Stored
<1>2. <<m.cell[c].value>> \in Seq(Stored) /\ <<>> \in Seq(Stored)
  <2> DEFINE v == m.cell[c].value
  <2>1. v \in Stored
    BY <1>1
  <2> HIDE DEF v
  <2>2. <<v>> \in Seq(Stored)
    BY <2>1
  <2> QED BY <2>2, EmptySeq DEF v
<1> QED BY <1>1, <1>2 DEF Hit

\* There are such values, and ValuesOf gives all of them.
LEMMA FoundIs ==
    ASSUME NEW m, m.cell \in [Cells -> Entry], NEW k, NEW s \in Seq(Cells)
    PROVE  \E f : Found(m, k, s, f) /\ ValuesOf(m, k, s) = f[Len(s)]
<1> DEFINE L == Len(s)
           Is(g) == g = [i \in 0 .. L |->
                            IF i = 0 THEN <<>>
                            ELSE g[i - 1] \o (IF m.cell[s[i]].key = k
                                              THEN <<m.cell[s[i]].value>> ELSE <<>>)]
           Some == CHOOSE g : Is(g)
           All == Seq(Stored)
           G == [x \in (1 .. L) \X All |-> x[2] \o Hit(m, k, s[x[1]])]
<1>1. L \in Nat /\ \A i \in 1 .. L : s[i] \in Cells
  BY LenProperties
<1>2. ValuesOf(m, k, s) = Some[L]
  BY DEF ValuesOf
<1>3. <<>> \in All
  BY EmptySeq
<1>4. ASSUME NEW j \in 1 .. L, NEW x \in All
      PROVE  G[<<j, x>>] \in All /\ G[<<j, x>>] = x \o Hit(m, k, s[j])
  <2>1. Hit(m, k, s[j]) \in All
    BY <1>1, HitIs
  <2>2. x \o Hit(m, k, s[j]) \in All
    BY <2>1, ConcatProperties
  <2>3. <<j, x>> \in (1 .. L) \X All
    OBVIOUS
  <2>4. G[<<j, x>>] = x \o Hit(m, k, s[j])
    BY <2>3
  <2> QED BY <2>2, <2>4
<1>5. \A g : Is(g) <=> g = [i \in 0 .. L |-> IF i = 0 THEN <<>> ELSE g[i - 1] \o Hit(m, k, s[i])]
  BY DEF Hit
<1> HIDE DEF G, All, Is, Some, L
<1>6. PICK f : Iteration(f, <<>>, L, G, All)
  BY <1>1, <1>3, <1>4, Iterates
<1>7. f \in [0 .. L -> All] /\ f[0] = <<>> /\ \A j \in 1 .. L : f[j] = f[j - 1] \o Hit(m, k, s[j])
  <2>1. f \in [0 .. L -> All] /\ f[0] = <<>> /\ \A j \in 1 .. L : f[j] = G[<<j, f[j - 1]>>]
    BY <1>6 DEF Iteration
  <2> SUFFICES ASSUME NEW j \in 1 .. L PROVE f[j] = f[j - 1] \o Hit(m, k, s[j])
    BY <2>1
  <2>2. f[j - 1] \in All
    BY <1>1, <2>1
  <2> QED BY <1>4, <2>1, <2>2
<1>8. Is(f)
  <2>1. \A i \in 0 .. L : f[i] = IF i = 0 THEN <<>> ELSE f[i - 1] \o Hit(m, k, s[i])
    BY <1>1, <1>7
  <2>2. f = [i \in 0 .. L |-> f[i]]
    BY <1>7
  <2>3. f = [i \in 0 .. L |-> IF i = 0 THEN <<>> ELSE f[i - 1] \o Hit(m, k, s[i])]
    BY <2>1, <2>2
  <2> QED BY <1>5, <2>3
<1>9. Is(Some)
  BY <1>8 DEF Some
<1>10. Some[0] = <<>> /\ \A j \in 1 .. L : Some[j] = Some[j - 1] \o Hit(m, k, s[j])
  <2>1. Some = [i \in 0 .. L |-> IF i = 0 THEN <<>> ELSE Some[i - 1] \o Hit(m, k, s[i])]
    BY <1>5, <1>9
  <2>2. \A i \in 0 .. L : Some[i] = IF i = 0 THEN <<>> ELSE Some[i - 1] \o Hit(m, k, s[i])
    BY <2>1
  <2>3. 0 \in 0 .. L /\ \A j \in 1 .. L : j \in 0 .. L /\ j # 0
    BY <1>1
  <2> QED BY <2>2, <2>3
<1> DEFINE T == {j \in Nat : j <= L => Some[j] = f[j]}
<1>11. 0 \in T
  BY <1>7, <1>10
<1>12. ASSUME NEW j \in Nat, j \in T PROVE j + 1 \in T
  <2> SUFFICES ASSUME j + 1 <= L PROVE Some[j + 1] = f[j + 1]
    OBVIOUS
  <2>1. j + 1 \in 1 .. L /\ j + 1 - 1 = j /\ j <= L
    BY <1>1
  <2>2. Some[j] = f[j]
    BY <1>12, <2>1
  <2>3. ASSUME NEW i \in 1 .. L, i - 1 = j PROVE Some[i] = f[i]
    <3>1. Some[i] = Some[i - 1] \o Hit(m, k, s[i])
      BY <1>10
    <3>2. f[i] = f[i - 1] \o Hit(m, k, s[i])
      BY <1>7
    <3> QED BY <2>2, <2>3, <3>1, <3>2
  <2> QED BY <2>1, <2>3
<1> HIDE DEF T
<1>13. \A j \in Nat : j \in T
  BY <1>11, <1>12, NatSet
<1>14. Some[L] = f[L]
  BY <1>1, <1>13 DEF T
<1>15. Found(m, k, s, f)
  BY <1>7 DEF Found, L, All
<1> QED BY <1>2, <1>14, <1>15 DEF L

\* Three parts, joined.
LEMMA Joined ==
    ASSUME NEW x \in Seq(Stored), NEW y \in Seq(Stored), NEW z \in Seq(Stored)
    PROVE  (x \o y) \o z = x \o (y \o z)
<1>1. PICK S : S = Stored
  OBVIOUS
<1>2. x \in Seq(S) /\ y \in Seq(S) /\ z \in Seq(S)
  BY <1>1
<1> QED BY ONLY <1>2, ConcatAssociative

\* At a there is found what is found at b, with x before it.
Before(f, a, x, g, b) == f[a] = x \o g[b]

\* From a and from b the two chains go on in the same way.
Alike(m, s, a, n, t, b, k, L) == \A i \in 1 .. L : Hit(m, k, s[a + i]) = Hit(n, k, t[b + i])

\* Then the same is found, with x before it.
LEMMA StaysBefore ==
    ASSUME NEW m, m.cell \in [Cells -> Entry], NEW n, n.cell \in [Cells -> Entry], NEW k,
           NEW s \in Seq(Cells), NEW f, Found(m, k, s, f),
           NEW t \in Seq(Cells), NEW g, Found(n, k, t, g),
           NEW a \in Nat, NEW b \in Nat, NEW L \in Nat, a + L <= Len(s), b + L <= Len(t),
           NEW x \in Seq(Stored), Before(f, a, x, g, b), Alike(m, s, a, n, t, b, k, L)
    PROVE  Before(f, a + L, x, g, b + L)
<1>1. Len(s) \in Nat /\ Len(t) \in Nat /\ \A i \in 1 .. Len(t) : t[i] \in Cells
  BY LenProperties
<1>2. \A i \in 1 .. Len(s) : f[i] = f[i - 1] \o Hit(m, k, s[i])
  BY DEF Found
<1>3. /\ g \in [0 .. Len(t) -> Seq(Stored)]
      /\ \A i \in 1 .. Len(t) : g[i] = g[i - 1] \o Hit(n, k, t[i])
  BY DEF Found
<1> DEFINE P(i) == f[a + i] = x \o g[b + i]
           T == {i \in Nat : i <= L => P(i)}
<1>4. 0 \in T
  <2>1. a + 0 = a /\ b + 0 = b
    OBVIOUS
  <2> QED BY <2>1 DEF Before
<1>5. ASSUME NEW i \in Nat, i \in T PROVE i + 1 \in T
  <2> HIDE DEF P
  <2> SUFFICES ASSUME NEW h \in Nat, h = i + 1, h <= L PROVE P(h)
    OBVIOUS
  <2>1. f[a + i] = x \o g[b + i]
    BY <1>5 DEF P
  <2>2. PICK p \in 1 .. Len(s) : p = a + h /\ p - 1 = a + i
    BY <1>1
  <2>3. PICK q \in 1 .. Len(t) : q = b + h /\ q - 1 = b + i /\ q - 1 \in 0 .. Len(t)
    BY <1>1
  <2>4. h \in 1 .. L
    OBVIOUS
  <2>5. Hit(m, k, s[p]) = Hit(n, k, t[q])
    BY <2>2, <2>3, <2>4 DEF Alike
  <2>6. f[p] = (x \o g[q - 1]) \o Hit(n, k, t[q])
    <3>1. f[p] = f[p - 1] \o Hit(m, k, s[p])
      BY <1>2
    <3> QED BY <2>1, <2>2, <2>3, <2>5, <3>1
  <2>7. (x \o g[q - 1]) \o Hit(n, k, t[q]) = x \o (g[q - 1] \o Hit(n, k, t[q]))
    <3>1. g[q - 1] \in Seq(Stored)
      BY <1>3, <2>3
    <3>2. Hit(n, k, t[q]) \in Seq(Stored)
      BY <1>1, HitIs
    <3> QED BY <3>1, <3>2, Joined
  <2>8. g[q] = g[q - 1] \o Hit(n, k, t[q])
    BY <1>3
  <2> QED BY <2>2, <2>3, <2>6, <2>7, <2>8 DEF P
<1> HIDE DEF T
<1>6. \A i \in Nat : i \in T
  BY <1>4, <1>5, NatSet
<1> QED BY <1>6 DEF T, Before

\* None of the first L cells has the key.
NoHit(m, k, s, L) == \A i \in 1 .. L : m.cell[s[i]].key # k

\* Nothing is found where nothing has the key.
LEMMA NoneFound ==
    ASSUME NEW m, m.cell \in [Cells -> Entry], NEW k, NEW s \in Seq(Cells), NEW f,
           Found(m, k, s, f), NEW L \in Nat, L <= Len(s), NoHit(m, k, s, L)
    PROVE  f[L] = <<>>
<1>1. Len(s) \in Nat /\ \A i \in 1 .. Len(s) : s[i] \in Cells
  BY LenProperties
<1>2. f[0] = <<>> /\ \A i \in 1 .. Len(s) : f[i] = f[i - 1] \o Hit(m, k, s[i])
  BY DEF Found
<1> DEFINE T == {i \in Nat : i <= L => f[i] = <<>>}
<1>3. 0 \in T
  BY <1>2
<1>4. ASSUME NEW i \in Nat, i \in T PROVE i + 1 \in T
  <2> SUFFICES ASSUME i + 1 <= L PROVE f[i + 1] = <<>>
    OBVIOUS
  <2>1. PICK p \in 1 .. Len(s) : p = i + 1 /\ p - 1 = i /\ p \in 1 .. L
    BY <1>1
  <2>2. f[p - 1] = <<>>
    BY <1>4, <2>1
  <2>3. f[p] = f[p - 1] \o Hit(m, k, s[p])
    BY <1>2
  <2>4. Hit(m, k, s[p]) = <<>>
    BY <1>1, <2>1, HitIs DEF NoHit
  <2>5. <<>> \o <<>> = <<>>
    BY EmptySeq, ConcatEmptySeq
  <2> QED BY <2>1, <2>2, <2>3, <2>4, <2>5
<1> HIDE DEF T
<1>5. \A i \in Nat : i \in T
  BY <1>3, <1>4, NatSet
<1> QED BY <1>5 DEF T

\* Chains of the same values.
LEMMA SameValues ==
    ASSUME NEW m, m.cell \in [Cells -> Entry], NEW n, n.cell \in [Cells -> Entry], NEW k,
           NEW s \in Seq(Cells),
           \A i \in 1 .. Len(s) : /\ n.cell[s[i]].key = m.cell[s[i]].key
                                  /\ n.cell[s[i]].value = m.cell[s[i]].value
    PROVE  ValuesOf(n, k, s) = ValuesOf(m, k, s)
<1>1. PICK f : Found(m, k, s, f) /\ ValuesOf(m, k, s) = f[Len(s)]
  BY FoundIs
<1>2. PICK g : Found(n, k, s, g) /\ ValuesOf(n, k, s) = g[Len(s)]
  BY FoundIs
<1>3. PICK z \in Nat : z = 0
  OBVIOUS
<1>4. /\ Len(s) \in Nat /\ z + Len(s) = Len(s) /\ z + Len(s) <= Len(s)
      /\ \A i \in 1 .. Len(s) : z + i = i
  BY <1>3, LenProperties
<1>5. f \in [0 .. Len(s) -> Seq(Stored)] /\ f[z] = <<>> /\ g[z] = <<>>
  BY <1>1, <1>2, <1>3 DEF Found
<1>6. <<>> \in Seq(Stored) /\ <<>> \o <<>> = <<>>
  BY EmptySeq, ConcatEmptySeq
<1>7. PICK L \in Nat : L = Len(s)
  BY <1>4
<1>8. g[z + L] = <<>> \o f[z + L]
  <2>1. Before(g, z, <<>>, f, z)
    BY <1>5, <1>6 DEF Before
  <2>2. Alike(n, s, z, m, s, z, k, L) /\ z + L <= Len(s)
    BY <1>4, <1>7 DEF Alike, Hit
  <2>3. Before(g, z + L, <<>>, f, z + L)
    BY <1>1, <1>2, <1>6, <2>1, <2>2, StaysBefore
  <2> QED BY <2>3 DEF Before
<1>9. <<>> \o f[Len(s)] = f[Len(s)]
  <2>1. f[Len(s)] \in Seq(Stored)
    BY <1>4, <1>5
  <2> QED BY <2>1, ConcatEmptySeq
<1> QED BY <1>1, <1>2, <1>4, <1>7, <1>8, <1>9

\* No value of a key that nothing has.
LEMMA NoValues ==
    ASSUME NEW m, m.cell \in [Cells -> Entry], NEW k, NEW s \in Seq(Cells),
           \A i \in 1 .. Len(s) : m.cell[s[i]].key # k
    PROVE  ValuesOf(m, k, s) = <<>>
<1>1. PICK f : Found(m, k, s, f) /\ ValuesOf(m, k, s) = f[Len(s)]
  BY FoundIs
<1>2. PICK L \in Nat : L = Len(s)
  BY LenProperties
<1>3. NoHit(m, k, s, L) /\ L <= Len(s)
  BY <1>2 DEF NoHit
<1>4. f[L] = <<>>
  BY <1>1, <1>3, NoneFound
<1> QED BY <1>1, <1>2, <1>4

\* The values of a chain are values.
LEMMA ValuesAre ==
    ASSUME NEW m, m.cell \in [Cells -> Entry], NEW k, NEW s \in Seq(Cells)
    PROVE  ValuesOf(m, k, s) \in Seq(Stored)
<1>1. PICK f : Found(m, k, s, f) /\ ValuesOf(m, k, s) = f[Len(s)]
  BY FoundIs
<1>2. Len(s) \in 0 .. Len(s)
  BY LenProperties
<1> QED BY <1>1, <1>2 DEF Found

Topped(t, e, s) == t = <<e>> \o s

\* A cell in front of a chain puts its value in front.
LEMMA ValueInFront ==
    ASSUME NEW m, m.cell \in [Cells -> Entry], NEW k, NEW e \in Cells, NEW s \in Seq(Cells),
           NEW t, Topped(t, e, s)
    PROVE  ValuesOf(m, k, t) = Hit(m, k, e) \o ValuesOf(m, k, s)
<1>1. /\ t \in Seq(Cells) /\ Len(t) = Len(s) + 1 /\ Len(s) \in Nat /\ t[1] = e
      /\ \A i \in 2 .. Len(s) + 1 : t[i] = s[i - 1]
  BY InFront DEF Topped
<1>2. PICK f : Found(m, k, t, f) /\ ValuesOf(m, k, t) = f[Len(t)]
  BY <1>1, FoundIs
<1>3. PICK g : Found(m, k, s, g) /\ ValuesOf(m, k, s) = g[Len(s)]
  BY FoundIs
<1>4. PICK a \in Nat, b \in Nat, L \in Nat : a = 1 /\ b = 0 /\ L = Len(s)
  BY <1>1
<1>5. a + L = Len(t) /\ b + L = Len(s) /\ a + L <= Len(t) /\ b + L <= Len(s)
  BY <1>1, <1>4
<1>6. PICK x \in Seq(Stored) : x = Hit(m, k, e)
  BY HitIs
<1>7. Before(f, a, x, g, b)
  <2>1. f[0] = <<>> /\ g[0] = <<>>
    BY <1>2, <1>3 DEF Found
  <2>2. f[a] = f[a - 1] \o Hit(m, k, t[a])
    <3>1. a \in 1 .. Len(t)
      BY <1>1, <1>4
    <3> QED BY <1>2, <3>1 DEF Found
  <2>3. f[a] = <<>> \o x
    BY <1>1, <1>4, <1>6, <2>1, <2>2
  <2>4. <<>> \o x = x /\ x \o <<>> = x
    BY ConcatEmptySeq
  <2> QED BY <1>4, <2>1, <2>3, <2>4 DEF Before
<1>8. Alike(m, t, a, m, s, b, k, L)
  <2> SUFFICES ASSUME NEW i \in 1 .. L PROVE t[a + i] = s[b + i]
    BY DEF Alike
  <2>1. a + i \in 2 .. Len(s) + 1 /\ a + i - 1 = i /\ b + i = i
    BY <1>1, <1>4
  <2> QED BY <1>1, <2>1
<1>9. Before(f, a + L, x, g, b + L)
  BY <1>1, <1>2, <1>3, <1>5, <1>7, <1>8, StaysBefore
<1> QED BY <1>2, <1>3, <1>5, <1>6, <1>9 DEF Before

\* What is left of the values when a cell is taken out of its chain.
LEMMA ValueTakenOut ==
    ASSUME NEW m, m.cell \in [Cells -> Entry], NEW k, NEW s \in Seq(Cells), IsInjective(s),
           NEW j \in 1 .. Len(s), NEW r, r = Removed(s, j)
    PROVE  /\ Hit(m, k, s[j]) = <<>> => ValuesOf(m, k, r) = ValuesOf(m, k, s)
           /\ (\A i \in 1 .. j - 1 : m.cell[s[i]].key # k) =>
                ValuesOf(m, k, s) = Hit(m, k, s[j]) \o ValuesOf(m, k, r)
<1>1. /\ r \in Seq(Cells) /\ Len(r) = Len(s) - 1 /\ Len(r) \in Nat
      /\ \A i \in 1 .. Len(r) : r[i] = IF i < j THEN s[i] ELSE s[i + 1]
  BY RemovedIs
<1>2. Len(s) \in Nat /\ s[j] \in Cells
  BY LenProperties
<1>3. PICK f : Found(m, k, s, f) /\ ValuesOf(m, k, s) = f[Len(s)]
  BY FoundIs
<1>4. PICK g : Found(m, k, r, g) /\ ValuesOf(m, k, r) = g[Len(r)]
  BY <1>1, FoundIs
<1>5. PICK z \in Nat, p \in Nat, L \in Nat : z = 0 /\ p = j - 1 /\ L = Len(s) - j
  <2>1. j - 1 \in Nat /\ Len(s) - j \in Nat
    BY <1>2
  <2> QED BY <2>1
<1>6. /\ z + p = p /\ p <= Len(s) /\ p <= Len(r) /\ j \in Nat
      /\ j + L = Len(s) /\ j + L <= Len(s) /\ p + L = Len(r) /\ p + L <= Len(r)
  BY <1>1, <1>2, <1>5
<1>7. f[z] = <<>> /\ g[z] = <<>> /\ <<>> \in Seq(Stored) /\ <<>> \o <<>> = <<>>
  <2>1. f[z] = <<>> /\ g[z] = <<>>
    BY <1>3, <1>4, <1>5 DEF Found
  <2> QED BY <2>1, EmptySeq, ConcatEmptySeq
<1>8. Before(f, z + p, <<>>, g, z + p)
  <2>1. Before(f, z, <<>>, g, z)
    BY <1>7 DEF Before
  <2>2. Alike(m, s, z, m, r, z, k, p)
    <3> SUFFICES ASSUME NEW i \in 1 .. p PROVE s[z + i] = r[z + i]
      BY DEF Alike
    <3>1. z + i = i /\ i \in 1 .. Len(r) /\ i < j
      BY <1>1, <1>5, <1>6
    <3> QED BY <1>1, <3>1
  <2>3. z + p <= Len(s) /\ z + p <= Len(r)
    BY <1>6
  <2> QED BY <1>1, <1>3, <1>4, <1>7, <2>1, <2>2, <2>3, StaysBefore
<1>9. f[p] \in Seq(Stored) /\ g[p] \in Seq(Stored)
  <2>1. p \in 0 .. Len(s) /\ p \in 0 .. Len(r)
    BY <1>6
  <2> QED BY <1>3, <1>4, <2>1 DEF Found
<1>10. f[p] = g[p]
  <2>1. <<>> \o g[p] = g[p]
    BY <1>9, ConcatEmptySeq
  <2> QED BY <1>6, <1>8, <2>1 DEF Before
<1>11. f[j] = f[p] \o Hit(m, k, s[j])
  BY <1>3, <1>5 DEF Found
<1>12. Alike(m, s, j, m, r, p, k, L)
  <2> SUFFICES ASSUME NEW i \in 1 .. L PROVE s[j + i] = r[p + i]
    BY DEF Alike
  <2>1. p + i \in 1 .. Len(r) /\ ~(p + i < j) /\ p + i + 1 = j + i
    BY <1>1, <1>2, <1>5
  <2> QED BY <1>1, <2>1
<1>13. ASSUME Hit(m, k, s[j]) = <<>> PROVE ValuesOf(m, k, r) = ValuesOf(m, k, s)
  <2>1. f[p] \o <<>> = f[p] /\ <<>> \o g[p] = g[p]
    BY <1>9, ConcatEmptySeq
  <2>2. Before(f, j, <<>>, g, p)
    BY <1>10, <1>11, <1>13, <2>1 DEF Before
  <2>3. Before(f, j + L, <<>>, g, p + L)
    BY <1>1, <1>3, <1>4, <1>6, <1>7, <1>12, <2>2, StaysBefore
  <2>4. f[Len(s)] = <<>> \o g[Len(r)]
    BY <1>6, <2>3 DEF Before
  <2>5. g[Len(r)] \in Seq(Stored)
    <3>1. ValuesOf(m, k, r) \in Seq(Stored)
      BY <1>1, ValuesAre
    <3> QED BY <1>4, <3>1
  <2>6. <<>> \o g[Len(r)] = g[Len(r)]
    BY <2>5, ConcatEmptySeq
  <2> QED BY <1>3, <1>4, <2>4, <2>6
<1>14. ASSUME \A i \in 1 .. j - 1 : m.cell[s[i]].key # k
       PROVE  ValuesOf(m, k, s) = Hit(m, k, s[j]) \o ValuesOf(m, k, r)
  <2>1. f[p] = <<>>
    <3>1. NoHit(m, k, s, p)
      BY <1>5, <1>14 DEF NoHit
    <3> QED BY <1>3, <1>6, <3>1, NoneFound
  <2>2. PICK x \in Seq(Stored) : x = Hit(m, k, s[j])
    BY <1>2, HitIs
  <2>3. <<>> \o x = x /\ x \o <<>> = x
    BY ConcatEmptySeq
  <2>4. Before(f, j, x, g, p)
    BY <1>10, <1>11, <2>1, <2>2, <2>3 DEF Before
  <2>5. Before(f, j + L, x, g, p + L)
    BY <1>1, <1>3, <1>4, <1>6, <1>12, <2>4, StaysBefore
  <2>6. f[Len(s)] = x \o g[Len(r)]
    BY <1>6, <2>5 DEF Before
  <2> QED BY <1>3, <1>4, <2>2, <2>6
<1> QED BY <1>13, <1>14

---------------------------------------------------------------------------
(* The stacks of a map.                                                    *)

StackOf(m, k) ==
    IF m.size > 0 /\ ~m.lost THEN ValuesOf(m, k, Chain(m, Bucket(m, k))) ELSE <<>>

\* What MapOK says of one chain.
LEMMA ChainIn ==
    ASSUME NEW m, Table(m, Alive(m)), m.size > 0, NEW k \in Keys, NEW b, b = Bucket(m, k),
           NEW s, s = Chain(m, b)
    PROVE  /\ b \in Buckets(m) /\ s \in Seq(Cells) /\ IsInjective(s)
           /\ m.cell \in [Cells -> Entry] /\ Len(s) \in Nat
           /\ \A i \in 1 .. Len(s) : s[i] \in Alive(m) /\ s[i] \in Cells
           /\ \A c \in Alive(m) : m.cell[c].key = k => \E i \in 1 .. Len(s) : s[i] = c
<1>1. m.size \in Nat /\ m.cell \in [Cells -> Entry] /\ Alive(m) \subseteq Cells
  BY DEF Table, Shape
<1>2. b \in Buckets(m)
  BY <1>1, BucketIs
<1>3. /\ s \in Seq(Cells) /\ IsInjective(s) /\ \A i \in 1 .. Len(s) : s[i] \in Alive(m)
      /\ DOMAIN s = 1 .. Len(s)
      /\ ToSet(s) = {e \in Alive(m) : Bucket(m, m.cell[e].key) = b}
  BY <1>2, ChainOf
<1>4. ASSUME NEW c \in Alive(m), m.cell[c].key = k PROVE \E i \in 1 .. Len(s) : s[i] = c
  <2>1. c \in ToSet(s)
    BY <1>3, <1>4
  <2> QED BY <1>3, <2>1 DEF ToSet
<1>5. Len(s) \in Nat
  BY <1>3, LenProperties
<1> QED BY <1>1, <1>2, <1>3, <1>4, <1>5

\* A stack is a sequence of values.
LEMMA StackIs ==
    ASSUME NEW m, Table(m, Alive(m)), NEW k \in Keys
    PROVE  StackOf(m, k) \in Seq(Stored)
<1>1. CASE m.size > 0
  <2>1. PICK b, s : b = Bucket(m, k) /\ s = Chain(m, b)
    OBVIOUS
  <2>2. s \in Seq(Cells) /\ m.cell \in [Cells -> Entry]
    BY <1>1, <2>1, ChainIn
  <2>3. ValuesOf(m, k, s) \in Seq(Stored)
    BY <2>2, ValuesAre
  <2> QED BY <2>1, <2>3, EmptySeq DEF StackOf
<1>2. CASE ~(m.size > 0)
  BY <1>2, EmptySeq DEF StackOf
<1> QED BY <1>1, <1>2

\* No entry, no value.
LEMMA NoEntry ==
    ASSUME NEW m, Table(m, Alive(m)), NEW k \in Keys, \A c \in Alive(m) : m.cell[c].key # k
    PROVE  StackOf(m, k) = <<>>
<1>1. CASE m.size > 0
  <2>1. PICK b, s : b = Bucket(m, k) /\ s = Chain(m, b)
    OBVIOUS
  <2>2. /\ s \in Seq(Cells) /\ m.cell \in [Cells -> Entry]
        /\ \A i \in 1 .. Len(s) : s[i] \in Alive(m)
    BY <1>1, <2>1, ChainIn
  <2>3. ValuesOf(m, k, s) = <<>>
    BY <2>2, NoValues
  <2> QED BY <2>1, <2>3 DEF StackOf
<1>2. CASE ~(m.size > 0)
  BY <1>2 DEF StackOf
<1> QED BY <1>1, <1>2

\* One entry, its value.
LEMMA OneEntry ==
    ASSUME NEW m, Table(m, Alive(m)), Unique(m), m.size > 0, ~m.lost,
           NEW k \in Keys, NEW c \in Alive(m), m.cell[c].key = k
    PROVE  StackOf(m, k) = <<m.cell[c].value>>
<1>1. PICK b, s : b = Bucket(m, k) /\ s = Chain(m, b)
  OBVIOUS
<1>2. /\ s \in Seq(Cells) /\ IsInjective(s) /\ m.cell \in [Cells -> Entry] /\ Len(s) \in Nat
      /\ \A i \in 1 .. Len(s) : s[i] \in Alive(m) /\ s[i] \in Cells
      /\ \E i \in 1 .. Len(s) : s[i] = c
  BY <1>1, ChainIn
<1>3. PICK j \in 1 .. Len(s) : s[j] = c
  BY <1>2
<1>4. DOMAIN s = 1 .. Len(s)
  BY <1>2, LenProperties
<1>5. \A i \in 1 .. Len(s) : i # j => m.cell[s[i]].key # k
  BY <1>2, <1>3, <1>4 DEF IsInjective, Unique
<1>6. PICK r : r = Removed(s, j)
  OBVIOUS
<1>7. /\ r \in Seq(Cells) /\ Len(r) = Len(s) - 1 /\ Len(r) \in Nat
      /\ \A i \in 1 .. Len(r) : r[i] = IF i < j THEN s[i] ELSE s[i + 1]
  <2>1. s \in Seq(Cells) /\ IsInjective(s)
    BY <1>2
  <2> QED BY <1>6, <2>1, RemovedIs
<1>8. ValuesOf(m, k, s) = Hit(m, k, s[j]) \o ValuesOf(m, k, r)
  <2>1. \A i \in 1 .. j - 1 : m.cell[s[i]].key # k
    <3> SUFFICES ASSUME NEW i \in 1 .. j - 1 PROVE m.cell[s[i]].key # k
      OBVIOUS
    <3>1. i \in 1 .. Len(s) /\ i # j
      BY <1>2
    <3> QED BY <1>5, <3>1
  <2> QED BY <1>2, <1>6, <2>1, ValueTakenOut
<1>9. ValuesOf(m, k, r) = <<>>
  <2> SUFFICES ASSUME NEW i \in 1 .. Len(r) PROVE m.cell[r[i]].key # k
    BY <1>2, <1>7, NoValues
  <2>1. CASE i < j
    <3>1. i \in 1 .. Len(s) /\ i # j /\ r[i] = s[i]
      BY <1>2, <1>7, <2>1
    <3> QED BY <1>5, <3>1
  <2>2. CASE ~(i < j)
    <3>1. i + 1 \in 1 .. Len(s) /\ i + 1 # j /\ r[i] = s[i + 1]
      BY <1>2, <1>7, <2>2
    <3> QED BY <1>5, <3>1
  <2> QED BY <2>1, <2>2
<1>10. /\ Hit(m, k, s[j]) = <<m.cell[c].value>>
       /\ <<m.cell[c].value>> \in Seq(Stored)
  BY <1>2, <1>3, HitIs
<1>11. <<m.cell[c].value>> \o <<>> = <<m.cell[c].value>>
  BY <1>10, ConcatEmptySeq
<1> QED BY <1>1, <1>8, <1>9, <1>10, <1>11 DEF StackOf

\* Growth turns the chains around, but there is one entry of a key.
LEMMA GrownStacks ==
    ASSUME NEW m, NEW u \in {"sized", "growing"}, MapOK(m, u), ~m.lost,
           u = "sized" => m.size = 0 \/ m.used < m.size,
           NEW g, g = Grown(m), MapOK(g, u), Roomy(m, g), NEW k \in Keys
    PROVE  StackOf(g, k) = StackOf(m, k)
<1>1. m.size \in Nat /\ m.used \in 0 .. UsedMod - 1 /\ UsedMod \in Nat
  BY MapNumbers
<1>2. /\ Table(m, Alive(m)) /\ Table(g, Alive(g)) /\ Alive(g) = Alive(m) /\ Alive(m) \subseteq Cells
      /\ g.size > 0 /\ ~g.lost
      /\ \A c \in Cells : g.cell[c].key = m.cell[c].key /\ g.cell[c].value = m.cell[c].value
  BY DEF MapOK, Roomy, Alive
<1>3. CASE \A c \in Alive(m) : m.cell[c].key # k
  <2>1. \A c \in Alive(g) : g.cell[c].key # k
    BY <1>2, <1>3
  <2>2. StackOf(m, k) = <<>> /\ StackOf(g, k) = <<>>
    BY <1>2, <1>3, <2>1, NoEntry
  <2> QED BY <2>2
<1>4. CASE m.used < m.size
  <2>1. ~(m.used >= m.size)
    BY <1>1, <1>4
  <2> QED BY <2>1 DEF Grown
<1>5. ASSUME NEW c \in Alive(m), m.cell[c].key = k, ~(m.used < m.size)
      PROVE  StackOf(g, k) = StackOf(m, k)
  <2>1. m.size # 0
    BY <1>5 DEF MapOK
  <2>2. u = "growing" /\ m.size > 0
    BY <1>1, <1>5, <2>1
  <2>3. Unique(m) /\ Unique(g)
    BY <2>2 DEF MapOK
  <2>4. StackOf(m, k) = <<m.cell[c].value>>
    BY <1>2, <1>5, <2>2, <2>3, OneEntry
  <2>5. c \in Alive(g) /\ g.cell[c].key = k /\ g.cell[c].value = m.cell[c].value
    BY <1>2, <1>5
  <2>6. StackOf(g, k) = <<g.cell[c].value>>
    BY <1>2, <2>3, <2>5, OneEntry
  <2> QED BY <2>4, <2>5, <2>6
<1> QED BY <1>3, <1>4, <1>5

\* An insertion puts a value in front of the stack of its key.
LEMMA InsertedStacks ==
    ASSUME NEW g, NEW n, NEW u, MapOK(g, u), MapOK(n, u), g.size > 0, ~g.lost,
           NEW k \in Keys, NEW v, NEW e \in Cells \ Alive(g), Inserted(g, n, e, k, v),
           NEW h \in Keys
    PROVE  StackOf(n, h) = IF h = k THEN <<v>> \o StackOf(g, h) ELSE StackOf(g, h)
<1>1. PICK b, s : b = Bucket(g, h) /\ s = Chain(g, b)
  OBVIOUS
<1>2. Table(g, Alive(g)) /\ Table(n, Alive(n))
  BY DEF MapOK
<1>3. /\ n.size = g.size /\ n.lost = g.lost /\ n.cell[e].key = k /\ n.cell[e].value = v
      /\ \A c \in Cells \ {e} : n.cell[c].key = g.cell[c].key /\ n.cell[c].value = g.cell[c].value
      /\ Chain(n, Bucket(g, k)) = <<e>> \o Chain(g, Bucket(g, k))
      /\ \A a \in Buckets(g) \ {Bucket(g, k)} : Chain(n, a) = Chain(g, a)
  BY DEF Inserted
<1>4. /\ b \in Buckets(g) /\ s \in Seq(Cells) /\ g.cell \in [Cells -> Entry]
      /\ \A i \in 1 .. Len(s) : s[i] \in Alive(g) /\ s[i] \in Cells
  BY <1>1, <1>2, ChainIn
<1>5. n.cell \in [Cells -> Entry]
  BY <1>2 DEF Table, Shape
<1>6. StackOf(g, h) = ValuesOf(g, h, s)
  BY <1>1 DEF StackOf
<1>7. b = Bucket(n, h) /\ StackOf(n, h) = ValuesOf(n, h, Chain(n, b))
  BY <1>1, <1>3 DEF StackOf, Bucket
<1>8. ValuesOf(n, h, s) = ValuesOf(g, h, s)
  <2>1. \A i \in 1 .. Len(s) : s[i] \in Cells \ {e}
    BY <1>4
  <2>2. \A i \in 1 .. Len(s) : /\ n.cell[s[i]].key = g.cell[s[i]].key
                               /\ n.cell[s[i]].value = g.cell[s[i]].value
    BY <1>3, <2>1
  <2> QED BY <1>4, <1>5, <2>2, SameValues
<1>9. CASE b # Bucket(g, k)
  <2>1. Chain(n, b) = s /\ h # k
    BY <1>1, <1>3, <1>4, <1>9
  <2> QED BY <1>6, <1>7, <1>8, <2>1
<1>10. CASE b = Bucket(g, k)
  <2>1. Chain(n, b) = <<e>> \o s
    BY <1>1, <1>3, <1>10
  <2>2. ValuesOf(n, h, Chain(n, b)) = Hit(n, h, e) \o ValuesOf(n, h, s)
    <3>1. PICK t : t = <<e>> \o s
      OBVIOUS
    <3>2. e \in Cells /\ s \in Seq(Cells) /\ Topped(t, e, s)
      BY <1>4, <3>1 DEF Topped
    <3>3. ValuesOf(n, h, t) = Hit(n, h, e) \o ValuesOf(n, h, s)
      BY <1>5, <3>2, ValueInFront
    <3> QED BY <2>1, <3>1, <3>3
  <2>3. ValuesOf(n, h, s) \in Seq(Stored)
    BY <1>4, <1>5, ValuesAre
  <2>4. <<>> \o ValuesOf(n, h, s) = ValuesOf(n, h, s)
    BY <2>3, ConcatEmptySeq
  <2>5. Hit(n, h, e) = IF h = k THEN <<v>> ELSE <<>>
    BY <1>3 DEF Hit
  <2> QED BY <1>6, <1>7, <1>8, <2>2, <2>4, <2>5
<1> QED BY <1>9, <1>10

\* A deletion takes the first value off the stack of its key.
LEMMA DeletedStacks ==
    ASSUME NEW m, NEW n, MapOK(m, "sized"), MapOK(n, "sized"), m.size > 0, ~m.lost,
           NEW k \in Keys, NEW b, b = Bucket(m, k), NEW e, Deleted(m, n, Alive(m), b, e, k),
           NEW h \in Keys
    PROVE  IF h = k THEN StackOf(m, h) = <<m.cell[e].value>> \o StackOf(n, h)
           ELSE StackOf(n, h) = StackOf(m, h)
<1>1. PICK a, s : a = Bucket(m, h) /\ s = Chain(m, a)
  OBVIOUS
<1>2. Table(m, Alive(m)) /\ Table(n, Alive(n))
  BY DEF MapOK
<1>3. /\ e \in Alive(m) /\ m.cell[e].key = k /\ n.size = m.size /\ n.lost = m.lost
      /\ \A c \in Cells \ {e} : n.cell[c].key = m.cell[c].key /\ n.cell[c].value = m.cell[c].value
      /\ \A d \in Buckets(m) \ {b} : Chain(n, d) = Chain(m, d)
  BY DEF Deleted
<1>4. /\ a \in Buckets(m) /\ s \in Seq(Cells) /\ IsInjective(s) /\ m.cell \in [Cells -> Entry]
      /\ \A i \in 1 .. Len(s) : s[i] \in Alive(m) /\ s[i] \in Cells
  BY <1>1, <1>2, ChainIn
<1>5. n.cell \in [Cells -> Entry] /\ e \in Cells
  BY <1>2, <1>3 DEF Table, Shape
<1>6. StackOf(m, h) = ValuesOf(m, h, s)
  BY <1>1 DEF StackOf
<1>7. a = Bucket(n, h) /\ StackOf(n, h) = ValuesOf(n, h, Chain(n, a))
  BY <1>1, <1>3 DEF StackOf, Bucket
<1>8. ASSUME NEW r \in Seq(Cells), \A i \in 1 .. Len(r) : r[i] # e
      PROVE  ValuesOf(n, h, r) = ValuesOf(m, h, r)
  <2>1. \A i \in 1 .. Len(r) : r[i] \in Cells \ {e}
    BY <1>8, LenProperties
  <2>2. \A i \in 1 .. Len(r) : /\ n.cell[r[i]].key = m.cell[r[i]].key
                               /\ n.cell[r[i]].value = m.cell[r[i]].value
    BY <1>3, <2>1
  <2> QED BY <1>4, <1>5, <2>2, SameValues
<1>9. CASE a # b
  <2>1. Chain(n, a) = s /\ h # k
    BY <1>1, <1>3, <1>4, <1>9
  <2>2. \A i \in 1 .. Len(s) : s[i] # e
    <3> SUFFICES ASSUME NEW i \in 1 .. Len(s), s[i] = e PROVE FALSE
      OBVIOUS
    <3>1. Bucket(m, m.cell[s[i]].key) = a
      BY <1>1, <1>2, <1>4, ChainOf
    <3> QED BY <1>3, <1>9, <3>1
  <2> QED BY <1>4, <1>6, <1>7, <1>8, <2>1, <2>2
<1>10. CASE a = b
  <2>1. PICK j \in 1 .. Len(s) : /\ e = s[j] /\ Chain(n, a) = Removed(s, j)
                                 /\ \A i \in 1 .. j - 1 : m.cell[s[i]].key # k
    BY <1>1, <1>10 DEF Deleted
  <2>2. PICK r : r = Removed(s, j)
    OBVIOUS
  <2>3. s \in Seq(Cells) /\ IsInjective(s)
    BY <1>4
  <2>4. /\ r \in Seq(Cells) /\ Len(r) \in Nat /\ ToSet(r) = ToSet(s) \ {s[j]}
    BY <2>2, <2>3, RemovedIs
  <2>5. \A i \in 1 .. Len(r) : r[i] # e
    <3>1. DOMAIN r = 1 .. Len(r)
      BY <2>4, LenProperties
    <3> QED BY <2>1, <2>4, <3>1 DEF ToSet
  <2>6. ValuesOf(n, h, r) = ValuesOf(m, h, r)
    BY <1>8, <2>4, <2>5
  <2>7. Hit(m, h, e) = IF h = k THEN <<m.cell[e].value>> ELSE <<>>
    BY <1>3 DEF Hit
  <2>8. CASE h = k
    <3>1. ValuesOf(m, h, s) = Hit(m, h, s[j]) \o ValuesOf(m, h, r)
      BY <1>4, <2>1, <2>2, <2>3, <2>8, ValueTakenOut
    <3> QED BY <1>6, <1>7, <2>1, <2>2, <2>6, <2>7, <2>8, <3>1
  <2>9. CASE h # k
    <3>1. Hit(m, h, s[j]) = <<>>
      BY <2>1, <2>7, <2>9
    <3>2. ValuesOf(m, h, r) = ValuesOf(m, h, s)
      BY <1>4, <2>2, <2>3, <3>1, ValueTakenOut
    <3> QED BY <1>6, <1>7, <2>1, <2>2, <2>6, <2>9, <3>2
  <2> QED BY <2>8, <2>9
<1> QED BY <1>9, <1>10

\* What a search returns is on top of the stack.
LEMMA FoundOnTop ==
    ASSUME NEW m, Table(m, Alive(m)), m.size > 0, ~m.lost, NEW k \in Keys,
           NEW e, e = HashmapLocate(m, k)
    PROVE  IF e = NULL THEN StackOf(m, k) = <<>>
           ELSE /\ m.cell[e].value \in Stored
                /\ \E rest \in Seq(Stored) : StackOf(m, k) = <<m.cell[e].value>> \o rest
<1>1. PICK b, s : b = Bucket(m, k) /\ s = Chain(m, b)
  OBVIOUS
<1>2. /\ s \in Seq(Cells) /\ IsInjective(s) /\ m.cell \in [Cells -> Entry]
      /\ \A i \in 1 .. Len(s) : s[i] \in Alive(m) /\ s[i] \in Cells
  BY <1>1, ChainIn
<1>3. StackOf(m, k) = ValuesOf(m, k, s)
  BY <1>1 DEF StackOf
<1>4. \/ e = NULL /\ \A i \in 1 .. Len(s) : m.cell[s[i]].key # k
      \/ /\ e \in Alive(m) /\ m.cell[e].key = k
         /\ \E j \in 1 .. Len(s) : e = s[j] /\ \A i \in 1 .. j - 1 : m.cell[s[i]].key # k
  BY <1>1, LocateIs
<1>5. CASE e = NULL /\ \A i \in 1 .. Len(s) : m.cell[s[i]].key # k
  <2>1. ValuesOf(m, k, s) = <<>>
    BY <1>2, <1>5, NoValues
  <2> QED BY <1>3, <1>5, <2>1
<1>6. ASSUME m.cell[e].key = k, NEW j \in 1 .. Len(s), e = s[j],
             \A i \in 1 .. j - 1 : m.cell[s[i]].key # k
      PROVE  /\ e # NULL /\ m.cell[e].value \in Stored
             /\ \E rest \in Seq(Stored) : StackOf(m, k) = <<m.cell[e].value>> \o rest
  <2>1. PICK r : r = Removed(s, j)
    OBVIOUS
  <2>2. s \in Seq(Cells) /\ IsInjective(s)
    BY <1>2
  <2>3. r \in Seq(Cells)
    BY <2>1, <2>2, RemovedIs
  <2>4. ValuesOf(m, k, s) = Hit(m, k, s[j]) \o ValuesOf(m, k, r)
    BY <1>2, <1>6, <2>1, <2>2, ValueTakenOut
  <2>5. ValuesOf(m, k, r) \in Seq(Stored)
    BY <1>2, <2>3, ValuesAre
  <2>6. Hit(m, k, s[j]) = <<m.cell[e].value>>
    BY <1>6 DEF Hit
  <2>7. e \in Cells
    BY <1>2, <1>6
  <2>8. e # NULL
    BY <2>7, HashMapAssumption
  <2>9. m.cell[e].value \in Stored
    BY <1>2, <2>7, HitIs
  <2> QED BY <1>3, <2>4, <2>5, <2>6, <2>8, <2>9
<1> QED BY <1>4, <1>5, <1>6

---------------------------------------------------------------------------
(* What is listed.                                                         *)

\* Positions in a sequence that has no element twice are as many as elements.
LEMMA CountPositions ==
    ASSUME NEW s \in Seq(Cells), IsInjective(s), NEW H
    PROVE  Cardinality({i \in DOMAIN s : s[i] \in H}) = Cardinality(ToSet(s) \cap H)
<1> DEFINE I == {i \in DOMAIN s : s[i] \in H}
           T == ToSet(s) \cap H
           f == [i \in I |-> s[i]]
<1>1. Len(s) \in Nat /\ DOMAIN s = 1 .. Len(s)
  BY LenProperties
<1>2. IsFiniteSet(I)
  <2>1. I \subseteq 1 .. Len(s)
    BY <1>1
  <2> QED BY <1>1, <2>1, UpTo, FS_Subset
<1>3. f \in [I -> T]
  BY DEF ToSet
<1>4. \A i, j \in I : f[i] = f[j] => i = j
  BY DEF IsInjective
<1>5. \A t \in T : \E i \in I : f[i] = t
  BY DEF ToSet
<1> HIDE DEF I, T, f
<1>6. ExistsBijection(I, T)
  <2>1. DOMAIN f = I
    BY <1>3
  <2>2. f \in Injection(I, T)
    BY <1>3, <1>4, <2>1 DEF Injection, IsInjective
  <2>3. f \in Surjection(I, T)
    BY <1>3, <1>5 DEF Surjection
  <2> QED BY <2>2, <2>3 DEF ExistsBijection, Bijection
<1> QED BY <1>2, <1>6, FS_Bijection DEF I, T

\* The cells that have the key k and the value v.
Keeping(m, k, v) == {c \in Cells : m.cell[c].key = k /\ m.cell[c].value = v}

\* Positions of v among the values are as many as cells with the key and v.
LEMMA CountFound ==
    ASSUME NEW m, m.cell \in [Cells -> Entry], NEW k, NEW s \in Seq(Cells), NEW f,
           Found(m, k, s, f), NEW v, NEW H, H = Keeping(m, k, v)
    PROVE  Cardinality({i \in DOMAIN f[Len(s)] : f[Len(s)][i] = v})
             = Cardinality({i \in 1 .. Len(s) : s[i] \in H})
<1>1. Len(s) \in Nat /\ \A i \in 1 .. Len(s) : s[i] \in Cells
  BY LenProperties
<1>2. /\ f \in [0 .. Len(s) -> Seq(Stored)] /\ f[0] = <<>>
      /\ \A i \in 1 .. Len(s) : f[i] = f[i - 1] \o Hit(m, k, s[i])
  BY DEF Found
<1> DEFINE V(j) == {i \in DOMAIN f[j] : f[j][i] = v}
           I(j) == {i \in 1 .. j : s[i] \in H}
           T == {j \in Nat : j <= Len(s) => Cardinality(V(j)) = Cardinality(I(j))}
<1>3. 0 \in T
  <2>1. V(0) = {} /\ I(0) = {}
    BY <1>2
  <2> QED BY <2>1
<1>4. ASSUME NEW j \in Nat, j \in T PROVE j + 1 \in T
  <2> SUFFICES ASSUME j + 1 <= Len(s), Cardinality(V(j)) = Cardinality(I(j))
               PROVE  Cardinality(V(j + 1)) = Cardinality(I(j + 1))
    BY <1>1, <1>4
  <2>1. PICK p \in 1 .. Len(s) : p = j + 1 /\ p - 1 = j /\ j \in 0 .. Len(s)
    BY <1>1
  <2>2. f[p] = f[j] \o Hit(m, k, s[p]) /\ f[j] \in Seq(Stored) /\ s[p] \in Cells
    BY <1>1, <1>2, <2>1
  <2>3. PICK g \in Seq(Stored) : g = f[j]
    BY <2>2
  <2>4. Len(g) \in Nat /\ DOMAIN g = 1 .. Len(g)
    BY LenProperties
  <2>5. IsFiniteSet(V(j)) /\ IsFiniteSet(I(j))
    <3>1. V(j) \subseteq 1 .. Len(g) /\ I(j) \subseteq 1 .. j
      BY <2>3, <2>4
    <3>2. IsFiniteSet(1 .. Len(g)) /\ IsFiniteSet(1 .. j)
      BY <2>4, UpTo
    <3> QED BY <3>1, <3>2, FS_Subset
  <2>6. I(p) = IF s[p] \in H THEN I(j) \cup {p} ELSE I(j)
    <3>1. 1 .. p = (1 .. j) \cup {p}
      BY <2>1
    <3> QED BY <3>1
  <2>7. p \notin I(j)
    BY <2>1
  <2>8. V(p) = IF s[p] \in H THEN V(j) \cup {Len(g) + 1} ELSE V(j)
    <3>1. CASE m.cell[s[p]].key # k
      <4>1. Hit(m, k, s[p]) = <<>>
        BY <2>2, <3>1, HitIs
      <4>2. g \o <<>> = g
        BY ConcatEmptySeq
      <4>3. f[p] = f[j]
        BY <2>2, <2>3, <4>1, <4>2
      <4>4. s[p] \notin H
        BY <2>2, <3>1 DEF Keeping
      <4> QED BY <4>3, <4>4
    <3>2. CASE m.cell[s[p]].key = k
      <4>1. PICK w \in Stored : w = m.cell[s[p]].value
        BY <2>2, HitIs
      <4>2. f[p] = g \o <<w>>
        BY <2>2, <2>3, <3>2, <4>1, HitIs
      <4>3. Append(g, w) = g \o <<w>>
        BY AppendIsConcat
      <4>4. /\ f[p] \in Seq(Stored) /\ Len(f[p]) = Len(g) + 1
            /\ (\A i \in 1 .. Len(g) : f[p][i] = g[i]) /\ f[p][Len(g) + 1] = w
        BY <4>2, <4>3, AppendProperties
      <4>5. DOMAIN f[p] = (1 .. Len(g)) \cup {Len(g) + 1}
        <5>1. DOMAIN f[p] = 1 .. Len(g) + 1
          BY <4>4, LenProperties
        <5> QED BY <2>4, <5>1
      <4>6. s[p] \in H <=> w = v
        BY <2>2, <3>2, <4>1 DEF Keeping
      <4>7. V(p) = IF w = v THEN V(j) \cup {Len(g) + 1} ELSE V(j)
        BY <2>3, <2>4, <4>4, <4>5
      <4> QED BY <4>6, <4>7
    <3> QED BY <3>1, <3>2
  <2>9. Len(g) + 1 \notin V(j)
    BY <2>3, <2>4
  <2> HIDE DEF V, I
  <2>10. CASE s[p] \in H
    <3>1. Cardinality(V(p)) = Cardinality(V(j)) + 1
      BY <2>5, <2>8, <2>9, <2>10, FS_AddElement
    <3>2. Cardinality(I(p)) = Cardinality(I(j)) + 1
      BY <2>5, <2>6, <2>7, <2>10, FS_AddElement
    <3> QED BY <2>1, <3>1, <3>2
  <2>11. CASE s[p] \notin H
    BY <2>1, <2>6, <2>8, <2>11
  <2> QED BY <2>10, <2>11
<1> HIDE DEF T
<1>5. Len(s) \in T
  BY <1>1, <1>3, <1>4, NatSet
<1> QED BY <1>1, <1>5 DEF T

\* How often k with v is listed, and how often v is on a stack.
Listed(m, ms, k, v) ==
    Cardinality({i \in DOMAIN ms : m.cell[ms[i]].key = k /\ m.cell[ms[i]].value = v})
Places(t, v) == {i \in DOMAIN t : t[i] = v}
Stacked(t, v) == Cardinality(Places(t, v))

\* The list of the members has every value as often as the stacks.
LEMMA ListedIs ==
    ASSUME NEW m, Table(m, Alive(m)), m.size = 0 => Alive(m) = {}, ~m.lost,
           NEW ms, ms = Members(m), NEW k \in Keys, NEW v
    PROVE  Listed(m, ms, k, v) = Stacked(StackOf(m, k), v)
<1> USE DEF Listed, Stacked, Places
<1>0. PICK H : H = Keeping(m, k, v)
  OBVIOUS
<1>1. m.size \in Nat /\ Alive(m) \subseteq Cells
  BY DEF Table, Shape
<1>2. ms \in Seq(Cells) /\ IsInjective(ms) /\ ToSet(ms) = Alive(m)
  BY MembersAre
<1>3. {i \in DOMAIN ms : m.cell[ms[i]].key = k /\ m.cell[ms[i]].value = v}
        = {i \in DOMAIN ms : ms[i] \in H}
  <2>1. \A i \in DOMAIN ms : ms[i] \in Cells
    BY <1>2, LenProperties
  <2> QED BY <1>0, <2>1 DEF Keeping
<1>4. \A c \in Cells : c \in H <=> m.cell[c].key = k /\ m.cell[c].value = v
  BY <1>0 DEF Keeping
<1>5. Cardinality({i \in DOMAIN ms : ms[i] \in H}) = Cardinality(Alive(m) \cap H)
  BY <1>2, CountPositions
<1>6. CASE m.size = 0
  <2>1. StackOf(m, k) = <<>> /\ Alive(m) \cap H = {}
    BY <1>6 DEF StackOf
  <2>2. {i \in DOMAIN StackOf(m, k) : StackOf(m, k)[i] = v} = {}
    BY <2>1
  <2> QED BY <1>3, <1>5, <2>1, <2>2
<1>7. CASE m.size # 0
  <2>1. PICK b, s : b = Bucket(m, k) /\ s = Chain(m, b)
    OBVIOUS
  <2>2. m.size > 0
    BY <1>1, <1>7
  <2>3. /\ s \in Seq(Cells) /\ IsInjective(s) /\ m.cell \in [Cells -> Entry] /\ Len(s) \in Nat
        /\ \A i \in 1 .. Len(s) : s[i] \in Alive(m)
        /\ \A c \in Alive(m) : m.cell[c].key = k => \E i \in 1 .. Len(s) : s[i] = c
    BY <2>1, <2>2, ChainIn
  <2>4. DOMAIN s = 1 .. Len(s)
    BY <2>3, LenProperties
  <2>5. PICK f : Found(m, k, s, f) /\ ValuesOf(m, k, s) = f[Len(s)]
    BY <2>3, FoundIs
  <2>6. StackOf(m, k) = f[Len(s)]
    BY <2>1, <2>2, <2>5 DEF StackOf
  <2>7. Cardinality({i \in DOMAIN f[Len(s)] : f[Len(s)][i] = v})
          = Cardinality({i \in DOMAIN s : s[i] \in H})
    <3>1. Cardinality({i \in DOMAIN f[Len(s)] : f[Len(s)][i] = v})
            = Cardinality({i \in 1 .. Len(s) : s[i] \in H})
      BY <1>0, <2>3, <2>5, CountFound
    <3> QED BY <2>4, <3>1
  <2>8. Cardinality({i \in DOMAIN s : s[i] \in H}) = Cardinality(ToSet(s) \cap H)
    BY <2>3, CountPositions
  <2>9. ToSet(s) \cap H = Alive(m) \cap H
    <3>1. ToSet(s) \subseteq Alive(m)
      BY <2>3, <2>4 DEF ToSet
    <3>2. \A c \in Alive(m) \cap H : c \in ToSet(s)
      BY <1>1, <1>4, <2>3, <2>4 DEF ToSet
    <3> QED BY <3>1, <3>2
  <2> QED BY <1>3, <1>5, <2>6, <2>7, <2>8, <2>9
<1> QED BY <1>6, <1>7

---------------------------------------------------------------------------
(* The calls on a map are the calls on its stacks.                         *)

\* Stacks are the stacks of the map.
LEMMA StacksAre == /\ Stacks = [k \in Keys |-> StackOf(map, k)]
                   /\ Stacks' = [k \in Keys |-> StackOf(map', k)]
BY DEF Stacks, Usable, StackOf

\* A new map has none.
LEMMA StacksInit == HashInit => AsStacks!Init
<1> SUFFICES ASSUME HashInit PROVE AsStacks!Init
  OBVIOUS
<1>1. PICK i \in 1 .. Len(Primes) - 1 : map = HashmapCreate(i)
  BY DEF HashInit
<1>2. map.size = 0
  BY <1>1 DEF HashmapCreate
<1>3. \A k \in Keys : StackOf(map, k) = <<>>
  BY <1>2 DEF StackOf
<1>4. Stacks = [k \in Keys |-> <<>>]
  BY <1>3, StacksAre
<1>5. returned = <<>>
  BY DEF HashInit
<1> QED BY <1>4, <1>5 DEF AsStacks!Init, AsStacks!Empty

\* An insertion pushes.
LEMMA InsertPushes ==
    ASSUME MapInv, NEW k \in Keys, NEW v \in Values, Insert(k, v)
    PROVE  AsStacks!Push(k, v)
<1>1. PICK g, n : g = Grown(map) /\ n = map'
  OBVIOUS
<1>2. /\ MapOK(g, use) /\ Roomy(map, g) /\ MapOK(n, use)
      /\ \E e \in Cells \ Alive(g) : Inserted(g, n, e, k, v)
  BY <1>1, InsertIs
<1>3. PICK e \in Cells \ Alive(g) : Inserted(g, n, e, k, v)
  BY <1>2
<1>4. /\ ~map.lost /\ MapOK(map, use) /\ use \in {"sized", "growing"}
      /\ use = "sized" => map.size = 0 \/ map.used < map.size
  BY MayInsertIs DEF Insert
<1>5. g.size > 0 /\ ~g.lost
  BY <1>2 DEF Roomy
<1>6. ASSUME NEW h \in Keys
      PROVE  StackOf(n, h) = IF h = k THEN <<v>> \o StackOf(map, k) ELSE StackOf(map, h)
  <2>1. StackOf(n, h) = IF h = k THEN <<v>> \o StackOf(g, h) ELSE StackOf(g, h)
    BY <1>2, <1>3, <1>5, InsertedStacks
  <2>2. StackOf(g, h) = StackOf(map, h)
    BY <1>1, <1>2, <1>4, GrownStacks
  <2> QED BY <2>1, <2>2
<1>7. Stacks' = [Stacks EXCEPT ![k] = <<v>> \o @]
  <2>1. Stacks' = [h \in Keys |-> IF h = k THEN <<v>> \o StackOf(map, k) ELSE StackOf(map, h)]
    BY <1>1, <1>6, StacksAre
  <2>2. Stacks = [h \in Keys |-> StackOf(map, h)]
    BY StacksAre
  <2> QED BY <2>1, <2>2
<1>8. returned' = <<v>>
  BY DEF Insert
<1> QED BY <1>7, <1>8 DEF AsStacks!Push

\* Without memory for the entry the stacks are as they were, in a larger table
\* or not.
LEMMA InsertFails ==
    ASSUME MapInv, NEW k \in Keys, InsertFail(k)
    PROVE  AsStacks!PushFails
<1>1. PICK g : g = Grown(map)
  OBVIOUS
<1>2. /\ ~map.lost /\ (map.used >= map.size => map.idx < Len(Primes))
      /\ use = "sized" => map.size = 0 \/ map.used < map.size
      /\ use \in {"sized", "growing"} /\ MapOK(map, use)
  BY MayInsertIs DEF InsertFail
<1>3. MapOK(g, use) /\ Roomy(map, g)
  BY <1>1, <1>2, GrownOK
<1>4. \A h \in Keys : StackOf(g, h) = StackOf(map, h)
  BY <1>1, <1>2, <1>3, GrownStacks
<1>5. map' = g /\ returned' = <<>>
  BY <1>1 DEF InsertFail
<1>6. Stacks' = Stacks
  BY <1>4, <1>5, StacksAre
<1> QED BY <1>5, <1>6 DEF AsStacks!PushFails

\* Without memory for a larger table nothing is left of them.
LEMMA GrowthFails ==
    ASSUME MapInv, NEW k \in Keys, GrowFail(k)
    PROVE  AsStacks!PushFails
<1>1. PICK n : n = map'
  OBVIOUS
<1>2. /\ map.used >= map.size /\ n = [map EXCEPT !.idx = @ + 1, !.lost = map.size > 0]
      /\ returned' = <<>> /\ MayInsert(k)
  BY <1>1 DEF GrowFail
<1>3. ~map.lost /\ map.idx < Len(Primes) /\ use \in {"sized", "growing"} /\ MapOK(map, use)
  BY <1>2, MayInsertIs
<1>4. ~n.lost => n.size = 0
  BY <1>2, <1>3, LostOK
<1>5. \A h \in Keys : StackOf(n, h) = <<>>
  BY <1>4 DEF StackOf
<1>6. Stacks' = [h \in Keys |-> <<>>]
  BY <1>1, <1>5, StacksAre
<1> QED BY <1>2, <1>6 DEF AsStacks!PushFails, AsStacks!Empty

\* What is in front of a stack is its head, and what is behind it its tail.
LEMMA TopIs ==
    ASSUME NEW S, NEW v \in S, NEW s \in Seq(S), NEW t, t = <<v>> \o s
    PROVE  t # <<>> /\ Head(t) = v /\ Tail(t) = s
<1>1. /\ t \in Seq(S) /\ Len(t) = Len(s) + 1 /\ Len(s) \in Nat /\ t[1] = v
      /\ \A i \in 2 .. Len(s) + 1 : t[i] = s[i - 1]
  BY InFront
<1>2. t # <<>>
  BY <1>1, LenProperties
<1>3. Head(t) = t[1] /\ Tail(t) \in Seq(S) /\ Len(Tail(t)) = Len(t) - 1
  BY <1>1, <1>2, HeadTailProperties
<1>4. \A i \in 1 .. Len(Tail(t)) : Tail(t)[i] = t[i + 1]
  BY <1>1, <1>2, HeadTailProperties
<1>5. Len(Tail(t)) = Len(s)
  BY <1>1, <1>3
<1>6. \A i \in 1 .. Len(s) : Tail(t)[i] = s[i]
  BY <1>1, <1>4, <1>5
<1>7. Tail(t) = s
  BY <1>3, <1>5, <1>6, SeqEqual
<1> QED BY <1>1, <1>2, <1>3, <1>7

\* A search looks at the top.
LEMMA FindsTop ==
    ASSUME MapInv, NEW k \in Keys, Find(k)
    PROVE  AsStacks!Find(k)
<1>1. /\ map.size > 0 /\ ~map.lost /\ returned' = HashmapFind(map, k) /\ map' = map
  BY DEF Find, Usable
<1>2. Table(map, Alive(map))
  BY DEF MapInv, MapOK
<1>3. PICK e : e = HashmapLocate(map, k)
  OBVIOUS
<1>4. Stacks' = Stacks /\ Stacks[k] = StackOf(map, k)
  BY <1>1, StacksAre
<1>5. CASE e = NULL
  <2>1. StackOf(map, k) = <<>>
    BY <1>1, <1>2, <1>3, <1>5, FoundOnTop
  <2>2. returned' = <<>>
    BY <1>1, <1>3, <1>5 DEF HashmapFind
  <2> QED BY <1>4, <2>1, <2>2 DEF AsStacks!Find
<1>6. CASE e # NULL
  <2>0. /\ map.cell[e].value \in Stored
        /\ \E rest \in Seq(Stored) : StackOf(map, k) = <<map.cell[e].value>> \o rest
    BY <1>1, <1>2, <1>3, <1>6, FoundOnTop
  <2>1. PICK v, t : v \in Stored /\ v = map.cell[e].value /\ t = StackOf(map, k)
    BY <2>0
  <2>2. t # <<>> /\ Head(t) = v
    <3>1. PICK s \in Seq(Stored) : t = <<v>> \o s
      BY <2>0, <2>1
    <3> QED BY <3>1, TopIs
  <2>3. returned' = <<v>>
    BY <1>1, <1>3, <1>6, <2>1 DEF HashmapFind
  <2> QED BY <1>4, <2>1, <2>2, <2>3 DEF AsStacks!Find
<1> QED BY <1>5, <1>6

\* A deletion takes it off.
LEMMA DeletePops ==
    ASSUME MapInv, NEW k \in Keys, Delete(k)
    PROVE  AsStacks!Pop(k)
<1>1. map.size > 0 /\ ~map.lost /\ use = "sized" /\ MapOK(map, "sized")
  BY DEF Delete, Usable, MapInv
<1>2. Table(map, Alive(map))
  BY <1>1 DEF MapOK
<1>3. PICK e, n, b : e = HashmapLocate(map, k) /\ n = map' /\ b = Bucket(map, k)
  OBVIOUS
<1>4. CASE e = NULL
  <2>1. StackOf(map, k) = <<>>
    BY <1>1, <1>2, <1>3, <1>4, FoundOnTop
  <2>2. returned' = <<1>> /\ map' = map
    BY <1>3, <1>4 DEF Delete
  <2>3. Stacks' = Stacks /\ Stacks[k] = <<>>
    BY <2>1, <2>2, StacksAre
  <2> QED BY <2>2, <2>3 DEF AsStacks!Pop
<1>5. CASE e # NULL
  <2>1. returned' = <<0>> /\ n = HashmapDelete(map, k)
    BY <1>3, <1>5 DEF Delete
  <2>2. MapOK(n, "sized") /\ Deleted(map, n, Alive(map), b, e, k)
    BY <1>1, <1>3, <1>5, <2>1, DeleteOK
  <2>3. ASSUME NEW h \in Keys
        PROVE  IF h = k THEN StackOf(map, h) = <<map.cell[e].value>> \o StackOf(n, h)
               ELSE StackOf(n, h) = StackOf(map, h)
    BY <1>1, <1>3, <2>2, DeletedStacks
  <2>4. StackOf(map, k) # <<>> /\ Tail(StackOf(map, k)) = StackOf(n, k)
    <3>1. PICK v, s, t : v = map.cell[e].value /\ s = StackOf(n, k) /\ t = StackOf(map, k)
      OBVIOUS
    <3>2. t = <<v>> \o s
      BY <2>3, <3>1
    <3>3. v \in Stored
      BY <1>1, <1>2, <1>3, <1>5, <3>1, FoundOnTop
    <3>4. s \in Seq(Stored)
      BY <2>2, <3>1, StackIs DEF MapOK
    <3> QED BY <3>1, <3>2, <3>3, <3>4, TopIs
  <2>5. Stacks' = [Stacks EXCEPT ![k] = Tail(@)]
    <3>1. Stacks' = [h \in Keys |-> IF h = k THEN Tail(StackOf(map, k)) ELSE StackOf(map, h)]
      BY <1>3, <2>3, <2>4, StacksAre
    <3>2. Stacks = [h \in Keys |-> StackOf(map, h)]
      BY StacksAre
    <3> QED BY <3>1, <3>2
  <2>6. Stacks[k] # <<>>
    BY <2>4, StacksAre
  <2> QED BY <2>1, <2>5, <2>6 DEF AsStacks!Pop
<1> QED BY <1>4, <1>5

\* The specification of the stacks counts as this one does.
LEMMA SameCount == ASSUME NEW S PROVE AsStacks!Cardinality(S) = Cardinality(S)
BY DEF AsStacks!Cardinality, Cardinality

\* A list counts what is on the stacks.
LEMMA ListsAll ==
    ASSUME MapInv, List
    PROVE  AsStacks!All
<1>1. PICK ms : ms = Members(map)
  OBVIOUS
<1>2. /\ ~map.lost /\ map' = map
      /\ returned' = [k \in Keys |-> [v \in Values |-> Listed(map, ms, k, v)]]
  BY <1>1 DEF List, Listed
<1>3. Table(map, Alive(map)) /\ (map.size = 0 => Alive(map) = {})
  BY DEF MapInv, MapOK
<1>4. \A k \in Keys : \A v \in Values : Listed(map, ms, k, v) = Stacked(StackOf(map, k), v)
  BY <1>1, <1>2, <1>3, ListedIs
<1>5. returned' = [k \in Keys |-> [v \in Values |-> Stacked(Stacks[k], v)]]
  <2>1. \A k \in Keys : Stacks[k] = StackOf(map, k)
    BY StacksAre
  <2> QED BY <1>2, <1>4, <2>1
<1>6. Stacks' = Stacks
  <2>1. map' = map
    BY <1>2
  <2> QED BY <2>1, StacksAre
<1>7. \A k \in Keys : \A v \in Values :
        Stacked(Stacks[k], v) = AsStacks!Cardinality(Places(Stacks[k], v))
  BY SameCount DEF Stacked
<1>8. returned' = [k \in Keys |-> [v \in Values |-> AsStacks!Cardinality(Places(Stacks[k], v))]]
  BY <1>5, <1>7
<1> QED BY <1>6, <1>8, Zenon DEF AsStacks!All, Places

\* A new map is empty.
LEMMA RenewClears ==
    ASSUME Renew
    PROVE  AsStacks!Clear
<1>1. PICK i \in 1 .. Len(Primes) - 1 : map' = HashmapCreate(i)
  BY DEF Renew
<1>2. map'.size = 0 /\ returned' = <<>>
  BY <1>1 DEF HashmapCreate, Renew
<1>3. \A h \in Keys : StackOf(map', h) = <<>>
  BY <1>2 DEF StackOf
<1>4. Stacks' = [h \in Keys |-> <<>>]
  BY <1>3, StacksAre
<1> QED BY <1>2, <1>4 DEF AsStacks!Clear, AsStacks!Empty

\* Every step on a map is a step on its stacks, or none.
LEMMA StacksNext == MapInv /\ [HashNext]_hashVars => [AsStacks!Next]_<<Stacks, returned>>
<1> SUFFICES ASSUME MapInv, [HashNext]_hashVars PROVE [AsStacks!Next]_<<Stacks, returned>>
  OBVIOUS
<1>1. CASE UNCHANGED hashVars
  <2>1. map' = map /\ returned' = returned
    BY <1>1 DEF hashVars
  <2> QED BY <2>1, StacksAre
<1>2. CASE HashNext
  <2> SUFFICES AsStacks!Next
    OBVIOUS
  <2>1. ASSUME NEW k \in Keys, InsertFail(k) PROVE AsStacks!Next
    BY <2>1, InsertFails DEF AsStacks!Next
  <2>2. ASSUME NEW k \in Keys, GrowFail(k) PROVE AsStacks!Next
    BY <2>2, GrowthFails DEF AsStacks!Next
  <2>3. ASSUME NEW k \in Keys, Find(k) PROVE AsStacks!Next
    BY <2>3, FindsTop DEF AsStacks!Next
  <2>4. ASSUME NEW k \in Keys, Delete(k) PROVE AsStacks!Next
    BY <2>4, DeletePops DEF AsStacks!Next
  <2>5. ASSUME NEW k \in Keys, NEW v \in Values, Insert(k, v) PROVE AsStacks!Next
    BY <2>5, InsertPushes DEF AsStacks!Next
  <2>6. ASSUME List PROVE AsStacks!Next
    BY <2>6, ListsAll DEF AsStacks!Next
  <2>7. ASSUME Renew PROVE AsStacks!Next
    BY <2>7, RenewClears DEF AsStacks!Next
  <2> QED BY <1>2, <2>1, <2>2, <2>3, <2>4, <2>5, <2>6, <2>7 DEF HashNext
<1> QED BY <1>1, <1>2
=============================================================================
