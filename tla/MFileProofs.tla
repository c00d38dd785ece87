---------------------------- MODULE MFileProofs ----------------------------
(***************************************************************************)
(* Proofs about the memory file of libmfile, for blocks and buffers of any *)
(* size: what its cursors have to do with its blocks, and msize with its   *)
(* bytes, is kept by every call, at its loops' every turn, and every call  *)
(* does to the bytes and to the reader's position what ByteFile says.      *)
(*                                                                         *)
(* BytesBefore, FlattenSeq, mread, mread_line and mfile_copy are recursive *)
(* functions.  That they exist follows from Iterates, and what holds of    *)
(* their values from PassedOn (NatSets).                                   *)
(***************************************************************************)
EXTENDS MFile, NatSets, FiniteSetTheorems, SequenceTheorems

---------------------------------------------------------------------------
(* The types of a file, and what its cursors have to do with its blocks.   *)

AllBytes == UNION {ToSet(c) : c \in Chunks}

BlockType == [data : Seq(AllBytes), rd : Nat]

MemFiles ==
    [blocks : Seq(BlockType), full : BOOLEAN, empty : BOOLEAN, readp : Nat,
     ccache : AllBytes \cup {CR, LF, NUL, Junk}, total : Nat, header : Nat]

\* The part of CursorsAgree that is about one file and not about its size.
Cursors(f) ==
    /\ f \in MemFiles
    /\ f.readp <= Len(f.blocks)
    /\ \A i \in 1 .. Len(f.blocks) :
        /\ Len(f.blocks[i].data) \in 1 .. BlockSize
        /\ f.blocks[i].rd <= Len(f.blocks[i].data)
        /\ i > f.readp => f.blocks[i].rd = 0
    /\ ~f.full => /\ Len(f.blocks) > 0
                  /\ Len(f.blocks[Len(f.blocks)].data) < BlockSize
    /\ f.empty <=> /\ f.readp # 0
                   /\ f.blocks[f.readp].rd = Len(f.blocks[f.readp].data)

\* g has the data of f.
SameData(f, g) ==
    /\ Len(g.blocks) = Len(f.blocks)
    /\ \A i \in 1 .. Len(f.blocks) : g.blocks[i].data = f.blocks[i].data
    /\ g.total = f.total

\* The bytes of a file.
Size(f) == BytesBefore(f, Len(f.blocks) + 1)

\* Where a file is read.
PosOf(f) == IF f.readp = 0 THEN 0 ELSE BytesBefore(f, f.readp) + f.blocks[f.readp].rd

\* msize counts what was asked for.
Counted(f, lost) == f.total >= Size(f) /\ (lost = 0 => f.total = Size(f))

\* The inductive invariant.
FileInv == Cursors(file) /\ faults \in 0 .. MaxFaults /\ Counted(file, faults)

---------------------------------------------------------------------------
(* How many bytes there are in front of a block. *)

\* The blocks of a file, and the data in them.
LEMMA BlocksAre ==
    ASSUME NEW f \in MemFiles
    PROVE  /\ f.blocks \in Seq(BlockType) /\ Len(f.blocks) \in Nat
           /\ DOMAIN f.blocks = 1 .. Len(f.blocks)
           /\ \A i \in 1 .. Len(f.blocks) :
                /\ f.blocks[i] \in BlockType
                /\ f.blocks[i].data \in Seq(AllBytes) /\ f.blocks[i].rd \in Nat
                /\ Len(f.blocks[i].data) \in Nat
<1>1. f.blocks \in Seq(BlockType)
  BY DEF MemFiles
<1>2. ASSUME NEW i \in 1 .. Len(f.blocks)
      PROVE  f.blocks[i].data \in Seq(AllBytes) /\ f.blocks[i].rd \in Nat
  <2>1. f.blocks[i] \in BlockType
    BY <1>1
  <2> QED BY <2>1 DEF BlockType
<1> QED BY <1>1, <1>2

\* They are a sum.
LEMMA BeforeIs ==
    ASSUME NEW f \in MemFiles
    PROVE  /\ BytesBefore(f, 1) = 0
           /\ \A i \in 1 .. Len(f.blocks) + 1 : BytesBefore(f, i) \in Nat
           /\ \A i \in 1 .. Len(f.blocks) :
                BytesBefore(f, i + 1) = BytesBefore(f, i) + Len(f.blocks[i].data)
<1> DEFINE len == Len(f.blocks)
           g   == [k \in 1 .. len |-> Len(f.blocks[k].data)]
           Is(b, n) == b = [k \in 0 .. n |->
                              IF k = 0 THEN 0 ELSE b[k - 1] + Len(f.blocks[k].data)]
           B(n) == CHOOSE b : Is(b, n)
<1>1. len \in Nat /\ \A k \in 1 .. len : g[k] \in Nat /\ g[k] = Len(f.blocks[k].data)
  BY BlocksAre
<1>2. ASSUME NEW i \in 1 .. len + 1 PROVE BytesBefore(f, i) = B(i - 1)[i - 1]
  BY DEF BytesBefore
<1> HIDE DEF len, g
<1>3. ASSUME NEW n \in 0 .. len PROVE Is(B(n), n)
  <2>1. \A k \in 1 .. n : g[k] \in Int /\ k \in 1 .. len
    BY <1>1
  <2>2. PICK b : b = [k \in 0 .. n |-> IF k = 0 THEN 0 ELSE b[k - 1] + g[k]]
    <3>1. n \in Nat
      BY <1>1
    <3> QED BY <2>1, <3>1, Sums
  <2>3. ASSUME NEW k \in 0 .. n
        PROVE  (IF k = 0 THEN 0 ELSE b[k - 1] + g[k])
                    = IF k = 0 THEN 0 ELSE b[k - 1] + Len(f.blocks[k].data)
    BY <1>1, <2>1
  <2>4. [k \in 0 .. n |-> IF k = 0 THEN 0 ELSE b[k - 1] + g[k]]
            = [k \in 0 .. n |-> IF k = 0 THEN 0 ELSE b[k - 1] + Len(f.blocks[k].data)]
    BY <2>3
  <2>5. Is(b, n)
    BY <2>2, <2>4
  <2> HIDE DEF Is
  <2> QED BY <2>5
<1> HIDE DEF B
<1>4. ASSUME NEW n \in 0 .. len
      PROVE  /\ B(n)[0] = 0
             /\ \A k \in 1 .. n : B(n)[k] = B(n)[k - 1] + g[k]
  <2>1. \A k \in 0 .. n : B(n)[k] = IF k = 0 THEN 0 ELSE B(n)[k - 1] + Len(f.blocks[k].data)
    BY <1>3
  <2>2. \A k \in 1 .. n : k \in 0 .. n /\ k # 0 /\ k \in 1 .. len
    BY <1>1
  <2> QED BY <1>1, <2>1, <2>2
<1>5. ASSUME NEW n \in 0 .. len PROVE \A k \in 0 .. n : B(n)[k] = B(k)[k] /\ B(k)[k] \in Nat
  <2> DEFINE T == {k \in Nat : k <= n => \A m \in k .. n : B(m)[k] = B(k)[k] /\ B(k)[k] \in Nat}
  <2>1. 0 \in T
    BY <1>1, <1>4
  <2>2. ASSUME NEW k \in Nat, k \in T PROVE k + 1 \in T
    <3> SUFFICES ASSUME k + 1 <= n, NEW m \in k + 1 .. n
                 PROVE  B(m)[k + 1] = B(k + 1)[k + 1] /\ B(k + 1)[k + 1] \in Nat
      OBVIOUS
    <3>1. m \in 0 .. len /\ k + 1 \in 0 .. len /\ k + 1 \in 1 .. m /\ k + 1 \in 1 .. k + 1
          /\ k + 1 \in 1 .. len
      BY <1>1
    <3>2. m \in k .. n /\ k + 1 \in k .. n
      OBVIOUS
    <3>3. B(m)[k] = B(k)[k] /\ B(k + 1)[k] = B(k)[k] /\ B(k)[k] \in Nat
      BY <2>2, <3>2
    <3>4. B(m)[k + 1] = B(m)[k + 1 - 1] + g[k + 1]
      BY <1>4, <3>1
    <3>5. B(k + 1)[k + 1] = B(k + 1)[k + 1 - 1] + g[k + 1]
      BY <1>4, <3>1
    <3>6. k + 1 - 1 = k /\ g[k + 1] \in Nat
      BY <1>1, <3>1
    <3> QED BY <3>3, <3>4, <3>5, <3>6
  <2> HIDE DEF T
  <2>3. \A k \in Nat : k \in T
    BY <2>1, <2>2, NatSet
  <2>4. ASSUME NEW k \in 0 .. n PROVE B(n)[k] = B(k)[k] /\ B(k)[k] \in Nat
    <3>1. k \in Nat /\ k <= n /\ n \in k .. n
      BY <1>1
    <3> QED BY <2>3, <3>1 DEF T
  <2> QED BY <2>4
<1>6. BytesBefore(f, 1) = 0
  BY <1>1, <1>2, <1>4
<1>7. ASSUME NEW i \in 1 .. len + 1 PROVE BytesBefore(f, i) \in Nat
  BY <1>1, <1>2, <1>5
<1>8. ASSUME NEW i \in 1 .. len PROVE BytesBefore(f, i + 1) = BytesBefore(f, i) + g[i]
  <2>1. i \in 0 .. len /\ i - 1 \in 0 .. i /\ i \in 1 .. i /\ i \in 1 .. len + 1
        /\ i + 1 \in 1 .. len + 1 /\ i + 1 - 1 = i
    BY <1>1
  <2>2. BytesBefore(f, i + 1) = B(i)[i] /\ BytesBefore(f, i) = B(i - 1)[i - 1]
    BY <1>2, <2>1
  <2>3. B(i)[i] = B(i)[i - 1] + g[i] /\ B(i)[i - 1] = B(i - 1)[i - 1]
    BY <1>4, <1>5, <2>1
  <2> QED BY <2>2, <2>3
<1> QED BY <1>1, <1>6, <1>7, <1>8 DEF len

\* F has the beginnings of what n sequences are behind each other.
Flattens(F, s, n, T) ==
    /\ FlattenSeq(s) = F[n] /\ F[1] = s[1]
    /\ \A k \in 1 .. n : F[k] \in Seq(T)
    /\ \A k \in 1 .. n - 1 : F[k + 1] = F[k] \o s[k + 1]

\* FlattenSeq is what it is called.
LEMMA FlatIs ==
    ASSUME NEW T, NEW n \in Nat \ {0}, NEW s \in [1 .. n -> Seq(T)]
    PROVE  \E F : Flattens(F, s, n, T)
<1> DEFINE Is(F) == F = [i \in 1 .. n |-> IF i = 1 THEN s[i] ELSE F[i - 1] \o s[i]]
           Some == CHOOSE F : Is(F)
           G == [x \in (1 .. n - 1) \X Seq(T) |-> x[2] \o s[x[1] + 1]]
<1>1. Len(s) = n
  OBVIOUS
<1>2. FlattenSeq(s) = Some[n]
  BY <1>1 DEF FlattenSeq
<1>3. \A k \in 1 .. n : s[k] \in Seq(T)
  OBVIOUS
<1>4. \A k \in 1 .. n - 1 : \A x \in Seq(T) : G[<<k, x>>] = x \o s[k + 1] /\ G[<<k, x>>] \in Seq(T)
  <2> SUFFICES ASSUME NEW k \in 1 .. n - 1, NEW x \in Seq(T)
               PROVE  G[<<k, x>>] = x \o s[k + 1] /\ G[<<k, x>>] \in Seq(T)
    OBVIOUS
  <2>1. G[<<k, x>>] = x \o s[k + 1]
    OBVIOUS
  <2>2. s[k + 1] \in Seq(T)
    OBVIOUS
  <2> HIDE DEF G
  <2> QED BY <2>1, <2>2
<1> HIDE DEF G, Some
<1>5. PICK f : Iteration(f, s[1], n - 1, G, Seq(T))
  <2>1. n - 1 \in Nat /\ s[1] \in Seq(T)
    BY <1>3
  <2>2. \A k \in 1 .. n - 1 : \A x \in Seq(T) : G[<<k, x>>] \in Seq(T)
    BY <1>4
  <2> QED BY <2>1, <2>2, Iterates
<1>6. /\ f[0] = s[1] /\ \A k \in 0 .. n - 1 : f[k] \in Seq(T)
      /\ \A k \in 1 .. n - 1 : f[k] = f[k - 1] \o s[k + 1]
  <2>1. \A k \in 1 .. n - 1 : f[k - 1] \in Seq(T)
    BY <1>5 DEF Iteration
  <2> QED BY <1>4, <1>5, <2>1 DEF Iteration
<1>7. Is([i \in 1 .. n |-> f[i - 1]])
  <2> DEFINE h == [i \in 1 .. n |-> f[i - 1]]
  <2>1. ASSUME NEW i \in 1 .. n PROVE h[i] = IF i = 1 THEN s[i] ELSE h[i - 1] \o s[i]
    <3>1. CASE i = 1
      BY <1>6, <3>1
    <3>2. CASE i # 1
      <4>1. i - 1 \in 1 .. n - 1 /\ i - 1 \in 1 .. n /\ i - 1 + 1 = i
        BY <3>2
      <4>2. h[i] = f[i - 1] /\ h[i - 1] = f[i - 1 - 1]
        BY <4>1
      <4> HIDE DEF h
      <4> QED BY <1>6, <3>2, <4>1, <4>2
    <3> QED BY <3>1, <3>2
  <2>2. h = [i \in 1 .. n |-> h[i]]
    OBVIOUS
  <2> HIDE DEF h
  <2>3. h = [i \in 1 .. n |-> IF i = 1 THEN s[i] ELSE h[i - 1] \o s[i]]
    BY <2>1, <2>2
  <2> QED BY <2>3 DEF h
<1>8. PICK F : Is(F) /\ FlattenSeq(s) = F[n]
  <2> HIDE DEF Is
  <2>1. Is(Some)
    BY <1>7 DEF Some
  <2> QED BY <1>2, <2>1
<1>9. F[1] = s[1] /\ \A k \in 1 .. n - 1 : F[k + 1] = F[k] \o s[k + 1]
  <2>1. \A i \in 1 .. n : F[i] = IF i = 1 THEN s[i] ELSE F[i - 1] \o s[i]
    BY <1>8
  <2> HIDE DEF Is
  <2>2. ASSUME NEW k \in 1 .. n - 1 PROVE F[k + 1] = F[k] \o s[k + 1]
    <3>1. PICK i \in 1 .. n : i = k + 1 /\ i # 1 /\ i - 1 = k
      OBVIOUS
    <3>2. F[i] = F[i - 1] \o s[i]
      BY <2>1, <3>1, Zenon
    <3> QED BY <3>1, <3>2
  <2>3. 1 \in 1 .. n
    OBVIOUS
  <2> QED BY <2>1, <2>2, <2>3
<1> DEFINE R == {k \in Nat : k + 1 <= n => F[k + 1] \in Seq(T)}
<1>10. 0 \in R
  BY <1>3, <1>9
<1>11. ASSUME NEW k \in Nat, k \in R PROVE k + 1 \in R
  <2> SUFFICES ASSUME k + 1 + 1 <= n PROVE F[k + 1 + 1] \in Seq(T)
    OBVIOUS
  <2>1. k + 1 \in 1 .. n - 1 /\ k + 1 + 1 \in 1 .. n /\ F[k + 1] \in Seq(T)
    BY <1>11
  <2>2. F[k + 1 + 1] = F[k + 1] \o s[k + 1 + 1] /\ s[k + 1 + 1] \in Seq(T)
    BY <1>3, <1>9, <2>1
  <2> QED BY <2>1, <2>2
<1> HIDE DEF R
<1>12. \A k \in Nat : k \in R
  BY <1>10, <1>11, NatSet
<1>13. ASSUME NEW k \in 1 .. n PROVE F[k] \in Seq(T)
  <2>1. k - 1 \in R /\ k - 1 + 1 = k /\ k <= n
    BY <1>12
  <2> QED BY <2>1 DEF R
<1> QED BY <1>8, <1>9, <1>13 DEF Flattens

\* The bytes of a file are as many as there are in its blocks.
LEMMA BytesAre ==
    ASSUME NEW f \in MemFiles
    PROVE  Len(Bytes(f)) = Size(f) /\ Size(f) \in Nat
<1> DEFINE n == Len(f.blocks)
           s == [i \in 1 .. n |-> f.blocks[i].data]
<1>1. /\ n \in Nat /\ s \in [1 .. n -> Seq(AllBytes)] /\ Bytes(f) = FlattenSeq(s)
      /\ Len(s) = n /\ \A i \in 1 .. n : s[i] = f.blocks[i].data
  BY BlocksAre DEF Bytes
<1>2. /\ BytesBefore(f, 1) = 0 /\ Size(f) \in Nat
      /\ \A i \in 1 .. n : BytesBefore(f, i + 1) = BytesBefore(f, i) + Len(s[i])
  BY <1>1, BeforeIs DEF Size
<1> HIDE DEF s
<1>3. CASE n = 0
  <2>1. FlattenSeq(s) = s
    BY <1>1, <1>3 DEF FlattenSeq
  <2>2. Size(f) = BytesBefore(f, 1)
    BY <1>3 DEF Size
  <2> QED BY <1>1, <1>2, <1>3, <2>1, <2>2
<1>4. CASE n # 0
  <2> HIDE DEF n
  <2>1. PICK F : /\ FlattenSeq(s) = F[n] /\ F[1] = s[1]
                 /\ \A k \in 1 .. n : F[k] \in Seq(AllBytes)
                 /\ \A k \in 1 .. n - 1 : F[k + 1] = F[k] \o s[k + 1]
    <3>1. n \in Nat \ {0}
      BY <1>1, <1>4
    <3>2. PICK F : Flattens(F, s, n, AllBytes)
      BY <1>1, <3>1, FlatIs
    <3> QED BY <3>2 DEF Flattens
  <2>2. \A k \in 1 .. n : s[k] \in Seq(AllBytes)
    BY <1>1
  <2> DEFINE R == {k \in Nat : k + 1 <= n => Len(F[k + 1]) = BytesBefore(f, k + 1 + 1)}
  <2>3. 0 \in R
    <3>1. 1 \in 1 .. n
      BY <1>1, <1>4
    <3> QED BY <1>2, <2>1, <2>2, <3>1
  <2>4. ASSUME NEW k \in Nat, k \in R PROVE k + 1 \in R
    <3> SUFFICES ASSUME k + 1 + 1 <= n
                 PROVE  Len(F[k + 1 + 1]) = BytesBefore(f, k + 1 + 1 + 1)
      OBVIOUS
    <3>1. k + 1 \in 1 .. n - 1 /\ k + 1 \in 1 .. n /\ k + 1 + 1 \in 1 .. n
      BY <1>1
    <3>2. F[k + 1 + 1] = F[k + 1] \o s[k + 1 + 1]
      BY <2>1, <3>1
    <3>3. F[k + 1] \in Seq(AllBytes) /\ s[k + 1 + 1] \in Seq(AllBytes)
      BY <2>1, <2>2, <3>1
    <3>4. Len(F[k + 1 + 1]) = Len(F[k + 1]) + Len(s[k + 1 + 1])
      BY <3>2, <3>3
    <3>5. Len(F[k + 1]) = BytesBefore(f, k + 1 + 1)
      BY <2>4, <3>1
    <3>6. BytesBefore(f, k + 1 + 1 + 1) = BytesBefore(f, k + 1 + 1) + Len(s[k + 1 + 1])
      BY <1>2, <3>1
    <3> QED BY <3>4, <3>5, <3>6
  <2> HIDE DEF R
  <2>5. \A k \in Nat : k \in R
    BY <2>3, <2>4, NatSet
  <2>6. Len(F[n]) = BytesBefore(f, n + 1)
    <3>1. n - 1 \in Nat /\ n - 1 + 1 = n /\ n <= n
      BY <1>1, <1>4
    <3>2. n - 1 \in R
      BY <2>5, <3>1
    <3> QED BY <3>1, <3>2 DEF R
  <2> QED BY <1>1, <1>2, <2>1, <2>6 DEF Size, n
<1> QED BY <1>3, <1>4

\* There are no fewer bytes in front of a later block.
LEMMA BeforeGrows ==
    ASSUME NEW f \in MemFiles, NEW k \in 0 .. Len(f.blocks)
    PROVE  \A i \in 0 .. k : BytesBefore(f, i + 1) <= BytesBefore(f, k + 1)
<1> DEFINE n == Len(f.blocks)
           T == {m \in Nat : m <= n => \A i \in 0 .. m : BytesBefore(f, i + 1) <= BytesBefore(f, m + 1)}
<1>1. n \in Nat
  BY BlocksAre
<1>2. 0 \in T
  <2>1. BytesBefore(f, 0 + 1) \in Nat
    BY <1>1, BeforeIs
  <2>2. \A i \in 0 .. 0 : i = 0
    OBVIOUS
  <2> QED BY <2>1, <2>2
<1>3. ASSUME NEW m \in Nat, m \in T PROVE m + 1 \in T
  <2> SUFFICES ASSUME m + 1 <= n, NEW i \in 0 .. m + 1
               PROVE  BytesBefore(f, i + 1) <= BytesBefore(f, m + 1 + 1)
    OBVIOUS
  <2>1. PICK j \in 1 .. n : j = m + 1
    BY <1>1
  <2>2. /\ BytesBefore(f, j + 1) = BytesBefore(f, j) + Len(f.blocks[j].data)
        /\ BytesBefore(f, j) \in Nat /\ Len(f.blocks[j].data) \in Nat
        /\ BytesBefore(f, i + 1) \in Nat
    <3>1. j \in 1 .. Len(f.blocks) + 1 /\ i + 1 \in 1 .. Len(f.blocks) + 1
      BY <1>1, <2>1
    <3> QED BY <3>1, BeforeIs, BlocksAre
  <2>3. CASE i = m + 1
    BY <2>1, <2>2, <2>3
  <2>4. CASE i # m + 1
    <3>1. i \in 0 .. m
      BY <2>4
    <3>2. BytesBefore(f, i + 1) <= BytesBefore(f, j)
      BY <1>1, <1>3, <2>1, <3>1
    <3> QED BY <2>1, <2>2, <3>2
  <2> QED BY <2>3, <2>4
<1> HIDE DEF T
<1>4. k \in T
  <2>1. k \in Nat
    BY <1>1
  <2> QED BY <1>2, <1>3, <2>1, NatSet
<1> QED BY <1>1, <1>4 DEF T

\* z is y behind x.
Follows(z, x, y) ==
    /\ Len(z) = Len(x) + Len(y)
    /\ \A i \in 1 .. Len(x) : z[i] = x[i]
    /\ \A i \in 1 .. Len(y) : z[Len(x) + i] = y[i]

\* So \o puts it.
LEMMA FollowsIs ==
    ASSUME NEW T, NEW x \in Seq(T), NEW y \in Seq(T)
    PROVE  x \o y \in Seq(T) /\ Follows(x \o y, x, y)
<1> DEFINE z == x \o y
<1>1. /\ z \in Seq(T) /\ Len(z) = Len(x) + Len(y) /\ Len(x) \in Nat /\ Len(y) \in Nat
      /\ \A i \in 1 .. Len(x) + Len(y) : z[i] = IF i <= Len(x) THEN x[i] ELSE y[i - Len(x)]
  BY ConcatProperties
<1> HIDE DEF z
<1>2. PICK a, b : a = Len(x) /\ b = Len(y) /\ a \in Nat /\ b \in Nat
  BY <1>1
<1>3. \A i \in 1 .. a : z[i] = x[i]
  BY <1>1, <1>2
<1>4. \A i \in 1 .. b : z[a + i] = y[i]
  <2>1. \A i \in 1 .. a + b : z[i] = IF i <= a THEN x[i] ELSE y[i - a]
    BY <1>1, <1>2
  <2> SUFFICES ASSUME NEW i \in 1 .. b PROVE z[a + i] = y[i]
    OBVIOUS
  <2>2. PICK j \in 1 .. a + b : j = a + i /\ ~(j <= a) /\ j - a = i
    BY <1>2
  <2>3. z[j] = y[j - a]
    BY <2>1, <2>2
  <2> QED BY <2>2, <2>3
<1>5. Follows(z, x, y)
  BY <1>1, <1>2, <1>3, <1>4 DEF Follows
<1> QED BY <1>1, <1>5 DEF z

\* x has the data of each block where the block begins.
Spread(f, x) ==
    \A i \in 1 .. Len(f.blocks) : \A j \in 1 .. Len(f.blocks[i].data) :
        x[BytesBefore(f, i) + j] = f.blocks[i].data[j]

\* So far as the k-th block.
Laid(F, f, k) ==
    \A i \in 1 .. k : \A j \in 1 .. Len(f.blocks[i].data) :
        F[k][BytesBefore(f, i) + j] = f.blocks[i].data[j]

\* The bytes of a file are the data of its blocks.
LEMMA BytesSpread ==
    ASSUME NEW f \in MemFiles
    PROVE  Bytes(f) \in Seq(AllBytes) /\ Spread(f, Bytes(f))
<1> DEFINE n == Len(f.blocks)
           s == [i \in 1 .. n |-> f.blocks[i].data]
<1>1. /\ n \in Nat /\ s \in [1 .. n -> Seq(AllBytes)] /\ Bytes(f) = FlattenSeq(s)
      /\ Len(s) = n /\ \A i \in 1 .. n : s[i] = f.blocks[i].data
  BY BlocksAre DEF Bytes
<1>2. /\ BytesBefore(f, 1) = 0
      /\ \A i \in 1 .. n : /\ BytesBefore(f, i + 1) = BytesBefore(f, i) + Len(s[i])
                           /\ BytesBefore(f, i) \in Nat /\ Len(s[i]) \in Nat
  BY <1>1, BeforeIs, BlocksAre
<1> HIDE DEF s
<1>3. CASE n = 0
  <2>1. FlattenSeq(s) = s
    BY <1>1, <1>3 DEF FlattenSeq
  <2>2. s = <<>> /\ \A i \in 1 .. n : FALSE
    BY <1>1, <1>3
  <2> QED BY <1>1, <2>1, <2>2, EmptySeq DEF Spread
<1>4. CASE n # 0
  <2> HIDE DEF n
  <2>1. PICK F : /\ FlattenSeq(s) = F[n] /\ F[1] = s[1]
                 /\ \A k \in 1 .. n : F[k] \in Seq(AllBytes)
                 /\ \A k \in 1 .. n - 1 : F[k + 1] = F[k] \o s[k + 1]
    <3>1. n \in Nat \ {0}
      BY <1>1, <1>4
    <3>2. PICK F : Flattens(F, s, n, AllBytes)
      BY <1>1, <3>1, FlatIs
    <3> QED BY <3>2 DEF Flattens
  <2>2. \A k \in 1 .. n : s[k] \in Seq(AllBytes)
    BY <1>1
  <2> DEFINE R == {k \in Nat : k + 1 <= n =>
                        Len(F[k + 1]) = BytesBefore(f, k + 1 + 1) /\ Laid(F, f, k + 1)}
  <2>3. 0 \in R
    <3>1. 1 \in 1 .. n
      BY <1>1, <1>4
    <3>2. Len(F[1]) = BytesBefore(f, 1 + 1)
      BY <1>2, <2>1, <2>2, <3>1
    <3>3. Laid(F, f, 1)
      <4> SUFFICES ASSUME NEW i \in 1 .. 1, NEW j \in 1 .. Len(f.blocks[i].data)
                   PROVE  F[1][BytesBefore(f, i) + j] = f.blocks[i].data[j]
        BY DEF Laid
      <4>1. i = 1 /\ BytesBefore(f, i) + j = j
        BY <1>2
      <4> QED BY <1>1, <2>1, <3>1, <4>1
    <3> QED BY <3>2, <3>3
  <2>4. ASSUME NEW k \in Nat, k \in R PROVE k + 1 \in R
    <3> SUFFICES ASSUME k + 1 + 1 <= n
                 PROVE  Len(F[k + 1 + 1]) = BytesBefore(f, k + 1 + 1 + 1) /\ Laid(F, f, k + 1 + 1)
      OBVIOUS
    <3>1. PICK a, b : a = k + 1 /\ b = a + 1
      OBVIOUS
    <3>2. a \in 1 .. n - 1 /\ a \in 1 .. n /\ b \in 1 .. n /\ a \in Nat /\ b \in Nat
      BY <1>1, <3>1
    <3>3. F[b] = F[a] \o s[b] /\ F[a] \in Seq(AllBytes) /\ s[b] \in Seq(AllBytes)
      BY <2>1, <2>2, <3>1, <3>2
    <3>4. Len(F[a]) = BytesBefore(f, b) /\ Laid(F, f, a)
      BY <2>4, <3>1, <3>2
    <3>5. Follows(F[b], F[a], s[b])
      BY <3>3, FollowsIs
    <3>6. Len(F[b]) = BytesBefore(f, b + 1)
      BY <1>2, <3>2, <3>4, <3>5 DEF Follows
    <3>7. Laid(F, f, b)
      <4> SUFFICES ASSUME NEW i \in 1 .. b, NEW j \in 1 .. Len(f.blocks[i].data)
                   PROVE  F[b][BytesBefore(f, i) + j] = f.blocks[i].data[j]
        BY DEF Laid
      <4>1. PICK q, u, l : q = u + j /\ u = BytesBefore(f, i) /\ l = Len(s[i])
        OBVIOUS
      <4>2. i \in 1 .. n /\ u \in Nat /\ j \in 1 .. l /\ l \in Nat
        <5>1. i \in 1 .. n
          BY <1>1, <3>2
        <5>2. s[i] = f.blocks[i].data
          BY <1>1, <5>1
        <5> QED BY <1>2, <4>1, <5>1, <5>2
      <4>3. CASE i = b
        <5>1. F[b][Len(F[a]) + j] = s[b][j]
          <6>1. j \in 1 .. Len(s[b])
            BY <4>1, <4>2, <4>3
          <6> QED BY <3>5, <6>1 DEF Follows
        <5>2. Len(F[a]) = u /\ s[b] = f.blocks[i].data
          BY <1>1, <3>4, <4>1, <4>2, <4>3
        <5> QED BY <4>1, <5>1, <5>2, Zenon
      <4>4. CASE i # b
        <5>1. i \in 1 .. a
          BY <3>1, <3>2, <4>4
        <5>2. F[a][q] = f.blocks[i].data[j]
          BY <3>4, <4>1, <5>1 DEF Laid
        <5>3. BytesBefore(f, i + 1) <= BytesBefore(f, b)
          <6>1. a \in 0 .. Len(f.blocks) /\ i \in 0 .. a
            BY <1>1, <3>2, <5>1 DEF n
          <6>2. \A e \in 0 .. a : BytesBefore(f, e + 1) <= BytesBefore(f, a + 1)
            BY <6>1, BeforeGrows
          <6> QED BY <3>1, <6>1, <6>2
        <5>4. PICK v : v = Len(F[a])
          OBVIOUS
        <5>5. v \in Nat /\ u + l <= v
          <6>1. BytesBefore(f, i + 1) = u + l
            BY <1>2, <4>1, <4>2
          <6>2. BytesBefore(f, b) \in Nat
            BY <1>2, <3>2
          <6> QED BY <3>4, <5>3, <5>4, <6>1, <6>2
        <5>6. q \in 1 .. v
          BY <4>1, <4>2, <5>5
        <5>7. F[b][q] = F[a][q]
          BY <3>5, <5>4, <5>6, Zenon DEF Follows
        <5> QED BY <4>1, <5>2, <5>7, Zenon
      <4> QED BY <4>3, <4>4
    <3> QED BY <3>1, <3>6, <3>7
  <2> HIDE DEF R
  <2>5. n - 1 \in R /\ n - 1 + 1 = n /\ n \in 1 .. n
    <3>1. n - 1 \in Nat /\ n - 1 + 1 = n /\ n \in 1 .. n
      BY <1>1, <1>4
    <3> QED BY <2>3, <2>4, <3>1, NatSet
  <2>6. Laid(F, f, n)
    BY <2>5 DEF R
  <2>7. Bytes(f) = F[n] /\ F[n] \in Seq(AllBytes)
    BY <1>1, <2>1, <2>5
  <2> QED BY <2>6, <2>7 DEF Laid, Spread, n
<1> QED BY <1>3, <1>4

\* Every place in the bytes is a place in a block.
LEMMA PlaceIs ==
    ASSUME NEW f \in MemFiles, NEW q \in 1 .. Size(f)
    PROVE  \E i \in 1 .. Len(f.blocks) : \E j \in 1 .. Len(f.blocks[i].data) :
                q = BytesBefore(f, i) + j
<1> DEFINE n == Len(f.blocks)
           T == {i \in 1 .. n : q <= BytesBefore(f, i + 1)}
<1>1. /\ n \in Nat /\ Size(f) \in Nat /\ BytesBefore(f, 1) = 0 /\ Size(f) = BytesBefore(f, n + 1)
      /\ q \in Nat /\ 1 <= q /\ q <= Size(f)
  <2>1. n \in Nat /\ Size(f) \in Nat /\ BytesBefore(f, 1) = 0
    BY BlocksAre, BytesAre, BeforeIs
  <2>2. Size(f) = BytesBefore(f, n + 1)
    BY DEF Size
  <2> QED BY <2>1, <2>2
<1>2. \A i \in 1 .. n : /\ BytesBefore(f, i) \in Nat /\ Len(f.blocks[i].data) \in Nat
                        /\ BytesBefore(f, i + 1) = BytesBefore(f, i) + Len(f.blocks[i].data)
  BY <1>1, BeforeIs, BlocksAre
<1>3. n \in T
  <2>1. n # 0
    BY <1>1
  <2>2. n \in 1 .. n
    BY <1>1, <2>1
  <2> QED BY <1>1, <2>2
<1>4. PICK i \in T : \A k \in T : i <= k
  <2>1. T \subseteq Nat
    OBVIOUS
  <2> HIDE DEF T
  <2> QED BY <1>3, <2>1, LeastOf
<1>5. i \in 1 .. n /\ q <= BytesBefore(f, i + 1)
  BY <1>4
<1>6. BytesBefore(f, i) < q
  <2>1. CASE i = 1
    BY <1>1, <2>1
  <2>2. CASE i # 1
    <3>1. PICK k \in 1 .. n : i = k + 1
      BY <1>1, <1>5, <2>2
    <3>2. k \notin T
      BY <1>4, <3>1
    <3>3. ~(q <= BytesBefore(f, k + 1))
      BY <3>2
    <3>4. BytesBefore(f, i) \in Nat
      BY <1>2, <1>5
    <3> QED BY <1>1, <3>1, <3>3, <3>4
  <2> QED BY <2>1, <2>2
<1> HIDE DEF T
<1>7. PICK u, l : u = BytesBefore(f, i) /\ l = Len(f.blocks[i].data)
  OBVIOUS
<1>8. u \in Nat /\ l \in Nat /\ q <= u + l /\ u < q
  BY <1>2, <1>5, <1>6, <1>7
<1>9. q - u \in 1 .. l /\ q = u + (q - u)
  BY <1>1, <1>8
<1> QED BY <1>5, <1>7, <1>9

\* And every place in a block is one in the bytes.
LEMMA PlaceIn ==
    ASSUME NEW f \in MemFiles, NEW i \in 1 .. Len(f.blocks),
           NEW j \in 1 .. Len(f.blocks[i].data)
    PROVE  BytesBefore(f, i) + j \in 1 .. Size(f)
<1> DEFINE n == Len(f.blocks)
<1>1. n \in Nat /\ i \in 0 .. n /\ n \in 0 .. n /\ i \in 1 .. Len(f.blocks) + 1
  BY BlocksAre
<1>2. PICK u, l : u = BytesBefore(f, i) /\ l = Len(f.blocks[i].data)
  OBVIOUS
<1>3. u \in Nat /\ l \in Nat /\ BytesBefore(f, i + 1) = u + l
  BY <1>1, <1>2, BeforeIs, BlocksAre
<1>4. u + l <= Size(f) /\ Size(f) \in Nat
  <2>1. BytesBefore(f, i + 1) <= BytesBefore(f, n + 1)
    BY <1>1, BeforeGrows
  <2> QED BY <1>3, <2>1, BytesAre DEF Size
<1>5. u + j \in 1 .. Size(f)
  <2>1. j \in 1 .. l
    BY <1>2
  <2>2. PICK z \in Nat : z = Size(f)
    BY <1>4
  <2>3. u + j \in 1 .. z
    BY <1>3, <1>4, <2>1, <2>2
  <2> QED BY <2>2, <2>3
<1> QED BY <1>2, <1>5

\* A sequence that has the data of each block where the block begins is all of
\* them.
LEMMA SpreadIs ==
    ASSUME NEW f \in MemFiles, NEW x \in Seq(AllBytes), Len(x) = Size(f), Spread(f, x)
    PROVE  x = Bytes(f)
<1>1. Bytes(f) \in Seq(AllBytes) /\ Spread(f, Bytes(f)) /\ Len(Bytes(f)) = Size(f)
  BY BytesSpread, BytesAre
<1>2. ASSUME NEW q \in 1 .. Size(f) PROVE x[q] = Bytes(f)[q]
  <2>1. PICK i \in 1 .. Len(f.blocks) : \E j \in 1 .. Len(f.blocks[i].data) :
                q = BytesBefore(f, i) + j
    BY PlaceIs
  <2>2. PICK j \in 1 .. Len(f.blocks[i].data) : q = BytesBefore(f, i) + j
    BY <2>1
  <2> QED BY <1>1, <2>2, Zenon DEF Spread
<1>3. PICK y : y = Bytes(f)
  OBVIOUS
<1>4. y \in Seq(AllBytes) /\ Len(y) = Len(x) /\ \A q \in 1 .. Len(x) : x[q] = y[q]
  BY <1>1, <1>2, <1>3
<1>5. x = y
  BY <1>4, SeqEqual
<1> QED BY <1>3, <1>5

\* Blocks with the same data in front have as many bytes in front.
LEMMA SameBefore ==
    ASSUME NEW f \in MemFiles, NEW g \in MemFiles, NEW m \in Nat,
           m <= Len(f.blocks), m <= Len(g.blocks),
           \A i \in 1 .. m : Len(g.blocks[i].data) = Len(f.blocks[i].data)
    PROVE  \A i \in 0 .. m : BytesBefore(g, i + 1) = BytesBefore(f, i + 1)
<1> DEFINE R == {i \in Nat : i <= m => BytesBefore(g, i + 1) = BytesBefore(f, i + 1)}
<1>1. 0 \in R
  BY BeforeIs
<1>2. ASSUME NEW i \in Nat, i \in R PROVE i + 1 \in R
  <2> SUFFICES ASSUME i + 1 <= m PROVE BytesBefore(g, i + 1 + 1) = BytesBefore(f, i + 1 + 1)
    OBVIOUS
  <2>1. PICK j \in 1 .. m : j = i + 1
    OBVIOUS
  <2>2. j \in 1 .. Len(f.blocks) /\ j \in 1 .. Len(g.blocks)
    BY <2>1, BlocksAre
  <2>3. BytesBefore(g, j) = BytesBefore(f, j)
    BY <1>2, <2>1
  <2>4. /\ BytesBefore(g, j + 1) = BytesBefore(g, j) + Len(g.blocks[j].data)
        /\ BytesBefore(f, j + 1) = BytesBefore(f, j) + Len(f.blocks[j].data)
    BY <2>2, BeforeIs
  <2> QED BY <2>1, <2>3, <2>4
<1> HIDE DEF R
<1>3. \A i \in Nat : i \in R
  BY <1>1, <1>2, NatSet
<1> QED BY <1>3 DEF R

\* So does a file with the same data.
LEMMA SameSize ==
    ASSUME NEW f \in MemFiles, NEW g \in MemFiles, SameData(f, g)
    PROVE  /\ Size(g) = Size(f)
           /\ \A i \in 1 .. Len(f.blocks) + 1 : BytesBefore(g, i) = BytesBefore(f, i)
           /\ \A n : Counted(f, n) => Counted(g, n)
<1>1. Len(f.blocks) \in Nat /\ Len(g.blocks) = Len(f.blocks)
  BY BlocksAre DEF SameData
<1>2. \A i \in 1 .. Len(f.blocks) : Len(g.blocks[i].data) = Len(f.blocks[i].data)
  BY DEF SameData
<1>3. \A i \in 0 .. Len(f.blocks) : BytesBefore(g, i + 1) = BytesBefore(f, i + 1)
  BY <1>1, <1>2, SameBefore
<1>4. ASSUME NEW i \in 1 .. Len(f.blocks) + 1 PROVE BytesBefore(g, i) = BytesBefore(f, i)
  <2>1. i - 1 \in 0 .. Len(f.blocks) /\ i - 1 + 1 = i
    BY <1>1
  <2> QED BY <1>3, <2>1
<1>5. Size(g) = Size(f)
  BY <1>1, <1>3 DEF Size
<1> QED BY <1>4, <1>5 DEF Counted, SameData

---------------------------------------------------------------------------
(* Reading. *)

\* The block the next byte comes from is unread, or is not read to its end.
LEMMA ReadBlockIs ==
    ASSUME NEW f, Cursors(f), ReadBlock(f) <= Len(f.blocks)
    PROVE  /\ ReadBlock(f) \in 1 .. Len(f.blocks)
           /\ f.blocks[ReadBlock(f)].rd < Len(f.blocks[ReadBlock(f)].data)
           /\ f.readp <= ReadBlock(f)
<1> DEFINE i == ReadBlock(f)
<1>1. /\ Len(f.blocks) \in Nat /\ f.readp \in Nat
      /\ f.empty \in BOOLEAN /\ f.readp <= Len(f.blocks)
      /\ f.empty <=> /\ f.readp # 0
                     /\ f.blocks[f.readp].rd = Len(f.blocks[f.readp].data)
  BY BlocksAre DEF Cursors, MemFiles
<1>2. i = (IF f.readp = 0 THEN 1 ELSE f.readp) + (IF f.empty THEN 1 ELSE 0)
  BY DEF ReadBlock
<1> HIDE DEF i
<1>3. i \in 1 .. Len(f.blocks) /\ f.readp <= i
  BY <1>1, <1>2 DEF i
<1>4. /\ Len(f.blocks[i].data) \in 1 .. BlockSize /\ f.blocks[i].rd \in Nat
      /\ f.blocks[i].rd <= Len(f.blocks[i].data)
      /\ i > f.readp => f.blocks[i].rd = 0
  BY <1>3, BlocksAre DEF Cursors
<1>5. CASE i > f.readp
  <2>1. f.blocks[i].rd = 0 /\ Len(f.blocks[i].data) > 0
    BY <1>4, <1>5, MFileAssumption
  <2> QED BY <1>3, <2>1 DEF i
<1>6. CASE i = f.readp
  <2>1. ~f.empty /\ f.readp # 0
    BY <1>1, <1>2, <1>6
  <2> QED BY <1>1, <1>3, <1>4, <1>6, <2>1 DEF i
<1> QED BY <1>1, <1>3, <1>5, <1>6

\* A byte further the cursors still agree.
LEMMA StepKept ==
    ASSUME NEW f, Cursors(f), ReadBlock(f) <= Len(f.blocks)
    PROVE  /\ Cursors(Step(f, ReadBlock(f))) /\ SameData(f, Step(f, ReadBlock(f)))
           /\ ByteAt(f, ReadBlock(f)) \in AllBytes
           /\ Step(f, ReadBlock(f)).readp = ReadBlock(f)
           /\ Step(f, ReadBlock(f)).ccache = f.ccache
           /\ Step(f, ReadBlock(f)).blocks[ReadBlock(f)].rd = f.blocks[ReadBlock(f)].rd + 1
<1> DEFINE i == ReadBlock(f)
           b == f.blocks[i]
           g == Step(f, i)
<1>1. /\ i \in 1 .. Len(f.blocks) /\ b.rd < Len(b.data) /\ f.readp <= i
  BY ReadBlockIs
<1>2. f \in MemFiles /\ Len(f.blocks) \in Nat /\ f.blocks \in Seq(BlockType) /\ b \in BlockType
      /\ b.data \in Seq(AllBytes) /\ b.rd \in Nat
  BY <1>1, BlocksAre DEF Cursors
<1> HIDE DEF i
<1>3. g = [f EXCEPT !.readp = i, !.blocks[i].rd = @ + 1, !.empty = (b.rd + 1 = Len(b.data))]
  BY DEF Step
<1>4. /\ g.readp = i /\ g.empty = (b.rd + 1 = Len(b.data))
      /\ g.blocks = [f.blocks EXCEPT ![i] = [b EXCEPT !.rd = b.rd + 1]]
      /\ g.full = f.full /\ g.ccache = f.ccache /\ g.total = f.total /\ g.header = f.header
  BY <1>2 DEF MemFiles, Step
<1>5. /\ [b EXCEPT !.rd = b.rd + 1] \in BlockType
      /\ [b EXCEPT !.rd = b.rd + 1].rd = b.rd + 1
      /\ [b EXCEPT !.rd = b.rd + 1].data = b.data
  <2> HIDE DEF b
  <2>1. b = [data |-> b.data, rd |-> b.rd]
    BY <1>2 DEF BlockType
  <2>2. [b EXCEPT !.rd = b.rd + 1] = [data |-> b.data, rd |-> b.rd + 1]
    BY <2>1
  <2> QED BY <1>2, <2>2 DEF BlockType
<1>6. g.blocks \in Seq(BlockType) /\ Len(g.blocks) = Len(f.blocks)
  BY <1>1, <1>2, <1>4, <1>5
<1>7. g \in MemFiles
  <2>1. g = [blocks |-> g.blocks, full |-> g.full, empty |-> g.empty, readp |-> g.readp,
             ccache |-> g.ccache, total |-> g.total, header |-> g.header]
    BY <1>2, <1>3 DEF MemFiles
  <2>2. g.full \in BOOLEAN /\ g.empty \in BOOLEAN
    BY <1>2, <1>4 DEF MemFiles
  <2>3. /\ g.readp \in Nat /\ g.total \in Nat /\ g.header \in Nat
        /\ g.ccache \in AllBytes \cup {CR, LF, NUL, Junk}
    BY <1>1, <1>2, <1>4 DEF MemFiles
  <2> HIDE DEF g
  <2> QED BY <1>6, <2>1, <2>2, <2>3 DEF MemFiles
<1> HIDE DEF g
<1>8. /\ g.blocks[i].rd = b.rd + 1 /\ g.blocks[i].data = b.data
      /\ \A j \in 1 .. Len(f.blocks) : j # i => g.blocks[j] = f.blocks[j]
  <2> DEFINE c == [b EXCEPT !.rd = b.rd + 1]
             bs == f.blocks
  <2>1. c.rd = b.rd + 1 /\ c.data = b.data
    BY <1>5
  <2>2. g.blocks = [bs EXCEPT ![i] = c] /\ bs \in Seq(BlockType) /\ i \in 1 .. Len(bs)
    BY <1>1, <1>2, <1>4
  <2> HIDE DEF c, bs
  <2>3. g.blocks[i] = c
    BY <2>2
  <2>4. \A j \in 1 .. Len(bs) : j # i => g.blocks[j] = bs[j]
    BY <2>2
  <2> QED BY <2>1, <2>3, <2>4 DEF bs
<1> HIDE DEF b
<1>9. SameData(f, g)
  BY <1>4, <1>6, <1>8 DEF SameData, b
<1>10. Cursors(g)
  <2>1. ASSUME NEW j \in 1 .. Len(g.blocks)
        PROVE  /\ Len(g.blocks[j].data) \in 1 .. BlockSize
               /\ g.blocks[j].rd <= Len(g.blocks[j].data)
               /\ j > g.readp => g.blocks[j].rd = 0
    <3>1. CASE j = i
      <4>1. Len(b.data) \in 1 .. BlockSize
        BY <1>1 DEF Cursors, b
      <4> QED BY <1>1, <1>2, <1>4, <1>8, <3>1, <4>1
    <3>2. CASE j # i
      <4>1. g.blocks[j] = f.blocks[j] /\ j \in 1 .. Len(f.blocks)
        BY <1>6, <1>8, <3>2
      <4>2. /\ Len(f.blocks[j].data) \in 1 .. BlockSize
            /\ f.blocks[j].rd <= Len(f.blocks[j].data)
            /\ j > f.readp => f.blocks[j].rd = 0
        BY <4>1 DEF Cursors
      <4>3. j > i => j > f.readp
        BY <1>1, <1>2 DEF MemFiles
      <4> QED BY <1>4, <4>1, <4>2, <4>3
    <3> QED BY <3>1, <3>2
  <2>2. ~g.full => Len(g.blocks) > 0 /\ Len(g.blocks[Len(g.blocks)].data) < BlockSize
    <3> SUFFICES ASSUME ~g.full PROVE Len(g.blocks) > 0 /\ Len(g.blocks[Len(g.blocks)].data) < BlockSize
      OBVIOUS
    <3>1. Len(f.blocks) > 0 /\ Len(f.blocks[Len(f.blocks)].data) < BlockSize
      BY <1>4 DEF Cursors
    <3>2. Len(f.blocks) \in 1 .. Len(f.blocks)
      BY <1>2, <3>1
    <3> QED BY <1>6, <1>9, <3>1, <3>2 DEF SameData
  <2>3. g.empty <=> /\ g.readp # 0
                    /\ g.blocks[g.readp].rd = Len(g.blocks[g.readp].data)
    <3>1. g.readp = i /\ i # 0
      BY <1>1, <1>4
    <3>2. g.blocks[g.readp].rd = b.rd + 1 /\ g.blocks[g.readp].data = b.data
      BY <1>8, <3>1
    <3>3. g.empty <=> b.rd + 1 = Len(b.data)
      BY <1>4, Zenon
    <3> QED BY <3>1, <3>2, <3>3, Zenon
  <2>4. g.readp <= Len(g.blocks)
    BY <1>1, <1>4, <1>6
  <2> QED BY <1>7, <2>1, <2>2, <2>3, <2>4 DEF Cursors
<1>11. ByteAt(f, i) \in AllBytes
  <2>1. b.data[b.rd + 1] \in AllBytes
    <3>1. b.rd + 1 \in 1 .. Len(b.data)
      BY <1>1, <1>2
    <3> QED BY <1>2, <3>1
  <2> QED BY <1>1, <2>1 DEF ByteAt, b
<1>12. g.readp = i /\ g.ccache = f.ccache /\ g.blocks[i].rd = f.blocks[i].rd + 1
  BY <1>4, <1>8 DEF b
<1> QED BY <1>9, <1>10, <1>11, <1>12 DEF g, i

\* g is f read further.
Kept(f, g) == Cursors(g) /\ SameData(f, g)

\* Reading further and further is reading further.
LEMMA KeptTwice ==
    ASSUME NEW f, NEW g, NEW h, Kept(f, g), Kept(g, h)
    PROVE  Kept(f, h)
<1>1. \A i \in 1 .. Len(f.blocks) : i \in 1 .. Len(g.blocks)
  BY DEF Kept, SameData
<1> QED BY <1>1 DEF Kept, SameData

\* Not reading keeps everything.
LEMMA KeptItself ==
    ASSUME NEW f, Cursors(f)
    PROVE  Kept(f, f)
BY DEF Kept, SameData

\* What mgetc returns.
Char == AllBytes \cup {CR, LF, NUL, Junk}

\* mgetc needs no check of its own: in the block it takes there is a byte.
LEMMA GetcKept ==
    ASSUME NEW f, Cursors(f)
    PROVE  Kept(f, MGetc(f).f) /\ MGetc(f).c \in Char
<1>1. CASE ReadBlock(f) > Len(f.blocks)
  <2>1. MGetc(f).f = f /\ MGetc(f).c = NUL
    BY <1>1 DEF MGetc
  <2> QED BY <2>1, KeptItself DEF Char
<1>2. CASE ~(ReadBlock(f) > Len(f.blocks))
  <2>1. ReadBlock(f) \in Nat /\ Len(f.blocks) \in Nat
    BY BlocksAre DEF ReadBlock, Cursors, MemFiles
  <2>2. ReadBlock(f) <= Len(f.blocks)
    BY <1>2, <2>1
  <2>3. MGetc(f).f = Step(f, ReadBlock(f)) /\ MGetc(f).c = ByteAt(f, ReadBlock(f))
    BY <1>2 DEF MGetc
  <2> QED BY <2>2, <2>3, StepKept DEF Kept, Char
<1> QED BY <1>1, <1>2

\* What is read ahead has nothing to do with the cursors.
LEMMA CacheKept ==
    ASSUME NEW f, Cursors(f), NEW c \in Char
    PROVE  Kept(f, [f EXCEPT !.ccache = c])
<1> DEFINE g == [f EXCEPT !.ccache = c]
<1>1. f \in MemFiles
  BY DEF Cursors
<1>2. /\ g.blocks = f.blocks /\ g.full = f.full /\ g.empty = f.empty /\ g.readp = f.readp
      /\ g.total = f.total /\ g \in MemFiles
  BY <1>1 DEF MemFiles, Char
<1> HIDE DEF g
<1>3. Cursors(g) /\ SameData(f, g)
  BY <1>2 DEF Cursors, SameData
<1> QED BY <1>3 DEF Kept, g

\* One turn of mread.
ReadTurn(x) ==
    LET i == ReadBlock(x.f)
    IN  IF i > Len(x.f.blocks) \/ x.f.blocks[i].rd >= Len(x.f.blocks[i].data)
        THEN x
        ELSE [f |-> Step(x.f, i), out |-> Append(x.out, ByteAt(x.f, i))]

\* F has what mread comes to, turn by turn.
Reads(F, f, n) ==
    /\ MRead(f, n) = F[n]
    /\ F[0] = [f |-> f, out |-> <<>>]
    /\ \A k \in 1 .. n : F[k] = ReadTurn(F[k - 1])

\* mread, byte by byte.
LEMMA ReadKept ==
    ASSUME NEW f, Cursors(f), NEW n \in Nat
    PROVE  /\ Kept(f, MRead(f, n).f) /\ MRead(f, n).out \in Seq(AllBytes)
           /\ \E F : Reads(F, f, n)
<1> DEFINE first == [f |-> f, out |-> <<>>]
           S     == {x \in [f : MemFiles, out : Seq(AllBytes)] : Kept(f, x.f)}
           Turn(x) ==
             LET i == ReadBlock(x.f)
             IN  IF i > Len(x.f.blocks) \/ x.f.blocks[i].rd >= Len(x.f.blocks[i].data)
                 THEN x
                 ELSE [f |-> Step(x.f, i), out |-> Append(x.out, ByteAt(x.f, i))]
           Is(F) == F = [k \in 0 .. n |-> IF k = 0 THEN first ELSE Turn(F[k - 1])]
           Some == CHOOSE F : Is(F)
           G == [x \in (1 .. n) \X S |-> Turn(x[2])]
<1>1. first \in S
  BY KeptItself DEF Cursors
<1>2. ASSUME NEW x \in S PROVE Turn(x) \in S
  <2> DEFINE i == ReadBlock(x.f)
  <2>1. x \in [f : MemFiles, out : Seq(AllBytes)] /\ Kept(f, x.f) /\ Cursors(x.f)
    BY DEF Kept
  <2>2. i \in Nat /\ Len(x.f.blocks) \in Nat
    BY <2>1, BlocksAre DEF ReadBlock, MemFiles
  <2>3. CASE i > Len(x.f.blocks) \/ x.f.blocks[i].rd >= Len(x.f.blocks[i].data)
    BY <2>3
  <2>4. CASE ~(i > Len(x.f.blocks) \/ x.f.blocks[i].rd >= Len(x.f.blocks[i].data))
    <3>1. Cursors(Step(x.f, i)) /\ SameData(x.f, Step(x.f, i)) /\ ByteAt(x.f, i) \in AllBytes
      BY <2>1, <2>2, <2>4, StepKept
    <3>2. Kept(f, Step(x.f, i)) /\ Step(x.f, i) \in MemFiles
      BY <2>1, <3>1, KeptTwice DEF Kept, Cursors
    <3>3. Append(x.out, ByteAt(x.f, i)) \in Seq(AllBytes)
      BY <2>1, <3>1
    <3>4. Turn(x) = [f |-> Step(x.f, i), out |-> Append(x.out, ByteAt(x.f, i))]
      BY <2>4
    <3> QED BY <3>2, <3>3, <3>4
  <2> QED BY <2>3, <2>4
<1>3. MRead(f, n) = Some[n]
  BY DEF MRead
<1> HIDE DEF S, Turn, first, Some
<1>4. ASSUME NEW k \in 1 .. n, NEW x \in S PROVE G[<<k, x>>] = Turn(x)
  OBVIOUS
<1> HIDE DEF G
<1>5. PICK F : Iteration(F, first, n, G, S)
  BY <1>1, <1>2, <1>4, Iterates
<1>6. /\ F[0] = first /\ \A k \in 0 .. n : F[k] \in S
      /\ \A k \in 1 .. n : F[k] = G[<<k, F[k - 1]>>] /\ F[k - 1] \in S
      /\ F = [k \in 0 .. n |-> F[k]]
  BY <1>5 DEF Iteration
<1>7. \A k \in 0 .. n : F[k] = IF k = 0 THEN first ELSE Turn(F[k - 1])
  <2>1. ASSUME NEW k \in 1 .. n PROVE F[k] = Turn(F[k - 1])
    BY <1>4, <1>6
  <2>2. \A k \in 0 .. n : k = 0 \/ (k # 0 /\ k \in 1 .. n)
    OBVIOUS
  <2> QED BY <1>6, <2>1, <2>2, Zenon
<1>8. Is(F)
  BY <1>6, <1>7
<1>9. Is(Some)
  <2> HIDE DEF Is
  <2> QED BY <1>8 DEF Some
<1>10. Some[0] = first /\ \A k \in 1 .. n : Some[k] = Turn(Some[k - 1])
  <2>1. 0 \in 0 .. n /\ \A k \in 1 .. n : k \in 0 .. n /\ k # 0
    OBVIOUS
  <2> QED BY <1>9, <2>1
<1>11. Some[n] \in S
  <2>1. \A k \in 1 .. n : Some[k - 1] \in S => Some[k] \in S
    BY <1>2, <1>10
  <2> QED BY <1>1, <1>10, <2>1, PassedOn
<1>12. Reads(Some, f, n)
  BY <1>3, <1>10, Zenon DEF Reads, ReadTurn, Turn, first
<1> QED BY <1>3, <1>11, <1>12 DEF S

\* One turn of mread_line.
LineTurn(s) ==
    LET g == NextChar(s.f)
        p == MGetc(g.f)
        End(file_, bytes) == [f |-> file_, out |-> s.out \o bytes, done |-> TRUE]
    IN  CASE s.done    -> s
          [] ~s.done /\ g.c = CR ->
               End([p.f EXCEPT !.ccache = p.c],
                   IF p.c \in {LF, NUL} THEN <<CR, LF>> ELSE <<CR>>)
          [] ~s.done /\ g.c = LF  -> End(g.f, <<LF>>)
          [] ~s.done /\ g.c = NUL -> End(g.f, <<>>)
          [] OTHER -> [f |-> g.f, out |-> Append(s.out, g.c), done |-> FALSE]

\* F has what mread_line comes to, turn by turn.
ReadsLineBy(F, f, room) ==
    /\ MReadLine(f, room) = [f   |-> F[room - 2].f,
                             out |-> IF F[room - 2].done THEN F[room - 2].out ELSE <<>>]
    /\ F[0] = [f |-> f, out |-> <<>>, done |-> FALSE]
    /\ \A k \in 1 .. room - 2 : F[k] = LineTurn(F[k - 1])

\* mread_line, whatever is in its way; and mread's turns and its own do not
\* depend on what was read ahead.
LEMMA LineKept ==
    ASSUME NEW f, Cursors(f), NEW room \in Nat, room > 2
    PROVE  Kept(f, MReadLine(f, room).f) /\ \E F : ReadsLineBy(F, f, room)
<1> DEFINE n     == room - 2
           first == [f |-> f, out |-> <<>>, done |-> FALSE]
           S     == {x \in [f : MemFiles, out : Seq(Char), done : BOOLEAN] : Kept(f, x.f)}
           Turn(s) ==
             LET g == NextChar(s.f)
                 p == MGetc(g.f)
                 End(file_, bytes) == [f |-> file_, out |-> s.out \o bytes, done |-> TRUE]
             IN  CASE s.done    -> s
                   [] ~s.done /\ g.c = CR ->
                        End([p.f EXCEPT !.ccache = p.c],
                            IF p.c \in {LF, NUL} THEN <<CR, LF>> ELSE <<CR>>)
                   [] ~s.done /\ g.c = LF  -> End(g.f, <<LF>>)
                   [] ~s.done /\ g.c = NUL -> End(g.f, <<>>)
                   [] OTHER -> [f |-> g.f, out |-> Append(s.out, g.c), done |-> FALSE]
           Is(F) == F = [k \in 0 .. n |-> IF k = 0 THEN first ELSE Turn(F[k - 1])]
           Some == CHOOSE F : Is(F)
           G == [x \in (1 .. n) \X S |-> Turn(x[2])]
<1>1. first \in S
  BY KeptItself DEF Cursors
<1>2. ASSUME NEW x \in S PROVE Turn(x) \in S
  <2> DEFINE g == NextChar(x.f)
             p == MGetc(g.f)
             more == [p.f EXCEPT !.ccache = p.c]
  <2>1. x \in [f : MemFiles, out : Seq(Char), done : BOOLEAN] /\ Kept(f, x.f) /\ Cursors(x.f)
    BY DEF Kept
  <2>2. Kept(x.f, g.f) /\ g.c \in Char
    <3>1. CASE x.f.ccache = LF
      BY <2>1, <3>1, GetcKept DEF NextChar
    <3>2. CASE x.f.ccache # LF
      <4>1. g.f = [x.f EXCEPT !.ccache = CR] /\ g.c = x.f.ccache
        BY <3>2 DEF NextChar
      <4>2. CR \in Char /\ x.f.ccache \in Char
        BY <2>1 DEF Char, MemFiles
      <4> QED BY <2>1, <4>1, <4>2, CacheKept
    <3> QED BY <3>1, <3>2
  <2> HIDE DEF g
  <2>3. Kept(g.f, p.f) /\ p.c \in Char
    BY <2>2, GetcKept DEF Kept
  <2> HIDE DEF p
  <2>4. Kept(p.f, more)
    BY <2>3, CacheKept DEF Kept
  <2> HIDE DEF more
  <2>5. Kept(f, g.f) /\ Kept(f, more)
    BY <2>1, <2>2, <2>3, <2>4, KeptTwice
  <2>6. g.f \in MemFiles /\ more \in MemFiles
    BY <2>5 DEF Kept, Cursors
  <2>7. /\ Turn(x) \in {x, [f |-> more, out |-> x.out \o <<CR, LF>>, done |-> TRUE],
                        [f |-> more, out |-> x.out \o <<CR>>, done |-> TRUE],
                        [f |-> g.f, out |-> x.out \o <<LF>>, done |-> TRUE],
                        [f |-> g.f, out |-> x.out \o <<>>, done |-> TRUE],
                        [f |-> g.f, out |-> Append(x.out, g.c), done |-> FALSE]}
    <3>1. CASE x.done
      BY <3>1
    <3>2. CASE ~x.done /\ g.c = CR
      BY <3>2, MFileAssumption DEF g, p, more
    <3>3. CASE ~x.done /\ g.c = LF
      BY <3>3, MFileAssumption DEF g, p, more
    <3>4. CASE ~x.done /\ g.c = NUL
      BY <3>4, MFileAssumption DEF g, p, more
    <3>5. CASE ~x.done /\ g.c \notin {CR, LF, NUL}
      BY <3>5 DEF g, p, more
    <3> QED BY <2>1, <3>1, <3>2, <3>3, <3>4, <3>5
  <2>8. /\ x.out \o <<CR, LF>> \in Seq(Char) /\ x.out \o <<CR>> \in Seq(Char)
        /\ x.out \o <<LF>> \in Seq(Char) /\ x.out \o <<>> \in Seq(Char)
        /\ Append(x.out, g.c) \in Seq(Char)
    <3>1. <<CR, LF>> \in Seq(Char) /\ <<CR>> \in Seq(Char) /\ <<LF>> \in Seq(Char)
          /\ <<>> \in Seq(Char)
      BY DEF Char
    <3> QED BY <2>1, <2>2, <3>1
  <2> HIDE DEF Turn
  <2>9. ASSUME NEW o \in Seq(Char), NEW b \in BOOLEAN
        PROVE  [f |-> g.f, out |-> o, done |-> b] \in S /\ [f |-> more, out |-> o, done |-> b] \in S
    BY <2>5, <2>6
  <2> HIDE DEF S
  <2> QED BY <2>7, <2>8, <2>9
<1>3. MReadLine(f, room) = [f |-> Some[n].f, out |-> IF Some[n].done THEN Some[n].out ELSE <<>>]
  BY DEF MReadLine
<1>4. n \in Nat
  OBVIOUS
<1> HIDE DEF S, Turn, first, Some, n
<1>5. ASSUME NEW k \in 1 .. n, NEW x \in S PROVE G[<<k, x>>] = Turn(x)
  OBVIOUS
<1> HIDE DEF G
<1>6. PICK F : Iteration(F, first, n, G, S)
  BY <1>1, <1>2, <1>4, <1>5, Iterates
<1>7. /\ F[0] = first /\ \A k \in 0 .. n : F[k] \in S
      /\ \A k \in 1 .. n : F[k] = G[<<k, F[k - 1]>>] /\ F[k - 1] \in S
      /\ F = [k \in 0 .. n |-> F[k]]
  BY <1>4, <1>6 DEF Iteration
<1>8. \A k \in 0 .. n : F[k] = IF k = 0 THEN first ELSE Turn(F[k - 1])
  <2>1. ASSUME NEW k \in 1 .. n PROVE F[k] = Turn(F[k - 1])
    BY <1>5, <1>7
  <2>2. \A k \in 0 .. n : k = 0 \/ (k # 0 /\ k \in 1 .. n)
    BY <1>4
  <2> QED BY <1>7, <2>1, <2>2, Zenon
<1>9. Is(F)
  BY <1>7, <1>8
<1>10. Is(Some)
  <2> HIDE DEF Is
  <2> QED BY <1>9 DEF Some
<1>11. Some[0] = first /\ \A k \in 1 .. n : Some[k] = Turn(Some[k - 1])
  <2>1. 0 \in 0 .. n /\ \A k \in 1 .. n : k \in 0 .. n /\ k # 0
    BY <1>4
  <2> QED BY <1>10, <2>1
<1>12. Some[n] \in S
  <2>1. \A k \in 1 .. n : Some[k - 1] \in S => Some[k] \in S
    BY <1>2, <1>11
  <2>2. n \in 0 .. n
    BY <1>4
  <2> QED BY <1>1, <1>4, <1>11, <2>1, <2>2, PassedOn
<1>13. ReadsLineBy(Some, f, room)
  BY <1>3, <1>11, Zenon DEF ReadsLineBy, LineTurn, Turn, first, n
<1>14. MReadLine(f, room).f = Some[n].f
  BY <1>3
<1> QED BY <1>12, <1>13, <1>14 DEF S

\* mseek.
LEMMA SeekKept ==
    ASSUME NEW f, Cursors(f)
    PROVE  /\ Kept(f, MSeek(f)) /\ MSeek(f).readp = 0 /\ ~MSeek(f).empty
           /\ \A i \in 1 .. Len(f.blocks) : MSeek(f).blocks[i].rd = 0
<1> DEFINE g == MSeek(f)
           n == Len(f.blocks)
<1>1. /\ f \in MemFiles /\ f.blocks \in Seq(BlockType) /\ n \in Nat
      /\ \A i \in 1 .. n : f.blocks[i] \in BlockType
  BY BlocksAre DEF Cursors
<1> DEFINE nb == [i \in 1 .. n |-> [f.blocks[i] EXCEPT !.rd = 0]]
<1>2. g = [f EXCEPT !.empty = FALSE, !.readp = 0, !.blocks = nb]
  BY DEF MSeek
<1> HIDE DEF g
<1>3. ASSUME NEW i \in 1 .. n
      PROVE  /\ [f.blocks[i] EXCEPT !.rd = 0] \in BlockType
             /\ [f.blocks[i] EXCEPT !.rd = 0].rd = 0
             /\ [f.blocks[i] EXCEPT !.rd = 0].data = f.blocks[i].data
  <2> DEFINE b == f.blocks[i]
  <2>1. b \in BlockType
    BY <1>1
  <2> HIDE DEF b
  <2>2. [b EXCEPT !.rd = 0] \in BlockType /\ [b EXCEPT !.rd = 0].rd = 0
        /\ [b EXCEPT !.rd = 0].data = b.data
    BY <2>1 DEF BlockType
  <2> QED BY <2>2 DEF b
<1>4. /\ nb \in Seq(BlockType) /\ Len(nb) = n
      /\ \A i \in 1 .. n : nb[i].rd = 0 /\ nb[i].data = f.blocks[i].data
  BY <1>1, <1>3
<1> HIDE DEF nb
<1>5. /\ g \in MemFiles /\ g.blocks = nb /\ g.full = f.full /\ g.empty = FALSE
      /\ g.readp = 0 /\ g.total = f.total
  BY <1>1, <1>2, <1>4 DEF MemFiles
<1>6. SameData(f, g)
  BY <1>4, <1>5 DEF SameData
<1>7. Cursors(g)
  <2>1. ASSUME NEW i \in 1 .. Len(g.blocks)
        PROVE  Len(g.blocks[i].data) \in 1 .. BlockSize /\ g.blocks[i].rd <= Len(g.blocks[i].data)
    <3>1. Len(f.blocks[i].data) \in 1 .. BlockSize /\ i \in 1 .. n
      BY <1>4, <1>5 DEF Cursors
    <3> QED BY <1>4, <1>5, <3>1, MFileAssumption
  <2>2. ~g.full => Len(g.blocks) > 0 /\ Len(g.blocks[Len(g.blocks)].data) < BlockSize
    <3> SUFFICES ASSUME ~g.full
                 PROVE  Len(g.blocks) > 0 /\ Len(g.blocks[Len(g.blocks)].data) < BlockSize
      OBVIOUS
    <3>1. n > 0 /\ Len(f.blocks[n].data) < BlockSize
      BY <1>5 DEF Cursors
    <3>2. n \in 1 .. n
      BY <1>1, <3>1
    <3> QED BY <1>4, <1>5, <3>1, <3>2
  <2> QED BY <1>1, <1>4, <1>5, <2>1, <2>2 DEF Cursors
<1> QED BY <1>4, <1>5, <1>6, <1>7 DEF Kept, g

\* mseek_pos: the block it chooses has the place, and a byte behind it.
LEMMA SeekPosKept ==
    ASSUME NEW f, Cursors(f), NEW p \in Nat, CarefulSeek(f, p)
    PROVE  Kept(f, MSeekPos(f, p)) /\ PosOf(MSeekPos(f, p)) = p
<1> DEFINE g    == MSeek(f)
           n    == Len(f.blocks)
           hits == {i \in 1 .. Len(g.blocks) : p <= BytesBefore(g, i + 1)}
           i    == CHOOSE j \in hits : \A k \in hits : j <= k
           h    == [g EXCEPT !.readp = i, !.blocks[i].rd = p - BytesBefore(g, i)]
<1>1. /\ Kept(f, g) /\ g.readp = 0 /\ g.empty = FALSE
      /\ \A j \in 1 .. n : g.blocks[j].rd = 0
      /\ f \in MemFiles /\ g \in MemFiles /\ Len(g.blocks) = n /\ n \in Nat
  <2>1. g.empty \in BOOLEAN
    BY SeekKept DEF Kept, Cursors, MemFiles
  <2> QED BY <2>1, SeekKept, BlocksAre DEF Kept, Cursors, SameData
<1>2. MSeekPos(f, p) = IF hits = {} THEN g ELSE h
  BY DEF MSeekPos
<1> HIDE DEF g
<1>3. CASE hits = {}
  <2>1. MSeekPos(f, p) = g
    BY <1>2, <1>3
  <2>2. n \notin hits
    BY <1>3
  <2>3. p <= BytesBefore(g, n + 1)
    <3>1. p <= Size(f)
      BY <1>1, BytesAre DEF CarefulSeek
    <3>2. Size(g) = Size(f)
      BY <1>1, SameSize DEF Kept
    <3> QED BY <1>1, <3>1, <3>2 DEF Size
  <2>4. n = 0
    BY <1>1, <2>2, <2>3
  <2>5. p = 0
    <3>1. BytesBefore(g, n + 1) = 0
      BY <1>1, <2>4, BeforeIs
    <3> QED BY <2>3, <3>1
  <2>6. PosOf(g) = 0
    BY <1>1 DEF PosOf
  <2> QED BY <1>1, <2>1, <2>5, <2>6
<1>4. CASE hits # {}
  <2>1. /\ i \in hits /\ \A k \in hits : i <= k
    <3>1. hits \subseteq Nat
      OBVIOUS
    <3> HIDE DEF hits
    <3>2. \E j \in hits : \A k \in hits : j <= k
      BY <1>4, <3>1, LeastOf
    <3> QED BY <3>2
  <2> HIDE DEF i, h
  <2>2. i \in 1 .. n /\ p <= BytesBefore(g, i + 1)
    BY <1>1, <2>1
  <2> DEFINE b == g.blocks[i]
             r == p - BytesBefore(g, i)
  <2>3. /\ b \in BlockType /\ b.data \in Seq(AllBytes) /\ Len(b.data) \in 1 .. BlockSize
        /\ g.blocks \in Seq(BlockType)
    BY <1>1, <2>2, BlocksAre DEF Kept, Cursors
  <2>4. r \in Nat /\ r < Len(b.data)
    <3>1. BytesBefore(g, i) \in Nat /\ BytesBefore(g, i + 1) = BytesBefore(g, i) + Len(b.data)
      BY <1>1, <2>2, BeforeIs
    <3>2. p # BytesBefore(g, i + 1)
      <4>1. BytesBefore(g, i + 1) = BytesBefore(f, i + 1)
        <5>1. i + 1 \in 1 .. Len(f.blocks) + 1
          BY <1>1, <2>2
        <5> QED BY <1>1, <5>1, SameSize DEF Kept
      <4> QED BY <2>2, <4>1 DEF CarefulSeek
    <3>3. p >= BytesBefore(g, i)
      <4>1. CASE i = 1
        BY <1>1, <4>1, BeforeIs
      <4>2. CASE i # 1
        <5>1. PICK j \in 1 .. n : i = j + 1
          BY <1>1, <2>2, <4>2
        <5>2. j \notin hits
          BY <2>1, <5>1
        <5>3. ~(p <= BytesBefore(g, j + 1))
          BY <1>1, <5>1, <5>2
        <5> QED BY <3>1, <5>1, <5>3
      <4> QED BY <4>1, <4>2
    <3> DEFINE x == BytesBefore(g, i)
               y == BytesBefore(g, i + 1)
               l == Len(b.data)
    <3>4. x \in Nat /\ l \in Nat /\ y = x + l /\ p <= y /\ p # y /\ p >= x
      BY <2>2, <2>3, <3>1, <3>2, <3>3, MFileAssumption
    <3> HIDE DEF x, y, l
    <3>5. p - x \in Nat /\ p - x < l
      BY <3>4
    <3> QED BY <3>5 DEF x, l
  <2> HIDE DEF r, hits
  <2>5. /\ [b EXCEPT !.rd = r] \in BlockType /\ [b EXCEPT !.rd = r].rd = r
        /\ [b EXCEPT !.rd = r].data = b.data
    <3> HIDE DEF b
    <3> QED BY <2>3, <2>4 DEF BlockType
  <2> DEFINE nb == [g.blocks EXCEPT ![i] = [b EXCEPT !.rd = r]]
  <2>6. h = [g EXCEPT !.readp = i, !.blocks = nb]
    BY <1>1 DEF h, r, MemFiles
  <2>7. nb \in Seq(BlockType) /\ Len(nb) = n
    BY <1>1, <2>2, <2>3, <2>5
  <2>8. /\ nb[i].rd = r /\ nb[i].data = b.data
        /\ \A j \in 1 .. n : j # i => nb[j] = g.blocks[j]
    BY <1>1, <2>2, <2>3, <2>5
  <2> HIDE DEF nb
  <2>9. /\ h \in MemFiles /\ h.blocks = nb /\ h.full = g.full /\ h.empty = FALSE
        /\ h.readp = i /\ h.total = g.total
    <3>1. i \in Nat
      BY <2>2
    <3> QED BY <1>1, <2>6, <2>7, <3>1 DEF MemFiles
  <2>10. SameData(g, h)
    BY <1>1, <2>9, <2>7, <2>8 DEF SameData
  <2>11. Cursors(h)
    <3>1. ASSUME NEW j \in 1 .. Len(h.blocks)
          PROVE  /\ Len(h.blocks[j].data) \in 1 .. BlockSize
                 /\ h.blocks[j].rd <= Len(h.blocks[j].data)
                 /\ j > h.readp => h.blocks[j].rd = 0
      <4>1. j \in 1 .. n /\ Len(g.blocks[j].data) \in 1 .. BlockSize /\ g.blocks[j].rd = 0
        BY <1>1, <2>7, <2>9 DEF Kept, Cursors
      <4>2. CASE j = i
        BY <2>3, <2>4, <2>8, <2>9, <4>2
      <4>3. CASE j # i
        BY <2>8, <2>9, <4>1, <4>3, MFileAssumption
      <4> QED BY <4>2, <4>3
    <3>2. ~h.full => Len(h.blocks) > 0 /\ Len(h.blocks[Len(h.blocks)].data) < BlockSize
      <4> SUFFICES ASSUME ~h.full
                   PROVE  Len(h.blocks) > 0 /\ Len(h.blocks[Len(h.blocks)].data) < BlockSize
        OBVIOUS
      <4>1. n > 0 /\ Len(g.blocks[n].data) < BlockSize
        BY <1>1, <2>9 DEF Kept, Cursors
      <4>2. n \in 1 .. n
        BY <1>1, <4>1
      <4> QED BY <1>1, <2>7, <2>9, <2>10, <4>1, <4>2 DEF SameData
    <3>3. h.empty = FALSE /\ h.blocks[h.readp].rd # Len(h.blocks[h.readp].data)
      BY <2>3, <2>4, <2>8, <2>9
    <3>4. h.readp <= Len(h.blocks)
      BY <1>1, <2>2, <2>7, <2>9
    <3> QED BY <2>9, <3>1, <3>2, <3>3, <3>4 DEF Cursors
  <2>12. Kept(f, h)
    BY <1>1, <2>10, <2>11, KeptTwice DEF Kept
  <2>13. PosOf(h) = p
    <3>1. BytesBefore(h, i) = BytesBefore(g, i) /\ BytesBefore(g, i) \in Nat
      <4>1. i \in 1 .. Len(g.blocks) + 1
        BY <1>1, <2>2
      <4>2. BytesBefore(h, i) = BytesBefore(g, i)
        BY <1>1, <2>9, <2>10, <4>1, SameSize
      <4> QED BY <1>1, <4>1, <4>2, BeforeIs
    <3>2. h.readp = i /\ i # 0 /\ h.blocks[i].rd = r
      BY <2>2, <2>8, <2>9
    <3>3. PosOf(h) = BytesBefore(g, i) + r
      BY <3>1, <3>2 DEF PosOf
    <3>4. PICK u : u = BytesBefore(g, i)
      OBVIOUS
    <3>5. r = p - u
      BY <3>4 DEF r
    <3> QED BY <3>1, <3>3, <3>4, <3>5
  <2> QED BY <1>2, <1>4, <2>12, <2>13 DEF h, i
<1> QED BY <1>3, <1>4

---------------------------------------------------------------------------
(* Writing. *)

\* Where the i-th of the blocks for n more bytes ends.
FreshEnd(i, n) == IF i * BlockSize < n THEN i * BlockSize ELSE n

\* n more bytes need m blocks, and the last of them holds some of the bytes.
LEMMA FreshEnds ==
    ASSUME NEW n \in Nat, NEW m, m = (n + BlockSize - 1) \div BlockSize
    PROVE  /\ m \in Nat /\ n <= m * BlockSize /\ (m = 0 <=> n = 0)
           /\ \A k \in 1 .. m : /\ (k - 1) * BlockSize \in Nat /\ (k - 1) * BlockSize < n
                                /\ k * BlockSize = (k - 1) * BlockSize + BlockSize
<1>1. BlockSize \in Nat \ {0}
  BY MFileAssumption
<1> QED BY <1>1, PiecesOf

\* The i-th of the blocks that mwrite adds, as MWrite has it.
FreshBlock(d, h, left, i) ==
    Block(SubSeq(d, h + (i - 1) * BlockSize + 1,
                 IF i * BlockSize < left THEN h + i * BlockSize ELSE Len(d)))

\* x is the part of d behind e bytes, as long as x is.
PartOf(x, d, e) == \A j \in 1 .. Len(x) : x[j] = d[e + j]

\* The blocks that mwrite adds for what is left of d behind h bytes.
LEMMA FreshBlocks ==
    ASSUME NEW d \in Seq(AllBytes), NEW h \in 0 .. Len(d), NEW left, left = Len(d) - h,
           NEW m, m = (left + BlockSize - 1) \div BlockSize, NEW s,
           s = [i \in 1 .. m |-> FreshBlock(d, h, left, i)]
    PROVE  /\ m \in Nat /\ (m = 0 <=> left = 0) /\ s \in Seq(BlockType) /\ Len(s) = m
           /\ FreshEnd(0, left) = 0 /\ FreshEnd(m, left) = left
           /\ \A i \in 0 .. m : FreshEnd(i, left) \in Nat /\ FreshEnd(i, left) <= left
           /\ \A i \in 1 .. m : /\ s[i].rd = 0 /\ Len(s[i].data) \in 1 .. BlockSize
                                /\ FreshEnd(i, left) = FreshEnd(i - 1, left) + Len(s[i].data)
                                /\ PartOf(s[i].data, d, h + FreshEnd(i - 1, left))
<1>1. left \in Nat /\ BlockSize \in Nat \ {0} /\ Len(d) = h + left /\ h \in Nat
  BY MFileAssumption
<1>2. /\ m \in Nat /\ left <= m * BlockSize /\ (m = 0 <=> left = 0)
      /\ \A k \in 1 .. m : /\ (k - 1) * BlockSize \in Nat /\ (k - 1) * BlockSize < left
                           /\ k * BlockSize = (k - 1) * BlockSize + BlockSize
  BY <1>1, FreshEnds, Zenon
<1>3. /\ \A i \in 0 .. m : i * BlockSize \in Nat
      /\ 0 * BlockSize = 0
  BY <1>1, <1>2
<1>4. ASSUME NEW i \in 1 .. m
      PROVE  /\ s[i] \in BlockType /\ s[i].rd = 0 /\ Len(s[i].data) \in 1 .. BlockSize
             /\ FreshEnd(i, left) = FreshEnd(i - 1, left) + Len(s[i].data)
             /\ PartOf(s[i].data, d, h + FreshEnd(i - 1, left))
  <2> DEFINE x == (i - 1) * BlockSize
             y == i * BlockSize
             a == h + x + 1
             b == IF y < left THEN h + y ELSE Len(d)
  <2>1. x \in Nat /\ x < left /\ y = x + BlockSize
    BY <1>2
  <2>2. s[i] = Block(SubSeq(d, a, b))
    BY DEF FreshBlock
  <2>3. FreshEnd(i, left) = (IF y < left THEN y ELSE left) /\ FreshEnd(i - 1, left) = x
    <3>1. (i - 1) * BlockSize < left
      BY <2>1
    <3> QED BY <3>1 DEF FreshEnd
  <2> HIDE DEF x, y
  <2>4. a \in 1 .. Len(d) /\ b \in 1 .. Len(d) /\ b - a + 1 \in 1 .. BlockSize
        /\ (IF y < left THEN y ELSE left) = x + (b - a + 1)
    BY <1>1, <2>1
  <2>7. \A j \in Int : a + j - 1 = h + x + j
    BY <1>1, <2>1
  <2> HIDE DEF a, b
  <2>5. /\ SubSeq(d, a, b) \in Seq(AllBytes) /\ Len(SubSeq(d, a, b)) = b - a + 1
        /\ PartOf(SubSeq(d, a, b), d, h + x)
    <3>1. a <= b
      BY <1>1, <2>4
    <3> DEFINE q == SubSeq(d, a, b)
    <3>2. a \in Int /\ b \in Int /\ \A j \in a .. b : d[j] \in AllBytes
      BY <2>4
    <3>3. /\ q \in Seq(AllBytes) /\ Len(q) = IF a <= b THEN b - a + 1 ELSE 0
          /\ \A j \in 1 .. b - a + 1 : q[j] = d[a + j - 1]
      BY <3>2, SubSeqProperties
    <3> HIDE DEF q
    <3>4. Len(q) = b - a + 1
      BY <3>1, <3>3
    <3>5. \A j \in 1 .. b - a + 1 : j \in Int
      OBVIOUS
    <3>6. PartOf(q, d, h + x)
      BY <2>7, <3>3, <3>4, <3>5, Zenon DEF PartOf
    <3> QED BY <3>3, <3>4, <3>6 DEF q
  <2>6. s[i].data = SubSeq(d, a, b) /\ s[i].rd = 0 /\ s[i] \in BlockType
    <3> DEFINE q == SubSeq(d, a, b)
    <3>1. s[i] = Block(q) /\ q \in Seq(AllBytes)
      BY <2>2, <2>5
    <3> HIDE DEF q
    <3>2. Block(q).data = q /\ Block(q).rd = 0 /\ Block(q) \in BlockType
      BY <3>1 DEF Block, BlockType
    <3> QED BY <3>1, <3>2 DEF q
  <2> QED BY <2>3, <2>4, <2>5, <2>6
<1>5. s \in Seq(BlockType) /\ Len(s) = m
  <2>1. s = [i \in 1 .. m |-> s[i]] /\ m \in Nat
    BY <1>2
  <2>2. \A i \in 1 .. m : s[i] \in BlockType
    BY <1>4
  <2>3. s \in [1 .. m -> BlockType]
    <3>1. ASSUME NEW F, F = [i \in 1 .. m |-> F[i]], \A i \in 1 .. m : F[i] \in BlockType
          PROVE  F \in [1 .. m -> BlockType]
      BY <3>1
    <3> QED BY <2>1, <2>2, <3>1
  <2> QED BY <2>1, <2>3
<1>6. FreshEnd(0, left) = 0 /\ FreshEnd(m, left) = left
  BY <1>1, <1>2, <1>3 DEF FreshEnd
<1>7. \A i \in 0 .. m : FreshEnd(i, left) \in Nat /\ FreshEnd(i, left) <= left
  BY <1>1, <1>3 DEF FreshEnd
<1> QED BY <1>2, <1>4, <1>5, <1>6, <1>7

\* mwrite.  The new bytes may make the reader's block longer: it must not be
\* marked as empty then.
LEMMA WriteKept ==
    ASSUME NEW f, Cursors(f), NEW d \in Seq(AllBytes), d # <<>>, CarefulWrite(f)
    PROVE  /\ Cursors(MWrite(f, d)) /\ Size(MWrite(f, d)) = Size(f) + Len(d)
           /\ MWrite(f, d).total = f.total + Len(d) /\ MWrite(f, d).empty = f.empty
           /\ Bytes(MWrite(f, d)) = Bytes(f) \o d /\ PosOf(MWrite(f, d)) = PosOf(f)
<1> DEFINE n     == Len(f.blocks)
           room  == IF f.full THEN 0 ELSE BlockSize - Len(f.blocks[n].data)
           h     == IF room < Len(d) THEN room ELSE Len(d)
           here  == SubSeq(d, 1, h)
           left  == Len(d) - Len(here)
           m     == (left + BlockSize - 1) \div BlockSize
           fresh == [i \in 1 .. m |-> FreshBlock(d, Len(here), left, i)]
           old   == IF here = <<>> THEN f.blocks
                    ELSE [f.blocks EXCEPT ![n].data = @ \o here]
           all   == old \o fresh
           fu    == (Len(all[Len(all)].data) = BlockSize)
           g     == [f EXCEPT !.blocks = all, !.full = fu, !.total = @ + Len(d)]
<1>1. MWrite(f, d) = g
  BY DEF MWrite, FreshBlock
<1>2. /\ f \in MemFiles /\ n \in Nat /\ f.blocks \in Seq(BlockType) /\ Len(d) \in Nat \ {0}
      /\ f.full \in BOOLEAN /\ BlockSize \in Nat \ {0}
      /\ \A i \in 1 .. n : /\ f.blocks[i] \in BlockType /\ f.blocks[i].data \in Seq(AllBytes)
                           /\ f.blocks[i].rd \in Nat /\ Len(f.blocks[i].data) \in Nat
  <2>1. f \in MemFiles
    BY DEF Cursors
  <2>2. f.full \in BOOLEAN
    BY <2>1 DEF MemFiles
  <2>3. Len(d) \in Nat \ {0}
    OBVIOUS
  <2> QED BY <2>1, <2>2, <2>3, BlocksAre, MFileAssumption
<1> HIDE DEF g, n
<1>3. /\ room \in 0 .. BlockSize
      /\ f.full => room = 0
      /\ room # 0 => n \in 1 .. n /\ room = BlockSize - Len(f.blocks[n].data)
  <2>1. CASE f.full
    BY <1>2, <2>1
  <2>2. CASE ~f.full
    <3>1. n > 0 /\ Len(f.blocks[n].data) < BlockSize
      BY <2>2 DEF Cursors, n
    <3>2. n \in 1 .. n
      BY <1>2, <3>1
    <3> QED BY <1>2, <2>2, <3>1, <3>2
  <2> QED BY <2>1, <2>2
<1> HIDE DEF room
<1>4. h \in 0 .. Len(d) /\ h <= room /\ (h = 0 <=> room = 0)
  <2>1. room \in 0 .. BlockSize /\ BlockSize \in Nat
    BY <1>3, MFileAssumption
  <2>2. Len(d) \in Nat \ {0}
    OBVIOUS
  <2> DEFINE l == Len(d)
  <2>3. room \in Nat /\ l \in Nat \ {0} /\ h = IF room < l THEN room ELSE l
    BY <2>1, <2>2
  <2> HIDE DEF l, h
  <2> QED BY <2>3 DEF l
<1> HIDE DEF h
<1>5. here \in Seq(AllBytes) /\ Len(here) = h /\ (here = <<>> <=> h = 0)
  <2>1. \A i \in 1 .. h : d[i] \in AllBytes
    <3>1. \A i \in 1 .. h : i \in 1 .. Len(d)
      BY <1>2, <1>4
    <3> QED BY <3>1
  <2>2. here \in Seq(AllBytes) /\ Len(here) = IF 1 <= h THEN h - 1 + 1 ELSE 0
    BY <1>2, <1>4, <2>1, SubSeqProperties
  <2> HIDE DEF here
  <2>3. Len(here) = h
    BY <1>2, <1>4, <2>2
  <2> QED BY <2>2, <2>3
<1> HIDE DEF here
<1>6. left = Len(d) - h /\ left \in Nat
  BY <1>2, <1>4, <1>5
<1>7. /\ m \in Nat /\ (m = 0 <=> left = 0) /\ fresh \in Seq(BlockType) /\ Len(fresh) = m
      /\ FreshEnd(0, left) = 0 /\ FreshEnd(m, left) = left
      /\ \A i \in 0 .. m : FreshEnd(i, left) \in Nat /\ FreshEnd(i, left) <= left
      /\ \A i \in 1 .. m :
            /\ fresh[i].rd = 0 /\ Len(fresh[i].data) \in 1 .. BlockSize
            /\ FreshEnd(i, left) = FreshEnd(i - 1, left) + Len(fresh[i].data)
            /\ PartOf(fresh[i].data, d, h + FreshEnd(i - 1, left))
  <2> DEFINE k == Len(here)
  <2>1. k \in 0 .. Len(d) /\ left = Len(d) - k
    BY <1>4, <1>5
  <2>2. m = (left + BlockSize - 1) \div BlockSize
        /\ fresh = [i \in 1 .. m |-> FreshBlock(d, k, left, i)] /\ k = h
    BY <1>5
  <2> HIDE DEF k, left, m, fresh
  <2> QED BY <2>1, <2>2, FreshBlocks
<1> HIDE DEF left, m, fresh
<1>8. /\ old \in Seq(BlockType) /\ Len(old) = n
      /\ \A i \in 1 .. n : /\ old[i].rd = f.blocks[i].rd
                           /\ i # n => old[i].data = f.blocks[i].data
                           /\ i = n => Len(old[i].data) = Len(f.blocks[i].data) + h
  <2>1. CASE h = 0
    <3>1. old = f.blocks
      BY <1>5, <2>1
    <3> HIDE DEF old
    <3> QED BY <1>2, <2>1, <3>1 DEF n
  <2>2. CASE h # 0
    <3> DEFINE b == f.blocks[n]
               w == b.data \o here
               c == [b EXCEPT !.data = w]
    <3>1. n \in 1 .. n
      BY <1>3, <1>4, <2>2
    <3>2. b \in BlockType /\ w \in Seq(AllBytes) /\ Len(w) = Len(b.data) + h
      <4> DEFINE q == b.data
      <4>1. b \in BlockType /\ q \in Seq(AllBytes)
        BY <1>2, <3>1
      <4> HIDE DEF q
      <4>2. q \o here \in Seq(AllBytes) /\ Len(q \o here) = Len(q) + h
        <5>1. q \in Seq(AllBytes) /\ here \in Seq(AllBytes)
          BY <1>5, <4>1
        <5>2. q \o here \in Seq(AllBytes) /\ Len(q \o here) = Len(q) + Len(here)
          BY <5>1, ConcatProperties, Zenon
        <5> QED BY <1>5, <5>2
      <4> QED BY <4>1, <4>2 DEF q
    <3>3. old = [f.blocks EXCEPT ![n] = c]
      BY <1>2, <1>5, <2>2
    <3> HIDE DEF old, b, w
    <3>4. c \in BlockType /\ c.rd = b.rd /\ c.data = w
      BY <3>2 DEF BlockType
    <3> HIDE DEF c
    <3>5. old \in Seq(BlockType) /\ Len(old) = n
      BY <1>2, <3>1, <3>3, <3>4 DEF n
    <3>6. old[n] = c /\ \A i \in 1 .. n : i # n => old[i] = f.blocks[i]
      BY <1>2, <3>1, <3>3 DEF n
    <3> QED BY <3>2, <3>4, <3>5, <3>6 DEF b
  <2> QED BY <2>1, <2>2
<1> HIDE DEF old
<1>9. /\ all \in Seq(BlockType) /\ Len(all) = n + m /\ n + m > 0
      /\ \A i \in 1 .. n : all[i] = old[i]
      /\ \A i \in n + 1 .. n + m : i - n \in 1 .. m /\ all[i] = fresh[i - n]
  <2>1. n + m > 0
    <3>1. CASE h = 0
      BY <1>2, <1>6, <1>7, <3>1
    <3>2. CASE h # 0
      <4>1. n \in 1 .. n
        BY <1>3, <1>4, <3>2
      <4> QED BY <1>2, <1>7, <4>1
    <3> QED BY <3>1, <3>2
  <2>2. /\ n \in Nat /\ m \in Nat /\ old \in Seq(BlockType) /\ Len(old) = n
        /\ fresh \in Seq(BlockType) /\ Len(fresh) = m
    BY <1>2, <1>7, <1>8
  <2>3. all \in Seq(BlockType) /\ Len(all) = n + m
    BY <2>2
  <2>4. \A i \in 1 .. n : all[i] = old[i]
    BY <2>2
  <2>5. ASSUME NEW i \in n + 1 .. n + m PROVE i - n \in 1 .. m /\ all[i] = fresh[i - n]
    BY <2>2
  <2> QED BY <2>1, <2>3, <2>4, <2>5
<1> HIDE DEF all
<1>10. /\ g \in MemFiles /\ g.blocks = all /\ g.full = fu /\ g.empty = f.empty
       /\ g.readp = f.readp /\ g.total = f.total + Len(d)
  <2>1. fu \in BOOLEAN
    OBVIOUS
  <2> HIDE DEF fu
  <2> DEFINE t == f.total + Len(d)
  <2>2. t \in Nat
    BY <1>2 DEF MemFiles
  <2>3. g = [f EXCEPT !.blocks = all, !.full = fu, !.total = t]
    BY <1>2 DEF g, MemFiles
  <2> HIDE DEF t
  <2>4. g \in MemFiles /\ g.blocks = all /\ g.empty = f.empty /\ g.readp = f.readp /\ g.total = t
    BY <1>2, <1>9, <2>1, <2>2, <2>3 DEF MemFiles
  <2>5. g.full = fu
    BY <1>2, <2>3 DEF MemFiles
  <2> QED BY <2>4, <2>5 DEF t
<1> HIDE DEF fu
<1>11. ASSUME NEW i \in 1 .. n + m
       PROVE  /\ Len(all[i].data) \in 1 .. BlockSize /\ all[i].rd <= Len(all[i].data)
              /\ i > f.readp => all[i].rd = 0
  <2>1. f.readp \in Nat /\ f.readp <= n
    BY <1>2 DEF Cursors, MemFiles, n
  <2>2. CASE i \in 1 .. n
    <3>1. /\ Len(f.blocks[i].data) \in 1 .. BlockSize /\ f.blocks[i].rd <= Len(f.blocks[i].data)
          /\ i > f.readp => f.blocks[i].rd = 0
      BY <2>2 DEF Cursors, n
    <3>2. all[i] = old[i] /\ old[i].rd = f.blocks[i].rd /\ f.blocks[i].rd \in Nat
      BY <1>2, <1>8, <1>9, <2>2
    <3>3. CASE i # n
      <4>1. old[i].data = f.blocks[i].data
        BY <1>8, <2>2, <3>3
      <4> QED BY <3>1, <3>2, <4>1
    <3>4. CASE i = n
      <4> DEFINE l == Len(f.blocks[i].data)
      <4>1. Len(old[i].data) = l + h
        BY <1>8, <2>2, <3>4
      <4>2. l + h <= BlockSize /\ l \in Nat /\ h \in Nat /\ l > 0
        <5>1. l \in 1 .. BlockSize /\ h \in Nat /\ room \in Nat /\ h <= room
          BY <1>2, <1>3, <1>4, <3>1
        <5>2. room # 0 => room = BlockSize - l
          BY <1>3, <3>4
        <5> HIDE DEF l
        <5> QED BY <1>2, <5>1, <5>2
      <4> HIDE DEF l
      <4>3. l + h \in 1 .. BlockSize
        BY <1>2, <4>2
      <4>4. f.blocks[i].rd <= l
        BY <3>1 DEF l
      <4> QED BY <3>1, <3>2, <4>1, <4>2, <4>3, <4>4
    <3> QED BY <3>3, <3>4
  <2>3. CASE i \in n + 1 .. n + m
    <3>1. i - n \in 1 .. m /\ all[i] = fresh[i - n]
      BY <1>9, <2>3
    <3>2. fresh[i - n].rd = 0 /\ Len(fresh[i - n].data) \in 1 .. BlockSize
      BY <1>7, <3>1
    <3> QED BY <1>2, <3>1, <3>2
  <2>4. i \in 1 .. n \/ i \in n + 1 .. n + m
    BY <1>2, <1>7
  <2> QED BY <2>2, <2>3, <2>4
<1>12. Cursors(g)
  <2>1. f.readp \in Nat /\ f.readp <= n /\ f.empty \in BOOLEAN
    BY <1>2 DEF Cursors, MemFiles, n
  <2>2. g.readp <= Len(g.blocks) /\ Len(g.blocks) = n + m
    BY <1>2, <1>7, <1>9, <1>10, <2>1
  <2>3. ASSUME NEW i \in 1 .. Len(g.blocks)
        PROVE  /\ Len(g.blocks[i].data) \in 1 .. BlockSize
               /\ g.blocks[i].rd <= Len(g.blocks[i].data)
               /\ i > g.readp => g.blocks[i].rd = 0
    BY <1>10, <1>11, <2>2
  <2>4. ~g.full => Len(g.blocks) > 0 /\ Len(g.blocks[Len(g.blocks)].data) < BlockSize
    <3>1. n + m \in 1 .. n + m
      BY <1>2, <1>7, <1>9
    <3>2. Len(all[n + m].data) \in 1 .. BlockSize
      BY <1>11, <3>1
    <3>3. g.full <=> Len(all[n + m].data) = BlockSize
      BY <1>9, <1>10 DEF fu
    <3>4. Len(all[n + m].data) # BlockSize => Len(all[n + m].data) < BlockSize
      BY <1>2, <3>2
    <3>5. Len(g.blocks) > 0 /\ g.blocks[Len(g.blocks)] = all[n + m]
      BY <1>9, <1>10, <2>2
    <3> QED BY <3>3, <3>4, <3>5
  <2>5. g.empty <=> g.readp # 0 /\ g.blocks[g.readp].rd = Len(g.blocks[g.readp].data)
    <3>1. f.empty <=> f.readp # 0 /\ f.blocks[f.readp].rd = Len(f.blocks[f.readp].data)
      BY DEF Cursors
    <3>2. g.readp = f.readp /\ g.blocks = all /\ (g.empty <=> f.empty)
      BY <1>10
    <3>3. CASE f.readp = 0
      BY <3>1, <3>2, <3>3, Zenon
    <3>4. CASE f.readp # 0
      <4> DEFINE i == f.readp
      <4>1. i \in 1 .. n
        BY <1>2, <2>1, <3>4
      <4>2. all[i].rd = f.blocks[i].rd
        BY <1>8, <1>9, <4>1
      <4>3. CASE i # n \/ h = 0
        <5>1. Len(all[i].data) = Len(f.blocks[i].data)
          <6>1. all[i] = old[i] /\ Len(f.blocks[i].data) \in Nat
            BY <1>2, <1>9, <4>1
          <6>2. CASE i # n
            <7>1. old[i].data = f.blocks[i].data
              BY <1>8, <4>1, <6>2
            <7> QED BY <6>1, <7>1
          <6>3. CASE i = n /\ h = 0
            <7>1. Len(old[i].data) = Len(f.blocks[i].data) + h
              BY <1>8, <4>1, <6>3
            <7> QED BY <6>1, <6>3, <7>1
          <6> QED BY <4>3, <6>2, <6>3
        <5> QED BY <3>1, <3>2, <4>2, <5>1, Zenon
      <4>4. CASE i = n /\ h # 0
        <5>1. ~f.full
          BY <1>3, <1>4, <4>4
        <5>2. ~f.empty
          BY <4>4, <5>1 DEF CarefulWrite, n
        <5>3. f.blocks[i].rd <= Len(f.blocks[i].data) /\ f.blocks[i].rd # Len(f.blocks[i].data)
          BY <3>1, <3>4, <4>1, <5>2 DEF Cursors, n
        <5>4. Len(all[i].data) = Len(f.blocks[i].data) + h
          BY <1>8, <1>9, <4>1, <4>4
        <5>5. all[i].rd # Len(all[i].data)
          <6> DEFINE r == f.blocks[i].rd
                     l == Len(f.blocks[i].data)
          <6>1. r \in Nat /\ l \in Nat /\ h \in Nat /\ r <= l /\ h # 0
            BY <1>2, <1>4, <4>1, <4>4, <5>3
          <6> HIDE DEF r, l
          <6>2. r # l + h
            BY <6>1
          <6> QED BY <4>2, <5>4, <6>2 DEF r, l
        <5> QED BY <3>2, <5>2, <5>5, Zenon
      <4> QED BY <4>3, <4>4
    <3> QED BY <3>3, <3>4
  <2> QED BY <1>10, <2>2, <2>3, <2>4, <2>5 DEF Cursors
<1>13. /\ g \in MemFiles /\ Len(g.blocks) = n + m
       /\ \A i \in 1 .. n + m :
            BytesBefore(g, i + 1) = BytesBefore(g, i) + Len(all[i].data)
  <2>1. g \in MemFiles /\ g.blocks = all /\ Len(g.blocks) = n + m
    BY <1>9, <1>10
  <2> QED BY <2>1, BeforeIs
\* As far as f's blocks go there are h bytes more.
<1>14. BytesBefore(g, n + 1) = Size(f) + h /\ Size(f) \in Nat
  <2>1. Size(f) \in Nat /\ BytesBefore(f, 1) = 0 /\ BytesBefore(g, 1) = 0
    BY <1>2, <1>13, BeforeIs, BytesAre
  <2>2. CASE n = 0
    <3>1. h = 0
      <4>1. ~(n \in 1 .. n)
        BY <2>2
      <4> QED BY <1>3, <1>4, <4>1
    <3>2. Size(f) = BytesBefore(f, 1) /\ n + 1 = 1
      BY <2>2 DEF Size, n
    <3> QED BY <2>1, <3>1, <3>2
  <2>3. CASE n # 0
    <3>1. n \in 1 .. n /\ n - 1 \in Nat /\ n - 1 <= Len(f.blocks) /\ n - 1 <= Len(g.blocks)
      BY <1>2, <1>7, <1>13, <2>3 DEF n
    <3>2. ASSUME NEW i \in 1 .. n - 1 PROVE Len(g.blocks[i].data) = Len(f.blocks[i].data)
      <4>1. i \in 1 .. n /\ i # n
        BY <1>2
      <4>2. all[i] = old[i] /\ old[i].data = f.blocks[i].data
        BY <1>8, <1>9, <4>1
      <4> QED BY <1>10, <4>2
    <3>3. BytesBefore(g, n) = BytesBefore(f, n)
      <4>1. \A i \in 0 .. n - 1 : BytesBefore(g, i + 1) = BytesBefore(f, i + 1)
        BY <1>2, <1>13, <3>1, <3>2, SameBefore
      <4>2. n - 1 \in 0 .. n - 1 /\ n - 1 + 1 = n
        BY <1>2, <3>1
      <4> QED BY <4>1, <4>2
    <3>4. BytesBefore(g, n + 1) = BytesBefore(g, n) + Len(all[n].data)
      <4>1. n \in 1 .. n + m
        BY <1>2, <1>7, <3>1
      <4> QED BY <1>13, <4>1
    <3>5. Size(f) = BytesBefore(f, n) + Len(f.blocks[n].data) /\ BytesBefore(f, n) \in Nat
      <4>1. n \in 1 .. Len(f.blocks) /\ n \in 1 .. Len(f.blocks) + 1
        BY <3>1 DEF n
      <4> QED BY <1>2, <4>1, BeforeIs DEF Size, n
    <3>6. Len(all[n].data) = Len(f.blocks[n].data) + h
      BY <1>8, <1>9, <3>1
    <3>7. Len(f.blocks[n].data) \in Nat /\ h \in Nat
      BY <1>2, <1>4, <3>1
    <3> QED BY <2>1, <3>3, <3>4, <3>5, <3>6, <3>7
  <2> QED BY <2>2, <2>3
\* And the fresh blocks have the rest.
<1>15. \A k \in 0 .. m : BytesBefore(g, n + k + 1) = Size(f) + h + FreshEnd(k, left)
  <2> DEFINE T == {k \in Nat : k <= m => BytesBefore(g, n + k + 1) = Size(f) + h + FreshEnd(k, left)}
  <2>1. 0 \in T
    <3>1. n + 0 + 1 = n + 1 /\ h \in Nat
      BY <1>2, <1>4
    <3> QED BY <1>7, <1>14, <3>1
  <2>2. ASSUME NEW k \in Nat, k \in T PROVE k + 1 \in T
    <3> SUFFICES ASSUME k + 1 <= m
                 PROVE  BytesBefore(g, n + (k + 1) + 1) = Size(f) + h + FreshEnd(k + 1, left)
      OBVIOUS
    <3>1. PICK i \in n + 1 .. n + m : i = n + k + 1
      BY <1>2, <1>7
    <3>2. i \in 1 .. n + m /\ i - n \in 1 .. m /\ i - n = k + 1 /\ i - n - 1 = k /\ k \in 0 .. m
          /\ n + (k + 1) + 1 = i + 1
      BY <1>2, <1>7, <3>1
    <3>3. BytesBefore(g, i + 1) = BytesBefore(g, i) + Len(all[i].data)
      BY <1>13, <3>2
    <3>4. all[i] = fresh[i - n]
      BY <1>9, <3>1
    <3>5. FreshEnd(i - n, left) = FreshEnd(i - n - 1, left) + Len(fresh[i - n].data)
      BY <1>7, <3>2
    <3>6. BytesBefore(g, i) = Size(f) + h + FreshEnd(k, left)
      BY <1>7, <2>2, <3>1
    <3>7. FreshEnd(k, left) \in Nat /\ Len(fresh[i - n].data) \in Nat /\ h \in Nat
      <4>1. Len(fresh[i - n].data) \in 1 .. BlockSize
        BY <1>7, <3>2
      <4>2. FreshEnd(k, left) \in Nat
        BY <1>7, <3>2
      <4> QED BY <1>2, <1>4, <4>1, <4>2
    <3>8. FreshEnd(k + 1, left) = FreshEnd(k, left) + Len(fresh[i - n].data)
      BY <3>2, <3>5
    <3>9. BytesBefore(g, n + (k + 1) + 1) = BytesBefore(g, i) + Len(fresh[i - n].data)
      BY <3>2, <3>3, <3>4
    <3> QED BY <1>14, <3>6, <3>7, <3>8, <3>9
  <2> HIDE DEF T
  <2>3. \A k \in Nat : k \in T
    BY <2>1, <2>2, NatSet
  <2> QED BY <1>7, <2>3 DEF T
<1>16. Size(g) = Size(f) + Len(d)
  <2>1. Size(g) = BytesBefore(g, n + m + 1)
    BY <1>13 DEF Size
  <2>2. BytesBefore(g, n + m + 1) = Size(f) + h + FreshEnd(m, left)
    <3>1. m \in 0 .. m
      BY <1>7
    <3> QED BY <1>15, <3>1
  <2>3. h \in Nat /\ Len(d) \in Nat /\ left = Len(d) - h /\ FreshEnd(m, left) = left
    BY <1>2, <1>4, <1>6, <1>7
  <2> QED BY <1>14, <2>1, <2>2, <2>3
\* The old blocks are where they were.
<1>17. \A i \in 1 .. n : BytesBefore(g, i) = BytesBefore(f, i)
  <2>1. \A i \in 1 .. n - 1 : Len(g.blocks[i].data) = Len(f.blocks[i].data)
    <3> SUFFICES ASSUME NEW i \in 1 .. n - 1 PROVE Len(g.blocks[i].data) = Len(f.blocks[i].data)
      OBVIOUS
    <3>1. i \in 1 .. n /\ i # n
      BY <1>2
    <3>2. all[i] = old[i] /\ old[i].data = f.blocks[i].data
      BY <1>8, <1>9, <3>1
    <3> QED BY <1>10, <3>2
  <2> SUFFICES ASSUME NEW i \in 1 .. n PROVE BytesBefore(g, i) = BytesBefore(f, i)
    OBVIOUS
  <2>2. n - 1 \in Nat /\ n - 1 <= Len(f.blocks) /\ n - 1 <= Len(g.blocks)
    BY <1>2, <1>7, <1>13 DEF n
  <2>3. \A k \in 0 .. n - 1 : BytesBefore(g, k + 1) = BytesBefore(f, k + 1)
    BY <1>2, <1>13, <2>1, <2>2, SameBefore
  <2>4. i - 1 \in 0 .. n - 1 /\ i - 1 + 1 = i
    BY <1>2
  <2> QED BY <2>3, <2>4
<1>18. PosOf(g) = PosOf(f)
  <2>1. g.readp = f.readp /\ g.blocks = all
    BY <1>10
  <2>2. CASE f.readp = 0
    BY <2>1, <2>2 DEF PosOf
  <2>3. CASE f.readp # 0
    <3> DEFINE i == f.readp
    <3>1. i \in 1 .. n
      BY <1>2, <2>3 DEF Cursors, MemFiles, n
    <3>2. all[i].rd = f.blocks[i].rd /\ BytesBefore(g, i) = BytesBefore(f, i)
      BY <1>8, <1>9, <1>17, <3>1
    <3> QED BY <2>1, <2>3, <3>2, Zenon DEF PosOf
  <2> QED BY <2>2, <2>3
<1>19. Bytes(g) = Bytes(f) \o d
  <2>1. PICK b, z : b = Bytes(f) /\ z = Size(f)
    OBVIOUS
  <2>2. b \in Seq(AllBytes) /\ Spread(f, b) /\ Len(b) = z /\ z \in Nat
    BY <1>2, <2>1, BytesSpread, BytesAre
  <2>3. PICK y : y = b \o d
    OBVIOUS
  <2>4. y \in Seq(AllBytes) /\ Follows(y, b, d)
    BY <2>2, <2>3, FollowsIs
  <2>5. /\ Len(y) = z + Len(d) /\ \A q \in 1 .. z : y[q] = b[q]
        /\ \A q \in 1 .. Len(d) : y[z + q] = d[q]
    BY <2>2, <2>4 DEF Follows
  <2>6. ASSUME NEW i \in 1 .. n, NEW j \in 1 .. Len(f.blocks[i].data)
        PROVE  y[BytesBefore(g, i) + j] = f.blocks[i].data[j]
    <3>1. b[BytesBefore(f, i) + j] = f.blocks[i].data[j]
      BY <2>2 DEF Spread, n
    <3>2. BytesBefore(f, i) + j \in 1 .. z
      BY <1>2, <2>1, PlaceIn DEF n
    <3> QED BY <1>17, <2>5, <3>1, <3>2
  <2>7. ASSUME n \in 1 .. n, NEW q \in 1 .. h
        PROVE  y[BytesBefore(g, n) + (Len(f.blocks[n].data) + q)] = here[q]
    <3>1. here[q] = d[q] /\ q \in 1 .. Len(d)
      BY <1>2, <1>4 DEF here
    <3>2. BytesBefore(g, n) + (Len(f.blocks[n].data) + q) = z + q
      <4>1. /\ BytesBefore(f, n + 1) = BytesBefore(f, n) + Len(f.blocks[n].data)
            /\ BytesBefore(f, n) \in Nat /\ Len(f.blocks[n].data) \in Nat
            /\ BytesBefore(g, n) = BytesBefore(f, n)
        <5>1. n \in 1 .. Len(f.blocks) + 1 /\ n \in 1 .. Len(f.blocks)
          BY <2>7 DEF n
        <5> QED BY <1>2, <1>17, <2>7, <5>1, BeforeIs
      <4>2. z = BytesBefore(f, n + 1)
        BY <2>1 DEF Size, n
      <4>3. PICK u, l : u = BytesBefore(f, n) /\ l = Len(f.blocks[n].data)
        OBVIOUS
      <4> QED BY <4>1, <4>2, <4>3
    <3> QED BY <2>5, <3>1, <3>2
  <2>8. ASSUME NEW i \in 1 .. n + m, NEW j \in 1 .. Len(all[i].data)
        PROVE  y[BytesBefore(g, i) + j] = all[i].data[j]
    <3>1. CASE i \in 1 .. n /\ (i # n \/ h = 0)
      <4>1. all[i].data = f.blocks[i].data
        <5>1. CASE i # n
          BY <1>8, <1>9, <3>1, <5>1
        <5>2. CASE h = 0
          BY <1>5, <1>9, <3>1, <5>2 DEF old
        <5> QED BY <3>1, <5>1, <5>2
      <4> QED BY <2>6, <3>1, <4>1
    <3>2. CASE i \in 1 .. n /\ i = n /\ h # 0
      <4> DEFINE c == f.blocks[n].data
                 w == c \o here
      <4>1. c \in Seq(AllBytes) /\ Len(c) \in Nat
        BY <1>2, <3>2
      <4>2. all[i].data = w
        <5>1. all[n] = old[n] /\ old = [f.blocks EXCEPT ![n].data = w]
          BY <1>5, <1>9, <3>2 DEF old
        <5>2. DOMAIN f.blocks = 1 .. n /\ f.blocks[n] \in BlockType
          BY <1>2, <3>2 DEF n
        <5> HIDE DEF w
        <5>3. old[n] = [f.blocks[n] EXCEPT !.data = w]
          BY <3>2, <5>1, <5>2
        <5>4. old[n].data = w
          BY <5>2, <5>3 DEF BlockType
        <5> QED BY <3>2, <5>1, <5>4
      <4>3. Follows(w, c, here)
        <5> HIDE DEF c
        <5> QED BY <1>5, <4>1, FollowsIs
      <4>4. PICK l \in Nat : l = Len(c)
        BY <4>1
      <4>5. /\ Len(w) = l + h /\ \A q \in 1 .. l : w[q] = c[q]
            /\ \A q \in 1 .. h : w[l + q] = here[q]
        BY <1>5, <4>3, <4>4 DEF Follows
      <4> HIDE DEF w
      <4>6. CASE j \in 1 .. l
        <5>1. w[j] = c[j] /\ j \in 1 .. Len(c)
          BY <4>4, <4>5, <4>6
        <5> QED BY <2>6, <3>2, <4>2, <5>1
      <4>7. CASE j \notin 1 .. l
        <5>1. j \in 1 .. l + h
          BY <4>2, <4>5
        <5>2. PICK q \in 1 .. h : j = l + q
          BY <1>2, <1>4, <4>7, <5>1
        <5>3. w[j] = here[q]
          BY <4>5, <5>2
        <5>4. y[BytesBefore(g, n) + (l + q)] = here[q]
          BY <2>7, <3>2, <4>4, <5>2
        <5> QED BY <3>2, <4>2, <5>2, <5>3, <5>4
      <4> QED BY <4>6, <4>7
    <3>3. CASE i \in n + 1 .. n + m
      <4>1. PICK k \in 0 .. m : i = n + k + 1 /\ i - n = k + 1 /\ k + 1 \in 1 .. m
                                 /\ k + 1 - 1 = k /\ k + 1 \in 0 .. m
        BY <1>2, <1>7, <3>3
      <4>2. all[i] = fresh[k + 1] /\ BytesBefore(g, i) = z + h + FreshEnd(k, left)
        BY <1>9, <1>15, <2>1, <3>3, <4>1
      <4>3. PICK u, l, x : u = FreshEnd(k, left) /\ l = Len(all[i].data) /\ x = all[i].data
        OBVIOUS
      <4>4. /\ PartOf(x, d, h + u) /\ FreshEnd(k + 1, left) = u + l
            /\ u + l <= left /\ u \in Nat /\ l \in Nat
        <5>1. /\ FreshEnd(k + 1, left) = FreshEnd(k + 1 - 1, left) + Len(fresh[k + 1].data)
              /\ PartOf(fresh[k + 1].data, d, h + FreshEnd(k + 1 - 1, left))
              /\ Len(fresh[k + 1].data) \in 1 .. BlockSize
          BY <1>7, <4>1
        <5>2. FreshEnd(k + 1, left) <= left /\ u \in Nat
          BY <1>7, <4>1, <4>3
        <5>3. l \in Nat
          BY <1>2, <4>2, <4>3, <5>1
        <5> QED BY <4>1, <4>2, <4>3, <5>1, <5>2, <5>3
      <4>5. x[j] = d[h + u + j]
        BY <4>3, <4>4 DEF PartOf
      <4>6. h + u + j \in 1 .. Len(d) /\ z + h + u + j = z + (h + u + j)
        <5>1. j \in 1 .. l /\ h \in Nat /\ Len(d) \in Nat /\ left = Len(d) - h /\ z \in Nat
          BY <1>2, <1>4, <1>6, <2>2, <4>3
        <5>2. u \in Nat /\ l \in Nat /\ u + l <= left
          BY <4>4
        <5> QED BY <5>1, <5>2
      <4>7. y[z + (h + u + j)] = d[h + u + j]
        BY <2>5, <4>6
      <4> QED BY <4>2, <4>3, <4>5, <4>6, <4>7
    <3> QED BY <1>2, <1>7, <3>1, <3>2, <3>3
  <2>9. Spread(g, y)
    BY <1>10, <1>13, <2>8 DEF Spread
  <2>10. y = Bytes(g)
    BY <1>13, <1>16, <2>1, <2>4, <2>5, <2>9, SpreadIs
  <2> QED BY <2>1, <2>3, <2>10
<1> QED BY <1>1, <1>10, <1>12, <1>16, <1>18, <1>19

\* mwrite that runs out of memory: what was stored until then is a mwrite, and
\* msize has counted all of d.
LEMMA WriteFailKept ==
    ASSUME NEW f, Cursors(f), NEW d \in Seq(AllBytes), d # <<>>, CarefulWrite(f),
           NEW k \in AllocAt(f, d), f.total >= Size(f)
    PROVE  /\ Cursors(MWriteFail(f, d, k)) /\ MWriteFail(f, d, k).total >= Size(MWriteFail(f, d, k))
           /\ k \in 0 .. Len(d) /\ PosOf(MWriteFail(f, d, k)) = PosOf(f)
           /\ Bytes(MWriteFail(f, d, k)) = Bytes(f) \o SubSeq(d, 1, k)
<1> DEFINE w == IF k = 0 THEN f ELSE MWrite(f, SubSeq(d, 1, k))
           t == f.total + Len(d)
           g == [w EXCEPT !.total = t]
<1>1. MWriteFail(f, d, k) = g
  BY DEF MWriteFail
<1>2. k \in 0 .. Len(d) - 1 /\ Len(d) \in Nat /\ f \in MemFiles
  BY DEF AllocAt, Cursors
<1>3. Size(f) \in Nat /\ f.total \in Nat
  BY <1>2, BytesAre DEF MemFiles
<1>4. /\ Cursors(w) /\ Size(w) = Size(f) + k /\ PosOf(w) = PosOf(f)
      /\ Bytes(w) = Bytes(f) \o SubSeq(d, 1, k)
  <2>1. CASE k = 0
    <3>1. SubSeq(d, 1, k) = <<>>
      BY <2>1, SubSeqEmpty
    <3>2. PICK b : b = Bytes(f)
      OBVIOUS
    <3>3. b \in Seq(AllBytes)
      BY <1>2, <3>2, BytesSpread
    <3>4. b \o <<>> = b
      BY <3>3, ConcatEmptySeq
    <3>5. Size(f) = Size(f) + k
      BY <1>3, <2>1
    <3>6. w = f
      BY <2>1
    <3> HIDE DEF w
    <3> QED BY <3>1, <3>2, <3>4, <3>5, <3>6, Zenon
  <2>2. CASE k # 0
    <3> DEFINE e == SubSeq(d, 1, k)
    <3>1. e \in Seq(AllBytes) /\ Len(e) = k
      <4>1. 1 <= k /\ k \in Int /\ \A i \in 1 .. k : i \in 1 .. Len(d)
        BY <1>2, <2>2
      <4>2. \A i \in 1 .. k : d[i] \in AllBytes
        BY <4>1
      <4> QED BY <4>1, <4>2, SubSeqProperties
    <3> HIDE DEF e
    <3>2. e # <<>>
      BY <2>2, <3>1
    <3>3. /\ Cursors(MWrite(f, e)) /\ Size(MWrite(f, e)) = Size(f) + k
          /\ PosOf(MWrite(f, e)) = PosOf(f) /\ Bytes(MWrite(f, e)) = Bytes(f) \o e
      BY <3>1, <3>2, WriteKept
    <3> QED BY <2>2, <3>3 DEF e
  <2> QED BY <2>1, <2>2
<1> HIDE DEF w
<1>5. t \in Nat /\ t >= Size(w)
  BY <1>2, <1>3, <1>4
<1> HIDE DEF t
<1>6. w \in MemFiles
  BY <1>4 DEF Cursors
<1>7. /\ g \in MemFiles /\ g.blocks = w.blocks /\ g.full = w.full /\ g.empty = w.empty
      /\ g.readp = w.readp /\ g.total = t
  BY <1>5, <1>6 DEF MemFiles
<1> HIDE DEF g
<1>8. Cursors(g)
  BY <1>4, <1>7 DEF Cursors
<1>9. Size(g) = Size(w) /\ PosOf(g) = PosOf(w)
  <2>1. /\ Len(w.blocks) \in Nat /\ Len(g.blocks) = Len(w.blocks)
        /\ \A i \in 1 .. Len(w.blocks) : Len(g.blocks[i].data) = Len(w.blocks[i].data)
    BY <1>6, <1>7, BlocksAre
  <2>2. \A i \in 0 .. Len(w.blocks) : BytesBefore(g, i + 1) = BytesBefore(w, i + 1)
    BY <1>6, <1>7, <2>1, SameBefore
  <2>3. w.readp # 0 => BytesBefore(g, w.readp) = BytesBefore(w, w.readp)
    <3> SUFFICES ASSUME w.readp # 0 PROVE BytesBefore(g, w.readp) = BytesBefore(w, w.readp)
      OBVIOUS
    <3>1. w.readp \in Nat /\ w.readp <= Len(w.blocks)
      BY <1>4 DEF Cursors, MemFiles
    <3>2. w.readp - 1 \in 0 .. Len(w.blocks) /\ w.readp - 1 + 1 = w.readp
      BY <2>1, <3>1
    <3> QED BY <2>2, <3>2
  <2>4. PosOf(g) = PosOf(w)
    BY <1>7, <2>3, Zenon DEF PosOf
  <2> QED BY <2>1, <2>2, <2>4 DEF Size
<1>10. Bytes(g) = Bytes(w)
  BY <1>7, Zenon DEF Bytes
<1>11. k \in 0 .. Len(d)
  BY <1>2
<1> QED BY <1>1, <1>4, <1>5, <1>7, <1>8, <1>9, <1>10, <1>11

\* mwrite_head, before anything was read: one block more, in front.
LEMMA HeadKept ==
    ASSUME NEW f, Cursors(f), NEW d \in Seq(AllBytes), d # <<>>, Len(d) <= BlockSize,
           f.readp = 0
    PROVE  /\ Cursors(MWriteHead(f, d)) /\ Size(MWriteHead(f, d)) = Size(f) + Len(d)
           /\ MWriteHead(f, d).total = f.total + Len(d) /\ MWriteHead(f, d).readp = 0
           /\ Bytes(MWriteHead(f, d)) = d \o Bytes(f)
<1> DEFINE n == Len(f.blocks)
           all == <<Block(d)>> \o f.blocks
           t == f.total + Len(d)
           e == f.header + Len(d)
           g == [f EXCEPT !.blocks = all, !.readp = 0, !.total = t, !.header = e]
<1>1. f \in MemFiles /\ n \in Nat /\ f.blocks \in Seq(BlockType) /\ Len(d) \in 1 .. BlockSize
      /\ Len(d) \in Nat
  BY BlocksAre, MFileAssumption DEF Cursors
<1>2. MWriteHead(f, d) = g
  BY <1>1 DEF MWriteHead, MemFiles
<1>3. Block(d) \in BlockType /\ Block(d).data = d /\ Block(d).rd = 0
  BY DEF Block, BlockType
<1>4. all \in Seq(BlockType) /\ Len(all) = n + 1 /\ all[1] = Block(d)
      /\ \A i \in 1 .. n : all[i + 1] = f.blocks[i]
  BY <1>1, <1>3
<1> HIDE DEF all
<1>5. t \in Nat /\ e \in Nat /\ f.empty = FALSE
  <2>1. f.total \in Nat /\ f.header \in Nat /\ f.empty \in BOOLEAN
    BY <1>1 DEF MemFiles
  <2>2. ~f.empty
    BY DEF Cursors
  <2> QED BY <1>1, <2>1, <2>2
<1> HIDE DEF e
<1>6. /\ g \in MemFiles /\ g.blocks = all /\ g.full = f.full /\ g.empty = FALSE
      /\ g.readp = 0 /\ g.total = t
  <2> HIDE DEF t
  <2> QED BY <1>1, <1>4, <1>5 DEF MemFiles
<1> HIDE DEF g
<1>7. Cursors(g)
  <2>1. ASSUME NEW i \in 1 .. n + 1
        PROVE  Len(all[i].data) \in 1 .. BlockSize /\ all[i].rd = 0 /\ 0 <= Len(all[i].data)
    <3>1. CASE i = 1
      BY <1>1, <1>3, <1>4, <3>1
    <3>2. CASE i # 1
      <4>1. PICK j \in 1 .. n : i = j + 1
        BY <1>1, <3>2
      <4>2. Len(f.blocks[j].data) \in 1 .. BlockSize /\ f.blocks[j].rd = 0
        BY <4>1, BlocksAre DEF Cursors
      <4>3. all[i] = f.blocks[j]
        BY <1>4, <4>1
      <4> QED BY <4>2, <4>3, MFileAssumption
    <3> QED BY <3>1, <3>2
  <2>2. ~g.full => Len(g.blocks) > 0 /\ Len(g.blocks[Len(g.blocks)].data) < BlockSize
    <3> SUFFICES ASSUME ~g.full
                 PROVE  Len(g.blocks) > 0 /\ Len(g.blocks[Len(g.blocks)].data) < BlockSize
      OBVIOUS
    <3>1. n > 0 /\ Len(f.blocks[n].data) < BlockSize
      BY <1>6 DEF Cursors
    <3>2. n \in 1 .. n
      BY <1>1, <3>1
    <3>3. all[n + 1] = f.blocks[n]
      BY <1>4, <3>2
    <3> QED BY <1>1, <1>4, <1>6, <3>1, <3>3
  <2> QED BY <1>1, <1>4, <1>6, <2>1, <2>2 DEF Cursors
<1>8. \A i \in 0 .. n : BytesBefore(g, i + 1 + 1) = BytesBefore(f, i + 1) + Len(d)
  <2> DEFINE T == {i \in Nat : i <= n => BytesBefore(g, i + 1 + 1) = BytesBefore(f, i + 1) + Len(d)}
  <2>1. \A i \in 1 .. n + 1 : BytesBefore(g, i + 1) = BytesBefore(g, i) + Len(all[i].data)
    BY <1>4, <1>6, BeforeIs
  <2>2. 0 \in T
    <3>1. 1 \in 1 .. n + 1 /\ BytesBefore(g, 1) = 0 /\ BytesBefore(f, 1) = 0
      BY <1>1, <1>6, BeforeIs
    <3>2. BytesBefore(g, 1 + 1) = BytesBefore(g, 1) + Len(all[1].data)
      BY <2>1, <3>1
    <3> QED BY <1>1, <1>3, <1>4, <3>1, <3>2
  <2>3. ASSUME NEW i \in Nat, i \in T PROVE i + 1 \in T
    <3> SUFFICES ASSUME i + 1 <= n
                 PROVE  BytesBefore(g, i + 1 + 1 + 1) = BytesBefore(f, i + 1 + 1) + Len(d)
      OBVIOUS
    <3>1. PICK j \in 1 .. n : j = i + 1
      BY <1>1
    <3>2. j + 1 \in 1 .. n + 1
      BY <1>1
    <3>3. BytesBefore(g, j + 1 + 1) = BytesBefore(g, j + 1) + Len(all[j + 1].data)
      BY <2>1, <3>2
    <3>4. BytesBefore(f, j + 1) = BytesBefore(f, j) + Len(f.blocks[j].data)
      BY <1>1, BeforeIs
    <3>5. BytesBefore(g, j + 1) = BytesBefore(f, j) + Len(d)
      BY <1>1, <2>3, <3>1
    <3>6. BytesBefore(f, j) \in Nat /\ Len(f.blocks[j].data) \in Nat
      <4>1. j \in 1 .. Len(f.blocks) + 1
        BY <1>1
      <4> QED BY <1>1, <4>1, BeforeIs, BlocksAre
    <3>7. all[j + 1] = f.blocks[j]
      BY <1>4
    <3> QED BY <1>1, <3>1, <3>3, <3>4, <3>5, <3>6, <3>7
  <2> HIDE DEF T
  <2>4. \A i \in Nat : i \in T
    BY <2>2, <2>3, NatSet
  <2> QED BY <1>1, <2>4 DEF T
<1>9. Size(g) = Size(f) + Len(d)
  <2>1. n \in 0 .. n /\ Len(g.blocks) = n + 1
    BY <1>1, <1>4, <1>6
  <2> QED BY <1>8, <2>1 DEF Size
<1>10. Bytes(g) = d \o Bytes(f)
  <2>1. PICK b, z, l : b = Bytes(f) /\ z = Size(f) /\ l = Len(d)
    OBVIOUS
  <2>2. b \in Seq(AllBytes) /\ Spread(f, b) /\ Len(b) = z /\ z \in Nat /\ l \in Nat
    BY <1>1, <2>1, BytesSpread, BytesAre
  <2>3. PICK y : y = d \o b
    OBVIOUS
  <2>4. y \in Seq(AllBytes) /\ Follows(y, d, b)
    BY <2>2, <2>3, FollowsIs
  <2>5. /\ Len(y) = l + z /\ \A q \in 1 .. l : y[q] = d[q]
        /\ \A q \in 1 .. z : y[l + q] = b[q]
    BY <2>1, <2>2, <2>4 DEF Follows
  <2>6. ASSUME NEW i \in 1 .. n + 1, NEW j \in 1 .. Len(all[i].data)
        PROVE  y[BytesBefore(g, i) + j] = all[i].data[j]
    <3>1. CASE i = 1
      <4>1. all[i].data = d /\ BytesBefore(g, i) = 0 /\ 0 + j = j /\ j \in 1 .. l
        BY <1>3, <1>4, <1>6, <2>1, <3>1, BeforeIs
      <4> QED BY <2>5, <4>1
    <3>2. CASE i # 1
      <4>1. PICK k \in 1 .. n : i = k + 1
        BY <1>1, <3>2
      <4>2. all[i] = f.blocks[k]
        BY <1>4, <4>1
      <4>3. PICK u : u = BytesBefore(f, k)
        OBVIOUS
      <4>4. u \in Nat /\ BytesBefore(g, i) = u + l
        <5>1. k - 1 \in 0 .. n /\ k - 1 + 1 = k /\ k \in 1 .. n + 1
          BY <1>1
        <5> QED BY <1>1, <1>8, <2>1, <4>1, <4>3, <5>1, BeforeIs
      <4>5. u + j \in 1 .. z /\ b[u + j] = f.blocks[k].data[j]
        BY <1>1, <2>1, <2>2, <4>2, <4>3, PlaceIn DEF Spread
      <4>6. u + l + j = l + (u + j)
        BY <2>2, <4>4
      <4> QED BY <2>5, <4>2, <4>4, <4>5, <4>6
    <3> QED BY <3>1, <3>2
  <2>7. Spread(g, y)
    BY <1>4, <1>6, <2>6 DEF Spread
  <2>8. Len(y) = Size(g)
    BY <1>9, <2>1, <2>2, <2>5
  <2>9. y = Bytes(g)
    BY <1>6, <2>4, <2>7, <2>8, SpreadIs
  <2> QED BY <2>1, <2>3, <2>9
<1> QED BY <1>2, <1>6, <1>7, <1>9, <1>10

\* mfile_open.
LEMMA MopenIs ==
    /\ Cursors(Mopen) /\ Size(Mopen) = 0 /\ Mopen.total = 0 /\ ~Mopen.empty
    /\ Mopen.readp = 0 /\ Bytes(Mopen) = <<>>
<1>1. Mopen \in MemFiles
  BY DEF Mopen, MemFiles
<1>2. Cursors(Mopen)
  BY <1>1 DEF Cursors, Mopen
<1>3. Size(Mopen) = 0
  <2>1. Len(Mopen.blocks) + 1 = 1
    BY DEF Mopen
  <2> QED BY <1>1, <2>1, BeforeIs DEF Size
<1>4. Bytes(Mopen) = <<>>
  <2>1. PICK b : b = Bytes(Mopen)
    OBVIOUS
  <2>2. b \in Seq(AllBytes) /\ Len(b) = 0
    BY <1>1, <1>3, <2>1, BytesSpread, BytesAre
  <2> QED BY <2>1, <2>2
<1> QED BY <1>2, <1>3, <1>4 DEF Mopen

\* What mfile_copy asks for in its k-th piece.
CopyWant(s, e, k) ==
    IF e - s - (k - 1) * CopySize < CopySize THEN e - s - (k - 1) * CopySize ELSE CopySize

\* One piece of mfile_copy, when q is what it asks for.
CopyTurn(c, q) ==
    LET r == MRead(c.f, q)
    IN  IF c.done THEN c
        ELSE IF r.out = <<>> THEN [c EXCEPT !.done = TRUE]
        ELSE [f |-> r.f, dest |-> MWrite(c.dest, r.out), done |-> Len(r.out) < CopySize]

\* F has what mfile_copy comes to, piece by piece, of which there are n.
CopiesBy(F, f, s, e, n) ==
    /\ MCopy(f, s, e) = F[n]
    /\ F[0] = [f |-> MSeekPos(f, s), dest |-> Mopen, done |-> FALSE]
    /\ \A k \in 1 .. n : F[k] = CopyTurn(F[k - 1], CopyWant(s, e, k))

\* mfile_copy reads the file that it copies, and writes another, where
\* nothing is read.
LEMMA CopyKept ==
    ASSUME NEW f, Cursors(f), NEW s \in Nat, NEW e \in Nat, s <= e, CarefulSeek(f, s)
    PROVE  /\ Kept(f, MCopy(f, s, e).f)
           /\ \E F : CopiesBy(F, f, s, e, (e - s + CopySize - 1) \div CopySize)
<1> DEFINE n     == (e - s + CopySize - 1) \div CopySize
           first == [f |-> MSeekPos(f, s), dest |-> Mopen, done |-> FALSE]
           S     == {x \in [f : MemFiles, dest : MemFiles, done : BOOLEAN] :
                        Kept(f, x.f) /\ Cursors(x.dest) /\ ~x.dest.empty}
           Turn(k, c) == CopyTurn(c, CopyWant(s, e, k))
           Is(F) == F = [k \in 0 .. n |-> IF k = 0 THEN first ELSE Turn(k, F[k - 1])]
           Some == CHOOSE F : Is(F)
           G == [x \in (1 .. n) \X S |-> Turn(x[1], x[2])]
<1>1. first \in S
  <2>1. Kept(f, MSeekPos(f, s))
    BY SeekPosKept
  <2> QED BY <2>1, MopenIs DEF Kept, Cursors
<1>2. /\ n \in Nat /\ CopySize \in Nat
      /\ \A k \in 1 .. n : (k - 1) * CopySize \in Nat /\ (k - 1) * CopySize < e - s
  <2> DEFINE a == e - s
             m == n
  <2>1. a \in Nat /\ CopySize \in Nat \ {0} /\ m = (a + CopySize - 1) \div CopySize
    BY MFileAssumption
  <2> HIDE DEF a, m
  <2>2. /\ m \in Nat
        /\ \A k \in 1 .. m : (k - 1) * CopySize \in Nat /\ (k - 1) * CopySize < a
    BY <2>1, PiecesOf
  <2> QED BY <2>1, <2>2 DEF a, m
<1> HIDE DEF n
<1>3. ASSUME NEW k \in 1 .. n, NEW c \in S PROVE Turn(k, c) \in S
  <2> DEFINE want == CopyWant(s, e, k)
             r    == MRead(c.f, want)
  <2>1. /\ c \in [f : MemFiles, dest : MemFiles, done : BOOLEAN] /\ Kept(f, c.f)
        /\ Cursors(c.dest) /\ ~c.dest.empty /\ Cursors(c.f)
    BY DEF Kept
  <2>2. want \in Nat
    <3> DEFINE q == (k - 1) * CopySize
    <3>1. q \in Nat /\ q < e - s
      BY <1>2
    <3> HIDE DEF q
    <3>2. (IF e - s - q < CopySize THEN e - s - q ELSE CopySize) \in Nat
      BY <1>2, <3>1
    <3> QED BY <3>2 DEF q, CopyWant
  <2>3. Turn(k, c) = IF c.done THEN c
                     ELSE IF r.out = <<>> THEN [c EXCEPT !.done = TRUE]
                     ELSE [f |-> r.f, dest |-> MWrite(c.dest, r.out),
                           done |-> Len(r.out) < CopySize]
    BY DEF CopyTurn
  <2> HIDE DEF want
  <2>4. Kept(c.f, r.f) /\ r.out \in Seq(AllBytes)
    BY <2>1, <2>2, ReadKept
  <2> HIDE DEF r, Turn
  <2>5. Kept(f, r.f) /\ r.f \in MemFiles
    BY <2>1, <2>4, KeptTwice DEF Kept, Cursors
  <2>6. CASE c.done
    BY <2>3, <2>6
  <2>7. CASE ~c.done /\ r.out = <<>>
    <3>1. /\ [c EXCEPT !.done = TRUE].f = c.f /\ [c EXCEPT !.done = TRUE].dest = c.dest
          /\ [c EXCEPT !.done = TRUE] \in [f : MemFiles, dest : MemFiles, done : BOOLEAN]
      BY <2>1
    <3> QED BY <2>1, <2>3, <2>7, <3>1
  <2>8. CASE ~c.done /\ r.out # <<>>
    <3> DEFINE w == MWrite(c.dest, r.out)
               b == (Len(r.out) < CopySize)
    <3>1. CarefulWrite(c.dest)
      BY <2>1 DEF CarefulWrite
    <3>2. Cursors(w) /\ w.empty = c.dest.empty
      BY <2>1, <2>4, <2>8, <3>1, WriteKept
    <3>3. ~w.empty /\ w \in MemFiles
      BY <2>1, <3>2 DEF Cursors
    <3>4. b \in BOOLEAN
      OBVIOUS
    <3>5. Turn(k, c) = [f |-> r.f, dest |-> w, done |-> b]
      BY <2>3, <2>8
    <3> HIDE DEF w, b
    <3> QED BY <2>5, <3>2, <3>3, <3>4, <3>5
  <2> QED BY <2>6, <2>7, <2>8
<1>4. MCopy(f, s, e) = Some[n]
  BY DEF MCopy, n, CopyTurn, CopyWant
<1> HIDE DEF S, Turn, first, Some
<1>5. ASSUME NEW k \in 1 .. n, NEW x \in S PROVE G[<<k, x>>] = Turn(k, x)
  OBVIOUS
<1> HIDE DEF G
<1>6. PICK F : Iteration(F, first, n, G, S)
  BY <1>1, <1>2, <1>3, <1>5, Iterates
<1>7. /\ F[0] = first /\ \A k \in 0 .. n : F[k] \in S
      /\ \A k \in 1 .. n : F[k] = G[<<k, F[k - 1]>>] /\ F[k - 1] \in S
      /\ F = [k \in 0 .. n |-> F[k]]
  <2>1. n \in Nat
    BY <1>2
  <2> QED BY <1>6, <2>1 DEF Iteration
<1>8. \A k \in 0 .. n : F[k] = IF k = 0 THEN first ELSE Turn(k, F[k - 1])
  <2>1. ASSUME NEW k \in 1 .. n PROVE F[k] = Turn(k, F[k - 1])
    BY <1>5, <1>7
  <2>2. \A k \in 0 .. n : k = 0 \/ (k # 0 /\ k \in 1 .. n)
    BY <1>2
  <2> QED BY <1>7, <2>1, <2>2, Zenon
<1>9. Is(F)
  BY <1>7, <1>8
<1>10. Is(Some)
  <2> HIDE DEF Is
  <2> QED BY <1>9 DEF Some
<1>11. Some[0] = first /\ \A k \in 1 .. n : Some[k] = Turn(k, Some[k - 1])
  <2>1. 0 \in 0 .. n /\ \A k \in 1 .. n : k \in 0 .. n /\ k # 0
    BY <1>2
  <2> QED BY <1>10, <2>1
<1>12. Some[n] \in S
  <2>1. \A k \in 1 .. n : Some[k - 1] \in S => Some[k] \in S
    BY <1>3, <1>11
  <2>2. n \in 0 .. n
    BY <1>2
  <2> QED BY <1>1, <1>2, <1>11, <2>1, <2>2, PassedOn
<1>13. CopiesBy(Some, f, s, e, n)
  BY <1>4, <1>11, Zenon DEF CopiesBy, Turn, first
<1>14. CopiesBy(Some, f, s, e, (e - s + CopySize - 1) \div CopySize)
  BY <1>13 DEF n
<1> QED BY <1>4, <1>12, <1>14 DEF S

---------------------------------------------------------------------------
(* The file of the program. *)

\* A file that was just opened.
LEMMA FileInvInit == FileInit => FileInv
<1> SUFFICES ASSUME FileInit PROVE FileInv
  OBVIOUS
<1>1. file = Mopen /\ faults = 0 /\ faults \in 0 .. MaxFaults
  BY MFileAssumption DEF FileInit
<1> QED BY <1>1, MopenIs DEF FileInv, Counted

\* A call that only reads.
LEMMA FileKept ==
    ASSUME FileInv, Kept(file, file'), faults' = faults
    PROVE  FileInv'
<1>1. file \in MemFiles /\ file' \in MemFiles /\ SameData(file, file')
  BY DEF FileInv, Kept, Cursors
<1>2. \A n : Counted(file, n) => Counted(file', n)
  BY <1>1, SameSize
<1> QED BY <1>2 DEF FileInv, Kept, Counted, Cursors, Size, BytesBefore

\* FileInv is inductive: every call of a careful caller keeps it.
LEMMA FileInvNext == FileInv /\ FileNext => FileInv'
<1> SUFFICES ASSUME FileInv, FileNext PROVE FileInv'
  OBVIOUS
<1>1. /\ Cursors(file) /\ faults \in 0 .. MaxFaults /\ Counted(file, faults)
      /\ Size(file) \in Nat /\ file.total \in Nat /\ file.total >= Size(file)
      /\ faults = 0 => file.total = Size(file)
  <2>1. file \in MemFiles
    BY DEF FileInv, Cursors
  <2> QED BY <2>1, BytesAre DEF FileInv, Counted, MemFiles
<1>2. ASSUME NEW d \in Chunks PROVE d \in Seq(AllBytes) /\ d # <<>> /\ Len(d) \in Nat
  <2>1. d \in Seq(AllBytes) /\ d # <<>>
    BY MFileAssumption DEF AllBytes
  <2> QED BY <2>1
<1>3. ASSUME NEW d \in Chunks, Write(d) PROVE FileInv'
  <2> DEFINE g == MWrite(file, d)
  <2>1. file' = g /\ faults' = faults /\ CarefulWrite(file)
    BY <1>3 DEF Write
  <2>2. Cursors(g) /\ Size(g) = Size(file) + Len(d) /\ g.total = file.total + Len(d)
    BY <1>1, <1>2, <2>1, WriteKept
  <2> HIDE DEF g
  <2>3. Counted(g, faults)
    BY <1>1, <1>2, <2>2 DEF Counted
  <2> QED BY <1>1, <2>1, <2>2, <2>3 DEF FileInv
<1>4. ASSUME NEW d \in Chunks, WriteFail(d) PROVE FileInv'
  <2>1. PICK k \in AllocAt(file, d) : file' = MWriteFail(file, d, k)
    BY <1>4 DEF WriteFail
  <2>2. CarefulWrite(file) /\ faults < MaxFaults /\ faults' = faults + 1
    BY <1>4 DEF WriteFail
  <2> DEFINE g == MWriteFail(file, d, k)
  <2>3. Cursors(g) /\ g.total >= Size(g)
    BY <1>1, <1>2, <2>2, WriteFailKept
  <2> HIDE DEF g
  <2>4. faults' \in 0 .. MaxFaults /\ faults' # 0
    BY <1>1, <2>2, MFileAssumption
  <2>5. file' = g
    BY <2>1 DEF g
  <2>6. Counted(g, faults')
    BY <2>3, <2>4 DEF Counted
  <2> QED BY <2>3, <2>4, <2>5, <2>6 DEF FileInv
<1>5. ASSUME NEW d \in Chunks, WriteHead(d) PROVE FileInv'
  <2> DEFINE g == MWriteHead(file, d)
  <2>1. file' = g /\ faults' = faults /\ Len(d) <= BlockSize /\ file.readp = 0
    BY <1>5 DEF WriteHead
  <2>2. Cursors(g) /\ Size(g) = Size(file) + Len(d) /\ g.total = file.total + Len(d)
    BY <1>1, <1>2, <2>1, HeadKept
  <2> HIDE DEF g
  <2>3. Counted(g, faults)
    BY <1>1, <1>2, <2>2 DEF Counted
  <2> QED BY <1>1, <2>1, <2>2, <2>3 DEF FileInv
<1>6. ASSUME NEW n \in ReadSizes, Read(n) PROVE FileInv'
  <2>1. n \in Nat /\ file' = MRead(file, n).f /\ faults' = faults
    BY <1>6, MFileAssumption DEF Read
  <2> QED BY <1>1, <2>1, ReadKept, FileKept
<1>7. ASSUME NEW room \in Rooms, ReadLine(room) PROVE FileInv'
  <2>1. room \in Nat /\ room > 2 /\ file' = MReadLine(file, room).f /\ faults' = faults
    BY <1>7, MFileAssumption DEF ReadLine
  <2> QED BY <1>1, <2>1, LineKept, FileKept
<1>8. ASSUME NEW p \in 0 .. MaxBytes, SeekPos(p) PROVE FileInv'
  <2>1. p \in Nat /\ CarefulSeek(file, p) /\ file' = MSeekPos(file, p) /\ faults' = faults
    BY <1>8, MFileAssumption DEF SeekPos
  <2> QED BY <1>1, <2>1, SeekPosKept, FileKept
<1>9. ASSUME NEW s \in 0 .. MaxBytes, NEW e \in s .. MaxBytes, Copy(s, e) PROVE FileInv'
  <2>1. s \in Nat /\ e \in Nat /\ s <= e
    BY MFileAssumption
  <2>2. CarefulSeek(file, s) /\ file' = MCopy(file, s, e).f /\ faults' = faults
    BY <1>9 DEF Copy
  <2> QED BY <1>1, <2>1, <2>2, CopyKept, FileKept
<1>10. ASSUME Getc PROVE FileInv'
  <2>1. file' = MGetc(file).f /\ faults' = faults
    BY <1>10 DEF Getc
  <2> QED BY <1>1, <2>1, GetcKept, FileKept
<1>11. ASSUME Seek PROVE FileInv'
  <2>1. file' = MSeek(file) /\ faults' = faults
    BY <1>11 DEF Seek
  <2> QED BY <1>1, <2>1, SeekKept, FileKept
<1>12. ASSUME WriteFile PROVE FileInv'
  <2>1. file' = file /\ faults' = faults
    BY <1>12 DEF WriteFile
  <2> QED BY <1>1, <2>1, KeptItself, FileKept
<1>13. ASSUME Close PROVE FileInv'
  <2>1. file' = Mopen /\ faults' = faults
    BY <1>13 DEF Close
  <2>2. Counted(Mopen, faults)
    BY MopenIs DEF Counted
  <2> QED BY <1>1, <2>1, <2>2, MopenIs DEF FileInv
<1> QED BY <1>3, <1>4, <1>5, <1>6, <1>7, <1>8, <1>9, <1>10, <1>11, <1>12, <1>13 DEF FileNext

\* And it says more than CursorsAgree.
LEMMA FileInvAgrees == FileInv => CursorsAgree
<1> SUFFICES ASSUME FileInv PROVE CursorsAgree
  OBVIOUS
<1>1. Cursors(file) /\ faults \in 0 .. MaxFaults /\ Counted(file, faults) /\ file \in MemFiles
  BY DEF FileInv, Cursors
<1>2. /\ file.blocks \in Seq([data : Seq(UNION {ToSet(c) : c \in Chunks}), rd : Nat])
      /\ Len(file.blocks) \in Nat
  BY <1>1, BlocksAre DEF BlockType, AllBytes
<1>3. FileTypeOK
  <2>1. /\ file.full \in BOOLEAN /\ file.empty \in BOOLEAN
        /\ file.total \in Nat /\ file.header \in Nat /\ file.readp \in Nat
    BY <1>1 DEF MemFiles
  <2>2. file.readp \in 0 .. Len(file.blocks)
    BY <1>1, <1>2, <2>1 DEF Cursors
  <2> QED BY <1>1, <1>2, <2>1, <2>2 DEF FileTypeOK
<1>4. file.total >= Len(Bytes(file)) /\ (faults = 0 => file.total = Len(Bytes(file)))
  BY <1>1, BytesAre DEF Counted
<1>5. Len(file.blocks) > 0 => file.blocks # <<>>
  OBVIOUS
<1> QED BY <1>1, <1>3, <1>4, <1>5 DEF CursorsAgree, Cursors

---------------------------------------------------------------------------
(* What a call has to do with the bytes. *)

\* The data make the bytes.
LEMMA SameBytes ==
    ASSUME NEW f, NEW g, SameData(f, g)
    PROVE  Bytes(g) = Bytes(f)
<1>1. [i \in 1 .. Len(g.blocks) |-> g.blocks[i].data] = [i \in 1 .. Len(f.blocks) |-> f.blocks[i].data]
  BY DEF SameData
<1> QED BY <1>1, Zenon DEF Bytes

\* As long as there is a block to read, the next byte is there.
LEMMA HereIs ==
    ASSUME NEW f, Cursors(f), ReadBlock(f) <= Len(f.blocks)
    PROVE  /\ PosOf(f) \in Nat /\ PosOf(f) < Size(f) /\ Size(f) \in Nat
           /\ ByteAt(f, ReadBlock(f)) = Bytes(f)[PosOf(f) + 1]
           /\ PosOf(Step(f, ReadBlock(f))) = PosOf(f) + 1
<1> DEFINE i == ReadBlock(f)
           n == Len(f.blocks)
           g == Step(f, i)
<1>1. /\ f \in MemFiles /\ i \in 1 .. n /\ n \in Nat /\ f.readp \in Nat /\ f.readp <= i
      /\ f.empty \in BOOLEAN
      /\ i = (IF f.readp = 0 THEN 1 ELSE f.readp) + (IF f.empty THEN 1 ELSE 0)
      /\ f.empty <=> f.readp # 0 /\ f.blocks[f.readp].rd = Len(f.blocks[f.readp].data)
      /\ i > f.readp => f.blocks[i].rd = 0
  <2>1. i \in 1 .. n /\ f.readp <= i
    BY ReadBlockIs
  <2>2. f \in MemFiles /\ (f.empty <=> f.readp # 0 /\ f.blocks[f.readp].rd = Len(f.blocks[f.readp].data))
    BY DEF Cursors
  <2>3. n \in Nat /\ f.readp \in Nat /\ f.empty \in BOOLEAN
    BY <2>2, BlocksAre DEF MemFiles
  <2>4. i > f.readp => f.blocks[i].rd = 0
    BY <2>1 DEF Cursors
  <2>5. i = (IF f.readp = 0 THEN 1 ELSE f.readp) + (IF f.empty THEN 1 ELSE 0)
    BY DEF ReadBlock
  <2> HIDE DEF i, n
  <2> QED BY <2>1, <2>2, <2>3, <2>4, <2>5
<1>2. /\ Cursors(g) /\ SameData(f, g) /\ g.readp = i /\ g.blocks[i].rd = f.blocks[i].rd + 1
      /\ f.blocks[i].rd < Len(f.blocks[i].data)
  BY StepKept, ReadBlockIs
<1> HIDE DEF i, g
<1>3. \A k \in 1 .. n : /\ BytesBefore(f, k) \in Nat /\ Len(f.blocks[k].data) \in Nat
                        /\ BytesBefore(f, k + 1) = BytesBefore(f, k) + Len(f.blocks[k].data)
                        /\ f.blocks[k].rd \in Nat
  <2> SUFFICES ASSUME NEW k \in 1 .. n
               PROVE  /\ BytesBefore(f, k) \in Nat /\ Len(f.blocks[k].data) \in Nat
                      /\ BytesBefore(f, k + 1) = BytesBefore(f, k) + Len(f.blocks[k].data)
                      /\ f.blocks[k].rd \in Nat
    OBVIOUS
  <2>1. k \in 1 .. n + 1
    BY <1>1
  <2>2. BytesBefore(f, k) \in Nat
    BY <1>1, <2>1, BeforeIs
  <2> QED BY <1>1, <2>2, BeforeIs, BlocksAre
<1>4. PICK u, r, l : u = BytesBefore(f, i) /\ r = f.blocks[i].rd /\ l = Len(f.blocks[i].data)
  OBVIOUS
<1>5. u \in Nat /\ r \in Nat /\ l \in Nat /\ r < l /\ BytesBefore(f, i + 1) = u + l
  BY <1>1, <1>2, <1>3, <1>4
<1>6. PosOf(f) = u + r
  <2>1. CASE i = f.readp
    BY <1>1, <1>4, <2>1 DEF PosOf
  <2>2. CASE i # f.readp /\ f.readp = 0
    <3>1. i = 1 /\ r = 0
      BY <1>1, <1>4, <2>2
    <3>2. u = 0
      BY <1>1, <1>4, <3>1, BeforeIs
    <3> QED BY <2>2, <3>1, <3>2 DEF PosOf
  <2>3. CASE i # f.readp /\ f.readp # 0
    <3>1. i = f.readp + 1 /\ r = 0 /\ f.empty /\ f.readp \in 1 .. n
      BY <1>1, <1>4, <2>3
    <3>2. f.blocks[f.readp].rd = Len(f.blocks[f.readp].data)
      BY <1>1, <3>1
    <3>3. BytesBefore(f, i) = BytesBefore(f, f.readp) + Len(f.blocks[f.readp].data)
      BY <1>3, <3>1
    <3> QED BY <1>4, <1>5, <2>3, <3>1, <3>2, <3>3 DEF PosOf
  <2> QED BY <2>1, <2>2, <2>3
<1>7. u + l <= Size(f) /\ Size(f) \in Nat
  <2>1. i \in 0 .. n /\ n \in 0 .. n
    BY <1>1
  <2>2. BytesBefore(f, i + 1) <= BytesBefore(f, n + 1)
    BY <1>1, <2>1, BeforeGrows
  <2>3. Size(f) \in Nat
    BY <1>1, BytesAre
  <2> QED BY <1>5, <2>2, <2>3 DEF Size
<1>8. ByteAt(f, i) = Bytes(f)[u + r + 1]
  <2>1. r + 1 \in 1 .. l /\ u + (r + 1) = u + r + 1
    BY <1>5
  <2>2. Bytes(f)[u + (r + 1)] = f.blocks[i].data[r + 1]
    <3>1. Spread(f, Bytes(f))
      BY <1>1, BytesSpread
    <3> QED BY <1>1, <1>4, <2>1, <3>1 DEF Spread
  <2>3. ByteAt(f, i) = f.blocks[i].data[r + 1]
    BY <1>2, <1>4 DEF ByteAt
  <2> QED BY <2>1, <2>2, <2>3
<1>9. PosOf(g) = u + r + 1
  <2>1. BytesBefore(g, i) = BytesBefore(f, i)
    <3>1. i \in 1 .. Len(f.blocks) + 1 /\ g \in MemFiles
      BY <1>1, <1>2 DEF Cursors
    <3> QED BY <1>1, <1>2, <3>1, SameSize
  <2>2. g.readp # 0
    BY <1>1, <1>2
  <2> QED BY <1>2, <1>4, <1>5, <2>1, <2>2 DEF PosOf
<1> QED BY <1>5, <1>6, <1>7, <1>8, <1>9 DEF i, g

\* When there is none, all bytes were read.
LEMMA EndIs ==
    ASSUME NEW f, Cursors(f), ~(ReadBlock(f) <= Len(f.blocks))
    PROVE  PosOf(f) = Size(f) /\ Size(f) \in Nat
<1> DEFINE n == Len(f.blocks)
<1>1. /\ f \in MemFiles /\ n \in Nat /\ f.readp \in Nat /\ f.readp <= n
      /\ f.empty \in BOOLEAN
      /\ f.empty <=> f.readp # 0 /\ f.blocks[f.readp].rd = Len(f.blocks[f.readp].data)
  <2>1. f \in MemFiles
    BY DEF Cursors
  <2>2. n \in Nat /\ f.readp \in Nat /\ f.empty \in BOOLEAN
    BY <2>1, BlocksAre DEF MemFiles
  <2> QED BY <2>1, <2>2 DEF Cursors
<1>2. ~((IF f.readp = 0 THEN 1 ELSE f.readp) + (IF f.empty THEN 1 ELSE 0) <= n)
  BY DEF ReadBlock
<1>3. Size(f) \in Nat
  BY <1>1, BytesAre
<1>4. CASE f.readp = 0
  <2>1. n = 0
    BY <1>1, <1>2, <1>4
  <2>2. BytesBefore(f, n + 1) = 0
    BY <1>1, <2>1, BeforeIs
  <2> QED BY <1>3, <1>4, <2>2 DEF Size, PosOf
<1>5. CASE f.readp # 0
  <2>1. f.readp = n /\ f.empty /\ n \in 1 .. n
    BY <1>1, <1>2, <1>5
  <2>2. BytesBefore(f, n + 1) = BytesBefore(f, n) + Len(f.blocks[n].data)
    BY <1>1, <2>1, BeforeIs
  <2>3. f.blocks[n].rd = Len(f.blocks[n].data)
    BY <1>1, <2>1
  <2> QED BY <1>3, <1>5, <2>1, <2>2, <2>3 DEF Size, PosOf
<1> QED BY <1>4, <1>5

\* What a file was read is never more than it has.
LEMMA PosIs ==
    ASSUME NEW f, Cursors(f)
    PROVE  PosOf(f) \in Nat /\ PosOf(f) <= Size(f) /\ Size(f) \in Nat
<1>1. CASE ReadBlock(f) <= Len(f.blocks)
  BY <1>1, HereIs
<1>2. CASE ~(ReadBlock(f) <= Len(f.blocks))
  BY <1>2, EndIs
<1> QED BY <1>1, <1>2

---------------------------------------------------------------------------
(* Parts of a sequence. *)

\* The elements from place s to place e.
Between(b, s, e) == SubSeq(b, s + 1, e)

\* x has them.
Takes(x, b, s, e) == Len(x) = e - s /\ \A i \in 1 .. e - s : x[i] = b[s + i]

LEMMA BetweenIs ==
    ASSUME NEW T, NEW b \in Seq(T), NEW s \in Nat, NEW e \in Nat, s <= e, e <= Len(b)
    PROVE  /\ Between(b, s, e) \in Seq(T) /\ Takes(Between(b, s, e), b, s, e)
           /\ Between(b, s, s) = <<>> /\ Between(b, 0, Len(b)) = b
<1>1. Len(b) \in Nat
  OBVIOUS
<1>2. \A i \in s + 1 .. e : b[i] \in T
  <2>1. \A i \in s + 1 .. e : i \in 1 .. Len(b)
    BY <1>1
  <2> QED BY <2>1
<1>3. /\ Between(b, s, e) \in Seq(T)
      /\ Len(Between(b, s, e)) = IF s + 1 <= e THEN e - (s + 1) + 1 ELSE 0
      /\ \A i \in 1 .. e - (s + 1) + 1 : Between(b, s, e)[i] = b[s + 1 + i - 1]
  BY <1>2, SubSeqProperties DEF Between
<1>4. Len(Between(b, s, e)) = e - s
  BY <1>3
<1>5. \A i \in 1 .. e - s : Between(b, s, e)[i] = b[s + i]
  <2>1. \A i \in 1 .. e - s : i \in 1 .. e - (s + 1) + 1 /\ s + 1 + i - 1 = s + i
    OBVIOUS
  <2> QED BY <1>3, <2>1
<1>6. Between(b, s, s) = <<>>
  BY SubSeqEmpty DEF Between
<1>7. Between(b, 0, Len(b)) = b
  <2>1. 0 + 1 = 1
    OBVIOUS
  <2> QED BY <2>1, SubSeqFull DEF Between
<1> QED BY <1>3, <1>4, <1>5, <1>6, <1>7 DEF Takes

\* One element more.
LEMMA BetweenMore ==
    ASSUME NEW T, NEW b \in Seq(T), NEW s \in Nat, NEW e \in Nat, s <= e, e < Len(b)
    PROVE  Between(b, s, e + 1) = Append(Between(b, s, e), b[e + 1])
<1>1. Len(b) \in Nat
  OBVIOUS
<1> DEFINE x == Between(b, s, e)
           c == b[e + 1]
           y == Append(x, c)
           z == Between(b, s, e + 1)
<1>2. /\ x \in Seq(T) /\ Len(x) = e - s
      /\ \A i \in 1 .. e - s : x[i] = b[s + i]
  <2>1. e <= Len(b)
    BY <1>1
  <2>2. x \in Seq(T) /\ Takes(x, b, s, e)
    BY <2>1, BetweenIs
  <2> HIDE DEF x
  <2> QED BY <2>2 DEF Takes
<1>3. /\ z \in Seq(T) /\ Len(z) = e + 1 - s
      /\ \A i \in 1 .. e + 1 - s : z[i] = b[s + i]
  <2>1. PICK d \in Nat : d = e + 1
    OBVIOUS
  <2>2. s <= d /\ d <= Len(b)
    BY <1>1, <2>1
  <2>3. z \in Seq(T) /\ Takes(z, b, s, d)
    BY <2>1, <2>2, BetweenIs
  <2> HIDE DEF z
  <2> QED BY <2>1, <2>3 DEF Takes
<1>4. c \in T
  <2>1. e + 1 \in 1 .. Len(b)
    BY <1>1
  <2> QED BY <2>1
<1> HIDE DEF x, c, z
<1>5. /\ y \in Seq(T) /\ Len(y) = Len(x) + 1 /\ y[Len(x) + 1] = c
      /\ \A i \in 1 .. Len(x) : y[i] = x[i]
  BY <1>2, <1>4
<1> HIDE DEF y
<1>6. PICK l : l = e - s /\ l \in Nat /\ e + 1 - s = l + 1 /\ s + (l + 1) = e + 1
  OBVIOUS
<1>7. ASSUME NEW i \in 1 .. l + 1 PROVE z[i] = y[i]
  <2>1. CASE i = l + 1
    <3>1. z[i] = b[s + i] /\ s + i = e + 1
      BY <1>3, <1>6, <2>1
    <3>2. y[i] = c
      BY <1>2, <1>5, <1>6, <2>1
    <3> QED BY <3>1, <3>2 DEF c
  <2>2. CASE i # l + 1
    <3>1. i \in 1 .. l
      BY <1>6, <2>2
    <3> QED BY <1>2, <1>3, <1>5, <1>6, <3>1
  <2> QED BY <2>1, <2>2
<1>8. Len(z) = l + 1 /\ Len(y) = l + 1
  BY <1>2, <1>3, <1>5, <1>6
<1>9. z = y
  BY <1>3, <1>5, <1>7, <1>8, SeqEqual
<1> QED BY <1>9 DEF x, y, z, c

\* Two parts, one behind the other.
LEMMA BetweenJoin ==
    ASSUME NEW T, NEW b \in Seq(T), NEW s \in Nat, NEW e \in Nat, NEW d \in Nat,
           s <= e, e <= d, d <= Len(b)
    PROVE  Between(b, s, e) \o Between(b, e, d) = Between(b, s, d)
<1>1. Len(b) \in Nat
  OBVIOUS
<1>2. s + 1 \in 1 .. Len(b) + 1 /\ e \in s + 1 - 1 .. Len(b) /\ d \in e .. Len(b)
  BY <1>1
<1> QED BY <1>2, ConcatAdjacentSubSeq DEF Between

---------------------------------------------------------------------------
(* Reading is reading the bytes. *)

\* g has the bytes of f.
LEMMA KeptBytes ==
    ASSUME NEW f, NEW g, Cursors(f), Kept(f, g)
    PROVE  Bytes(g) = Bytes(f) /\ Size(g) = Size(f)
<1>1. f \in MemFiles /\ g \in MemFiles /\ SameData(f, g)
  BY DEF Kept, Cursors
<1> QED BY <1>1, SameBytes, SameSize

\* g is f read as far as p.
At(f, g, p) == Kept(f, g) /\ PosOf(g) = p /\ g.ccache = f.ccache

LEMMA AtTwice ==
    ASSUME NEW f, NEW g, NEW h, NEW p, NEW q, At(f, g, p), At(g, h, q)
    PROVE  At(f, h, q)
BY KeptTwice DEF At

\* mgetc.
LEMMA GetcIs ==
    ASSUME NEW f, Cursors(f)
    PROVE  /\ PosOf(f) < Size(f) => /\ At(f, MGetc(f).f, PosOf(f) + 1)
                                    /\ MGetc(f).c = Bytes(f)[PosOf(f) + 1]
           /\ ~(PosOf(f) < Size(f)) => MGetc(f).f = f /\ MGetc(f).c = NUL
<1>1. ReadBlock(f) \in Nat /\ Len(f.blocks) \in Nat
  BY BlocksAre DEF ReadBlock, Cursors, MemFiles
<1>2. CASE ReadBlock(f) <= Len(f.blocks)
  <2>1. MGetc(f).f = Step(f, ReadBlock(f)) /\ MGetc(f).c = ByteAt(f, ReadBlock(f))
    BY <1>1, <1>2 DEF MGetc
  <2>2. At(f, MGetc(f).f, PosOf(f) + 1)
    BY <1>2, <2>1, HereIs, StepKept DEF At, Kept
  <2> QED BY <1>2, <2>1, <2>2, HereIs
<1>3. CASE ~(ReadBlock(f) <= Len(f.blocks))
  <2>1. MGetc(f).f = f /\ MGetc(f).c = NUL
    BY <1>1, <1>3 DEF MGetc
  <2>2. ~(PosOf(f) < Size(f))
    BY <1>3, EndIs
  <2> QED BY <2>1, <2>2
<1> QED BY <1>2, <1>3

\* x is what mread has done after k turns.
ReadOn(f, x, k) ==
    LET s == PosOf(f)
        e == IF s + k <= Size(f) THEN s + k ELSE Size(f)
    IN  At(f, x.f, e) /\ x.out = Between(Bytes(f), s, e)

\* mread returns the next n bytes, or as many as there are.
LEMMA ReadIs ==
    ASSUME NEW f, Cursors(f), NEW n \in Nat
    PROVE  ReadOn(f, MRead(f, n), n)
<1>1. PICK F : Reads(F, f, n)
  BY ReadKept
<1>2. /\ MRead(f, n) = F[n] /\ F[0] = [f |-> f, out |-> <<>>]
      /\ \A k \in 1 .. n : F[k] = ReadTurn(F[k - 1])
  BY <1>1 DEF Reads
<1>3. PICK b, s, z : b = Bytes(f) /\ s = PosOf(f) /\ z = Size(f)
  OBVIOUS
<1>4. b \in Seq(AllBytes) /\ s \in Nat /\ z \in Nat /\ s <= z /\ Len(b) = z
  <2>1. f \in MemFiles
    BY DEF Cursors
  <2> QED BY <1>3, <2>1, PosIs, BytesSpread, BytesAre
<1> DEFINE e(k) == IF s + k <= z THEN s + k ELSE z
           T == {k \in Nat : k <= n => ReadOn(f, F[k], k)}
<1>5. \A x, k : ReadOn(f, x, k) <=> At(f, x.f, e(k)) /\ x.out = Between(b, s, e(k))
  BY <1>3, Zenon DEF ReadOn
<1>6. 0 \in T
  <2>1. e(0) = s
    BY <1>4
  <2>2. F[0].f = f /\ F[0].out = <<>>
    BY <1>2
  <2>3. At(f, f, s) /\ Between(b, s, s) = <<>>
    BY <1>3, <1>4, KeptItself, BetweenIs DEF At
  <2> HIDE DEF e
  <2>4. ReadOn(f, F[0], 0)
    BY <1>5, <2>1, <2>2, <2>3, Zenon
  <2> QED BY <2>4
<1>7. ASSUME NEW k \in Nat, k \in T PROVE k + 1 \in T
  <2> SUFFICES ASSUME k + 1 <= n PROVE ReadOn(f, F[k + 1], k + 1)
    OBVIOUS
  <2>1. PICK x, y, d : x = F[k] /\ y = F[k + 1] /\ d = e(k)
    OBVIOUS
  <2>2. y = ReadTurn(x)
    <3>1. k + 1 \in 1 .. n /\ k + 1 - 1 = k
      BY <1>7
    <3> QED BY <1>2, <2>1, <3>1
  <2>3. At(f, x.f, d) /\ x.out = Between(b, s, d)
    <3>1. ReadOn(f, F[k], k)
      BY <1>7
    <3> HIDE DEF e
    <3> QED BY <1>5, <2>1, <3>1, Zenon
  <2>4. Cursors(x.f) /\ PosOf(x.f) = d /\ Bytes(x.f) = b /\ Size(x.f) = z
    BY <1>3, <2>3, KeptBytes DEF At, Kept
  <2>5. d \in Nat /\ s <= d /\ d <= z /\ e(k + 1) = IF d < z THEN d + 1 ELSE d
    BY <1>4, <1>7, <2>1
  <2> HIDE DEF e, T
  <2>6. ReadBlock(x.f) \in Nat /\ Len(x.f.blocks) \in Nat
    <3>1. x.f \in MemFiles
      BY <2>4 DEF Cursors
    <3>2. Len(x.f.blocks) \in Nat /\ x.f.readp \in Nat
      BY <3>1, BlocksAre DEF MemFiles
    <3> QED BY <3>2 DEF ReadBlock
  <2>7. CASE d < z
    <3>1. ReadBlock(x.f) <= Len(x.f.blocks)
      BY <2>4, <2>7, EndIs
    <3> DEFINE i == ReadBlock(x.f)
    <3>2. x.f.blocks[i].rd < Len(x.f.blocks[i].data) /\ i \in 1 .. Len(x.f.blocks)
      BY <2>4, <3>1, ReadBlockIs
    <3>3. x.f.blocks[i].rd \in Nat /\ Len(x.f.blocks[i].data) \in Nat
      BY <2>4, <3>2, BlocksAre DEF Cursors
    <3>4. y = [f |-> Step(x.f, i), out |-> Append(x.out, ByteAt(x.f, i))]
      BY <2>2, <2>6, <3>1, <3>2, <3>3 DEF ReadTurn
    <3>5. y.f = Step(x.f, i) /\ y.out = Append(x.out, ByteAt(x.f, i))
      BY <3>4
    <3>6. At(x.f, y.f, d + 1)
      BY <2>4, <3>1, <3>5, HereIs, StepKept DEF At, Kept
    <3>7. ByteAt(x.f, i) = b[d + 1]
      BY <2>4, <3>1, HereIs
    <3>8. Between(b, s, d + 1) = Append(Between(b, s, d), b[d + 1])
      BY <1>4, <2>5, <2>7, BetweenMore
    <3>9. At(f, y.f, d + 1)
      BY <2>3, <3>6, AtTwice
    <3>10. e(k + 1) = d + 1
      BY <2>5, <2>7
    <3>11. ReadOn(f, y, k + 1)
      BY <1>5, <2>3, <3>5, <3>7, <3>8, <3>9, <3>10, Zenon
    <3> QED BY <2>1, <3>11
  <2>8. CASE ~(d < z)
    <3>1. ~(ReadBlock(x.f) <= Len(x.f.blocks))
      BY <2>4, <2>8, HereIs
    <3>2. y = x
      BY <2>2, <2>6, <3>1 DEF ReadTurn
    <3>3. e(k + 1) = d
      BY <2>5, <2>8
    <3>4. ReadOn(f, y, k + 1)
      BY <1>5, <2>3, <3>2, <3>3, Zenon
    <3> QED BY <2>1, <3>4
  <2> QED BY <2>7, <2>8
<1> HIDE DEF T
<1>8. n \in T
  BY <1>6, <1>7, NatSet
<1> QED BY <1>2, <1>8 DEF T

\* A part of a part.
LEMMA BetweenTwice ==
    ASSUME NEW T, NEW b \in Seq(T), NEW s \in Nat, NEW z \in Nat, s <= z, z <= Len(b),
           NEW q \in 0 .. z - s
    PROVE  Between(Between(b, s, z), 0, q) = Between(b, s, s + q)
<1>1. Len(b) \in Nat /\ q \in Nat
  OBVIOUS
<1>2. PICK r : r = Between(b, s, z)
  OBVIOUS
<1>3. r \in Seq(T) /\ Len(r) = z - s /\ \A i \in 1 .. z - s : r[i] = b[s + i]
  <2>1. r \in Seq(T) /\ Takes(r, b, s, z)
    BY <1>2, BetweenIs
  <2> QED BY <2>1 DEF Takes
<1>4. PICK x : x = Between(r, 0, q)
  OBVIOUS
<1>5. x \in Seq(T) /\ Len(x) = q /\ \A i \in 1 .. q : x[i] = r[i]
  <2>1. 0 <= q /\ q <= Len(r) /\ 0 \in Nat
    BY <1>3
  <2>2. x \in Seq(T) /\ Takes(x, r, 0, q)
    BY <1>1, <1>3, <1>4, <2>1, BetweenIs
  <2>3. q - 0 = q /\ \A i \in 1 .. q : 0 + i = i
    BY <1>1
  <2> QED BY <2>2, <2>3 DEF Takes
<1>6. PICK e \in Nat : e = s + q
  BY <1>1
<1>7. PICK y : y = Between(b, s, e)
  OBVIOUS
<1>8. y \in Seq(T) /\ Len(y) = q /\ \A i \in 1 .. q : y[i] = b[s + i]
  <2>1. s <= e /\ e <= Len(b) /\ e - s = q
    BY <1>1, <1>6
  <2>2. y \in Seq(T) /\ Takes(y, b, s, e)
    BY <1>7, <2>1, BetweenIs
  <2> QED BY <2>1, <2>2 DEF Takes
<1>9. \A i \in 1 .. q : x[i] = y[i]
  BY <1>1, <1>3, <1>5, <1>8
<1>10. x = y
  BY <1>5, <1>8, <1>9, SeqEqual
<1> QED BY <1>2, <1>4, <1>6, <1>7, <1>10

\* One element more, and two.
LEMMA BetweenOne ==
    ASSUME NEW T, NEW b \in Seq(T), NEW s \in Nat, NEW e \in Nat, s <= e, e < Len(b),
           NEW c, b[e + 1] = c
    PROVE  Between(b, s, e) \o <<c>> = Between(b, s, e + 1)
<1>1. PICK x : x = Between(b, s, e)
  OBVIOUS
<1>2. x \in Seq(T) /\ c \in T
  <2>1. Len(b) \in Nat
    OBVIOUS
  <2>2. e <= Len(b) /\ e + 1 \in 1 .. Len(b)
    BY <2>1
  <2>3. b[e + 1] \in T
    BY <2>2
  <2> QED BY <1>1, <2>2, <2>3, BetweenIs
<1>3. x \o <<c>> = Append(x, c)
  BY <1>2
<1>4. Between(b, s, e + 1) = Append(x, c)
  BY <1>1, BetweenMore
<1> QED BY <1>1, <1>3, <1>4

LEMMA BetweenTwo ==
    ASSUME NEW T, NEW b \in Seq(T), NEW s \in Nat, NEW e \in Nat, s <= e, e + 1 < Len(b),
           NEW c, b[e + 1] = c, NEW d, b[e + 2] = d
    PROVE  /\ Append(Append(Between(b, s, e), c), d) = Between(b, s, e + 2)
           /\ Between(b, s, e) \in Seq(T) /\ c \in T /\ d \in T
<1>1. PICK x : x = Between(b, s, e)
  OBVIOUS
<1>2. PICK m \in Nat : m = e + 1
  OBVIOUS
<1>3. x \in Seq(T) /\ c \in T /\ d \in T /\ e + 2 = m + 1 /\ s <= m /\ e < Len(b) /\ m < Len(b)
  <2>1. Len(b) \in Nat
    OBVIOUS
  <2>2. e <= Len(b) /\ e + 1 \in 1 .. Len(b) /\ e + 2 \in 1 .. Len(b) /\ e < Len(b)
        /\ e + 2 = m + 1 /\ s <= m /\ m < Len(b)
    BY <1>2, <2>1
  <2>3. b[e + 1] \in T /\ b[e + 2] \in T
    BY <2>2
  <2> QED BY <1>1, <2>2, <2>3, BetweenIs
<1>4. Between(b, s, m) = Append(x, c)
  BY <1>1, <1>2, <1>3, BetweenMore
<1>5. Between(b, s, m + 1) = Append(Between(b, s, m), d)
  BY <1>3, BetweenMore
<1> QED BY <1>1, <1>3, <1>4, <1>5

LEMMA BetweenNone ==
    ASSUME NEW T, NEW b \in Seq(T), NEW s \in Nat, NEW e \in Nat, s <= e, e <= Len(b)
    PROVE  Between(b, s, e) \o <<>> = Between(b, s, e)
BY BetweenIs, ConcatEmptySeq

\* x is what mread_line has done when it has found the end of the line, which
\* is the q-th byte, after k turns: LF, NUL or the end of all bytes.
Ended(f, b, s, z, x, k, q) ==
    /\ q \in 1 .. z - s + 1 /\ \A i \in 1 .. q - 1 : b[s + i] \notin {LF, NUL}
    /\ \/ /\ q <= z - s /\ b[s + q] = LF
          /\ q <= k \/ (q = k + 1 /\ k > 0 /\ b[s + k] = CR)
          /\ At(f, x.f, s + q) /\ x.out = Between(b, s, s + q)
       \/ /\ q <= z - s /\ b[s + q] = NUL /\ q <= k
          /\ At(f, x.f, s + q) /\ x.out = Between(b, s, s + q - 1)
       \/ /\ q = z - s + 1 /\ q <= k
          /\ At(f, x.f, z) /\ x.out = Between(b, s, z)

\* x is what mread_line has done after k turns: read k bytes of the line, or
\* all of it.
LineOn(f, b, s, z, x, k) ==
    \/ /\ ~x.done /\ s + k <= z /\ \A i \in 1 .. k : b[s + i] \notin {CR, LF, NUL}
       /\ At(f, x.f, s + k) /\ x.out = Between(b, s, s + k)
    \/ x.done /\ \E q : Ended(f, b, s, z, x, k, q)

\* A turn of mread_line, where every CR has its LF.
LEMMA LineTurnIs ==
    ASSUME NEW f, Cursors(f), CarefulLines(f),
           NEW b, b = Bytes(f), NEW s, s = PosOf(f), NEW z, z = Size(f),
           NEW k \in Nat, NEW x, LineOn(f, b, s, z, x, k)
    PROVE  LineOn(f, b, s, z, LineTurn(x), k + 1)
<1>1. b \in Seq(AllBytes) /\ s \in Nat /\ z \in Nat /\ s <= z /\ Len(b) = z
  <2>1. f \in MemFiles
    BY DEF Cursors
  <2> QED BY <2>1, PosIs, BytesSpread, BytesAre
<1>4. f.ccache = LF
  BY DEF CarefulLines
<1>5. \A i \in 1 .. z : b[i] = CR => i < z /\ b[i + 1] = LF
  BY <1>1 DEF CarefulLines
<1> DEFINE y == LineTurn(x)
<1> SUFFICES LineOn(f, b, s, z, y, k + 1)
  OBVIOUS
<1>2. CASE x.done
  <2>1. y = x
    BY <1>2 DEF LineTurn
  <2>2. PICK q : Ended(f, b, s, z, x, k, q)
    BY <1>2 DEF LineOn
  <2>3. Ended(f, b, s, z, x, k + 1, q)
    <3>1. q \in Nat /\ (q <= k => q <= k + 1) /\ (q = k + 1 => q <= k + 1)
      BY <1>1, <2>2 DEF Ended
    <3> QED BY <2>2, <3>1 DEF Ended
  <2> HIDE DEF y
  <2> QED BY <1>2, <2>1, <2>3, Zenon DEF LineOn
<1>3. CASE ~x.done
  <2> DEFINE g == MGetc(x.f)
             h == MGetc(g.f)
             more == [h.f EXCEPT !.ccache = h.c]
  <2>1. /\ s + k <= z /\ \A i \in 1 .. k : b[s + i] \notin {CR, LF, NUL}
        /\ At(f, x.f, s + k) /\ x.out = Between(b, s, s + k)
    BY <1>3 DEF LineOn
  <2>2. PICK p \in Nat : p = s + k
    BY <1>1
  <2>3. Cursors(x.f) /\ PosOf(x.f) = p /\ Bytes(x.f) = b /\ Size(x.f) = z /\ x.f.ccache = LF
    BY <1>4, <2>1, <2>2, KeptBytes DEF At, Kept
  <2>4. y = CASE x.done -> x
              [] ~x.done /\ g.c = CR ->
                   [f |-> more, out |-> x.out \o (IF h.c \in {LF, NUL} THEN <<CR, LF>> ELSE <<CR>>),
                    done |-> TRUE]
              [] ~x.done /\ g.c = LF  -> [f |-> g.f, out |-> x.out \o <<LF>>, done |-> TRUE]
              [] ~x.done /\ g.c = NUL -> [f |-> g.f, out |-> x.out \o <<>>, done |-> TRUE]
              [] OTHER -> [f |-> g.f, out |-> Append(x.out, g.c), done |-> FALSE]
    <3>1. NextChar(x.f) = g
      BY <2>3 DEF NextChar
    <3> HIDE DEF g
    <3> QED BY <3>1 DEF LineTurn
  <2> HIDE DEF y, g, more
  <2>5. CR # LF /\ NUL # CR /\ NUL # LF
    BY MFileAssumption
  <2>6. CASE p = z
    <3>1. g.f = x.f /\ g.c = NUL
      BY <2>3, <2>6, GetcIs DEF g
    <3>2. y = [f |-> x.f, out |-> x.out \o <<>>, done |-> TRUE]
      BY <1>3, <2>4, <2>5, <3>1
    <3>3. y.f = x.f /\ y.out = x.out \o <<>> /\ y.done
      BY <3>2
    <3>4. y.out = Between(b, s, z)
      BY <1>1, <2>1, <2>2, <2>6, <3>3, BetweenNone
    <3>5. PICK q : q = k + 1
      OBVIOUS
    <3>6. q \in 1 .. z - s + 1 /\ q = z - s + 1 /\ \A i \in 1 .. q - 1 : i \in 1 .. k
      BY <1>1, <2>2, <2>6, <3>5
    <3>7. Ended(f, b, s, z, y, k + 1, q)
      BY <2>1, <2>2, <2>6, <3>3, <3>4, <3>5, <3>6 DEF Ended
    <3> QED BY <3>3, <3>7, Zenon DEF LineOn
  <2>7. CASE p < z
    <3>1. At(x.f, g.f, p + 1) /\ g.c = b[p + 1]
      BY <2>3, <2>7, GetcIs DEF g
    <3>2. At(f, g.f, p + 1)
      BY <2>1, <3>1, AtTwice
    <3>3. Cursors(g.f) /\ PosOf(g.f) = p + 1 /\ Bytes(g.f) = b /\ Size(g.f) = z /\ g.f.ccache = LF
      BY <1>4, <3>2, KeptBytes DEF At, Kept
    <3>4. PICK q \in Nat : q = k + 1
      OBVIOUS
    <3>5. /\ q \in 1 .. z - s /\ s + q = p + 1 /\ s + q - 1 = p
          /\ \A i \in 1 .. q - 1 : i \in 1 .. k
      BY <1>1, <2>2, <2>7, <3>4
    <3>6. q \in 1 .. z - s + 1 /\ q <= z - s /\ q <= k + 1
      BY <1>1, <3>4, <3>5
    <3>7. CASE g.c = CR
      <4>1. p + 1 < z /\ b[p + 2] = LF
        <5>1. p + 1 \in 1 .. z /\ p + 1 + 1 = p + 2
          BY <1>1, <2>7
        <5> QED BY <1>5, <3>1, <3>7, <5>1
      <4>2. At(g.f, h.f, p + 2) /\ h.c = LF
        <5>1. p + 1 + 1 = p + 2
          OBVIOUS
        <5> QED BY <3>3, <4>1, <5>1, GetcIs
      <4>3. At(f, h.f, p + 2)
        BY <3>2, <4>2, AtTwice
      <4> HIDE DEF h
      <4>4. At(f, more, p + 2)
        <5>1. h.f \in MemFiles /\ Cursors(h.f) /\ h.c \in Char
          BY <4>2 DEF At, Kept, Cursors, Char
        <5>2. Kept(h.f, more)
          BY <5>1, CacheKept DEF more
        <5>3. /\ more.ccache = LF /\ more.blocks = h.f.blocks /\ more.readp = h.f.readp
          BY <4>2, <5>1 DEF more, MemFiles
        <5>4. PosOf(more) = PosOf(h.f)
          BY <5>3 DEF PosOf, BytesBefore
        <5> QED BY <1>4, <4>3, <5>2, <5>3, <5>4, KeptTwice DEF At
      <4>5. y = [f |-> more, out |-> x.out \o <<CR, LF>>, done |-> TRUE]
        BY <1>3, <2>4, <2>5, <3>7, <4>2
      <4>6. y.f = more /\ y.out = x.out \o <<CR, LF>> /\ y.done
        BY <4>5
      <4>7. x.out \o <<CR, LF>> = Between(b, s, p + 2)
        <5>1. b[p + 1] = CR /\ s <= p /\ p + 1 < Len(b)
          BY <1>1, <2>2, <3>1, <3>7, <4>1
        <5>2. PICK o : o = Between(b, s, p)
          OBVIOUS
        <5>3. Append(Append(o, CR), LF) = Between(b, s, p + 2) /\ o \in Seq(AllBytes)
              /\ CR \in AllBytes /\ LF \in AllBytes
          BY <1>1, <4>1, <5>1, <5>2, BetweenTwo
        <5>4. o \o <<CR, LF>> = Append(Append(o, CR), LF)
          <6>1. o \in Seq(AllBytes) /\ CR \in AllBytes /\ LF \in AllBytes
            BY <5>3
          <6> QED BY <6>1
        <5> QED BY <2>1, <2>2, <5>2, <5>3, <5>4
      <4>8. PICK r : r = k + 2
        OBVIOUS
      <4>9. /\ r \in 1 .. z - s + 1 /\ r <= z - s /\ s + r = p + 2 /\ r = k + 1 + 1 /\ k + 1 > 0
            /\ s + (k + 1) = p + 1
            /\ \A i \in 1 .. r - 1 : i \in 1 .. k \/ s + i = p + 1
        <5>1. p + 1 < z
          BY <4>1
        <5>2. /\ r \in 1 .. z - s + 1 /\ r <= z - s /\ s + r = p + 2 /\ r = k + 1 + 1
              /\ k + 1 > 0 /\ s + (k + 1) = p + 1
          BY <1>1, <2>2, <4>8, <5>1
        <5>3. \A i \in 1 .. r - 1 : i \in 1 .. k \/ s + i = p + 1
          BY <1>1, <2>2, <4>8
        <5> QED BY <5>2, <5>3
      <4>10. \A i \in 1 .. r - 1 : b[s + i] \notin {LF, NUL}
        BY <2>1, <2>5, <3>1, <3>7, <4>9
      <4>11. Ended(f, b, s, z, y, k + 1, r)
        BY <3>1, <3>7, <4>1, <4>4, <4>6, <4>7, <4>9, <4>10 DEF Ended
      <4> QED BY <4>6, <4>11, Zenon DEF LineOn
    <3>8. CASE g.c = LF
      <4>1. y = [f |-> g.f, out |-> x.out \o <<LF>>, done |-> TRUE]
        BY <1>3, <2>4, <2>5, <3>8
      <4>2. y.f = g.f /\ y.out = x.out \o <<LF>> /\ y.done
        BY <4>1
      <4>3. x.out \o <<LF>> = Between(b, s, p + 1)
        <5>1. b[p + 1] = LF /\ s <= p /\ p < Len(b)
          BY <1>1, <2>2, <2>7, <3>1, <3>8
        <5>2. Between(b, s, p) \o <<LF>> = Between(b, s, p + 1)
          BY <1>1, <5>1, BetweenOne
        <5> QED BY <2>1, <2>2, <5>2
      <4>4. \A i \in 1 .. q - 1 : b[s + i] \notin {LF, NUL}
        BY <2>1, <3>5
      <4>5. b[s + q] = LF /\ At(f, y.f, s + q) /\ y.out = Between(b, s, s + q)
        BY <3>1, <3>2, <3>5, <3>8, <4>2, <4>3
      <4>6. Ended(f, b, s, z, y, k + 1, q)
        BY <3>6, <4>4, <4>5, Zenon DEF Ended
      <4> QED BY <4>2, <4>6, Zenon DEF LineOn
    <3>9. CASE g.c = NUL
      <4>1. y = [f |-> g.f, out |-> x.out \o <<>>, done |-> TRUE]
        BY <1>3, <2>4, <2>5, <3>9
      <4>2. y.f = g.f /\ y.out = x.out \o <<>> /\ y.done
        BY <4>1
      <4>3. x.out \o <<>> = Between(b, s, p)
        <5>1. s <= p /\ p <= Len(b)
          BY <1>1, <2>2, <2>7
        <5> QED BY <1>1, <2>1, <2>2, <5>1, BetweenNone
      <4>4. \A i \in 1 .. q - 1 : b[s + i] \notin {LF, NUL}
        BY <2>1, <3>5
      <4>5. b[s + q] = NUL /\ At(f, y.f, s + q) /\ y.out = Between(b, s, s + q - 1)
        BY <3>1, <3>2, <3>5, <3>9, <4>2, <4>3
      <4>6. Ended(f, b, s, z, y, k + 1, q)
        BY <3>6, <4>4, <4>5, Zenon DEF Ended
      <4> QED BY <4>2, <4>6, Zenon DEF LineOn
    <3>10. CASE g.c \notin {CR, LF, NUL}
      <4>1. y = [f |-> g.f, out |-> Append(x.out, g.c), done |-> FALSE]
        BY <1>3, <2>4, <3>10
      <4>2. y.f = g.f /\ y.out = Append(x.out, g.c) /\ ~y.done
        BY <4>1
      <4>3. Append(x.out, g.c) = Between(b, s, p + 1)
        <5>1. s <= p /\ p < Len(b)
          BY <1>1, <2>2, <2>7
        <5> QED BY <1>1, <2>1, <2>2, <3>1, <5>1, BetweenMore
      <4>4. \A i \in 1 .. k + 1 : b[s + i] \notin {CR, LF, NUL}
        <5>1. \A i \in 1 .. k + 1 : i \in 1 .. k \/ s + i = p + 1
          BY <2>2, <1>1
        <5> QED BY <2>1, <3>1, <3>10, <5>1
      <4>5. s + (k + 1) = p + 1 /\ s + (k + 1) <= z
        BY <1>1, <2>2, <2>7
      <4> QED BY <3>2, <4>2, <4>3, <4>4, <4>5, Zenon DEF LineOn
    <3> QED BY <3>7, <3>8, <3>9, <3>10
  <2>8. p = z \/ p < z
    BY <1>1, <2>1, <2>2
  <2> QED BY <2>6, <2>7, <2>8
<1> QED BY <1>2, <1>3

\* x is what mread_line has done after its last turn.
LineDone(f, b, s, z, room, x) ==
    /\ LineOn(f, b, s, z, x, room - 2) /\ MReadLine(f, room).f = x.f
    /\ MReadLine(f, room).out = IF x.done THEN x.out ELSE <<>>

\* mread_line, after all its turns.
LEMMA LineIs ==
    ASSUME NEW f, Cursors(f), CarefulLines(f), NEW room \in Nat, room > 2,
           NEW b, b = Bytes(f), NEW s, s = PosOf(f), NEW z, z = Size(f)
    PROVE  \E x : LineDone(f, b, s, z, room, x)
<1>1. PICK F : ReadsLineBy(F, f, room)
  BY LineKept
<1>2. PICK n \in Nat : n = room - 2
  OBVIOUS
<1>3. /\ MReadLine(f, room) = [f |-> F[n].f, out |-> IF F[n].done THEN F[n].out ELSE <<>>]
      /\ F[0] = [f |-> f, out |-> <<>>, done |-> FALSE]
      /\ \A k \in 1 .. n : F[k] = LineTurn(F[k - 1])
  BY <1>1, <1>2 DEF ReadsLineBy
<1>4. b \in Seq(AllBytes) /\ s \in Nat /\ z \in Nat /\ s <= z /\ Len(b) = z
  <2>1. f \in MemFiles
    BY DEF Cursors
  <2> QED BY <2>1, PosIs, BytesSpread, BytesAre
<1> DEFINE T == {k \in Nat : k <= n => LineOn(f, b, s, z, F[k], k)}
<1>5. 0 \in T
  <2>1. F[0].f = f /\ F[0].out = <<>> /\ ~F[0].done
    BY <1>3
  <2>2. At(f, f, s) /\ Between(b, s, s) = <<>> /\ s + 0 = s /\ s + 0 <= z
        /\ \A i \in 1 .. 0 : FALSE
    BY <1>4, KeptItself, BetweenIs DEF At
  <2>3. LineOn(f, b, s, z, F[0], 0)
    BY <2>1, <2>2, Zenon DEF LineOn
  <2> QED BY <2>3
<1>6. ASSUME NEW k \in Nat, k \in T PROVE k + 1 \in T
  <2> SUFFICES ASSUME k + 1 <= n PROVE LineOn(f, b, s, z, F[k + 1], k + 1)
    OBVIOUS
  <2>1. F[k + 1] = LineTurn(F[k]) /\ LineOn(f, b, s, z, F[k], k)
    <3>1. k + 1 \in 1 .. n /\ k + 1 - 1 = k /\ k <= n
      BY <1>2
    <3> QED BY <1>3, <1>6, <3>1
  <2>2. PICK x : x = F[k]
    OBVIOUS
  <2>3. LineOn(f, b, s, z, x, k)
    BY <2>1, <2>2
  <2>4. LineOn(f, b, s, z, LineTurn(x), k + 1)
    BY <2>3, LineTurnIs
  <2> QED BY <2>1, <2>2, <2>4
<1> HIDE DEF T
<1>7. n \in T
  BY <1>5, <1>6, NatSet
<1>8. LineOn(f, b, s, z, F[n], n)
  BY <1>7 DEF T
<1>9. LineDone(f, b, s, z, room, F[n])
  BY <1>2, <1>3, <1>8 DEF LineDone
<1> QED BY <1>9

---------------------------------------------------------------------------
(* Copying is reading and writing. *)

\* x is what mfile_copy has done when it asked for what is in front of t, and
\* l is where it ends: it has read as far as t, and written that.
CopyOn(f, b, s, l, x, t) ==
    LET v == IF x.done THEN l ELSE t
    IN  /\ x \in [f : MemFiles, dest : MemFiles, done : BOOLEAN]
        /\ Kept(f, x.f) /\ PosOf(x.f) = v /\ v <= l
        /\ Cursors(x.dest) /\ ~x.dest.empty /\ Bytes(x.dest) = Between(b, s, v)

\* One piece.
LEMMA CopyTurnIs ==
    ASSUME NEW f, Cursors(f), NEW b, b = Bytes(f), NEW z, z = Size(f),
           NEW s \in Nat, NEW e \in Nat, NEW l, l = (IF e <= z THEN e ELSE z),
           NEW t \in Nat, s <= t, t < e, NEW x, CopyOn(f, b, s, l, x, t),
           NEW q, q = (IF e - t < CopySize THEN e - t ELSE CopySize),
           NEW u, u = (IF t + CopySize <= e THEN t + CopySize ELSE e)
    PROVE  CopyOn(f, b, s, l, CopyTurn(x, q), u)
<1> DEFINE y == CopyTurn(x, q)
           r == MRead(x.f, q)
<1>1. /\ b \in Seq(AllBytes) /\ z \in Nat /\ Len(b) = z /\ CopySize \in Nat \ {0}
      /\ q \in Nat \ {0} /\ l \in Nat /\ l <= z
  <2>1. f \in MemFiles
    BY DEF Cursors
  <2> QED BY <2>1, BytesSpread, BytesAre, MFileAssumption
<1>2. /\ x \in [f : MemFiles, dest : MemFiles, done : BOOLEAN]
      /\ Kept(f, x.f) /\ Cursors(x.f) /\ Cursors(x.dest) /\ ~x.dest.empty
  BY DEF CopyOn, Kept
<1>3. y = IF x.done THEN x
          ELSE IF r.out = <<>> THEN [x EXCEPT !.done = TRUE]
          ELSE [f |-> r.f, dest |-> MWrite(x.dest, r.out), done |-> Len(r.out) < CopySize]
  BY DEF CopyTurn
<1> HIDE DEF y, r
<1>4. CASE x.done
  <2>1. y = x
    BY <1>3, <1>4
  <2> QED BY <1>4, <2>1, Zenon DEF CopyOn, y
<1>5. CASE ~x.done
  <2>1. PosOf(x.f) = t /\ t <= l /\ Bytes(x.dest) = Between(b, s, t)
    BY <1>5 DEF CopyOn
  <2>2. Bytes(x.f) = b /\ Size(x.f) = z
    BY <1>2, KeptBytes
  <2>3. PICK d : d = IF t + q <= z THEN t + q ELSE z
    OBVIOUS
  <2>4. At(x.f, r.f, d) /\ r.out = Between(b, t, d)
    <3>1. ReadOn(x.f, r, q)
      BY <1>1, <1>2, ReadIs DEF r
    <3> QED BY <2>1, <2>2, <2>3, <3>1 DEF ReadOn
  <2>5. d \in Nat /\ t <= d /\ d <= z /\ d <= l /\ s <= d
    BY <1>1, <2>1, <2>3
  <2>6. r.out \in Seq(AllBytes) /\ Len(r.out) = d - t
    <3>1. r.out \in Seq(AllBytes) /\ Takes(r.out, b, t, d)
      BY <1>1, <2>4, <2>5, BetweenIs
    <3> QED BY <3>1 DEF Takes
  <2>7. Kept(f, r.f) /\ PosOf(r.f) = d
    BY <1>2, <2>4, KeptTwice DEF At
  <2>8. CASE r.out = <<>>
    <3>1. y = [x EXCEPT !.done = TRUE]
      BY <1>3, <1>5, <2>8
    <3>2. /\ y \in [f : MemFiles, dest : MemFiles, done : BOOLEAN]
          /\ y.f = x.f /\ y.dest = x.dest /\ y.done
      BY <1>2, <3>1
    <3>3. Len(r.out) = 0
      BY <2>8
    <3>4. t = l /\ l <= l
      BY <1>1, <2>1, <2>3, <2>5, <2>6, <3>3
    <3>5. CopyOn(f, b, s, l, y, u)
      BY <1>2, <2>1, <3>2, <3>4 DEF CopyOn
    <3> QED BY <3>5 DEF y
  <2>9. CASE r.out # <<>>
    <3> DEFINE w == MWrite(x.dest, r.out)
    <3>1. /\ y = [f |-> r.f, dest |-> w, done |-> Len(r.out) < CopySize]
      BY <1>3, <1>5, <2>9
    <3>2. /\ Cursors(w) /\ w.empty = x.dest.empty /\ Bytes(w) = Bytes(x.dest) \o r.out
      <4>1. CarefulWrite(x.dest)
        BY <1>2 DEF CarefulWrite
      <4> QED BY <1>2, <2>6, <2>9, <4>1, WriteKept
    <3>3. Bytes(w) = Between(b, s, d)
      <4>1. Between(b, s, t) \o Between(b, t, d) = Between(b, s, d)
        <5>1. b \in Seq(AllBytes) /\ s \in Nat /\ t \in Nat /\ d \in Nat
          BY <1>1, <2>5
        <5>2. s <= t /\ t <= d /\ d <= Len(b)
          BY <1>1, <2>5
        <5> QED BY <5>1, <5>2, BetweenJoin, Zenon
      <4> QED BY <2>1, <2>4, <3>2, <4>1, Zenon
    <3>4. ~w.empty /\ w \in MemFiles /\ r.f \in MemFiles
      BY <1>2, <2>7, <3>2 DEF Cursors, Kept
    <3> HIDE DEF w
    <3> DEFINE c == (Len(r.out) < CopySize)
    <3>5. c \in BOOLEAN /\ (c <=> d - t < CopySize)
      BY <2>6
    <3> HIDE DEF c
    <3>6. /\ y \in [f : MemFiles, dest : MemFiles, done : BOOLEAN]
          /\ y.f = r.f /\ y.dest = w /\ y.done = c
      BY <3>1, <3>4, <3>5 DEF c
    <3>7. d = IF c THEN l ELSE u
      <4>1. CASE d - t < CopySize
        <5>1. d = l
          BY <1>1, <2>1, <2>3, <2>5, <4>1
        <5> QED BY <3>5, <4>1, <5>1
      <4>2. CASE ~(d - t < CopySize)
        <5>1. d = u
          BY <1>1, <2>1, <2>3, <2>5, <4>2
        <5> QED BY <3>5, <4>2, <5>1
      <4> QED BY <4>1, <4>2
    <3>8. CopyOn(f, b, s, l, y, u)
      BY <2>5, <2>7, <3>2, <3>3, <3>4, <3>6, <3>7 DEF CopyOn
    <3> QED BY <3>8 DEF y
  <2> QED BY <2>8, <2>9
<1> QED BY <1>4, <1>5

\* mfile_copy: it reads from s to l, and that is what is in the new file.
LEMMA CopyIs ==
    ASSUME NEW f, Cursors(f), NEW s \in Nat, NEW e \in Nat, s <= e, CarefulSeek(f, s),
           NEW b, b = Bytes(f), NEW z, z = Size(f), NEW l, l = (IF e <= z THEN e ELSE z)
    PROVE  /\ Kept(f, MCopy(f, s, e).f) /\ PosOf(MCopy(f, s, e).f) = l
           /\ Bytes(MCopy(f, s, e).dest) = Between(b, s, l)
           /\ s <= l
<1>1. /\ b \in Seq(AllBytes) /\ z \in Nat /\ Len(b) = z /\ CopySize \in Nat \ {0}
      /\ l \in Nat /\ l <= z /\ s <= l
  <2>1. f \in MemFiles
    BY DEF Cursors
  <2>2. s <= Len(b)
    BY DEF CarefulSeek
  <2> QED BY <2>1, <2>2, BytesSpread, BytesAre, MFileAssumption
<1>2. PICK n : n = (e - s + CopySize - 1) \div CopySize
  OBVIOUS
<1>3. PICK F : CopiesBy(F, f, s, e, n)
  BY <1>2, CopyKept
<1>4. /\ MCopy(f, s, e) = F[n]
      /\ F[0] = [f |-> MSeekPos(f, s), dest |-> Mopen, done |-> FALSE]
      /\ \A k \in 1 .. n : F[k] = CopyTurn(F[k - 1], CopyWant(s, e, k))
  BY <1>3 DEF CopiesBy
<1>5. /\ n \in Nat /\ e - s <= n * CopySize
      /\ \A k \in 1 .. n : /\ (k - 1) * CopySize \in Nat /\ (k - 1) * CopySize < e - s
                           /\ k * CopySize = (k - 1) * CopySize + CopySize
  <2> DEFINE a == e - s
  <2>1. a \in Nat /\ CopySize \in Nat \ {0} /\ n = (a + CopySize - 1) \div CopySize
    BY <1>1, <1>2
  <2> HIDE DEF a
  <2>2. /\ n \in Nat /\ a <= n * CopySize
        /\ \A k \in 1 .. n : /\ (k - 1) * CopySize \in Nat /\ (k - 1) * CopySize < a
                             /\ k * CopySize = (k - 1) * CopySize + CopySize
    BY <2>1, PiecesOf
  <2> QED BY <2>2 DEF a
<1> DEFINE t(k) == IF k * CopySize < e - s THEN s + k * CopySize ELSE e
           T == {k \in Nat : k <= n => CopyOn(f, b, s, l, F[k], t(k))}
<1>6. 0 \in T
  <2>1. t(0) = s
    <3>1. 0 * CopySize = 0
      BY <1>1
    <3> QED BY <3>1
  <2>2. Kept(f, MSeekPos(f, s)) /\ PosOf(MSeekPos(f, s)) = s
    BY SeekPosKept
  <2>3. Bytes(Mopen) = Between(b, s, s)
    BY <1>1, MopenIs, BetweenIs
  <2>4. /\ F[0] \in [f : MemFiles, dest : MemFiles, done : BOOLEAN]
        /\ F[0].f = MSeekPos(f, s) /\ F[0].dest = Mopen /\ ~F[0].done
    BY <1>4, <2>2, MopenIs DEF Kept, Cursors
  <2> HIDE DEF t
  <2>5. CopyOn(f, b, s, l, F[0], t(0))
    BY <1>1, <2>1, <2>2, <2>3, <2>4, MopenIs DEF CopyOn
  <2> QED BY <2>5
<1>7. ASSUME NEW k \in Nat, k \in T PROVE k + 1 \in T
  <2> SUFFICES ASSUME k + 1 <= n PROVE CopyOn(f, b, s, l, F[k + 1], t(k + 1))
    OBVIOUS
  <2>1. k + 1 \in 1 .. n /\ k + 1 - 1 = k /\ k <= n
    BY <1>5
  <2>2. CopyOn(f, b, s, l, F[k], t(k)) /\ F[k + 1] = CopyTurn(F[k], CopyWant(s, e, k + 1))
    BY <1>4, <1>7, <2>1
  <2>3. PICK a : a = k * CopySize
    OBVIOUS
  <2>4. a \in Nat /\ a < e - s /\ (k + 1) * CopySize = a + CopySize
    BY <1>5, <2>1, <2>3
  <2>5. t(k) = s + a /\ s + a \in Nat /\ s <= s + a /\ s + a < e
    BY <2>3, <2>4
  <2>6. CopyWant(s, e, k + 1) = IF e - (s + a) < CopySize THEN e - (s + a) ELSE CopySize
    BY <1>1, <2>1, <2>3, <2>4 DEF CopyWant
  <2>7. t(k + 1) = IF s + a + CopySize <= e THEN s + a + CopySize ELSE e
    BY <1>1, <2>4
  <2> HIDE DEF t
  <2>8. CopyOn(f, b, s, l, CopyTurn(F[k], CopyWant(s, e, k + 1)), t(k + 1))
    <3>1. PICK x, v, q, u : x = F[k] /\ v = s + a /\ q = CopyWant(s, e, k + 1) /\ u = t(k + 1)
      OBVIOUS
    <3>2. /\ v \in Nat /\ s <= v /\ v < e /\ CopyOn(f, b, s, l, x, v)
          /\ q = (IF e - v < CopySize THEN e - v ELSE CopySize)
          /\ u = (IF v + CopySize <= e THEN v + CopySize ELSE e)
      BY <2>2, <2>5, <2>6, <2>7, <3>1
    <3>3. CopyOn(f, b, s, l, CopyTurn(x, q), u)
      BY <3>2, CopyTurnIs
    <3> QED BY <3>1, <3>3
  <2> QED BY <2>2, <2>8
<1> HIDE DEF T
<1>8. n \in T
  BY <1>5, <1>6, <1>7, NatSet
<1>9. CopyOn(f, b, s, l, F[n], e)
  <2>1. t(n) = e
    <3>1. n * CopySize \in Nat
      BY <1>1, <1>5
    <3>2. ~(n * CopySize < e - s)
      BY <1>5, <3>1
    <3> QED BY <3>2
  <2> HIDE DEF t
  <2> QED BY <1>5, <1>8, <2>1 DEF T
<1>10. PICK x : x = F[n]
  OBVIOUS
<1>11. (IF x.done THEN l ELSE e) = l
  BY <1>1, <1>9, <1>10 DEF CopyOn
<1> QED BY <1>1, <1>4, <1>9, <1>10, <1>11 DEF CopyOn

---------------------------------------------------------------------------
(* Every call is one on the bytes. *)

\* What the file is read as, before and after a step.
LEMMA PositionIs == Position = PosOf(file) /\ Position' = PosOf(file')
BY DEF Position, PosOf, BytesBefore

LEMMA BytesNext == Bytes(file)' = Bytes(file')
BY DEF Bytes, FlattenSeq

\* A call that only reads reads the same bytes.
LEMMA MovesTo ==
    ASSUME FileInv, NEW p, Kept(file, file'), PosOf(file') = p
    PROVE  Position' = p /\ UNCHANGED Bytes(file)
<1>1. Cursors(file)
  BY DEF FileInv
<1> QED BY <1>1, KeptBytes, PositionIs, BytesNext

LEMMA ReadsTo ==
    ASSUME FileInv, NEW p, At(file, file', p)
    PROVE  Position' = p /\ UNCHANGED Bytes(file)
BY MovesTo DEF At

\* The bytes and the place.
LEMMA FileIs ==
    ASSUME FileInv, NEW b, b = Bytes(file), NEW s, s = PosOf(file), NEW z, z = Size(file)
    PROVE  /\ Cursors(file) /\ file \in MemFiles /\ b \in Seq(AllBytes)
           /\ s \in Nat /\ z \in Nat /\ s <= z /\ Len(b) = z /\ Position = s
           /\ AsBytes!Rest = Between(b, s, z)
<1>1. Cursors(file) /\ file \in MemFiles
  BY DEF FileInv, Cursors
<1>2. b \in Seq(AllBytes) /\ s \in Nat /\ z \in Nat /\ s <= z /\ Len(b) = z /\ Position = s
  BY <1>1, PosIs, BytesSpread, BytesAre, PositionIs
<1>3. AsBytes!Rest = Between(b, s, z)
  BY <1>2 DEF AsBytes!Rest, Between
<1> QED BY <1>1, <1>2, <1>3

\* mgetc returns the next byte, or NUL when there is none.
LEMMA GetcIsAbstract ==
    ASSUME FileInv, Getc
    PROVE  AsBytes!Getc
<1>1. PICK b, s, z : b = Bytes(file) /\ s = PosOf(file) /\ z = Size(file)
  OBVIOUS
<1>2. /\ Cursors(file) /\ b \in Seq(AllBytes) /\ s \in Nat /\ z \in Nat /\ s <= z
      /\ Len(b) = z /\ Position = s /\ AsBytes!Rest = Between(b, s, z)
  BY <1>1, FileIs
<1>3. file' = MGetc(file).f /\ out' = <<MGetc(file).c>>
  BY DEF Getc
<1>4. PICK r : r = Between(b, s, z)
  OBVIOUS
<1>5. r \in Seq(AllBytes) /\ Len(r) = z - s /\ \A i \in 1 .. z - s : r[i] = b[s + i]
  <2>1. r \in Seq(AllBytes) /\ Takes(r, b, s, z)
    BY <1>2, <1>4, BetweenIs
  <2> QED BY <2>1 DEF Takes
<1>6. CASE s < z
  <2>1. At(file, file', s + 1) /\ out' = <<b[s + 1]>>
    BY <1>1, <1>2, <1>3, <1>6, GetcIs
  <2>2. Position' = s + 1 /\ UNCHANGED Bytes(file)
    BY <2>1, ReadsTo
  <2>3. r # <<>> /\ r[1] = b[s + 1]
    <3>1. 1 \in 1 .. z - s /\ Len(r) # 0
      BY <1>2, <1>5, <1>6
    <3> QED BY <1>5, <3>1
  <2> QED BY <1>2, <1>4, <2>1, <2>2, <2>3 DEF AsBytes!Getc, AsBytes!Returns
<1>7. CASE ~(s < z)
  <2>1. file' = file /\ out' = <<NUL>>
    BY <1>1, <1>2, <1>3, <1>7, GetcIs
  <2>2. At(file, file', s)
    BY <1>1, <1>2, <2>1, KeptItself DEF At
  <2>3. Position' = s /\ UNCHANGED Bytes(file)
    BY <2>2, ReadsTo
  <2>4. r = <<>>
    <3>1. s = z
      BY <1>2, <1>7
    <3> QED BY <1>2, <1>4, <3>1, BetweenIs
  <2>5. Position' = Position + 0
    BY <1>2, <2>3
  <2> QED BY <1>2, <1>4, <2>1, <2>3, <2>4, <2>5 DEF AsBytes!Getc, AsBytes!Returns
<1> QED BY <1>6, <1>7

\* mread returns as many of the next n bytes as there are.
LEMMA ReadIsAbstract ==
    ASSUME FileInv, NEW n \in ReadSizes, Read(n)
    PROVE  AsBytes!Read(n)
<1>1. PICK b, s, z : b = Bytes(file) /\ s = PosOf(file) /\ z = Size(file)
  OBVIOUS
<1>2. /\ Cursors(file) /\ b \in Seq(AllBytes) /\ s \in Nat /\ z \in Nat /\ s <= z
      /\ Len(b) = z /\ Position = s /\ AsBytes!Rest = Between(b, s, z)
  BY <1>1, FileIs
<1>3. file' = MRead(file, n).f /\ out' = MRead(file, n).out /\ n \in Nat
  BY MFileAssumption DEF Read
<1>4. PICK r : r = Between(b, s, z)
  OBVIOUS
<1>5. Len(r) = z - s
  <2>1. Takes(r, b, s, z)
    BY <1>2, <1>4, BetweenIs
  <2> QED BY <2>1 DEF Takes
<1>6. PICK k : k = IF n <= z - s THEN n ELSE z - s
  OBVIOUS
<1>7. /\ k \in 0 .. z - s /\ s + k = (IF s + n <= z THEN s + n ELSE z)
  BY <1>2, <1>3, <1>6
<1>8. At(file, file', s + k) /\ out' = Between(b, s, s + k)
  <2>1. ReadOn(file, MRead(file, n), n)
    BY <1>2, <1>3, ReadIs
  <2> QED BY <1>1, <1>3, <1>7, <2>1 DEF ReadOn
<1>9. Position' = s + k /\ UNCHANGED Bytes(file)
  BY <1>8, ReadsTo
<1>10. SubSeq(r, 1, k) = Between(b, s, s + k)
  <2>1. Between(r, 0, k) = Between(b, s, s + k)
    BY <1>2, <1>4, <1>7, BetweenTwice
  <2>2. Between(r, 0, k) = SubSeq(r, 1, k)
    <3>1. 0 + 1 = 1
      OBVIOUS
    <3> QED BY <3>1 DEF Between
  <2> QED BY <2>1, <2>2
<1>11. AsBytes!Read(n) <=> AsBytes!Returns(SubSeq(r, 1, k), k)
  BY <1>2, <1>4, <1>5, <1>6 DEF AsBytes!Read
<1> QED BY <1>2, <1>8, <1>9, <1>10, <1>11 DEF AsBytes!Returns

\* The least of a set of numbers is what is chosen.
LEMMA ChosenLeast ==
    ASSUME NEW E, E \subseteq Nat, NEW q \in E, \A j \in E : q <= j
    PROVE  (CHOOSE i \in E : \A j \in E : i <= j) = q
<1>1. \A i \in E : (\A j \in E : i <= j) => i = q
  <2>1. \A i \in E : i \in Nat /\ q \in Nat
    OBVIOUS
  <2> QED BY <2>1
<1> QED BY <1>1

\* The line ends at place t of r, which has l bytes, or behind all of them.
Stops(r, l, t) ==
    /\ t \in 1 .. l + 1 /\ \A i \in 1 .. t - 1 : r[i] \notin {LF, NUL}
    /\ t = l + 1 \/ r[t] \in {LF, NUL}

\* LineStop is where the line stops, and there is one such place.
LEMMA StopIs ==
    ASSUME NEW r, r = AsBytes!Rest, NEW l \in Nat, l = Len(r)
    PROVE  Stops(r, l, AsBytes!LineStop) /\ \A q : Stops(r, l, q) => q = AsBytes!LineStop
<1> DEFINE ends == {i \in 1 .. Len(r) : r[i] \in {LF, NUL}}
           E    == ends \cup {Len(r) + 1}
<1>1. AsBytes!LineStop = CHOOSE i \in E : \A j \in E : i <= j
  BY DEF AsBytes!LineStop
<1>2. E \subseteq Nat /\ l + 1 \in E
  OBVIOUS
<1>3. \A i : i \in E <=> i = l + 1 \/ (i \in 1 .. l /\ r[i] \in {LF, NUL})
  OBVIOUS
<1> HIDE DEF E
<1>4. PICK t \in E : \A j \in E : t <= j
  BY <1>2, LeastOf
<1>5. AsBytes!LineStop = t
  BY <1>1, <1>2, <1>4, ChosenLeast
<1>6. Stops(r, l, t)
  <2>1. t \in 1 .. l + 1 /\ (t = l + 1 \/ r[t] \in {LF, NUL})
    BY <1>3, <1>4
  <2>2. ASSUME NEW i \in 1 .. t - 1 PROVE r[i] \notin {LF, NUL}
    <3>1. i \in 1 .. l /\ ~(t <= i)
      BY <2>1
    <3> QED BY <1>3, <1>4, <3>1
  <2> QED BY <2>1, <2>2 DEF Stops
<1>7. ASSUME NEW q, Stops(r, l, q) PROVE q = t
  <2>1. q \in 1 .. l + 1 /\ q \in E
    BY <1>3, <1>7 DEF Stops
  <2>2. t <= q /\ t \in 1 .. l + 1
    BY <1>3, <1>4, <2>1
  <2>3. ~(t < q)
    <3> SUFFICES ASSUME t < q PROVE FALSE
      OBVIOUS
    <3>1. t \in 1 .. q - 1 /\ t # l + 1
      BY <2>1, <2>2
    <3>2. r[t] \in {LF, NUL}
      BY <1>3, <1>4, <3>1
    <3> QED BY <1>7, <3>1, <3>2 DEF Stops
  <2> QED BY <2>1, <2>2, <2>3
<1> QED BY <1>5, <1>6, <1>7

\* mread_line returns the next line with its end, the rest when no line end
\* follows, and nothing when the room is too small.
LEMMA ReadLineIsAbstract ==
    ASSUME FileInv, NEW room \in Rooms, ReadLine(room)
    PROVE  AsBytes!ReadLine(room)
<1>1. PICK b, s, z : b = Bytes(file) /\ s = PosOf(file) /\ z = Size(file)
  OBVIOUS
<1>2. /\ Cursors(file) /\ b \in Seq(AllBytes) /\ s \in Nat /\ z \in Nat /\ s <= z
      /\ Len(b) = z /\ Position = s /\ AsBytes!Rest = Between(b, s, z)
  BY <1>1, FileIs
<1>3. /\ CarefulLines(file) /\ room \in Nat /\ room > 2
      /\ file' = MReadLine(file, room).f /\ out' = MReadLine(file, room).out
  BY MFileAssumption DEF ReadLine
<1>4. PICK x : LineDone(file, b, s, z, room, x)
  BY <1>1, <1>2, <1>3, LineIs
<1>5. PICK most \in Nat : most = room - 2 /\ most > 0
  BY <1>3
<1>6. LineOn(file, b, s, z, x, most) /\ file' = x.f /\ out' = IF x.done THEN x.out ELSE <<>>
  BY <1>3, <1>4, <1>5 DEF LineDone
<1>7. PICK r, l : r = Between(b, s, z) /\ l = z - s
  OBVIOUS
<1>8. /\ r \in Seq(AllBytes) /\ l \in Nat /\ Len(r) = l /\ r = AsBytes!Rest
      /\ \A i \in 1 .. l : r[i] = b[s + i]
  <2>1. r \in Seq(AllBytes) /\ Takes(r, b, s, z)
    BY <1>2, <1>7, BetweenIs
  <2> QED BY <1>2, <1>7, <2>1 DEF Takes
<1>9. PICK t : t = AsBytes!LineStop
  OBVIOUS
<1>10. Stops(r, l, t) /\ \A q : Stops(r, l, q) => q = t
  BY <1>8, <1>9, StopIs
<1>11. t \in 1 .. l + 1 /\ \A i \in 1 .. t - 1 : r[i] \notin {LF, NUL}
  BY <1>10 DEF Stops
<1> DEFINE fits == t <= most \/ (t = most + 1 /\ r[most] = CR)
           Returns(bytes, n) == out' = bytes /\ Position' = s + n /\ UNCHANGED Bytes(file)
<1>12. AsBytes!ReadLine(room) <=>
         \/ t <= l /\ r[t] = LF /\ fits /\ Returns(SubSeq(r, 1, t), t)
         \/ t <= l /\ r[t] = NUL /\ t <= most /\ Returns(SubSeq(r, 1, t - 1), t)
         \/ t > l /\ t <= most /\ Returns(r, l)
         \/ /\ IF t <= l /\ r[t] = LF THEN ~fits ELSE t > most
            /\ Returns(<<>>, most)
  BY <1>2, <1>5, <1>8, <1>9 DEF AsBytes!ReadLine, AsBytes!Returns
<1>13. ASSUME NEW bytes, NEW n, out' = bytes, At(file, file', s + n) PROVE Returns(bytes, n)
  BY <1>13, ReadsTo
<1>14. \A q \in 0 .. l : SubSeq(r, 1, q) = Between(b, s, s + q)
  <2> SUFFICES ASSUME NEW q \in 0 .. l PROVE SubSeq(r, 1, q) = Between(b, s, s + q)
    OBVIOUS
  <2>1. Between(r, 0, q) = Between(b, s, s + q)
    BY <1>2, <1>7, BetweenTwice
  <2>2. Between(r, 0, q) = SubSeq(r, 1, q)
    <3>1. 0 + 1 = 1
      OBVIOUS
    <3> QED BY <3>1 DEF Between
  <2> QED BY <2>1, <2>2
<1> HIDE DEF Returns
<1>15. CASE ~x.done
  <2>1. /\ s + most <= z /\ \A i \in 1 .. most : b[s + i] \notin {CR, LF, NUL}
        /\ At(file, file', s + most)
    BY <1>6, <1>15 DEF LineOn
  <2>2. most <= l /\ \A i \in 1 .. most : r[i] \notin {CR, LF, NUL}
    <3>1. most <= l
      BY <1>2, <1>7, <2>1
    <3>2. \A i \in 1 .. most : i \in 1 .. l
      BY <1>5, <1>8, <3>1
    <3> QED BY <1>8, <2>1, <3>1, <3>2
  <2>3. t > most
    <3>1. CASE t = l + 1
      BY <1>8, <2>2, <3>1
    <3>2. CASE t # l + 1
      <4>1. r[t] \in {LF, NUL}
        BY <1>10, <3>2 DEF Stops
      <4>2. t \notin 1 .. most
        BY <2>2, <4>1
      <4> QED BY <1>5, <1>11, <4>2
    <3> QED BY <3>1, <3>2
  <2>4. ~fits
    <3>1. r[most] # CR
      <4>1. most \in 1 .. most
        BY <1>5
      <4> QED BY <2>2, <4>1
    <3>2. ~(t <= most)
      BY <1>5, <1>11, <2>3
    <3> QED BY <3>1, <3>2
  <2>5. Returns(<<>>, most)
    BY <1>6, <1>13, <1>15, <2>1
  <2> HIDE DEF fits
  <2> QED BY <1>12, <2>3, <2>4, <2>5
<1>16. CASE x.done
  <2>1. PICK q : Ended(file, b, s, z, x, most, q)
    BY <1>6, <1>16 DEF LineOn
  <2>2. q \in 1 .. l + 1 /\ \A i \in 1 .. q - 1 : r[i] \notin {LF, NUL}
    <3>1. q \in 1 .. l + 1 /\ \A i \in 1 .. q - 1 : b[s + i] \notin {LF, NUL}
      BY <1>7, <2>1 DEF Ended
    <3>2. \A i \in 1 .. q - 1 : i \in 1 .. l
      BY <1>8, <3>1
    <3> QED BY <1>8, <3>1, <3>2
  <2>3. q <= l => q \in 1 .. l /\ r[q] = b[s + q]
    BY <1>8, <2>2
  <2>4. out' = x.out
    BY <1>6, <1>16
  <2>5. CASE /\ q <= z - s /\ b[s + q] = LF
             /\ q <= most \/ (q = most + 1 /\ most > 0 /\ b[s + most] = CR)
             /\ At(file, x.f, s + q) /\ x.out = Between(b, s, s + q)
    <3>1. q <= l /\ r[q] = LF
      BY <1>7, <2>3, <2>5
    <3>2. Stops(r, l, q)
      BY <2>2, <3>1 DEF Stops
    <3>3. t = q
      BY <1>10, <3>2
    <3>4. fits
      <4>1. CASE q <= most
        BY <3>3, <4>1
      <4>2. CASE q = most + 1 /\ b[s + most] = CR
        <5>1. most \in 1 .. l
          BY <1>5, <1>8, <3>1, <4>2
        <5> QED BY <1>8, <3>3, <4>2, <5>1
      <4> QED BY <2>5, <4>1, <4>2
    <3>5. Returns(SubSeq(r, 1, q), q)
      <4>1. q \in 0 .. l
        BY <2>3, <3>1
      <4>2. out' = SubSeq(r, 1, q)
        BY <1>14, <2>4, <2>5, <4>1
      <4> QED BY <1>6, <1>13, <2>5, <4>2
    <3> HIDE DEF fits
    <3> QED BY <1>12, <3>1, <3>3, <3>4, <3>5
  <2>6. CASE /\ q <= z - s /\ b[s + q] = NUL /\ q <= most
             /\ At(file, x.f, s + q) /\ x.out = Between(b, s, s + q - 1)
    <3>1. q <= l /\ r[q] = NUL
      BY <1>7, <2>3, <2>6
    <3>2. Stops(r, l, q)
      BY <2>2, <3>1 DEF Stops
    <3>3. t = q
      BY <1>10, <3>2
    <3>4. Returns(SubSeq(r, 1, q - 1), q)
      <4>1. q - 1 \in 0 .. l /\ s + (q - 1) = s + q - 1
        BY <1>2, <1>8, <2>3, <3>1
      <4>2. out' = SubSeq(r, 1, q - 1)
        BY <1>14, <2>4, <2>6, <4>1
      <4> QED BY <1>6, <1>13, <2>6, <4>2
    <3> HIDE DEF fits
    <3> QED BY <1>12, <2>6, <3>1, <3>3, <3>4
  <2>7. CASE /\ q = z - s + 1 /\ q <= most
             /\ At(file, x.f, z) /\ x.out = Between(b, s, z)
    <3>1. q = l + 1
      BY <1>7, <2>7
    <3>2. Stops(r, l, q)
      BY <2>2, <3>1 DEF Stops
    <3>3. t = q /\ t > l
      BY <1>8, <1>10, <3>1, <3>2
    <3>4. Returns(r, l)
      <4>1. s + l = z
        BY <1>2, <1>7
      <4> QED BY <1>6, <1>7, <1>13, <2>4, <2>7, <4>1
    <3> HIDE DEF fits
    <3> QED BY <1>12, <2>7, <3>3, <3>4
  <2> QED BY <2>1, <2>5, <2>6, <2>7 DEF Ended
<1> QED BY <1>15, <1>16

\* mseek and mseek_pos go to a place.
LEMMA SeekIsAbstract ==
    ASSUME FileInv, Seek
    PROVE  AsBytes!SeekTo(0)
<1>1. file' = MSeek(file) /\ out' = <<>>
  BY DEF Seek
<1>2. Kept(file, file') /\ file'.readp = 0
  BY <1>1, SeekKept DEF FileInv
<1>3. PosOf(file') = 0
  BY <1>2 DEF PosOf
<1> QED BY <1>1, <1>2, <1>3, MovesTo DEF AsBytes!SeekTo

LEMMA SeekPosIsAbstract ==
    ASSUME FileInv, NEW p \in Nat, SeekPos(p)
    PROVE  AsBytes!SeekTo(p) /\ p \in 0 .. Len(Bytes(file))
<1>1. CarefulSeek(file, p) /\ file' = MSeekPos(file, p) /\ out' = <<>>
  BY DEF SeekPos
<1>2. Kept(file, file') /\ PosOf(file') = p
  BY <1>1, SeekPosKept DEF FileInv
<1>3. p \in 0 .. Len(Bytes(file))
  <2>1. Bytes(file) \in Seq(AllBytes)
    BY BytesSpread DEF FileInv, Cursors
  <2> QED BY <1>1, <2>1 DEF CarefulSeek
<1> QED BY <1>1, <1>2, <1>3, MovesTo DEF AsBytes!SeekTo

\* mfile_copy returns what is between two places.
LEMMA CopyIsAbstract ==
    ASSUME FileInv, NEW s \in Nat, NEW e \in Nat, s <= e, Copy(s, e)
    PROVE  AsBytes!Copy(s, e) /\ s \in 0 .. Len(Bytes(file))
<1>1. PICK b, z, l : b = Bytes(file) /\ z = Size(file) /\ l = IF e <= z THEN e ELSE z
  OBVIOUS
<1>2. Cursors(file) /\ b \in Seq(AllBytes) /\ z \in Nat /\ Len(b) = z
  BY <1>1, FileIs
<1>3. CarefulSeek(file, s) /\ file' = MCopy(file, s, e).f /\ out' = Bytes(MCopy(file, s, e).dest)
  BY DEF Copy
<1>4. Kept(file, file') /\ PosOf(file') = l /\ out' = Between(b, s, l) /\ s <= l
  BY <1>1, <1>2, <1>3, CopyIs
<1>5. Position' = l /\ UNCHANGED Bytes(file)
  BY <1>4, MovesTo
<1>6. l = IF s < l THEN l ELSE s
  BY <1>1, <1>2, <1>4
<1>7. AsBytes!Copy(s, e)
  <2>1. AsBytes!Copy(s, e) <=> /\ out' = SubSeq(b, s + 1, l)
                               /\ Position' = (IF s < l THEN l ELSE s)
                               /\ UNCHANGED Bytes(file)
    BY <1>1, <1>2 DEF AsBytes!Copy
  <2>2. out' = SubSeq(b, s + 1, l)
    BY <1>4 DEF Between
  <2> QED BY <1>5, <1>6, <2>1, <2>2, Zenon
<1>8. s \in 0 .. Len(Bytes(file))
  BY <1>1, <1>2, <1>4
<1> QED BY <1>7, <1>8

\* mwrite puts all of d behind the bytes, or as much of it as there was memory
\* for.
LEMMA WriteIsAbstract ==
    ASSUME FileInv, NEW d \in Chunks, Write(d) \/ WriteFail(d)
    PROVE  AsBytes!Extend(d)
<1>1. Cursors(file) /\ file.total >= Size(file)
  BY DEF FileInv, Counted
<1>2. d \in Seq(AllBytes) /\ d # <<>> /\ Len(d) \in Nat
  <2>1. d \in Seq(AllBytes) /\ d # <<>>
    BY MFileAssumption DEF AllBytes
  <2> QED BY <2>1
<1>3. ASSUME NEW k \in 0 .. Len(d), Bytes(file') = Bytes(file) \o SubSeq(d, 1, k),
             PosOf(file') = PosOf(file), out' = <<>>
      PROVE  AsBytes!Extend(d)
  <2>1. Bytes(file)' = Bytes(file) \o SubSeq(d, 1, k) /\ UNCHANGED Position
    BY <1>3, BytesNext, PositionIs
  <2> QED BY <1>3, <2>1 DEF AsBytes!Extend
<1>4. CASE Write(d)
  <2>1. CarefulWrite(file) /\ file' = MWrite(file, d) /\ out' = <<>>
    BY <1>4 DEF Write
  <2>2. Bytes(file') = Bytes(file) \o d /\ PosOf(file') = PosOf(file)
    BY <1>1, <1>2, <2>1, WriteKept
  <2>3. Len(d) \in 0 .. Len(d) /\ SubSeq(d, 1, Len(d)) = d
    BY <1>2, SubSeqFull
  <2> QED BY <1>3, <2>1, <2>2, <2>3
<1>5. CASE WriteFail(d)
  <2>1. CarefulWrite(file) /\ out' = <<>>
    BY <1>5 DEF WriteFail
  <2>2. PICK k \in AllocAt(file, d) : file' = MWriteFail(file, d, k)
    BY <1>5 DEF WriteFail
  <2>3. /\ k \in 0 .. Len(d) /\ PosOf(file') = PosOf(file)
        /\ Bytes(file') = Bytes(file) \o SubSeq(d, 1, k)
    BY <1>1, <1>2, <2>1, <2>2, WriteFailKept
  <2> QED BY <1>3, <2>1, <2>3
<1> QED BY <1>4, <1>5

\* mwrite_head puts d in front of them.
LEMMA WriteHeadIsAbstract ==
    ASSUME FileInv, NEW d \in Chunks, WriteHead(d)
    PROVE  AsBytes!Prepend(d)
<1>1. d \in Seq(AllBytes) /\ d # <<>>
  BY MFileAssumption DEF AllBytes
<1>2. /\ Len(d) <= BlockSize /\ file.readp = 0 /\ file' = MWriteHead(file, d)
      /\ out' = <<>>
  BY DEF WriteHead
<1>3. file'.readp = 0 /\ Bytes(file') = d \o Bytes(file)
  BY <1>1, <1>2, HeadKept DEF FileInv
<1>4. Position = 0 /\ Position' = 0
  BY <1>2, <1>3, PositionIs DEF PosOf
<1> QED BY <1>2, <1>3, <1>4, BytesNext DEF AsBytes!Prepend

\* mwrite_file writes them, and changes nothing.
LEMMA WriteFileIsAbstract ==
    ASSUME FileInv, WriteFile
    PROVE  AsBytes!Dump
<1>1. out' = Bytes(file) /\ file' = file
  BY DEF WriteFile
<1>2. UNCHANGED <<Bytes(file), Position>>
  BY <1>1, BytesNext, PositionIs
<1>3. Position \in Nat
  BY FileIs
<1>4. Position' = Position + 0
  BY <1>2, <1>3
<1> QED BY <1>1, <1>2, <1>4 DEF AsBytes!Dump, AsBytes!Returns

\* A file that was just opened has no bytes.
LEMMA CloseIsAbstract ==
    ASSUME Close
    PROVE  AsBytes!Clear
<1>1. file' = Mopen /\ out' = <<>>
  BY DEF Close
<1>2. Bytes(file)' = <<>> /\ Position' = 0
  BY <1>1, MopenIs, BytesNext, PositionIs DEF PosOf
<1> QED BY <1>1, <1>2 DEF AsBytes!Clear

LEMMA FileInitIsAbstract == FileInit => AsBytes!Init
<1> SUFFICES ASSUME FileInit PROVE AsBytes!Init
  OBVIOUS
<1>1. file = Mopen /\ out = <<>>
  BY DEF FileInit
<1>2. Bytes(file) = <<>> /\ Position = 0
  BY <1>1, MopenIs, PositionIs DEF PosOf
<1> QED BY <1>1, <1>2 DEF AsBytes!Init

\* Every step of the file is one of the bytes.
LEMMA FileNextIsAbstract == FileInv /\ FileNext => AsBytes!Next
<1> SUFFICES ASSUME FileInv, FileNext PROVE AsBytes!Next
  OBVIOUS
<1>1. ASSUME NEW d \in Chunks, Write(d) \/ WriteFail(d) \/ WriteHead(d) PROVE AsBytes!Next
  <2>1. AsBytes!Extend(d) \/ AsBytes!Prepend(d)
    BY <1>1, WriteIsAbstract, WriteHeadIsAbstract
  <2> QED BY <2>1 DEF AsBytes!Next
<1>2. ASSUME NEW n \in ReadSizes, Read(n) PROVE AsBytes!Next
  BY <1>2, ReadIsAbstract DEF AsBytes!Next
<1>3. ASSUME NEW room \in Rooms, ReadLine(room) PROVE AsBytes!Next
  BY <1>3, ReadLineIsAbstract DEF AsBytes!Next
<1>4. ASSUME NEW p \in 0 .. MaxBytes, SeekPos(p) PROVE AsBytes!Next
  <2>1. p \in Nat
    OBVIOUS
  <2>2. AsBytes!SeekTo(p) /\ p \in 0 .. Len(Bytes(file))
    BY <1>4, <2>1, SeekPosIsAbstract
  <2> QED BY <2>2 DEF AsBytes!Next
<1>5. ASSUME NEW s \in 0 .. MaxBytes, NEW e \in s .. MaxBytes, Copy(s, e) PROVE AsBytes!Next
  <2>1. s \in Nat /\ e \in Nat /\ s <= e
    OBVIOUS
  <2>2. AsBytes!Copy(s, e) /\ s \in 0 .. Len(Bytes(file))
    BY <1>5, <2>1, CopyIsAbstract
  <2> QED BY <2>2 DEF AsBytes!Next
<1>6. ASSUME Getc PROVE AsBytes!Next
  BY <1>6, GetcIsAbstract DEF AsBytes!Next
<1>7. ASSUME Seek PROVE AsBytes!Next
  <2>1. 0 \in 0 .. Len(Bytes(file))
    <3>1. Bytes(file) \in Seq(AllBytes)
      BY BytesSpread DEF FileInv, Cursors
    <3> QED BY <3>1
  <2>2. AsBytes!SeekTo(0)
    BY <1>7, SeekIsAbstract
  <2> QED BY <2>1, <2>2 DEF AsBytes!Next
<1>8. ASSUME WriteFile PROVE AsBytes!Next
  BY <1>8, WriteFileIsAbstract DEF AsBytes!Next
<1>9. ASSUME Close PROVE AsBytes!Next
  BY <1>9, CloseIsAbstract DEF AsBytes!Next
<1> QED BY <1>1, <1>2, <1>3, <1>4, <1>5, <1>6, <1>7, <1>8, <1>9 DEF FileNext

\* And so is a step that leaves the file alone.
LEMMA FileStutters == UNCHANGED fileVars => UNCHANGED <<Bytes(file), Position, out>>
<1> SUFFICES ASSUME UNCHANGED fileVars PROVE UNCHANGED <<Bytes(file), Position, out>>
  OBVIOUS
<1>1. file' = file /\ out' = out
  BY DEF fileVars
<1> QED BY <1>1, BytesNext, PositionIs
=============================================================================
