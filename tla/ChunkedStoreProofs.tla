------------------------- MODULE ChunkedStoreProofs -------------------------
(***************************************************************************)
(* Proofs about ChunkedStore, for every size of the table, every set of    *)
(* chunks and batches and every bound on writes, failures and kills.       *)
(*                                                                         *)
(* Where relates the files, the durable record and the pending record at   *)
(* each label of the handler.  Its core is Stands(f, m, v): the files f    *)
(* under the record m stand for the content v, in one of the ways in which *)
(* a journal, a backup or a marker may be there.  Every step of the        *)
(* handler keeps what stands, or moves it to what the operation writes.    *)
(*                                                                         *)
(* The order: facts about contents and directories of chunks; Stands and   *)
(* the changes of the files it survives; the invariant; one lemma per      *)
(* step; Begin, Flush and Crash; the theorems.                             *)
(***************************************************************************)
EXTENDS ChunkedStore, FiniteSetTheorems, SequenceTheorems, WellFoundedInduction, TLAPS

-----------------------------------------------------------------------------
(* Contents: sequences of at most MaxChunks chunks                         *)

LEMMA ContentIs ==
  ASSUME NEW c
  PROVE  c \in Content <=> c \in Seq(Chunk) /\ Len(c) <= MaxChunks
<1>1. MaxChunks \in Nat
  BY ChunkAssumption
<1>2. ASSUME NEW n \in 0..MaxChunks, c \in [1..n -> Chunk]
      PROVE  c \in Seq(Chunk) /\ Len(c) <= MaxChunks
  <2>1. c \in Seq(Chunk)
    BY <1>2, IsASeq
  <2>2. Len(c) = n
    BY <1>1, <1>2, <2>1
  <2> QED
    BY <1>1, <2>1, <2>2
<1>3. ASSUME c \in Seq(Chunk), Len(c) <= MaxChunks PROVE c \in Content
  <2>1. Len(c) \in 0..MaxChunks /\ c \in [1..Len(c) -> Chunk]
    BY <1>1, <1>3
  <2> QED
    BY <2>1 DEF Content
<1> QED
  BY <1>2, <1>3 DEF Content

LEMMA ContentAt ==
  ASSUME NEW c \in Content
  PROVE  /\ Len(c) \in 0..MaxChunks /\ c \in [1..Len(c) -> Chunk]
         /\ \A i \in Nat : i < Len(c) => c[i + 1] \in Chunk /\ i \in Idx
<1>1. MaxChunks \in Nat /\ c \in Seq(Chunk) /\ Len(c) <= MaxChunks
  BY ContentIs, ChunkAssumption
<1>2. Len(c) \in 0..MaxChunks /\ c \in [1..Len(c) -> Chunk]
  BY <1>1
<1> QED
  BY <1>1, <1>2 DEF Idx

LEMMA NoContent == <<>> \in Content /\ Len(<<>>) = 0
<1>1. MaxChunks \in Nat
  BY ChunkAssumption
<1>2. PICK e : e = <<>> /\ e \in Seq(Chunk) /\ Len(e) = 0
  BY EmptySeq, Zenon
<1>3. e \in Content
  <2>1. e \in Seq(Chunk) /\ Len(e) <= MaxChunks
    <3>1. Len(e) = 0
      BY <1>2
    <3>2. Len(e) <= MaxChunks
      BY <1>1, <3>1
    <3> QED
      BY <1>2, <3>2
  <2> QED
    BY <2>1, ContentIs, Zenon
<1> QED
  BY <1>2, <1>3, Zenon

LEMMA Joined ==
  ASSUME NEW c \in Content, NEW e \in Content
  PROVE  /\ c \o e \in Seq(Chunk) /\ Len(c \o e) = Len(c) + Len(e)
         /\ Len(c) + Len(e) <= MaxChunks => c \o e \in Content
         /\ \A i \in 1..Len(c) : (c \o e)[i] = c[i]
         /\ \A i \in 1..Len(e) : (c \o e)[Len(c) + i] = e[i]
<1>1. c \in Seq(Chunk) /\ e \in Seq(Chunk)
  BY ContentIs
<1>2. c \o e \in Seq(Chunk) /\ Len(c \o e) = Len(c) + Len(e)
  BY <1>1
<1>3. Len(c) + Len(e) <= MaxChunks => c \o e \in Content
  BY <1>2, ContentIs
<1> QED
  BY <1>1, <1>2, <1>3

LEMMA NothingJoined == ASSUME NEW c \in Content PROVE <<>> \o c = c
<1>1. c \in Seq(Chunk)
  BY ContentIs
<1> QED
  BY <1>1, ConcatEmptySeq

LEMMA EmptyContent == ASSUME NEW c \in Content PROVE Len(c) = 0 <=> c = <<>>
<1>1. c \in Seq(Chunk)
  BY ContentIs
<1> QED
  BY <1>1, EmptySeq
-----------------------------------------------------------------------------
(* The number of records                                                   *)

(* Induction up to N, for a set of numbers.                                *)
LEMMA UpTo ==
  ASSUME NEW N \in Nat, NEW G, 0 \in G, \A n \in 1..N : n - 1 \in G => n \in G
  PROVE  0..N \subseteq G
<1> DEFINE S == {n \in 0..N : n \notin G}
           R == OpToRel(<, Nat)
<1>1. SUFFICES ASSUME S # {} PROVE FALSE
  OBVIOUS
<1>2. PICK n \in S : \A m \in S : ~ (<<m, n>> \in R)
  <2>1. IsWellFoundedOn(R, Nat)
    BY NatLessThanWellFounded
  <2>2. S \subseteq Nat
    OBVIOUS
  <2> HIDE DEF S
  <2> QED
    BY <1>1, <2>1, <2>2, WFMin
<1>3. \A m \in S : ~ (m < n)
  <2>1. \A m \in S : m \in Nat /\ n \in Nat
    OBVIOUS
  <2> HIDE DEF S
  <2> QED
    BY <1>2, <2>1 DEF OpToRel
<1>4. n \in 1..N /\ n - 1 \in 0..N
  OBVIOUS
<1>5. n - 1 \in G
  BY <1>3, <1>4
<1> QED
  BY <1>4, <1>5

(* The records of the first n chunks, for every n up to the length.        *)
IsCount(h, s) ==
  h = [n \in 0..Len(s) |-> IF n = 0 THEN 0 ELSE h[n - 1] + CountOf[s[n]]]

LEMMA CountExists ==
  ASSUME NEW s \in Seq(Chunk)
  PROVE  \E h : IsCount(h, s) /\ Records(s) = h[Len(s)]
<1> DEFINE N == Len(s)
           Path(h, m) == h = [n \in 0..m |-> IF n = 0 THEN 0 ELSE h[n - 1] + CountOf[s[n]]]
           G == {m \in 0..N : \E h : Path(h, m)}
<1>0. N \in Nat
  OBVIOUS
<1>1. 0 \in G
  <2>1. PICK h : h = [n \in 0..0 |-> 0]
    OBVIOUS
  <2>2. h = [n \in 0..0 |-> IF n = 0 THEN 0 ELSE h[n - 1] + CountOf[s[n]]]
    BY <2>1
  <2> QED
    BY <1>0, <2>2
<1>2. ASSUME NEW m \in 1..N, m - 1 \in G PROVE m \in G
  <2>1. PICK h : Path(h, m - 1)
    BY <1>2
  <2>2. PICK e : e = [n \in 0..m |-> IF n = m THEN h[m - 1] + CountOf[s[m]] ELSE h[n]]
    OBVIOUS
  <2>3. ASSUME NEW n \in 0..m PROVE e[n] = IF n = 0 THEN 0 ELSE e[n - 1] + CountOf[s[n]]
    <3>1. CASE n = m
      <4>1. n # 0 /\ m - 1 \in 0..m /\ m - 1 # m
        BY <1>0, <3>1
      <4> QED
        BY <2>2, <3>1, <4>1
    <3>2. CASE n # m
      <4>1. n \in 0..(m - 1) /\ (n # 0 => n - 1 \in 0..m /\ n - 1 # m)
        BY <1>0, <3>2
      <4>2. h[n] = IF n = 0 THEN 0 ELSE h[n - 1] + CountOf[s[n]]
        BY <2>1, <4>1
      <4>3. e[n] = h[n] /\ (n # 0 => e[n - 1] = h[n - 1])
        BY <2>2, <3>2, <4>1
      <4> QED
        BY <4>2, <4>3
    <3> QED
      BY <3>1, <3>2
  <2>4. e = [n \in 0..m |-> e[n]]
    BY <2>2
  <2>5. Path(e, m)
    BY <2>3, <2>4
  <2> QED
    BY <1>0, <2>5
<1>3. 0..N \subseteq G
  <2> HIDE DEF G
  <2> QED
    BY <1>0, <1>1, <1>2, UpTo
<1>4. \E h : Path(h, N)
  BY <1>0, <1>3
<1>5. PICK a : a = CHOOSE h : Path(h, N)
  OBVIOUS
<1>6. Path(a, N)
  BY <1>4, <1>5
<1>7. Records(s) = a[N]
  BY <1>5 DEF Records
<1> QED
  BY <1>6, <1>7 DEF IsCount

LEMMA CountIs ==
  ASSUME NEW s \in Seq(Chunk), NEW h, IsCount(h, s)
  PROVE  /\ h[0] = 0 /\ \A n \in 1..Len(s) : h[n] = h[n - 1] + CountOf[s[n]]
         /\ \A n \in 0..Len(s) : h[n] \in Nat
<1>1. Len(s) \in Nat /\ \A n \in 1..Len(s) : s[n] \in Chunk
  OBVIOUS
<1>2. h[0] = 0 /\ \A n \in 1..Len(s) : h[n] = h[n - 1] + CountOf[s[n]]
  <2>1. \A n \in 0..Len(s) : h[n] = IF n = 0 THEN 0 ELSE h[n - 1] + CountOf[s[n]]
    BY DEF IsCount
  <2>2. 0 \in 0..Len(s) /\ \A n \in 1..Len(s) : n \in 0..Len(s) /\ n # 0
    BY <1>1
  <2> QED
    BY <2>1, <2>2
<1> DEFINE G == {n \in 0..Len(s) : h[n] \in Nat}
<1>3. 0 \in G
  BY <1>1, <1>2
<1>4. ASSUME NEW n \in 1..Len(s), n - 1 \in G PROVE n \in G
  <2>1. CountOf[s[n]] \in Nat
    BY <1>1, ChunkAssumption
  <2> QED
    BY <1>1, <1>2, <1>4, <2>1
<1>5. 0..Len(s) \subseteq G
  <2> HIDE DEF G
  <2> QED
    BY <1>1, <1>3, <1>4, UpTo
<1> QED
  BY <1>2, <1>5

LEMMA RecordsType == ASSUME NEW s \in Seq(Chunk) PROVE Records(s) \in Nat
<1>1. PICK h : IsCount(h, s) /\ Records(s) = h[Len(s)]
  BY CountExists
<1>2. Len(s) \in 0..Len(s)
  OBVIOUS
<1> QED
  BY <1>1, <1>2, CountIs

LEMMA NoRecords == Records(<<>>) = 0
<1>1. PICK e : e = <<>> /\ e \in Seq(Chunk) /\ Len(e) = 0
  BY EmptySeq, Zenon
<1>2. PICK h : IsCount(h, e) /\ Records(e) = h[Len(e)]
  BY <1>1, CountExists
<1> QED
  BY <1>1, <1>2, CountIs

LEMMA RecordsJoined ==
  ASSUME NEW s \in Seq(Chunk), NEW t \in Seq(Chunk)
  PROVE  Records(s \o t) = Records(s) + Records(t)
<1>1. PICK u \in Seq(Chunk) : u = s \o t
  BY ConcatProperties, Zenon
<1> DEFINE M == Len(s)
           N == Len(t)
<1>2. /\ M \in Nat /\ N \in Nat /\ Len(u) = M + N
      /\ \A n \in 1..M : u[n] = s[n]
      /\ \A n \in 1..N : u[M + n] = t[n]
  BY <1>1
<1>3. PICK h : IsCount(h, s) /\ Records(s) = h[M]
  BY CountExists
<1>4. PICK g : IsCount(g, t) /\ Records(t) = g[N]
  BY CountExists
<1>5. PICK f : IsCount(f, u) /\ Records(u) = f[M + N]
  BY <1>2, CountExists
<1>6. /\ h[0] = 0 /\ \A n \in 1..M : h[n] = h[n - 1] + CountOf[s[n]]
      /\ \A n \in 0..M : h[n] \in Nat
  BY <1>3, CountIs
<1>7. /\ g[0] = 0 /\ \A n \in 1..N : g[n] = g[n - 1] + CountOf[t[n]]
      /\ \A n \in 0..N : g[n] \in Nat
  BY <1>4, CountIs
<1>8. f[0] = 0 /\ \A n \in 1..(M + N) : f[n] = f[n - 1] + CountOf[u[n]]
  BY <1>2, <1>5, CountIs
<1> DEFINE G == {n \in 0..M : f[n] = h[n]}
           K == {n \in 0..N : f[M + n] = h[M] + g[n]}
<1>9. 0..M \subseteq G
  <2>1. 0 \in G
    BY <1>2, <1>6, <1>8
  <2>2. ASSUME NEW n \in 1..M, n - 1 \in G PROVE n \in G
    <3>1. n \in 1..(M + N) /\ u[n] = s[n]
      BY <1>2
    <3> QED
      BY <1>2, <1>6, <1>8, <2>2, <3>1
  <2> HIDE DEF G
  <2> QED
    BY <1>2, <2>1, <2>2, UpTo
<1>10. 0..N \subseteq K
  <2>1. 0 \in K
    <3>1. M \in G /\ h[M] \in Nat
      BY <1>2, <1>6, <1>9
    <3> QED
      BY <1>2, <1>7, <3>1
  <2>2. ASSUME NEW n \in 1..N, n - 1 \in K PROVE n \in K
    <3>1. M + n \in 1..(M + N) /\ u[M + n] = t[n] /\ M + n - 1 = M + (n - 1)
      BY <1>2
    <3>2. f[M + n] = f[M + (n - 1)] + CountOf[t[n]]
      BY <1>8, <3>1
    <3>3. CountOf[t[n]] \in Nat /\ h[M] \in Nat /\ g[n - 1] \in Nat
      BY <1>2, <1>6, <1>7, ChunkAssumption
    <3> QED
      BY <1>2, <1>7, <2>2, <3>2, <3>3
  <2> HIDE DEF K
  <2> QED
    BY <1>2, <2>1, <2>2, UpTo
<1>11. f[M + N] = h[M] + g[N]
  <2>1. N \in 0..N
    BY <1>2
  <2>2. N \in K
    BY <1>10, <2>1
  <2> QED
    BY <2>2
<1> QED
  BY <1>1, <1>3, <1>4, <1>5, <1>11

-----------------------------------------------------------------------------
(* Directories                                                             *)

(* The chunks of c and no others are in the directory d.                   *)
DirIs(d, c) == d \in Dir /\ \A i \in Idx : d[i] = IF i < Len(c) THEN c[i + 1] ELSE Absent

(* An empty table may have no directory.                                   *)
Holds(d, c) == DirIs(d, c) \/ (d = NoDir /\ c = <<>>)

MaybeDir == Dir \cup {NoDir}

LEMMA Apart == MaxChunks \in Nat \ {0} /\ Absent \notin Chunk /\ NoDir \notin Dir
  BY ChunkAssumption

LEMMA FilesIs ==
  /\ Files(NoDir) = {}
  /\ \A d \in Dir : d # NoDir /\ Files(d) = {i \in Idx : d[i] # Absent}
  /\ \A d \in MaybeDir : Files(d) \subseteq Idx
  BY Apart DEF Files, MaybeDir

LEMMA EmptyDirIs == EmptyDir \in Dir /\ Files(EmptyDir) = {} /\ DirIs(EmptyDir, <<>>)
<1>1. EmptyDir \in Dir /\ \A i \in Idx : EmptyDir[i] = Absent
  BY DEF EmptyDir, Dir
<1>2. \A i \in Idx : ~(i < Len(<<>>))
  BY NoContent, Apart DEF Idx
<1> QED
  BY <1>1, <1>2, FilesIs DEF DirIs

LEMMA EmptyDirOnly == ASSUME NEW d, DirIs(d, <<>>) PROVE d = EmptyDir
<1>1. \A i \in Idx : ~(i < Len(<<>>))
  BY NoContent, Apart DEF Idx
<1>2. d \in Dir /\ \A i \in Idx : d[i] = Absent
  BY <1>1 DEF DirIs
<1> QED
  BY <1>2 DEF Dir, EmptyDir

LEMMA DirListing ==
  ASSUME NEW c \in Content, NEW d, DirIs(d, c)
  PROVE  /\ d \in Dir /\ d # NoDir /\ Files(d) = 0..(Len(c) - 1)
         /\ Complete(d, Len(c)) /\ Listing(d) = c
<1>1. d \in Dir /\ d # NoDir /\ Len(c) \in 0..MaxChunks
  BY FilesIs, ContentAt DEF DirIs
<1>2. \A i \in Nat : i < Len(c) => c[i + 1] \in Chunk /\ i \in Idx
  BY ContentAt
<1>3. \A i \in Idx : i \in Nat /\ (d[i] # Absent <=> i < Len(c))
  BY <1>2, Apart DEF DirIs, Idx
<1>4. Files(d) = {i \in Idx : d[i] # Absent}
  BY <1>1, FilesIs
<1>5. Files(d) = 0..(Len(c) - 1)
  BY <1>1, <1>2, <1>3, <1>4, Apart
<1>6. Cardinality(Files(d)) = Len(c)
  <2>1. 0 \in Int /\ Len(c) - 1 \in Int
    BY <1>1, Apart
  <2>2. Cardinality(0..(Len(c) - 1)) = IF 0 > Len(c) - 1 THEN 0 ELSE Len(c) - 1 - 0 + 1
    BY <2>1, FS_Interval
  <2> QED
    BY <1>1, <1>5, <2>2, Apart
<1>7. Listing(d) = c
  <2>1. ASSUME NEW i \in 1..Len(c) PROVE d[i - 1] = c[i]
    <3>1. i - 1 \in Nat /\ i - 1 < Len(c) /\ i - 1 + 1 = i
      BY <1>1, Apart
    <3>2. i - 1 \in Idx
      BY <1>2, <3>1
    <3> QED
      BY <3>1, <3>2 DEF DirIs
  <2>2. c = [i \in 1..Len(c) |-> c[i]]
    BY ContentAt
  <2>3. Listing(d) = [i \in 1..Len(c) |-> d[i - 1]]
    BY <1>6 DEF Listing
  <2> QED
    BY <2>1, <2>2, <2>3
<1> QED
  BY <1>1, <1>5, <1>7 DEF Complete

LEMMA NoDirListing == Complete(NoDir, 0) /\ Listing(NoDir) = <<>> /\ Records(<<>>) = 0
<1>1. Files(NoDir) = {} /\ Cardinality(Files(NoDir)) = 0
  BY FilesIs, FS_EmptySet
<1> QED
  BY <1>1, NoRecords DEF Complete, Listing

LEMMA HoldsListing ==
  ASSUME NEW c \in Content, NEW d, Holds(d, c)
  PROVE  /\ d \in MaybeDir /\ Files(d) = 0..(Len(c) - 1)
         /\ Complete(d, Len(c)) /\ Listing(d) = c
<1>1. CASE DirIs(d, c)
  BY <1>1, DirListing DEF MaybeDir
<1>2. CASE d = NoDir /\ c = <<>>
  BY <1>2, NoDirListing, NoContent, FilesIs DEF MaybeDir
<1> QED
  BY <1>1, <1>2 DEF Holds

(* A complete directory lists a content.                                   *)
LEMMA ListingHolds ==
  ASSUME NEW d \in MaybeDir, NEW n \in Nat, Complete(d, n)
  PROVE  /\ Listing(d) \in Content /\ Len(Listing(d)) = n
         /\ Holds(d, Listing(d))
<1>1. CASE d = NoDir
  <2>1. Listing(d) = <<>> /\ Files(d) = {}
    BY <1>1, NoDirListing, FilesIs
  <2>2. n = 0
    BY <2>1 DEF Complete
  <2> QED
    BY <1>1, <2>1, <2>2, NoContent DEF Holds
<1>2. CASE d # NoDir
  <2>1. d \in Dir
    BY <1>2 DEF MaybeDir
  <2>2. Files(d) = 0..(n - 1) /\ Files(d) = {i \in Idx : d[i] # Absent}
    BY <2>1, FilesIs DEF Complete
  <2>3. n <= MaxChunks
    <3>1. CASE n = 0
      BY <3>1, Apart
    <3>2. CASE n # 0
      <4>1. n - 1 \in Idx
        BY <2>2, <3>2
      <4> QED
        BY <4>1, Apart DEF Idx
    <3> QED
      BY <3>1, <3>2
  <2>4. Cardinality(Files(d)) = n
    <3>1. 0 \in Int /\ n - 1 \in Int
      OBVIOUS
    <3>2. Cardinality(0..(n - 1)) = IF 0 > n - 1 THEN 0 ELSE n - 1 - 0 + 1
      BY <3>1, FS_Interval
    <3> QED
      BY <2>2, <3>2
  <2>5. PICK c : c = [i \in 1..n |-> d[i - 1]]
    OBVIOUS
  <2>6. Listing(d) = c
    BY <2>4, <2>5 DEF Listing
  <2>7. ASSUME NEW i \in 1..n PROVE d[i - 1] \in Chunk
    <3>1. i - 1 \in 0..(n - 1)
      OBVIOUS
    <3>2. i - 1 \in Idx /\ d[i - 1] # Absent
      BY <2>2, <3>1
    <3> QED
      BY <2>1, <3>2 DEF Dir
  <2>8. c \in [1..n -> Chunk] /\ n \in 0..MaxChunks
    BY <2>3, <2>5, <2>7, Apart
  <2>9. c \in Content
    BY <2>8 DEF Content
  <2>10. Len(c) = n
    <3>1. c \in Seq(Chunk)
      BY <2>9, ContentIs
    <3> QED
      BY <2>5, <3>1
  <2>11. ASSUME NEW i \in Idx PROVE d[i] = IF i < Len(c) THEN c[i + 1] ELSE Absent
    <3>1. i \in Nat
      BY Apart DEF Idx
    <3>2. CASE i < n
      <4>1. i + 1 \in 1..n /\ i + 1 - 1 = i
        BY <3>1, <3>2
      <4>2. c[i + 1] = d[i]
        <5>1. \A k \in 1..n : c[k] = d[k - 1]
          BY <2>5
        <5> QED
          BY <3>1, <4>1, <5>1
      <4> QED
        BY <2>10, <3>2, <4>2
    <3>3. CASE ~(i < n)
      <4>1. i \notin 0..(n - 1)
        BY <3>1, <3>3
      <4> QED
        BY <2>2, <2>10, <3>3, <4>1
    <3> QED
      BY <3>2, <3>3
  <2> QED
    BY <2>1, <2>6, <2>9, <2>10, <2>11 DEF Holds, DirIs
<1> QED
  BY <1>1, <1>2

LEMMA WithoutIs ==
  ASSUME NEW d \in MaybeDir, NEW S
  PROVE  /\ Without(d, S) \in MaybeDir
         /\ d = NoDir <=> Without(d, S) = NoDir
         /\ Files(Without(d, S)) = Files(d) \ S
         /\ Files(d) \cap S = {} => Without(d, S) = d
         /\ \A i \in Idx : d # NoDir => Without(d, S)[i] = IF i \in S THEN Absent ELSE d[i]
         /\ \A T : Without(Without(d, S), T) = Without(d, S \cup T)
<1>1. CASE d = NoDir
  BY <1>1, FilesIs DEF Without, MaybeDir
<1>2. CASE d # NoDir
  <2>1. d \in Dir
    BY <1>2 DEF MaybeDir
  <2>2. PICK e : e = [i \in Idx |-> IF i \in S THEN Absent ELSE d[i]]
    OBVIOUS
  <2>3. Without(d, S) = e
    BY <1>2, <2>2 DEF Without
  <2>4. e \in Dir /\ e # NoDir
    BY <2>1, <2>2, Apart DEF Dir
  <2>5. Files(e) = Files(d) \ S
    BY <2>1, <2>2, <2>4, FilesIs
  <2>6. ASSUME Files(d) \cap S = {} PROVE e = d
    <3>1. \A i \in Idx : e[i] = d[i]
      BY <2>1, <2>2, <2>6, FilesIs
    <3> QED
      BY <2>1, <2>4, <3>1 DEF Dir
  <2>7. ASSUME NEW T PROVE Without(e, T) = Without(d, S \cup T)
    <3>1. Without(e, T) = [i \in Idx |-> IF i \in T THEN Absent ELSE e[i]]
      BY <2>4 DEF Without
    <3>2. Without(d, S \cup T) = [i \in Idx |-> IF i \in S \cup T THEN Absent ELSE d[i]]
      BY <1>2 DEF Without
    <3>3. \A i \in Idx : (IF i \in T THEN Absent ELSE e[i]) = (IF i \in S \cup T THEN Absent ELSE d[i])
      BY <2>2
    <3> QED
      BY <3>1, <3>2, <3>3
  <2> QED
    BY <1>2, <2>2, <2>3, <2>4, <2>5, <2>6, <2>7 DEF MaybeDir
<1> QED
  BY <1>1, <1>2

(* The chunks of e behind those of c, all of them and some of them.        *)
Behind(c, e) == Len(c)..(Len(c) + Len(e) - 1)

LEMMA Extended ==
  ASSUME NEW c \in Content, NEW e \in Content, NEW d, DirIs(d, c), Len(c) + Len(e) <= MaxChunks
  PROVE  /\ DirIs(With(d, Len(c), e), c \o e)
         /\ Without(With(d, Len(c), e), Behind(c, e)) = d
<1> DEFINE b == With(d, Len(c), e)
<1>1. Len(c) \in Nat /\ Len(e) \in Nat /\ Len(c \o e) = Len(c) + Len(e) /\ d \in Dir
  BY ContentAt, Joined DEF DirIs
<1>2. b = [i \in Idx |-> IF i \in Behind(c, e) THEN e[i - Len(c) + 1] ELSE d[i]]
  BY DEF With, Behind
<1>3. \A i \in Idx : i \in Nat
  BY Apart DEF Idx
<1>4. ASSUME NEW i \in Idx, i \in Behind(c, e)
      PROVE  b[i] \in Chunk /\ b[i] = (c \o e)[i + 1] /\ i < Len(c \o e) /\ d[i] = Absent
  <2>1. i - Len(c) + 1 \in 1..Len(e) /\ Len(c) + (i - Len(c) + 1) = i + 1 /\ ~(i < Len(c))
    BY <1>1, <1>3, <1>4 DEF Behind
  <2>2. e[i - Len(c) + 1] \in Chunk
    BY <2>1, ContentAt
  <2>3. (c \o e)[i + 1] = e[i - Len(c) + 1]
    BY <2>1, Joined
  <2>4. i < Len(c \o e)
    BY <1>1, <1>3, <1>4 DEF Behind
  <2> QED
    BY <1>2, <1>4, <2>1, <2>2, <2>3, <2>4 DEF DirIs
<1>5. ASSUME NEW i \in Idx, i \notin Behind(c, e)
      PROVE  b[i] = d[i] /\ b[i] = IF i < Len(c \o e) THEN (c \o e)[i + 1] ELSE Absent
  <2>1. b[i] = d[i]
    BY <1>2, <1>5
  <2>2. CASE i < Len(c)
    <3>1. i + 1 \in 1..Len(c) /\ i < Len(c \o e)
      BY <1>1, <1>3, <2>2
    <3>2. (c \o e)[i + 1] = c[i + 1]
      BY <3>1, Joined
    <3> QED
      BY <2>1, <2>2, <3>1, <3>2 DEF DirIs
  <2>3. CASE ~(i < Len(c))
    <3>1. ~(i < Len(c \o e))
      BY <1>1, <1>3, <1>5, <2>3 DEF Behind
    <3> QED
      BY <2>1, <2>3, <3>1 DEF DirIs
  <2> QED
    BY <2>2, <2>3
<1> HIDE DEF b
<1>6. b \in Dir
  BY <1>1, <1>2, <1>4, <1>5 DEF Dir
<1>7. DirIs(b, c \o e)
  BY <1>4, <1>5, <1>6 DEF DirIs
<1>8. Without(b, Behind(c, e)) = d
  <2>1. Without(b, Behind(c, e)) = [i \in Idx |-> IF i \in Behind(c, e) THEN Absent ELSE b[i]]
    BY <1>6, Apart DEF Without
  <2>2. \A i \in Idx : (IF i \in Behind(c, e) THEN Absent ELSE b[i]) = d[i]
    BY <1>4, <1>5
  <2>3. d = [i \in Idx |-> d[i]]
    BY <1>1 DEF Dir
  <2> QED
    BY <2>1, <2>2, <2>3
<1> QED
  BY <1>7, <1>8 DEF b

(* The directory that holds c.                                             *)
LEMMA DirOfIs == ASSUME NEW c \in Content PROVE DirIs(DirOf(c), c) /\ DirIs(With(EmptyDir, 0, c), c)
<1>1. <<>> \in Content /\ Len(<<>>) = 0 /\ Len(c) \in 0..MaxChunks /\ <<>> \o c = c
  BY NoContent, ContentAt, NothingJoined
<1>2. PICK e \in Content : e = <<>> /\ Len(e) = 0 /\ e \o c = c
  BY <1>1, Zenon
<1>3. DirIs(EmptyDir, e) /\ Len(e) + Len(c) <= MaxChunks
  BY <1>1, <1>2, EmptyDirIs, Apart
<1>4. DirIs(With(EmptyDir, Len(e), c), e \o c)
  BY <1>3, Extended
<1> QED
  BY <1>2, <1>4 DEF DirOf

-----------------------------------------------------------------------------
(* What the files and a record stand for                                   *)

IsDirOf(m) == m # NoTable /\ m.mode = "chunked"
Single(c) == [mode |-> "single", count |-> Records(c), chunks |-> 0]
RecordOf(c) == Chunked(Records(c), Len(c))

Counts(j, c) == j.count = Records(c) /\ j.chunks = Len(c)
Fits(j, c) == Counts(j, c) /\ Len(c) + j.n <= MaxChunks

(* Every chunk of v is in the directory or in the backup.                  *)
Spread(f, v) ==
  /\ f.ready = 0 /\ f.dir \in Dir /\ f.bak \in Dir
  /\ \A i \in Idx :
       IF i < Len(v) THEN /\ {f.dir[i], f.bak[i]} \subseteq {Absent, v[i + 1]}
                          /\ ~(f.dir[i] = Absent /\ f.bak[i] = Absent)
       ELSE f.dir[i] = Absent /\ f.bak[i] = Absent

(* An overwrite has its journal, but the backup is not marked as complete. *)
Split(f, v) ==
  /\ f.oj \in OverwriteJournal /\ Counts(f.oj, v) /\ f.aj = NoJournal /\ f.ready # f.oj.id
  /\ Holds(f.dir, v) \/ Spread(f, v)

(* The backup is marked as complete: whatever the directory holds, an      *)
(* append into it starts from nothing.                                     *)
Sealed(f, v) ==
  /\ f.oj \in OverwriteJournal /\ Counts(f.oj, v) /\ f.ready = f.oj.id /\ DirIs(f.bak, v)
  /\ f.aj # NoJournal => Fits(f.aj, <<>>)

(* The overwrite of an older version is complete, or it is redone.         *)
OldTarget(f, m, v) ==
  /\ f.oj \in OldJournal /\ v = f.oj.target /\ f.bak = NoDir /\ f.aj = NoJournal
  /\ m = RecordOf(v) /\ Holds(f.dir, v)

(* A directory that is complete is what m counts.                          *)
Counted(f, m, v) ==
  /\ Files(f.dir) \subseteq 0..(m.chunks - 1)
  /\ Complete(f.dir, m.chunks) => /\ m.count = Records(Listing(f.dir))
                                  /\ Listing(f.dir) = f.oj.target => v = f.oj.target
OldPrev(f, m, v) ==
  /\ f.oj \in OldJournal /\ v = f.oj.prev /\ f.bak = NoDir
  /\ IF f.aj = NoJournal THEN Counted(f, m, v)
     ELSE Fits(f.aj, <<>>) /\ Holds(Without(f.dir, Targets(f.aj)), <<>>)

Plain(f, m, v) == f.oj = NoJournal /\ f.aj = NoJournal /\ m = RecordOf(v) /\ Holds(f.dir, v)
Appending(f, v) ==
  f.oj = NoJournal /\ f.aj # NoJournal /\ Fits(f.aj, v) /\ Holds(Without(f.dir, Targets(f.aj)), v)

Stands(f, m, v) ==
  \/ m = NoTable /\ v = Gone
  \/ /\ v \in Content /\ m = Single(v)
     /\ f.single = v /\ f.aj = NoJournal /\ f.oj = NoJournal
  \/ /\ v \in Content /\ IsDirOf(m)
     /\ \/ Plain(f, m, v) \/ Appending(f, v) \/ Split(f, v) \/ Sealed(f, v)
        \/ OldTarget(f, m, v) \/ OldPrev(f, m, v)

(* The durable record and the pending one stand for the same content.      *)
Agree(f, m, k, v) ==
  /\ Stands(f, m, v) /\ Stands(f, k, v) /\ (IsDirOf(m) <=> IsDirOf(k))
  /\ f.oj \in OldJournal /\ f.aj = NoJournal => m = k \/ k.chunks = 0

-----------------------------------------------------------------------------
(* Where the running operation is                                          *)

OrFail(l) == Frame(l, "failed")
ToRead == <<OrFail("readBody")>>
ToAppend == <<OrFail("app"), OrFail("okDone")>>
ToOverwrite == <<OrFail("wStart")>>
ToCreate == <<OrFail("app"), OrFail("cMeta")>>
Bodies == {ToRead, ToAppend, ToOverwrite}
Renew == <<Frame("wMeta", "wCatch")>>
RenewAppend == <<Frame("app", "wCatch"), Frame("wMeta", "wCatch")>>
RenewAll == <<Frame("recA", "wCatch"), Frame("app", "wCatch"), Frame("wMeta", "wCatch")>>
Redo(b) == <<Frame("roDelOld", "throw")>> \o b
RedoAppend(b) == <<Frame("appOld", "throw"), Frame("roDelOld", "throw")>> \o b
RedoAll(b) == <<Frame("recA", "throw"), Frame("appOld", "throw"), Frame("roDelOld", "throw")>> \o b

FS0 == Files0(NoDir, Absent)
Same == Agree(fs, meta, cache, op.from)
Both(rec) == meta = rec /\ cache = rec
Filled(c) == fs.aj = NoJournal /\ DirIs(fs.dir, c) /\ Both(RecordOf(c))
Creates == /\ op.kind = "create" /\ op.data = <<>> /\ op.from = Gone
           /\ op.prev = NoTable /\ fs = FS0 /\ Both(NoTable)

(* What follows the recoveries: b is the rest of the call stack.           *)
Ctx(b) ==
  \/ b = ToRead /\ op.kind = "read" /\ cache # NoTable
  \/ b = ToAppend /\ op.kind = "append" /\ IsChunked /\ op.data \in Batches
       /\ Len(op.from) + Len(op.data) <= MaxChunks
  \/ b = ToOverwrite /\ op.kind = "overwrite" /\ IsChunked /\ fs.ready < writes
  \/ b # <<>> /\ Head(b) = OrFail("failed") /\ op.kind = "overwrite"
       /\ fs.oj \notin OldJournal /\ cache # NoTable
  \/ b = ToCreate /\ Creates

(* The new generation is written behind a complete backup.                 *)
Renewing ==
  /\ op.kind = "overwrite" /\ op.from \in Content /\ Sealed(fs, op.from)
  /\ IsChunked /\ IsDirOf(meta)

(* The generation before the overwrite of an older version is written.     *)
Redoing(b) ==
  /\ b \in Bodies /\ Ctx(b) /\ op.from \in Content /\ IsChunked /\ IsDirOf(meta)
  /\ fs.oj \in OldJournal /\ op.from = fs.oj.prev /\ fs.bak = NoDir

Entering == op.ret # <<>> /\ Head(op.ret) = OrFail("recO") /\ Ctx(Tail(op.ret)) /\ Same
EmptyAgain == fs.aj = NoJournal /\ DirIs(fs.dir, <<>>) /\ Both(Chunked(0, 0))

RecA ==
  \/ Entering
  \/ op.ret = RenewAppend /\ Renewing /\ EmptyAgain /\ op.data # <<>>
  \/ \E b \in Bodies : op.ret = RedoAppend(b) /\ Redoing(b) /\ EmptyAgain /\ op.from # <<>>
RecAJ == Entering /\ fs.aj # NoJournal
RecO == Ctx(op.ret) /\ Same /\ fs.aj = NoJournal

Restores ==
  /\ RecO /\ op.from \in Content /\ fs.oj \in OverwriteJournal /\ Counts(fs.oj, op.from)
  /\ fs.ready \in {0, fs.oj.id}
Partial(d, c) ==
  d = NoDir \/ (d \in Dir /\ \A i \in Idx : d[i] = Absent \/ (i < Len(c) /\ d[i] = c[i + 1]))

Clearing ==
  /\ fs.aj = NoJournal /\ Same
  /\ \/ Renewing /\ op.ret = IF op.data = <<>> THEN Renew ELSE RenewAll
     \/ \E b \in Bodies : Redoing(b) /\ op.ret = IF op.from = <<>> THEN Redo(b) ELSE RedoAll(b)

(* What an append starts from, and what it leaves.                         *)
Base == IF fs.oj = NoJournal THEN op.from ELSE <<>>
Whole == Base \o op.batch
AppendsNew ==
  /\ op.ret = <<OrFail("okDone")>> /\ op.kind = "append" /\ fs.oj = NoJournal
  /\ op.from \in Content /\ op.batch = op.data /\ op.data # <<>>
  /\ Len(op.from) + Len(op.data) <= MaxChunks
AppendsRenew == op.ret = Renew /\ Renewing /\ op.batch = op.data /\ op.data # <<>>
AppendsRedo == \E b \in Bodies : op.ret = Redo(b) /\ Redoing(b) /\ op.batch = op.from /\ op.from # <<>>
Appends == (AppendsNew \/ AppendsRenew \/ AppendsRedo) /\ op.prev = RecordOf(Base)
Journal == [count |-> Records(Base), chunks |-> Len(Base), n |-> Len(op.batch)]
Journaled ==
  /\ Appends /\ fs.aj = Journal /\ IsDirOf(meta) /\ IsDirOf(cache)
  /\ Holds(Without(fs.dir, Targets(fs.aj)), Base)

Overwriting == op.kind = "overwrite" /\ op.ret = <<>> /\ op.from \in Content /\ IsChunked /\ Same
Migrates ==
  /\ op.kind = "migrate" /\ op.data = op.from /\ op.batch = op.data /\ op.from \in Content
  /\ op.prev = Single(op.from) /\ fs.single = op.from
  /\ fs.aj = NoJournal /\ fs.oj = NoJournal
Migrating == Migrates /\ Both(op.prev)

Dropped(f) ==
  CASE f = "oj" -> fs.oj = NoJournal [] f = "aj" -> fs.aj = NoJournal
    [] f = "bak" -> fs.bak = NoDir /\ fs.ready = 0
    [] f = "single" -> fs.single = Absent [] f = "dir" -> fs.dir = NoDir
Artifacts == {"oj", "aj", "bak", "single", "dir"}
NewTable == op.kind = "create" /\ op.from = Gone /\ op.data = <<>>
Undone ==
  NewTable /\ fs = FS0 /\ cache = Chunked(0, 0) /\ meta \in {NoTable, cache} /\ faults > 0
Purging ==
  \/ op.kind = "drop" /\ Both(NoTable)
  \/ /\ NewTable /\ Both(NoTable) /\ op.prev = NoTable /\ op.ret = <<>>
     /\ op.val = <<>> => \A f \in Artifacts : Dropped(f) \/ \E i \in DOMAIN op.todo : op.todo[i] = f
  \/ Undone /\ op.prev # NoTable

AtIdle == Agree(fs, meta, cache, View)
AtRaMeta == RecAJ /\ Files(fs.dir) \cap Targets(fs.aj) = {}
AtRaDelJ == AtRaMeta /\ Both(Chunked(fs.aj.count, fs.aj.chunks))
AtReset == Restores /\ Sealed(fs, op.from)
AtMake == Restores /\ Partial(fs.dir, op.from)
AtCopy == AtMake /\ (NeedsDir => fs.dir # NoDir)
AtRestored == Restores /\ Holds(fs.dir, op.from)
AtDelJ == AtRestored /\ Both(RecordOf(op.from))
AtDelBak == RecO /\ fs.oj = NoJournal /\ op.kind # "create"
AtDelOld == /\ RecO /\ fs.oj \in OldJournal /\ op.from \in Content /\ Both(RecordOf(op.from))
            /\ Holds(fs.dir, op.from)
AtThrow == Same /\ \E b \in Bodies : op.ret \in {b, Redo(b), RedoAppend(b)}
AtClrMk == Clearing /\ fs.dir = NoDir
AtClrMeta == Clearing /\ DirIs(fs.dir, <<>>)
AtApp ==
  \/ /\ op.ret = <<OrFail("okDone")>> /\ op.kind = "append" /\ IsChunked /\ op.data \in Batches
     /\ Len(op.from) + Len(op.data) <= MaxChunks /\ Same /\ fs.aj = NoJournal /\ fs.oj = NoJournal
  \/ op.ret = <<OrFail("cMeta")>> /\ Creates
  \/ op.ret = Renew /\ Renewing /\ EmptyAgain /\ op.data # <<>>
AtAppOld == \E b \in Bodies : op.ret = Redo(b) /\ Redoing(b) /\ EmptyAgain /\ op.from # <<>>
AtAppMk == Appends /\ fs.aj = NoJournal /\ Holds(fs.dir, Base) /\ Both(op.prev)
AtAppJ == Appends /\ fs.aj = NoJournal /\ DirIs(fs.dir, Base) /\ Both(op.prev)
AtAppWrite == Journaled /\ DirIs(fs.dir, Base) /\ Both(op.prev)
AtAppMeta == Journaled /\ DirIs(fs.dir, Whole) /\ Both(op.prev)
AtAppDelJ == Journaled /\ DirIs(fs.dir, Whole) /\ Both(RecordOf(Whole))
AtAppUndo == Journaled /\ Both(op.prev)
AtAppUndoMeta == Journaled /\ Holds(fs.dir, Base)
AtAppUndoJ == Journaled /\ Holds(fs.dir, Base) /\ Both(op.prev)
AtWStart == /\ op.kind = "overwrite" /\ op.ret = <<>> /\ Same /\ fs.aj = NoJournal /\ fs.oj = NoJournal
            /\ IsChunked /\ fs.ready < writes
AtWMkBak == Overwriting /\ Split(fs, op.from) /\ Holds(fs.dir, op.from)
AtWMove == Overwriting /\ Split(fs, op.from) /\ fs.bak \in Dir /\ fs.ready = 0 /\ Partial(fs.bak, op.from)
AtWReady == AtWMove /\ Files(fs.dir) = {}
AtWClear == Renewing /\ fs.aj = NoJournal /\ op.ret = <<>>
AtWMeta == Renewing /\ Filled(op.data)
AtWDelBak == op.kind = "overwrite" /\ Agree(fs, meta, cache, op.data) /\ fs.oj = NoJournal
AtWCatch == op.kind = "overwrite" /\ Same /\ fs.oj \in OverwriteJournal /\ cache # NoTable
AtMMk == Migrating /\ fs.dir = NoDir
AtMWrite == Migrating /\ DirIs(fs.dir, <<>>)
AtMCheck == Migrating /\ DirIs(fs.dir, op.data)
AtMUndoMeta == /\ Migrates /\ DirIs(fs.dir, op.data) /\ cache = RecordOf(op.data)
               /\ meta \in {op.prev, cache} /\ faults > 0
AtMClean == /\ op.kind = "migrate" /\ op.data = op.from /\ op.from \in Content
            /\ fs.aj = NoJournal /\ fs.oj = NoJournal
            /\ DirIs(fs.dir, op.data) /\ Both(RecordOf(op.data))
AtPurge == Purging /\ op.todo # <<>>
AtPurged == Purging /\ op.kind = "create" /\ op.todo = <<>>
AtDMeta == op.kind = "drop" /\ Same /\ cache # NoTable /\ op.prev = cache /\ op.todo # <<>>
AtDUndoMeta == /\ op.kind = "drop" /\ cache = NoTable /\ op.prev # NoTable
               /\ Agree(fs, op.prev, op.prev, op.from)
               /\ meta # NoTable => Stands(fs, meta, op.from)
               /\ faults > 0
AtReadBody == op.kind = "read" /\ Same /\ fs.aj = NoJournal /\ fs.oj = NoJournal /\ cache # NoTable
AtReadDone == op.kind = "read" /\ Same /\ op.val = op.from
AtDone == Agree(fs, meta, cache, Target)

Labels ==
  {"idle", "recA", "raDel", "raMeta", "raDelJ", "recO", "rrReset", "rpMk", "rpCopy", "rpMeta",
   "roDelJ", "roDelBak", "roDelOld", "throw", "clrDel", "clrMk", "clrMeta", "app", "appOld",
   "appMk", "appJ", "appWrite", "appMeta", "appDelJ", "appUndo", "appUndoM", "appUndoMeta",
   "appUndoJ", "wStart", "wMkBak", "wMove", "wReady", "wClear", "wMeta", "wDelJ", "wDelBak",
   "wCatch", "mDelA", "mDelO", "mDelB", "mReset", "mMk", "mWrite", "mCheck", "mMeta",
   "mUndoMeta", "mClean", "mCatch", "purge", "purged", "cMeta", "cUndo", "cUndoMeta", "dMeta",
   "dUndoMeta", "readBody", "readDone", "okDone", "acked", "failed"}

Where ==
  /\ pc \in Labels
  /\ pc = "idle" => AtIdle
  /\ pc = "recA" => RecA
  /\ pc = "raDel" => RecAJ
  /\ pc = "raMeta" => AtRaMeta
  /\ pc = "raDelJ" => AtRaDelJ
  /\ pc = "recO" => RecO
  /\ pc = "rrReset" => AtReset
  /\ pc = "rpMk" => AtMake
  /\ pc = "rpCopy" => AtCopy
  /\ pc = "rpMeta" => AtRestored
  /\ pc = "roDelJ" => AtDelJ
  /\ pc = "roDelBak" => AtDelBak
  /\ pc = "roDelOld" => AtDelOld
  /\ pc = "throw" => AtThrow
  /\ pc = "clrDel" => Clearing
  /\ pc = "clrMk" => AtClrMk
  /\ pc = "clrMeta" => AtClrMeta
  /\ pc = "app" => AtApp
  /\ pc = "appOld" => AtAppOld
  /\ pc = "appMk" => AtAppMk
  /\ pc = "appJ" => AtAppJ
  /\ pc = "appWrite" => AtAppWrite
  /\ pc = "appMeta" => AtAppMeta
  /\ pc = "appDelJ" => AtAppDelJ
  /\ pc = "appUndo" => AtAppUndo
  /\ pc = "appUndoM" => Journaled
  /\ pc = "appUndoMeta" => AtAppUndoMeta
  /\ pc = "appUndoJ" => AtAppUndoJ
  /\ pc = "wStart" => AtWStart
  /\ pc = "wMkBak" => AtWMkBak
  /\ pc = "wMove" => AtWMove
  /\ pc = "wReady" => AtWReady
  /\ pc = "wClear" => AtWClear
  /\ pc \in {"wMeta", "wDelJ"} => AtWMeta
  /\ pc = "wDelBak" => AtWDelBak
  /\ pc = "wCatch" => AtWCatch
  /\ pc \in {"mDelA", "mDelO", "mDelB", "mReset", "mCatch"} => Migrating
  /\ pc = "mMk" => AtMMk
  /\ pc = "mWrite" => AtMWrite
  /\ pc \in {"mCheck", "mMeta"} => AtMCheck
  /\ pc = "mUndoMeta" => AtMUndoMeta
  /\ pc = "mClean" => AtMClean
  /\ pc = "purge" => AtPurge
  /\ pc = "purged" => AtPurged
  /\ pc = "cMeta" => Creates
  /\ pc \in {"cUndo", "cUndoMeta"} => Undone
  /\ pc = "dMeta" => AtDMeta
  /\ pc = "dUndoMeta" => AtDUndoMeta
  /\ pc = "readBody" => AtReadBody
  /\ pc = "readDone" => AtReadDone
  /\ pc \in {"okDone", "acked"} => AtDone
  /\ pc = "failed" => Same

FsRec == [dir: MaybeDir, bak: MaybeDir, ready: Nat, aj: AppendJournal \cup {NoJournal},
          oj: OverwriteJournal \cup OldJournal \cup {NoJournal}, single: Content \cup {Absent}]
FsType(f) ==
  /\ f \in FsRec /\ (f.ready # 0 => f.bak # NoDir)
  /\ f.oj \in OldJournal => f.oj.target # <<>>
  /\ f.oj \in OverwriteJournal => f.oj.id # 0
Returns ==
  {"readBody", "failed", "app", "okDone", "wStart", "cMeta", "wMeta", "wCatch", "recA", "recO",
   "roDelOld", "appOld", "throw"}
FrameType == [ok: Returns, err: Returns]
Kinds == {"none", "read", "append", "overwrite", "migrate", "create", "drop"}
MaybeMeta == Meta \cup {NoTable}
OpRec == [kind: Kinds, data: Content, batch: Content, ret: Seq(FrameType),
          from: Content \cup {Gone}, prev: MaybeMeta, todo: Seq(Artifacts),
          val: Content \cup {Absent, <<"failed">>}]

(* The marker of a backup is older than the operations to come.            *)
Typed ==
  /\ FsType(fs) /\ meta \in MaybeMeta /\ cache \in MaybeMeta /\ dirty \in BOOLEAN
  /\ op \in OpRec
  /\ writes \in 0..MaxWrites /\ faults \in 0..MaxFaults /\ crashes \in 0..MaxCrashes
  /\ fs.ready <= writes /\ (fs.oj \in OverwriteJournal => fs.oj.id <= writes)
  /\ (~dirty => cache = meta)

Inv == Typed /\ Where

LEMMA JournalsApart ==
  /\ NoJournal \notin OverwriteJournal /\ NoJournal \notin OldJournal /\ NoJournal \notin AppendJournal
  /\ \A j \in OverwriteJournal : j \notin OldJournal
<1>1. ASSUME NEW j \in OverwriteJournal, j \in OldJournal PROVE FALSE
  <2>1. DOMAIN j = {"id", "dirExisted", "count", "chunks"}
    BY DEF OverwriteJournal
  <2>2. DOMAIN j = {"prev", "target"}
    BY <1>1 DEF OldJournal
  <2> QED
    BY <2>1, <2>2
<1> QED
  BY <1>1, ChunkAssumption

LEMMA MetaIs ==
  /\ NoTable \notin Meta /\ NoTable \notin Content
  /\ \A m \in MaybeMeta : m # NoTable => m \in Meta
  /\ \A m \in Meta : /\ m.mode \in {"single", "chunked"} /\ m.count \in Nat /\ m.chunks \in Nat
                     /\ m = [mode |-> m.mode, count |-> m.count, chunks |-> m.chunks]
  /\ \A x, y \in Nat : /\ Chunked(x, y) \in Meta /\ Chunked(x, y).mode = "chunked"
                       /\ Chunked(x, y).count = x /\ Chunked(x, y).chunks = y
                       /\ IsDirOf(Chunked(x, y))
  BY ChunkAssumption DEF Meta, MaybeMeta, Chunked, IsDirOf

LEMMA RecordIs ==
  ASSUME NEW c \in Content
  PROVE  /\ Len(c) \in Nat /\ Records(c) \in Nat /\ RecordOf(c) \in Meta /\ IsDirOf(RecordOf(c))
         /\ RecordOf(c) # NoTable /\ RecordOf(c).mode = "chunked"
         /\ RecordOf(c).count = Records(c) /\ RecordOf(c).chunks = Len(c)
         /\ Single(c) \in Meta /\ Single(c) # NoTable /\ ~IsDirOf(Single(c))
         /\ Single(c).mode = "single"
<1>1. Len(c) \in Nat /\ Records(c) \in Nat
  BY ContentIs, RecordsType
<1>2. Single(c) \in Meta /\ Single(c).mode = "single"
  BY <1>1 DEF Single, Meta
<1> QED
  BY <1>1, <1>2, MetaIs DEF RecordOf, IsDirOf

LEMMA EmptyRecord == RecordOf(<<>>) = Chunked(0, 0)
  BY NoRecords, NoContent DEF RecordOf

LEMMA FilesOf ==
  ASSUME NEW f, FsType(f)
  PROVE  /\ f.dir \in MaybeDir /\ f.bak \in MaybeDir /\ f.ready \in Nat
         /\ f.aj \in AppendJournal \cup {NoJournal}
         /\ f.oj \in OverwriteJournal \cup OldJournal \cup {NoJournal}
         /\ f.single \in Content \cup {Absent} /\ (f.ready # 0 => f.bak # NoDir)
         /\ f.oj \in OldJournal => f.oj.target # <<>>
         /\ f.oj \in OverwriteJournal => f.oj.id # 0
  BY DEF FsType, FsRec

LEMMA SetDir ==
  ASSUME NEW f, FsType(f), NEW d \in MaybeDir, NEW g, g = [f EXCEPT !.dir = d]
  PROVE  /\ FsType(g) /\ g.dir = d /\ g.bak = f.bak /\ g.ready = f.ready /\ g.aj = f.aj
         /\ g.oj = f.oj /\ g.single = f.single
  BY DEF FsType, FsRec

WithBak(f, d, r) == [f EXCEPT !.bak = d, !.ready = r]

LEMMA SetBak ==
  ASSUME NEW f, FsType(f), NEW d \in MaybeDir, NEW r \in Nat, r # 0 => d # NoDir,
         NEW g, g = WithBak(f, d, r)
  PROVE  /\ FsType(g) /\ g.dir = f.dir /\ g.bak = d /\ g.ready = r /\ g.aj = f.aj
         /\ g.oj = f.oj /\ g.single = f.single
<1>1. g = [f EXCEPT !.bak = d, !.ready = r]
  BY DEF WithBak
<1> QED
  BY <1>1 DEF FsType, FsRec

LEMMA SetAj ==
  ASSUME NEW f, FsType(f), NEW j \in AppendJournal \cup {NoJournal}, NEW g, g = [f EXCEPT !.aj = j]
  PROVE  /\ FsType(g) /\ g.dir = f.dir /\ g.bak = f.bak /\ g.ready = f.ready /\ g.aj = j
         /\ g.oj = f.oj /\ g.single = f.single
  BY DEF FsType, FsRec

LEMMA SetOj ==
  ASSUME NEW f, FsType(f), NEW j \in OverwriteJournal \cup {NoJournal},
         j # NoJournal => j.id # 0, NEW g, g = [f EXCEPT !.oj = j]
  PROVE  /\ FsType(g) /\ g.dir = f.dir /\ g.bak = f.bak /\ g.ready = f.ready /\ g.aj = f.aj
         /\ g.oj = j /\ g.single = f.single
  BY JournalsApart DEF FsType, FsRec

LEMMA SetSingle ==
  ASSUME NEW f, FsType(f), NEW g, g = [f EXCEPT !.single = Absent]
  PROVE  /\ FsType(g) /\ g.dir = f.dir /\ g.bak = f.bak /\ g.ready = f.ready /\ g.aj = f.aj
         /\ g.oj = f.oj /\ g.single = Absent
  BY DEF FsType, FsRec

LEMMA NoFiles ==
  /\ FsType(FS0) /\ FS0.dir = NoDir /\ FS0.bak = NoDir /\ FS0.ready = 0
  /\ FS0.aj = NoJournal /\ FS0.oj = NoJournal /\ FS0.single = Absent
  BY JournalsApart DEF FS0, Files0, FsType, FsRec, MaybeDir

LEMMA NoFilesOnly ==
  ASSUME NEW f, FsType(f), f.dir = NoDir, f.bak = NoDir, f.ready = 0, f.aj = NoJournal,
         f.oj = NoJournal, f.single = Absent
  PROVE  f = FS0
  BY DEF FsType, FsRec, FS0, Files0

LEMMA SetOp ==
  ASSUME op \in OpRec, NEW r \in Seq(FrameType), op' = [op EXCEPT !.ret = r]
  PROVE  /\ op' \in OpRec /\ op'.ret = r /\ op'.kind = op.kind /\ op'.data = op.data
         /\ op'.batch = op.batch /\ op'.from = op.from /\ op'.prev = op.prev
         /\ op'.todo = op.todo /\ op'.val = op.val
  BY DEF OpRec

-----------------------------------------------------------------------------
(* What stands is what a restarted process finds                           *)

ConflictIn(f, i) == At(f.bak, i) # Absent /\ At(f.dir, i) \notin {Absent, f.bak[i]}
Rest(f) == IF f.aj = NoJournal THEN f.dir ELSE Without(f.dir, Targets(f.aj))
Merged(f, d) == [i \in Idx |-> IF At(f.bak, i) # Absent THEN f.bak[i] ELSE At(d, i)]
ViewOf(f, m) ==
  LET d == Rest(f)
      chunks == IF f.aj = NoJournal THEN m.chunks ELSE f.aj.chunks
  IN  CASE m = NoTable -> Gone
        [] m # NoTable /\ m.mode = "single" -> f.single
        [] m # NoTable /\ m.mode = "chunked" ->
             CASE f.oj = NoJournal -> Intact(d, chunks)
               [] f.oj \in OldJournal ->
                    IF Intact(d, chunks) = f.oj.target THEN f.oj.target ELSE f.oj.prev
               [] OTHER -> CASE f.ready = f.oj.id -> Intact(f.bak, f.oj.chunks)
                             [] f.ready = 0 /\ Files(f.bak) \subseteq 0..(f.oj.chunks - 1)
                                /\ ~\E i \in Idx : ConflictIn(f, i) -> Intact(Merged(f, d), f.oj.chunks)
                             [] OTHER -> Intact(d, f.oj.chunks)

LEMMA ViewIs == View = ViewOf(fs, meta)
  BY DEF View, ViewOf, Rest, Merged, Conflict, ConflictIn

LEMMA IntactIs ==
  ASSUME NEW c \in Content, NEW d, Holds(d, c)
  PROVE  Intact(d, Len(c)) = c
  BY HoldsListing DEF Intact

(* The chunks of the backup complete those of the directory.               *)
LEMMA MergedIs ==
  ASSUME NEW f, FsType(f), NEW v \in Content, Holds(f.dir, v) \/ Spread(f, v),
         Files(f.bak) \subseteq 0..(Len(v) - 1), ~\E i \in Idx : ConflictIn(f, i)
  PROVE  DirIs(Merged(f, f.dir), v)
<1> DEFINE m == Merged(f, f.dir)
<1>1. f.dir \in MaybeDir /\ f.bak \in MaybeDir /\ Len(v) \in Nat
  BY FilesOf, RecordIs
<1>2. ASSUME NEW i \in Idx
      PROVE  m[i] \in Chunk \cup {Absent} /\ m[i] = IF i < Len(v) THEN v[i + 1] ELSE Absent
  <2>1. m[i] = IF At(f.bak, i) # Absent THEN f.bak[i] ELSE At(f.dir, i)
    BY DEF Merged
  <2>2. i \in Nat /\ (i < Len(v) => v[i + 1] \in Chunk /\ v[i + 1] # Absent)
    BY ContentAt, Apart DEF Idx
  <2>3. At(f.bak, i) # Absent => i < Len(v) /\ At(f.bak, i) = f.bak[i]
    <3>1. At(f.bak, i) # Absent => i \in Files(f.bak) /\ At(f.bak, i) = f.bak[i]
      BY <1>1, FilesIs DEF At, MaybeDir
    <3>2. i \in 0..(Len(v) - 1) => i < Len(v)
      BY <1>1, <2>2
    <3> QED
      BY <3>1, <3>2
  <2>4. At(f.bak, i) # Absent => At(f.dir, i) \in {Absent, f.bak[i]}
    BY DEF ConflictIn
  <2>5. CASE Spread(f, v)
    <3>1. /\ f.dir # NoDir /\ f.bak # NoDir /\ At(f.dir, i) = f.dir[i] /\ At(f.bak, i) = f.bak[i]
      BY <2>5, Apart DEF Spread, At
    <3>2. IF i < Len(v) THEN /\ {f.dir[i], f.bak[i]} \subseteq {Absent, v[i + 1]}
                             /\ ~(f.dir[i] = Absent /\ f.bak[i] = Absent)
          ELSE f.dir[i] = Absent /\ f.bak[i] = Absent
      BY <2>5 DEF Spread
    <3> QED
      BY <2>1, <2>2, <3>1, <3>2
  <2>6. CASE DirIs(f.dir, v)
    <3>1. At(f.dir, i) = IF i < Len(v) THEN v[i + 1] ELSE Absent
      BY <2>6, Apart DEF DirIs, At
    <3> QED
      BY <2>1, <2>2, <2>3, <2>4, <3>1
  <2>7. CASE f.dir = NoDir /\ v = <<>>
    <3>1. ~(i < Len(v)) /\ At(f.dir, i) = Absent
      BY <2>2, <2>7, NoContent DEF At
    <3> QED
      BY <2>1, <2>3, <3>1
  <2> QED
    BY <2>5, <2>6, <2>7 DEF Holds
<1>3. m = [i \in Idx |-> m[i]]
  BY DEF Merged
<1>4. m \in Dir
  <2> HIDE DEF m
  <2> QED
    BY <1>2, <1>3 DEF Dir
<1> QED
  BY <1>2, <1>4 DEF DirIs

LEMMA StandsIs ==
  ASSUME NEW f, FsType(f), NEW m \in MaybeMeta, NEW v, Stands(f, m, v)
  PROVE  ViewOf(f, m) = v
<1>1. CASE m = NoTable /\ v = Gone
  BY <1>1 DEF ViewOf
<1>2. CASE v \in Content /\ m = Single(v) /\ f.single = v
  <2>1. m # NoTable /\ m.mode = "single"
    BY <1>2, RecordIs
  <2> QED
    BY <1>2, <2>1 DEF ViewOf
<1>3. CASE /\ v \in Content /\ IsDirOf(m)
           /\ \/ Plain(f, m, v) \/ Appending(f, v) \/ Split(f, v) \/ Sealed(f, v)
              \/ OldTarget(f, m, v) \/ OldPrev(f, m, v)
  <2> DEFINE d == Rest(f)
             chunks == IF f.aj = NoJournal THEN m.chunks ELSE f.aj.chunks
  <2>1. m # NoTable /\ m.mode = "chunked" /\ m.mode # "single" /\ m \in Meta
    BY <1>3, MetaIs DEF IsDirOf
  <2>2. ViewOf(f, m) =
             CASE f.oj = NoJournal -> Intact(d, chunks)
               [] f.oj \in OldJournal ->
                    IF Intact(d, chunks) = f.oj.target THEN f.oj.target ELSE f.oj.prev
               [] OTHER -> CASE f.ready = f.oj.id -> Intact(f.bak, f.oj.chunks)
                             [] f.ready = 0 /\ Files(f.bak) \subseteq 0..(f.oj.chunks - 1)
                                /\ ~\E i \in Idx : ConflictIn(f, i) -> Intact(Merged(f, d), f.oj.chunks)
                             [] OTHER -> Intact(d, f.oj.chunks)
    BY <2>1 DEF ViewOf
  <2>3. f.oj = NoJournal => ViewOf(f, m) = Intact(d, chunks)
    <3> HIDE DEF d, chunks
    <3> QED
      BY <2>2, JournalsApart
  <2>4. f.oj \in OldJournal =>
          ViewOf(f, m) = IF Intact(d, chunks) = f.oj.target THEN f.oj.target ELSE f.oj.prev
    BY <2>2, JournalsApart
  <2>5. f.oj \in OverwriteJournal =>
          /\ f.ready = f.oj.id => ViewOf(f, m) = Intact(f.bak, f.oj.chunks)
          /\ f.ready # f.oj.id =>
               ViewOf(f, m) = IF f.ready = 0 /\ Files(f.bak) \subseteq 0..(f.oj.chunks - 1)
                                 /\ ~\E i \in Idx : ConflictIn(f, i)
                              THEN Intact(Merged(f, d), f.oj.chunks) ELSE Intact(d, f.oj.chunks)
    <3>1. f.oj \in OverwriteJournal => f.oj # NoJournal /\ f.oj \notin OldJournal
      BY JournalsApart
    <3> DEFINE Mid == f.ready = 0 /\ Files(f.bak) \subseteq 0..(f.oj.chunks - 1)
                        /\ ~\E i \in Idx : ConflictIn(f, i)
               inner == CASE f.ready = f.oj.id -> Intact(f.bak, f.oj.chunks)
                          [] Mid -> Intact(Merged(f, d), f.oj.chunks)
                          [] OTHER -> Intact(d, f.oj.chunks)
    <3>2. f.oj \in OverwriteJournal => ViewOf(f, m) = inner
      <4> HIDE DEF d, chunks, inner
      <4> QED
        BY <2>2, <3>1 DEF inner
    <3>3. ASSUME f.oj \in OverwriteJournal
          PROVE
          /\ f.ready = f.oj.id => inner = Intact(f.bak, f.oj.chunks)
          /\ f.ready # f.oj.id => inner = IF Mid THEN Intact(Merged(f, d), f.oj.chunks) ELSE Intact(d, f.oj.chunks)
      <4>1. f.ready = f.oj.id => f.ready # 0
        BY <3>3, FilesOf
      <4> HIDE DEF d, chunks
      <4> QED
        BY <4>1
    <3> QED
      BY <3>2, <3>3
  <2> HIDE DEF d, chunks
  <2>6. CASE Plain(f, m, v)
    <3>1. d = f.dir /\ chunks = Len(v) /\ Holds(f.dir, v)
      BY <1>3, <2>6, RecordIs DEF Plain, d, chunks, Rest
    <3> QED
      BY <1>3, <2>3, <2>6, <3>1, IntactIs DEF Plain
  <2>7. CASE Appending(f, v)
    <3>1. d = Without(f.dir, Targets(f.aj)) /\ chunks = Len(v) /\ Holds(d, v)
      BY <2>7 DEF Appending, Fits, Counts, d, chunks, Rest
    <3> QED
      BY <1>3, <2>3, <2>7, <3>1, IntactIs DEF Appending
  <2>8. CASE Split(f, v)
    <3>1. /\ f.oj \in OverwriteJournal /\ f.ready # f.oj.id /\ f.oj.chunks = Len(v) /\ d = f.dir
          /\ Holds(f.dir, v) \/ Spread(f, v)
      BY <2>8 DEF Split, Counts, d, Rest
    <3>2. CASE /\ f.ready = 0 /\ Files(f.bak) \subseteq 0..(f.oj.chunks - 1)
               /\ ~\E i \in Idx : ConflictIn(f, i)
      <4>1. DirIs(Merged(f, f.dir), v)
        BY <1>3, <3>1, <3>2, MergedIs
      <4> QED
        BY <1>3, <2>5, <3>1, <3>2, <4>1, IntactIs DEF Holds
    <3>3. CASE ~(/\ f.ready = 0 /\ Files(f.bak) \subseteq 0..(f.oj.chunks - 1)
                 /\ ~\E i \in Idx : ConflictIn(f, i))
      <4>1. ASSUME Spread(f, v) PROVE FALSE
        <5>1. f.ready = 0 /\ f.dir \in Dir /\ f.bak \in Dir /\ f.dir # NoDir /\ f.bak # NoDir
          BY <4>1, Apart DEF Spread
        <5>2. ASSUME NEW i \in Idx
              PROVE  /\ f.bak[i] # Absent => i < Len(v)
                     /\ At(f.bak, i) # Absent => At(f.dir, i) \in {Absent, f.bak[i]}
          BY <4>1, <5>1 DEF Spread, At
        <5>3. Files(f.bak) \subseteq 0..(Len(v) - 1)
          <6>1. Len(v) \in Nat /\ Files(f.bak) = {i \in Idx : f.bak[i] # Absent}
            BY <1>3, <5>1, FilesIs, RecordIs
          <6>2. \A i \in Idx : i \in Nat
            BY Apart DEF Idx
          <6> QED
            BY <5>2, <6>1, <6>2
        <5> QED
          BY <3>1, <3>3, <5>1, <5>2, <5>3 DEF ConflictIn
      <4>2. Holds(f.dir, v)
        BY <3>1, <4>1
      <4>3. ViewOf(f, m) = Intact(d, f.oj.chunks)
        BY <2>5, <3>1, <3>3
      <4> QED
        BY <1>3, <3>1, <4>2, <4>3, IntactIs
    <3> QED
      BY <3>2, <3>3
  <2>9. CASE Sealed(f, v)
    BY <1>3, <2>5, <2>9, IntactIs DEF Sealed, Counts, Holds
  <2>10. CASE OldTarget(f, m, v)
    <3>1. d = f.dir /\ chunks = Len(v) /\ Holds(f.dir, v)
      BY <1>3, <2>10, RecordIs DEF OldTarget, d, chunks, Rest
    <3> QED
      BY <1>3, <2>4, <2>10, <3>1, IntactIs DEF OldTarget
  <2>11. CASE OldPrev(f, m, v)
    <3>1. f.oj \in OldJournal /\ v = f.oj.prev /\ f.oj.target \in Content /\ f.oj.target # <<>>
      BY <2>11, FilesOf DEF OldPrev, OldJournal
    <3>2. ASSUME Intact(d, chunks) = f.oj.target PROVE v = f.oj.target
      <4>1. CASE f.aj = NoJournal
        <5>1. d = f.dir /\ chunks = m.chunks
          BY <4>1 DEF d, chunks, Rest
        <5>2. Complete(d, chunks) /\ Listing(d) = f.oj.target
          BY <3>1, <3>2, ChunkAssumption DEF Intact
        <5> QED
          BY <2>11, <4>1, <5>1, <5>2 DEF OldPrev, Counted
      <4>2. CASE f.aj # NoJournal
        <5>1. d = Without(f.dir, Targets(f.aj)) /\ chunks = Len(<<>>) /\ Holds(d, <<>>)
          BY <2>11, <4>2 DEF OldPrev, Fits, Counts, d, chunks, Rest
        <5>2. Intact(d, chunks) = <<>>
          BY <5>1, IntactIs, NoContent
        <5> QED
          BY <3>1, <3>2, <5>2
      <4> QED
        BY <4>1, <4>2
    <3> QED
      BY <2>4, <3>1, <3>2
  <2> QED
    BY <1>3, <2>6, <2>7, <2>8, <2>9, <2>10, <2>11
<1> QED
  BY <1>1, <1>2, <1>3 DEF Stands

-----------------------------------------------------------------------------
(* Call stacks                                                             *)

LEMMA FrameIs ==
  ASSUME NEW l \in Returns, NEW e \in Returns
  PROVE  Frame(l, e) \in FrameType /\ Frame(l, e).ok = l /\ Frame(l, e)["ok"] = l
         /\ Frame(l, e).err = e /\ Frame(l, e)["err"] = e
  BY DEF Frame, FrameType

LEMMA Stack1 ==
  ASSUME NEW x \in FrameType
  PROVE  <<x>> \in Seq(FrameType) /\ <<x>> # <<>> /\ Head(<<x>>) = x /\ Tail(<<x>>) = <<>>
  OBVIOUS

LEMMA Stack2 ==
  ASSUME NEW x \in FrameType, NEW y \in FrameType
  PROVE  <<x, y>> \in Seq(FrameType) /\ <<x, y>> # <<>> /\ Head(<<x, y>>) = x /\ Tail(<<x, y>>) = <<y>>
  OBVIOUS

LEMMA Stack3 ==
  ASSUME NEW x \in FrameType, NEW y \in FrameType, NEW z \in FrameType
  PROVE  /\ <<x, y, z>> \in Seq(FrameType) /\ <<x, y, z>> # <<>> /\ Head(<<x, y, z>>) = x
         /\ Tail(<<x, y, z>>) = <<y, z>>
  OBVIOUS

LEMMA Push1 ==
  ASSUME NEW x \in FrameType, NEW s \in Seq(FrameType)
  PROVE  /\ <<x>> \o s \in Seq(FrameType) /\ <<x>> \o s # <<>>
         /\ Head(<<x>> \o s) = x /\ Tail(<<x>> \o s) = s
  OBVIOUS

LEMMA Push2 ==
  ASSUME NEW x \in FrameType, NEW y \in FrameType, NEW s \in Seq(FrameType)
  PROVE  /\ <<x, y>> \o s \in Seq(FrameType) /\ <<x, y>> \o s # <<>>
         /\ Head(<<x, y>> \o s) = x /\ Tail(<<x, y>> \o s) = <<y>> \o s
  OBVIOUS

LEMMA Push3 ==
  ASSUME NEW x \in FrameType, NEW y \in FrameType, NEW z \in FrameType, NEW s \in Seq(FrameType)
  PROVE  /\ <<x, y, z>> \o s \in Seq(FrameType) /\ <<x, y, z>> \o s # <<>>
         /\ Head(<<x, y, z>> \o s) = x /\ Tail(<<x, y, z>> \o s) = <<y, z>> \o s
  OBVIOUS

LEMMA NoStack ==
  ASSUME NEW s \in Seq(FrameType)
  PROVE  /\ <<>> \in Seq(FrameType) /\ s \o <<>> = s /\ (Tail(s) \in Seq(FrameType) \/ s = <<>>)
         /\ s # <<>> => Head(s) \in FrameType /\ Tail(s) \in Seq(FrameType)
  OBVIOUS

-----------------------------------------------------------------------------
(* What changes of the files and of the record leave standing              *)

LEMMA StandsRecord ==
  ASSUME NEW f, NEW m \in MaybeMeta, NEW v, Stands(f, m, v)
  PROVE  /\ m = NoTable <=> v = Gone
         /\ m # NoTable => v \in Content /\ m \in Meta
         /\ m # NoTable /\ ~IsDirOf(m) =>
              m = Single(v) /\ f.single = v /\ f.aj = NoJournal /\ f.oj = NoJournal
         /\ IsDirOf(m) => \/ Plain(f, m, v) \/ Appending(f, v) \/ Split(f, v) \/ Sealed(f, v)
                          \/ OldTarget(f, m, v) \/ OldPrev(f, m, v)
<1>1. NoTable \notin Content /\ Gone = NoTable /\ ~IsDirOf(NoTable)
  BY MetaIs DEF Gone, IsDirOf
<1>2. v \in Content => ~IsDirOf(Single(v)) /\ Single(v) # NoTable
  BY RecordIs
<1> QED
  BY <1>1, <1>2, MetaIs DEF Stands

LEMMA StandsChunked ==
  ASSUME NEW f, NEW m, IsDirOf(m), NEW v \in Content,
         \/ Plain(f, m, v) \/ Appending(f, v) \/ Split(f, v) \/ Sealed(f, v)
         \/ OldTarget(f, m, v) \/ OldPrev(f, m, v)
  PROVE  Stands(f, m, v)
  BY DEF Stands

LEMMA StandsNothing == ASSUME NEW f PROVE Agree(f, NoTable, NoTable, Gone)
  BY DEF Agree, Stands

LEMMA AgreeRecords ==
  ASSUME NEW f, NEW m \in MaybeMeta, NEW k \in MaybeMeta, NEW v, Agree(f, m, k, v)
  PROVE  /\ m = NoTable <=> k = NoTable
         /\ k = NoTable <=> v = Gone
         /\ k # NoTable => v \in Content
         /\ IsDirOf(k) <=> IsDirOf(m)
         /\ k # NoTable /\ ~IsDirOf(k) =>
              m = k /\ k = Single(v) /\ f.single = v /\ f.aj = NoJournal /\ f.oj = NoJournal
         /\ v \in Content \cup {Gone}
  BY StandsRecord DEF Agree, Gone

(* Behind a journal of an append or of an overwrite, any record will do.   *)
LEMMA StandsAny ==
  ASSUME NEW f, NEW m \in MaybeMeta, NEW v, Stands(f, m, v), IsDirOf(m), NEW k, IsDirOf(k),
         f.aj # NoJournal \/ f.oj \in OverwriteJournal
  PROVE  Stands(f, k, v)
<1>1. v \in Content
  BY StandsRecord DEF IsDirOf
<1>2. f.oj \in OverwriteJournal => f.oj # NoJournal /\ f.oj \notin OldJournal
  BY JournalsApart
<1>3. \/ Appending(f, v) \/ Split(f, v) \/ Sealed(f, v) \/ (OldPrev(f, m, v) /\ f.aj # NoJournal)
  BY <1>2, StandsRecord DEF Plain, OldTarget, OldPrev
<1>4. \/ Appending(f, v) \/ Split(f, v) \/ Sealed(f, v) \/ OldPrev(f, k, v)
  BY <1>3 DEF OldPrev
<1> QED
  BY <1>1, <1>4, StandsChunked

LEMMA AgreeBehind ==
  ASSUME NEW f, NEW v \in Content, Split(f, v) \/ Sealed(f, v),
         NEW m, IsDirOf(m), NEW k, IsDirOf(k)
  PROVE  Agree(f, m, k, v) /\ f.oj \in OverwriteJournal
<1>1. f.oj \in OverwriteJournal /\ f.oj \notin OldJournal
  BY JournalsApart DEF Split, Sealed
<1> QED
  BY <1>1, StandsChunked DEF Agree

LEMMA AgreePlain ==
  ASSUME NEW f, NEW v \in Content, f.oj = NoJournal, f.aj = NoJournal, Holds(f.dir, v)
  PROVE  Agree(f, RecordOf(v), RecordOf(v), v)
<1>1. IsDirOf(RecordOf(v)) /\ Plain(f, RecordOf(v), v)
  BY RecordIs DEF Plain
<1> QED
  BY <1>1, StandsChunked, JournalsApart DEF Agree

LEMMA AgreeSingle ==
  ASSUME NEW f, NEW v \in Content, f.oj = NoJournal, f.aj = NoJournal, f.single = v
  PROVE  Agree(f, Single(v), Single(v), v)
  BY JournalsApart DEF Agree, Stands

LEMMA AgreeAny ==
  ASSUME NEW f, NEW m \in MaybeMeta, NEW k \in MaybeMeta, NEW v, Agree(f, m, k, v), IsDirOf(k),
         f.aj # NoJournal \/ f.oj \in OverwriteJournal,
         NEW n, IsDirOf(n), NEW r, IsDirOf(r)
  PROVE  Agree(f, n, r, v)
<1>1. Stands(f, k, v)
  BY DEF Agree
<1>2. Stands(f, n, v) /\ Stands(f, r, v)
  BY <1>1, StandsAny
<1>3. f.aj # NoJournal \/ f.oj \notin OldJournal
  BY JournalsApart
<1> QED
  BY <1>2, <1>3 DEF Agree

(* Deleting chunks that an append journal covers.                          *)
LEMMA WithoutMore ==
  ASSUME NEW d \in MaybeDir, NEW S, NEW T, T \subseteq S
  PROVE  Without(Without(d, T), S) = Without(d, S)
<1>1. T \cup S = S
  OBVIOUS
<1> QED
  BY <1>1, WithoutIs

LEMMA StandsUndone ==
  ASSUME NEW f, FsType(f), NEW m \in MaybeMeta, NEW v, Stands(f, m, v), f.aj # NoJournal,
         NEW T, T \subseteq Targets(f.aj), NEW g, g = [f EXCEPT !.dir = Without(f.dir, T)]
  PROVE  Stands(g, m, v)
<1>1. f.dir \in MaybeDir /\ Without(f.dir, T) \in MaybeDir
  BY FilesOf, WithoutIs
<1>2. /\ FsType(g) /\ g.dir = Without(f.dir, T) /\ g.bak = f.bak /\ g.ready = f.ready /\ g.aj = f.aj
      /\ g.oj = f.oj /\ g.single = f.single
  BY <1>1, SetDir
<1>3. Without(g.dir, Targets(g.aj)) = Without(f.dir, Targets(f.aj))
  BY <1>1, <1>2, WithoutMore
<1>4. CASE IsDirOf(m)
  <2>1. v \in Content
    BY <1>4, StandsRecord DEF IsDirOf
  <2>2. \/ Appending(f, v) \/ Sealed(f, v) \/ OldPrev(f, m, v)
    BY <1>4, StandsRecord DEF Plain, OldTarget, Split
  <2>3. Appending(f, v) => Appending(g, v)
    BY <1>2, <1>3 DEF Appending
  <2>4. Sealed(f, v) => Sealed(g, v)
    BY <1>2 DEF Sealed
  <2>5. OldPrev(f, m, v) => OldPrev(g, m, v)
    BY <1>2, <1>3 DEF OldPrev
  <2> QED
    BY <1>4, <2>1, <2>2, <2>3, <2>4, <2>5, StandsChunked
<1>5. CASE ~IsDirOf(m)
  <2>1. m = NoTable /\ v = Gone
    BY <1>5, StandsRecord
  <2> QED
    BY <2>1 DEF Stands
<1> QED
  BY <1>4, <1>5

LEMMA AgreeUndone ==
  ASSUME NEW f, FsType(f), NEW m \in MaybeMeta, NEW k \in MaybeMeta, NEW v, Agree(f, m, k, v),
         f.aj # NoJournal, NEW T, T \subseteq Targets(f.aj),
         NEW g, g = [f EXCEPT !.dir = Without(f.dir, T)]
  PROVE  Agree(g, m, k, v)
<1>1. Stands(g, m, v) /\ Stands(g, k, v)
  BY StandsUndone DEF Agree
<1>2. f.dir \in MaybeDir /\ Without(f.dir, T) \in MaybeDir
  BY FilesOf, WithoutIs
<1>3. g.aj # NoJournal
  BY <1>2, SetDir
<1> QED
  BY <1>1, <1>3 DEF Agree

(* Creating the directory.                                                 *)
MadeDir(d) == IF d = NoDir THEN EmptyDir ELSE d

LEMMA MadeHolds ==
  ASSUME NEW c \in Content, NEW d \in MaybeDir
  PROVE  /\ MadeDir(d) \in Dir /\ Files(MadeDir(d)) = Files(d) /\ Listing(MadeDir(d)) = Listing(d)
         /\ \A n : Complete(MadeDir(d), n) <=> Complete(d, n)
         /\ Holds(d, c) => DirIs(MadeDir(d), c)
         /\ \A S : Holds(Without(d, S), c) => Holds(Without(MadeDir(d), S), c)
<1>1. CASE d = NoDir
  <2>1. /\ MadeDir(d) = EmptyDir /\ EmptyDir \in Dir /\ EmptyDir \in MaybeDir
        /\ Files(EmptyDir) = {} /\ Files(d) = {} /\ DirIs(EmptyDir, <<>>)
    BY <1>1, EmptyDirIs, FilesIs DEF MadeDir, MaybeDir
  <2>2. Listing(EmptyDir) = <<>> /\ Listing(d) = <<>>
    BY <1>1, <2>1, DirListing, NoContent, NoDirListing
  <2>3. Holds(d, c) => c = <<>>
    BY <1>1, Apart DEF Holds, DirIs
  <2>4. ASSUME NEW S PROVE Without(EmptyDir, S) = EmptyDir /\ Without(d, S) = d
    BY <1>1, <2>1, WithoutIs DEF MaybeDir
  <2> QED
    BY <1>1, <2>1, <2>2, <2>3, <2>4 DEF Complete, Holds
<1>2. CASE d # NoDir
  <2>1. MadeDir(d) = d /\ d \in Dir
    BY <1>2 DEF MadeDir, MaybeDir
  <2> QED
    BY <1>2, <2>1 DEF Holds
<1> QED
  BY <1>1, <1>2

LEMMA StandsMade ==
  ASSUME NEW f, FsType(f), NEW m \in MaybeMeta, NEW v, Stands(f, m, v),
         NEW g, g = [f EXCEPT !.dir = MadeDir(f.dir)]
  PROVE  Stands(g, m, v)
<1>1. f.dir \in MaybeDir /\ MadeDir(f.dir) \in Dir /\ MadeDir(f.dir) \in MaybeDir
  BY FilesOf, MadeHolds, NoContent DEF MaybeDir
<1>2. /\ FsType(g) /\ g.dir = MadeDir(f.dir) /\ g.bak = f.bak /\ g.ready = f.ready /\ g.aj = f.aj
      /\ g.oj = f.oj /\ g.single = f.single
  BY <1>1, SetDir
<1>3. CASE IsDirOf(m)
  <2>1. v \in Content /\ <<>> \in Content
    BY <1>3, StandsRecord, NoContent DEF IsDirOf
  <2>2. /\ Holds(f.dir, v) => Holds(g.dir, v)
        /\ Holds(Without(f.dir, Targets(f.aj)), v) => Holds(Without(g.dir, Targets(g.aj)), v)
        /\ Holds(Without(f.dir, Targets(f.aj)), <<>>) => Holds(Without(g.dir, Targets(g.aj)), <<>>)
        /\ Files(g.dir) = Files(f.dir) /\ Listing(g.dir) = Listing(f.dir)
        /\ Complete(g.dir, m.chunks) <=> Complete(f.dir, m.chunks)
    BY <1>1, <1>2, <2>1, MadeHolds DEF Holds
  <2>3. Plain(f, m, v) => Plain(g, m, v)
    BY <1>2, <2>2 DEF Plain
  <2>4. Appending(f, v) => Appending(g, v)
    BY <1>2, <2>2 DEF Appending
  <2>5. Split(f, v) => Split(g, v)
    <3>1. Spread(f, v) => g.dir = f.dir
      BY <1>2, Apart DEF Spread, MadeDir
    <3>2. Spread(f, v) => Spread(g, v)
      BY <1>2, <3>1 DEF Spread
    <3> QED
      BY <1>2, <2>2, <3>2 DEF Split
  <2>6. Sealed(f, v) => Sealed(g, v)
    BY <1>2 DEF Sealed
  <2>7. OldTarget(f, m, v) => OldTarget(g, m, v)
    BY <1>2, <2>2 DEF OldTarget
  <2>8. OldPrev(f, m, v) => OldPrev(g, m, v)
    BY <1>2, <2>2 DEF OldPrev, Counted
  <2> QED
    BY <1>3, <2>1, <2>3, <2>4, <2>5, <2>6, <2>7, <2>8, StandsRecord, StandsChunked
<1>4. CASE ~IsDirOf(m)
  <2> QED
    BY <1>2, <1>4, StandsRecord DEF Stands
<1> QED
  BY <1>3, <1>4

LEMMA AgreeMade ==
  ASSUME NEW f, FsType(f), NEW m \in MaybeMeta, NEW k \in MaybeMeta, NEW v, Agree(f, m, k, v),
         NEW g, g = [f EXCEPT !.dir = MadeDir(f.dir)]
  PROVE  Agree(g, m, k, v)
<1>1. Stands(g, m, v) /\ Stands(g, k, v)
  BY StandsMade DEF Agree
<1>2. MadeDir(f.dir) \in MaybeDir
  BY FilesOf, MadeHolds, NoContent DEF MaybeDir
<1>3. g.aj = f.aj /\ g.oj = f.oj
  BY <1>2, SetDir
<1> QED
  BY <1>1, <1>3 DEF Agree

(* Without a journal the backup does not matter.                           *)
LEMMA StandsAlone ==
  ASSUME NEW f, NEW m \in MaybeMeta, NEW v, Stands(f, m, v), f.oj = NoJournal,
         NEW g, g.dir = f.dir, g.aj = f.aj, g.oj = f.oj, g.single = f.single
  PROVE  Stands(g, m, v)
<1>1. f.oj \notin OverwriteJournal /\ f.oj \notin OldJournal
  BY JournalsApart
<1>2. CASE IsDirOf(m)
  <2>1. v \in Content /\ (Plain(f, m, v) \/ Appending(f, v))
    BY <1>1, <1>2, StandsRecord DEF Split, Sealed, OldTarget, OldPrev, IsDirOf
  <2>2. Plain(g, m, v) \/ Appending(g, v)
    BY <2>1 DEF Plain, Appending
  <2> QED
    BY <1>2, <2>1, <2>2, StandsChunked
<1>3. CASE ~IsDirOf(m)
  BY <1>3, StandsRecord DEF Stands
<1> QED
  BY <1>2, <1>3

LEMMA AgreeAlone ==
  ASSUME NEW f, NEW m \in MaybeMeta, NEW k \in MaybeMeta, NEW v, Agree(f, m, k, v), f.oj = NoJournal,
         NEW g, g.dir = f.dir, g.aj = f.aj, g.oj = f.oj, g.single = f.single
  PROVE  Agree(g, m, k, v)
  BY StandsAlone DEF Agree

(* The journal of an append goes when its chunks are gone and the record   *)
(* is the one it recorded.                                                 *)
LEMMA AgreeUndoneRecord ==
  ASSUME NEW f, FsType(f), NEW m \in MaybeMeta, NEW v, Stands(f, m, v), IsDirOf(m),
         f.aj # NoJournal, Files(f.dir) \cap Targets(f.aj) = {},
         NEW g, g = [f EXCEPT !.aj = NoJournal],
         NEW k, k = Chunked(f.aj.count, f.aj.chunks)
  PROVE  Agree(g, k, k, v)
<1>1. /\ FsType(g) /\ g.dir = f.dir /\ g.bak = f.bak /\ g.ready = f.ready /\ g.aj = NoJournal
      /\ g.oj = f.oj /\ g.single = f.single
  BY SetAj
<1>2. v \in Content /\ f.dir \in MaybeDir /\ Without(f.dir, Targets(f.aj)) = f.dir
  BY FilesOf, WithoutIs, StandsRecord DEF IsDirOf
<1>3. f.aj \in AppendJournal /\ f.aj.count \in Nat /\ f.aj.chunks \in Nat
  BY FilesOf DEF AppendJournal
<1>4. IsDirOf(k) /\ k.count = f.aj.count /\ k.chunks = f.aj.chunks
  BY <1>3, MetaIs
<1>5. Appending(f, v) \/ Sealed(f, v) \/ OldPrev(f, m, v)
  BY StandsRecord DEF Plain, OldTarget, Split
<1>6. Appending(f, v) => Plain(g, k, v)
  BY <1>1, <1>2 DEF Appending, Plain, Fits, Counts, RecordOf
<1>7. Sealed(f, v) => Sealed(g, v)
  BY <1>1 DEF Sealed
<1>8. ASSUME OldPrev(f, m, v) PROVE OldPrev(g, k, v)
  <2>1. Fits(f.aj, <<>>) /\ Holds(f.dir, <<>>) /\ f.oj \in OldJournal /\ v = f.oj.prev /\ f.bak = NoDir
    BY <1>2, <1>8 DEF OldPrev
  <2>2. k.chunks = 0 /\ k.count = 0
    BY <1>4, <2>1, NoRecords, NoContent DEF Fits, Counts
  <2>3. Files(f.dir) = 0..(0 - 1) /\ Listing(f.dir) = <<>> /\ Records(Listing(f.dir)) = 0
    BY <2>1, HoldsListing, NoContent, NoRecords
  <2>4. f.oj.target # <<>>
    BY <2>1, FilesOf
  <2>5. Counted(g, k, v)
    BY <1>1, <2>2, <2>3, <2>4 DEF Counted
  <2> QED
    BY <1>1, <2>1, <2>5 DEF OldPrev
<1> QED
  BY <1>2, <1>4, <1>5, <1>6, <1>7, <1>8, StandsChunked DEF Agree

(* Before the previous generation of an old journal is written again.      *)
LEMMA OldStands ==
  ASSUME NEW f, FsType(f), NEW m \in MaybeMeta, NEW v, Stands(f, m, v), IsDirOf(m),
         f.aj = NoJournal, f.oj \in OldJournal, v = f.oj.prev
  PROVE  OldPrev(f, m, v) /\ Counted(f, m, v) /\ f.bak = NoDir /\ v \in Content
<1>1. f.oj # NoJournal /\ f.oj \notin OverwriteJournal /\ v \in Content
  BY JournalsApart, StandsRecord DEF IsDirOf
<1>2. OldTarget(f, m, v) \/ OldPrev(f, m, v)
  BY <1>1, StandsRecord DEF Plain, Appending, Split, Sealed
<1>3. ASSUME OldTarget(f, m, v) PROVE Counted(f, m, v)
  <2>1. m = RecordOf(v) /\ Holds(f.dir, v) /\ v = f.oj.target
    BY <1>3 DEF OldTarget
  <2>2. Files(f.dir) = 0..(m.chunks - 1) /\ m.count = Records(v) /\ Listing(f.dir) = v
    BY <1>1, <2>1, HoldsListing, RecordIs
  <2> QED
    BY <2>1, <2>2 DEF Counted
<1> QED
  BY <1>1, <1>2, <1>3 DEF OldPrev, OldTarget

LEMMA OldLess ==
  ASSUME NEW f, FsType(f), NEW m \in MaybeMeta, NEW v, Stands(f, m, v), IsDirOf(m),
         f.aj = NoJournal, f.oj \in OldJournal, v = f.oj.prev,
         NEW d, d = NoDir \/ \E S : d = Without(f.dir, S),
         NEW g, g = [f EXCEPT !.dir = d]
  PROVE  Stands(g, m, v)
<1>1. f.dir \in MaybeDir /\ d \in MaybeDir
  <2>1. f.dir \in MaybeDir /\ NoDir \in MaybeDir
    BY FilesOf DEF MaybeDir
  <2>2. \A S : Without(f.dir, S) \in MaybeDir
    BY <2>1, WithoutIs
  <2> QED
    BY <2>1, <2>2
<1>2. /\ FsType(g) /\ g.dir = d /\ g.bak = f.bak /\ g.ready = f.ready /\ g.aj = f.aj
      /\ g.oj = f.oj /\ g.single = f.single
  BY <1>1, SetDir
<1>3. OldPrev(f, m, v) /\ Counted(f, m, v) /\ f.bak = NoDir /\ v \in Content
  BY OldStands
<1>4. CASE d = NoDir
  <2>1. Files(d) = {} /\ Listing(d) = <<>> /\ Records(<<>>) = 0 /\ f.oj.target # <<>>
    BY <1>4, FilesIs, NoDirListing, FilesOf
  <2>2. Complete(d, m.chunks) => Complete(f.dir, m.chunks) /\ Files(f.dir) = {}
    BY <1>3, <2>1 DEF Complete, Counted
  <2>3. Files(f.dir) = {} => Records(Listing(f.dir)) = 0
    <3>1. ASSUME Files(f.dir) = {} PROVE Complete(f.dir, 0)
      BY <3>1 DEF Complete
    <3>2. ASSUME Complete(f.dir, 0) PROVE Listing(f.dir) = <<>>
      BY <1>1, <3>2, ListingHolds, EmptyContent
    <3> QED
      BY <2>1, <3>1, <3>2
  <2> QED
    <3>1. Counted(g, m, v)
      BY <1>2, <1>3, <2>1, <2>2, <2>3 DEF Counted
    <3> QED
      BY <1>2, <1>3, <3>1, StandsChunked DEF OldPrev
<1>5. ASSUME NEW S, d = Without(f.dir, S) PROVE Stands(g, m, v)
  <2>1. Files(d) = Files(f.dir) \ S /\ (Files(f.dir) \cap S = {} => d = f.dir)
    BY <1>1, <1>5, WithoutIs
  <2>2. Files(d) = Files(f.dir) => d = f.dir
    BY <2>1
  <2>3. Complete(d, m.chunks) => d = f.dir
    BY <1>3, <2>1, <2>2 DEF Complete, Counted
  <2>4. Counted(g, m, v)
    BY <1>2, <1>3, <2>1, <2>3 DEF Counted
  <2> QED
    BY <1>2, <1>3, <2>4, StandsChunked DEF OldPrev
<1> QED
  BY <1>4, <1>5

-----------------------------------------------------------------------------
(* Continuing, returning and failing                                       *)

LEMMA ToLabel ==
  ASSUME NEW l, l \notin {"ok", "err"}, To(l)
  PROVE  pc' = l /\ op' = op
  BY DEF To

LEMMA ToReturn ==
  ASSUME op \in OpRec, op.ret # <<>>, NEW l \in {"ok", "err"}, To(l)
  PROVE  /\ pc' = Head(op.ret)[l] /\ Head(op.ret) \in FrameType
         /\ op' \in OpRec /\ op'.ret = Tail(op.ret) /\ op'.kind = op.kind /\ op'.data = op.data
         /\ op'.batch = op.batch /\ op'.from = op.from /\ op'.prev = op.prev
         /\ op'.todo = op.todo /\ op'.val = op.val
<1>1. op.ret \in Seq(FrameType)
  BY DEF OpRec
<1>2. Head(op.ret) \in FrameType /\ Tail(op.ret) \in Seq(FrameType)
  BY <1>1, NoStack
<1>3. op' = [op EXCEPT !.ret = Tail(op.ret)] /\ pc' = Head(op.ret)[l]
  BY DEF To
<1> QED
  BY <1>2, <1>3, SetOp

LEMMA RunsTo ==
  ASSUME op \in OpRec, NEW l, NEW r, r \o op.ret \in Seq(FrameType), Run(l, r)
  PROVE  /\ pc' = l /\ op' \in OpRec /\ op'.ret = r \o op.ret /\ op'.kind = op.kind /\ op'.data = op.data
         /\ op'.batch = op.batch /\ op'.from = op.from /\ op'.prev = op.prev
         /\ op'.todo = op.todo /\ op'.val = op.val
<1>1. op' = [op EXCEPT !.ret = r \o op.ret] /\ pc' = l
  BY DEF Run
<1> QED
  BY <1>1, SetOp

LEMMA OpIs ==
  ASSUME op \in OpRec
  PROVE  /\ op.ret \in Seq(FrameType) /\ op.data \in Content /\ op.batch \in Content
         /\ op.from \in Content \cup {Gone} /\ op.prev \in MaybeMeta
  BY DEF OpRec

LEMMA StacksAre ==
  /\ ToRead \in Seq(FrameType) /\ ToRead # <<>> /\ Head(ToRead) = OrFail("readBody")
  /\ ToAppend \in Seq(FrameType) /\ ToAppend # <<>> /\ Head(ToAppend) = OrFail("app")
  /\ Tail(ToAppend) = <<OrFail("okDone")>>
  /\ ToOverwrite \in Seq(FrameType) /\ ToOverwrite # <<>> /\ Head(ToOverwrite) = OrFail("wStart")
  /\ Tail(ToOverwrite) = <<>>
  /\ ToCreate \in Seq(FrameType) /\ ToCreate # <<>> /\ Head(ToCreate) = OrFail("app")
  /\ Tail(ToCreate) = <<OrFail("cMeta")>>
<1>1. \A l \in Returns : OrFail(l) \in FrameType
  BY FrameIs DEF OrFail, Returns
<1> QED
  BY <1>1, Stack1, Stack2 DEF ToRead, ToAppend, ToOverwrite, ToCreate, Returns

LEMMA OrFailIs ==
  ASSUME NEW l \in Returns
  PROVE  OrFail(l) \in FrameType /\ OrFail(l)["ok"] = l /\ OrFail(l)["err"] = "failed"
  BY FrameIs DEF OrFail, Returns

LEMMA CtxHead ==
  ASSUME NEW b, Ctx(b)
  PROVE  b # <<>> /\ Head(b)["err"] = "failed"
<1>1. \A l \in Returns : OrFail(l)["err"] = "failed"
  BY OrFailIs
<1>2. b # <<>> /\ \E l \in Returns : Head(b) = OrFail(l)
  <2>1. "readBody" \in Returns /\ "app" \in Returns /\ "wStart" \in Returns /\ "failed" \in Returns
    BY DEF Returns
  <2> QED
    BY <2>1, StacksAre DEF Ctx
<1> QED
  BY <1>1, <1>2

LEMMA CtxKept ==
  ASSUME NEW b, Ctx(b), op'.kind = op.kind, op'.data = op.data, op'.from = op.from, op'.prev = op.prev,
         writes' = writes, writes \in Nat, fs.ready \in Nat, fs'.ready \in {0, fs.ready},
         cache # NoTable => cache' # NoTable, IsChunked => IsChunked',
         fs'.oj \in OldJournal => fs.oj \in OldJournal,
         op.kind = "create" => fs' = fs /\ meta' = meta /\ cache' = cache
  PROVE  Ctx(b)'
<1>1. fs.ready < writes => fs'.ready < writes
  OBVIOUS
<1>2. CASE b = ToRead /\ op.kind = "read" /\ cache # NoTable
  BY <1>2 DEF Ctx
<1>3. CASE /\ b = ToAppend /\ op.kind = "append" /\ IsChunked /\ op.data \in Batches
           /\ Len(op.from) + Len(op.data) <= MaxChunks
  BY <1>3 DEF Ctx
<1>4. CASE b = ToOverwrite /\ op.kind = "overwrite" /\ IsChunked /\ fs.ready < writes
  BY <1>1, <1>4 DEF Ctx
<1>5. CASE /\ b # <<>> /\ Head(b) = OrFail("failed") /\ op.kind = "overwrite"
           /\ fs.oj \notin OldJournal /\ cache # NoTable
  BY <1>5 DEF Ctx
<1>6. CASE b = ToCreate /\ Creates
  BY <1>6 DEF Ctx, Creates, Both
<1> QED
  BY <1>2, <1>3, <1>4, <1>5, <1>6 DEF Ctx

(* Every body of an operation finds what it relies on after the recoveries.*)
LEMMA CtxOk ==
  ASSUME op \in OpRec, Ctx(op.ret), To("ok"), Same', fs'.aj = NoJournal, fs'.oj = NoJournal,
         Ctx(op.ret) => \A b : b = op.ret => Ctx(b)'
  PROVE  Where'
<1>1. PICK b : b = op.ret
  OBVIOUS
<1>2. Ctx(b)' /\ b # <<>>
  BY <1>1, CtxHead
<1>3. /\ pc' = Head(b)["ok"] /\ op'.ret = Tail(b)
  BY <1>1, <1>2, ToReturn
<1>4. \A l \in Returns : OrFail(l)["ok"] = l
  BY OrFailIs
<1>5. CASE (b = ToRead /\ op.kind = "read" /\ cache # NoTable)'
  <2>1. pc' = "readBody"
    BY <1>3, <1>4, <1>5, StacksAre DEF Returns
  <2>2. AtReadBody'
    BY <1>5 DEF AtReadBody
  <2> QED
    BY <2>1, <2>2 DEF Where, Labels
<1>6. CASE (/\ b = ToAppend /\ op.kind = "append" /\ IsChunked /\ op.data \in Batches
            /\ Len(op.from) + Len(op.data) <= MaxChunks)'
  <2>1. pc' = "app" /\ op'.ret = <<OrFail("okDone")>>
    BY <1>3, <1>4, <1>6, StacksAre DEF Returns
  <2>2. AtApp'
    BY <1>6, <2>1 DEF AtApp
  <2> QED
    BY <2>1, <2>2 DEF Where, Labels
<1>7. CASE (b = ToOverwrite /\ op.kind = "overwrite" /\ IsChunked /\ fs.ready < writes)'
  <2>1. pc' = "wStart" /\ op'.ret = <<>>
    BY <1>3, <1>4, <1>7, StacksAre DEF Returns
  <2>2. AtWStart'
    BY <1>7, <2>1 DEF AtWStart
  <2> QED
    BY <2>1, <2>2 DEF Where, Labels
<1>8. CASE (/\ b # <<>> /\ Head(b) = OrFail("failed") /\ op.kind = "overwrite"
            /\ fs.oj \notin OldJournal /\ cache # NoTable)'
  <2>1. pc' = "failed"
    BY <1>3, <1>4, <1>8 DEF Returns
  <2> QED
    BY <2>1 DEF Where, Labels
<1>9. CASE (b = ToCreate /\ Creates)'
  <2>1. pc' = "app" /\ op'.ret = <<OrFail("cMeta")>>
    BY <1>3, <1>4, <1>9, StacksAre DEF Returns
  <2>2. AtApp'
    BY <1>9, <2>1 DEF AtApp
  <2> QED
    BY <2>1, <2>2 DEF Where, Labels
<1> QED
  BY <1>2, <1>5, <1>6, <1>7, <1>8, <1>9 DEF Ctx

LEMMA Failed ==
  ASSUME pc' = "failed", Same'
  PROVE  Where'
  BY DEF Where, Labels

LEMMA CtxErr ==
  ASSUME op \in OpRec, Ctx(op.ret), To("err"), Same'
  PROVE  Where'
<1>1. op.ret # <<>> /\ Head(op.ret)["err"] = "failed"
  BY CtxHead
<1>2. pc' = "failed"
  BY <1>1, ToReturn
<1> QED
  BY <1>2, Failed

LEMMA EnterErr ==
  ASSUME op \in OpRec, Entering, To("err"), Same'
  PROVE  Where'
<1>1. op.ret # <<>> /\ Head(op.ret)["err"] = "failed"
  BY OrFailIs DEF Entering, Returns
<1>2. pc' = "failed"
  BY <1>1, ToReturn
<1> QED
  BY <1>2, Failed

-----------------------------------------------------------------------------
(* Steps                                                                   *)

(* What the proofs assume of an instance: a failed call has no effect or a *)
(* partial one, tables are created empty, and the overwrite that an older  *)
(* version left behind wrote something.                                    *)
Confined ==
  ~LateEffects /\ CreateData \subseteq {<<>>} /\ \A j \in OldJournals : j.target # <<>>

LEMMA CallIs ==
  ASSUME Confined, Typed, NEW f, NEW P, NEW n, NEW e, Call(f, P, n, e)
  PROVE  /\ faults' \in 0..MaxFaults
         /\ \/ fs' = f /\ To(n)
            \/ fs' \in {fs} \cup P /\ To(e)
  BY ChunkAssumption DEF Confined, Call, Fault, Typed

LEMMA SaveIs ==
  ASSUME Typed, NEW rec \in MaybeMeta, NEW n, NEW e, Save(rec, n, e)
  PROVE  /\ faults' \in 0..MaxFaults /\ fs' = fs /\ cache' = rec /\ meta' \in MaybeMeta /\ meta' \in {meta, rec}
         /\ dirty' \in BOOLEAN /\ (~dirty' => cache' = meta')
         /\ \/ meta' = rec /\ To(n)
            \/ To(e)
<1>1. meta \in MaybeMeta /\ faults \in 0..MaxFaults /\ MaxFaults \in Nat
  BY ChunkAssumption DEF Typed
<1>2. /\ fs' = fs /\ cache' = rec
      /\ \/ meta' = rec /\ dirty' = FALSE /\ To(n) /\ faults' = faults
         \/ faults < MaxFaults /\ faults' = faults + 1 /\ meta' \in {meta, rec} /\ dirty' = TRUE /\ To(e)
  BY DEF Save, Fault
<1>3. faults' \in 0..MaxFaults
  BY <1>1, <1>2
<1> QED
  BY <1>1, <1>2, <1>3

LEMMA DiskTyped ==
  ASSUME Typed, UNCHANGED record, UNCHANGED bounds, FsType(fs'), fs'.ready \in {0, fs.ready},
         fs'.oj \in {fs.oj, NoJournal}, faults' \in 0..MaxFaults, op' \in OpRec
  PROVE  Typed'
<1>1. fs'.ready <= writes
  <2>1. writes \in Nat
    BY ChunkAssumption DEF Typed
  <2> QED
    BY <2>1 DEF Typed
<1> QED
  BY <1>1, JournalsApart DEF Typed, record, bounds

LEMMA SaveTyped ==
  ASSUME Typed, UNCHANGED bounds, fs' = fs, meta' \in MaybeMeta, cache' \in MaybeMeta,
         dirty' \in BOOLEAN, ~dirty' => cache' = meta', faults' \in 0..MaxFaults, op' \in OpRec
  PROVE  Typed'
  BY DEF Typed, bounds

LEMMA TypedIs ==
  ASSUME Typed
  PROVE  /\ FsType(fs) /\ meta \in MaybeMeta /\ cache \in MaybeMeta /\ op \in OpRec
         /\ op.ret \in Seq(FrameType) /\ op.from \in Content \cup {Gone}
         /\ op.data \in Content /\ op.batch \in Content
         /\ writes \in Nat /\ fs.ready \in Nat
         /\ faults \in 0..MaxFaults
  BY OpIs, FilesOf, ChunkAssumption DEF Typed

LEMMA SameRecords ==
  ASSUME Typed, Same
  PROVE  /\ meta = NoTable <=> cache = NoTable
         /\ cache = NoTable <=> op.from = Gone
         /\ cache # NoTable => op.from \in Content
         /\ IsChunked <=> IsDirOf(meta)
         /\ IsChunked <=> IsDirOf(cache)
         /\ ~IsChunked /\ cache # NoTable =>
              meta = cache /\ cache = Single(op.from) /\ fs.single = op.from
              /\ fs.aj = NoJournal /\ fs.oj = NoJournal
         /\ Stands(fs, meta, op.from) /\ Stands(fs, cache, op.from)
<1>1. IsChunked <=> IsDirOf(cache)
  BY DEF IsChunked, IsDirOf
<1>2. Agree(fs, meta, cache, op.from)
  BY DEF Same
<1>3. Stands(fs, meta, op.from) /\ Stands(fs, cache, op.from)
  BY <1>2 DEF Agree
<1> QED
  BY <1>1, <1>2, <1>3, AgreeRecords, TypedIs

(* A recovery that has found a journal runs in an operation on a table.    *)
LEMMA CtxTable ==
  ASSUME Typed, NEW b, Ctx(b), fs.aj # NoJournal \/ fs.oj # NoJournal, Same
  PROVE  op.kind # "create" /\ cache # NoTable /\ IsChunked /\ IsDirOf(meta) /\ op.from \in Content
<1>1. op.kind # "create" /\ cache # NoTable
  BY NoFiles DEF Ctx, Creates, IsChunked
<1> QED
  BY <1>1, SameRecords

LEMMA RenewingIs ==
  ASSUME Typed, Renewing
  PROVE  /\ Same /\ op.kind = "overwrite" /\ op.from \in Content /\ cache # NoTable
         /\ fs.oj \in OverwriteJournal /\ fs.oj # NoJournal /\ fs.oj \notin OldJournal
<1>1. IsDirOf(cache) /\ IsDirOf(meta) /\ Sealed(fs, op.from) /\ op.from \in Content
  BY DEF Renewing, IsChunked, IsDirOf
<1>2. Agree(fs, meta, cache, op.from) /\ fs.oj \in OverwriteJournal
  BY <1>1, AgreeBehind
<1> QED
  BY <1>1, <1>2, JournalsApart DEF Renewing, Same, IsChunked

LEMMA BodyIs ==
  ASSUME NEW b \in Bodies
  PROVE  /\ b \in Seq(FrameType) /\ b # <<>>
         /\ Redo(b) \in Seq(FrameType) /\ Redo(b) # <<>>
         /\ Head(Redo(b))["ok"] = "roDelOld" /\ Head(Redo(b))["err"] = "throw" /\ Tail(Redo(b)) = b
         /\ RedoAppend(b) \in Seq(FrameType) /\ RedoAppend(b) # <<>>
         /\ Head(RedoAppend(b))["ok"] = "appOld" /\ Head(RedoAppend(b))["err"] = "throw"
         /\ Tail(RedoAppend(b)) = Redo(b)
         /\ RedoAll(b) \in Seq(FrameType) /\ RedoAll(b) # <<>>
         /\ Head(RedoAll(b))["ok"] = "recA" /\ Head(RedoAll(b))["err"] = "throw"
         /\ Tail(RedoAll(b)) = RedoAppend(b)
<1>1. b \in Seq(FrameType) /\ b # <<>>
  BY StacksAre DEF Bodies
<1>2. \A l \in Returns : /\ Frame(l, "throw") \in FrameType /\ Frame(l, "throw")["ok"] = l
                         /\ Frame(l, "throw")["err"] = "throw"
  BY FrameIs DEF Returns
<1>3. PICK x, y, z \in FrameType :
        x = Frame("roDelOld", "throw") /\ y = Frame("appOld", "throw") /\ z = Frame("recA", "throw")
  BY <1>2 DEF Returns
<1>4. /\ x["ok"] = "roDelOld" /\ x["err"] = "throw" /\ y["ok"] = "appOld" /\ y["err"] = "throw"
      /\ z["ok"] = "recA" /\ z["err"] = "throw"
  BY <1>2, <1>3 DEF Returns
<1>5. Redo(b) = <<x>> \o b /\ RedoAppend(b) = <<y, x>> \o b /\ RedoAll(b) = <<z, y, x>> \o b
  BY <1>3 DEF Redo, RedoAppend, RedoAll
<1>6. Redo(b) \in Seq(FrameType) /\ Redo(b) # <<>> /\ Head(Redo(b)) = x /\ Tail(Redo(b)) = b
  BY <1>1, <1>5, Push1
<1>7. /\ RedoAppend(b) \in Seq(FrameType) /\ RedoAppend(b) # <<>> /\ Head(RedoAppend(b)) = y
      /\ Tail(RedoAppend(b)) = Redo(b)
  <2>1. b \in Seq(FrameType)
    BY <1>1
  <2> QED
    BY <1>5, <2>1, Push2
<1>8. /\ RedoAll(b) \in Seq(FrameType) /\ RedoAll(b) # <<>> /\ Head(RedoAll(b)) = z
      /\ Tail(RedoAll(b)) = RedoAppend(b)
  <2>1. b \in Seq(FrameType)
    BY <1>1
  <2> QED
    <3>1. /\ <<z, y, x>> \o b \in Seq(FrameType) /\ <<z, y, x>> \o b # <<>>
          /\ Head(<<z, y, x>> \o b) = z /\ Tail(<<z, y, x>> \o b) = <<y, x>> \o b
      BY <2>1, Push3
    <3> QED
      BY <1>5, <3>1, Zenon
<1> QED
  BY <1>1, <1>4, <1>6, <1>7, <1>8

LEMMA RenewIs ==
  /\ Renew \in Seq(FrameType) /\ Renew # <<>> /\ Head(Renew)["ok"] = "wMeta" /\ Head(Renew)["err"] = "wCatch"
  /\ RenewAppend \in Seq(FrameType) /\ RenewAppend # <<>> /\ Head(RenewAppend)["ok"] = "app"
  /\ Head(RenewAppend)["err"] = "wCatch" /\ Tail(RenewAppend) = Renew
  /\ RenewAll \in Seq(FrameType) /\ RenewAll # <<>> /\ Head(RenewAll)["ok"] = "recA"
  /\ Head(RenewAll)["err"] = "wCatch" /\ Tail(RenewAll) = RenewAppend
<1>2. \A l \in Returns : /\ Frame(l, "wCatch") \in FrameType /\ Frame(l, "wCatch")["ok"] = l
                         /\ Frame(l, "wCatch")["err"] = "wCatch"
  BY FrameIs DEF Returns
<1>3. PICK x, y, z \in FrameType :
        x = Frame("wMeta", "wCatch") /\ y = Frame("app", "wCatch") /\ z = Frame("recA", "wCatch")
  BY <1>2 DEF Returns
<1>4. /\ x["ok"] = "wMeta" /\ x["err"] = "wCatch" /\ y["ok"] = "app" /\ y["err"] = "wCatch"
      /\ z["ok"] = "recA" /\ z["err"] = "wCatch"
  BY <1>2, <1>3 DEF Returns
<1>5. Renew = <<x>> /\ RenewAppend = <<y, x>> /\ RenewAll = <<z, y, x>>
  BY <1>3 DEF Renew, RenewAppend, RenewAll
<1> QED
  BY <1>4, <1>5, Stack1, Stack2, Stack3

(* The append journal: recA, raDel, raMeta, raDelJ.                        *)

LEMMA StepRecA ==
  ASSUME Typed, RecA, To(IF fs.aj = NoJournal THEN "ok" ELSE "raDel"),
         UNCHANGED disk, UNCHANGED record, UNCHANGED bounds
  PROVE  Typed' /\ Where'
<1>1. fs' = fs /\ faults' = faults /\ meta' = meta /\ cache' = cache /\ dirty' = dirty /\ writes' = writes
  BY DEF disk, record, bounds
<1>2. CASE Entering
  <2>1. op.ret # <<>> /\ Head(op.ret) = OrFail("recO") /\ Ctx(Tail(op.ret)) /\ Same
    BY <1>2 DEF Entering
  <2>2. CASE fs.aj = NoJournal
    <3>1. To("ok")
      BY <2>2
    <3>2. /\ pc' = "recO" /\ op' \in OpRec /\ op'.ret = Tail(op.ret) /\ op'.kind = op.kind
          /\ op'.data = op.data /\ op'.from = op.from /\ op'.prev = op.prev
      BY <2>1, <3>1, ToReturn, OrFailIs, TypedIs DEF Returns
    <3>3. Typed'
      BY <1>1, <3>2, DiskTyped, TypedIs
    <3>4. Same'
      BY <1>1, <2>1, <3>2 DEF Same
    <3>5. PICK b : b = Tail(op.ret)
      OBVIOUS
    <3>6. Ctx(b)'
      <4>1. IsChunked => IsChunked'
        BY <1>1 DEF IsChunked
      <4>2. writes \in Nat /\ fs.ready \in Nat /\ fs'.ready \in {0, fs.ready} /\ Ctx(b)
        BY <1>1, <2>1, <3>5, TypedIs
      <4> QED
        BY <1>1, <3>2, <4>1, <4>2, CtxKept
    <3>7. RecO'
      BY <1>1, <2>2, <3>2, <3>4, <3>5, <3>6 DEF RecO
    <3> QED
      BY <3>2, <3>3, <3>7 DEF Where, Labels
  <2>3. CASE fs.aj # NoJournal
    <3>1. To("raDel")
      BY <2>3
    <3>2. pc' = "raDel" /\ op' = op
      BY <3>1, ToLabel
    <3>3. Typed'
      BY <1>1, <3>2, DiskTyped, TypedIs
    <3>4. RecAJ'
      <4>1. Same'
        BY <1>1, <2>1, <3>2 DEF Same
      <4>2. PICK b : b = Tail(op.ret)
        OBVIOUS
      <4>3. Ctx(b)'
        <5>1. IsChunked => IsChunked'
          BY <1>1 DEF IsChunked
        <5>2. writes \in Nat /\ fs.ready \in Nat /\ fs'.ready \in {0, fs.ready} /\ Ctx(b)
          BY <1>1, <2>1, <4>2, TypedIs
        <5> QED
          BY <1>1, <3>2, <5>1, <5>2, CtxKept
      <4> QED
        BY <1>1, <2>1, <2>3, <3>2, <4>1, <4>2, <4>3 DEF RecAJ, Entering
    <3> QED
      BY <3>2, <3>3, <3>4 DEF Where, Labels
  <2> QED
    BY <2>2, <2>3
<1>3. CASE op.ret = RenewAppend /\ Renewing /\ EmptyAgain /\ op.data # <<>>
  <2>1. To("ok")
    BY <1>3 DEF EmptyAgain
  <2>2. /\ pc' = "app" /\ op' \in OpRec /\ op'.ret = Renew /\ op'.kind = op.kind
        /\ op'.data = op.data /\ op'.from = op.from
    BY <1>3, <2>1, ToReturn, RenewIs, TypedIs
  <2>3. Typed'
    BY <1>1, <2>2, DiskTyped, TypedIs
  <2>4. Renewing' /\ EmptyAgain'
    BY <1>1, <1>3, <2>2 DEF Renewing, EmptyAgain, IsChunked, Both
  <2>5. AtApp'
    BY <1>3, <2>2, <2>4 DEF AtApp
  <2> QED
    BY <2>2, <2>3, <2>5 DEF Where, Labels
<1>4. CASE \E b \in Bodies : op.ret = RedoAppend(b) /\ Redoing(b) /\ EmptyAgain /\ op.from # <<>>
  <2>0. PICK b \in Bodies : op.ret = RedoAppend(b) /\ Redoing(b) /\ EmptyAgain /\ op.from # <<>>
    BY <1>4
  <2>1. To("ok")
    BY <2>0 DEF EmptyAgain
  <2>2. /\ pc' = "appOld" /\ op' \in OpRec /\ op'.ret = Redo(b) /\ op'.kind = op.kind
        /\ op'.data = op.data /\ op'.from = op.from /\ op'.prev = op.prev
    BY <2>0, <2>1, ToReturn, BodyIs, TypedIs
  <2>3. Typed'
    BY <1>1, <2>2, DiskTyped, TypedIs
  <2>4. Redoing(b)'
    <3>1. IsChunked => IsChunked'
      BY <1>1 DEF IsChunked
    <3>2. writes \in Nat /\ fs.ready \in Nat /\ fs'.ready \in {0, fs.ready} /\ Ctx(b)
      BY <1>1, <2>0, TypedIs DEF Redoing
    <3>3. Ctx(b)'
      BY <1>1, <2>2, <3>1, <3>2, CtxKept
    <3> QED
      BY <1>1, <2>0, <2>2, <3>1, <3>3 DEF Redoing
  <2>5. AtAppOld'
    BY <1>1, <2>0, <2>2, <2>4 DEF AtAppOld, EmptyAgain, Both
  <2> QED
    BY <2>2, <2>3, <2>5 DEF Where, Labels
<1> QED
  BY <1>2, <1>3, <1>4 DEF RecA

(* Entering is kept by a step that changes the files or the record.        *)
LEMMA EnteringKept ==
  ASSUME Typed, Entering, op' = op, Same', writes' = writes, fs'.ready \in {0, fs.ready},
         cache # NoTable => cache' # NoTable, IsChunked => IsChunked',
         fs'.oj \in OldJournal => fs.oj \in OldJournal,
         op.kind # "create"
  PROVE  Entering'
<1>1. PICK b : b = Tail(op.ret)
  OBVIOUS
<1>2. Ctx(b)'
  BY <1>1, CtxKept, TypedIs DEF Entering
<1> QED
  BY <1>1, <1>2 DEF Entering

LEMMA RecAJIs ==
  ASSUME Typed, RecAJ
  PROVE  /\ Entering /\ Same /\ fs.aj # NoJournal /\ fs.aj \in AppendJournal
         /\ op.kind # "create" /\ cache # NoTable /\ IsChunked /\ IsDirOf(meta) /\ IsDirOf(cache)
         /\ op.from \in Content
         /\ Chunked(fs.aj.count, fs.aj.chunks) \in MaybeMeta
         /\ IsDirOf(Chunked(fs.aj.count, fs.aj.chunks))
         /\ cache.mode = "chunked"
<1>1. Entering /\ Same /\ fs.aj # NoJournal /\ fs.aj \in AppendJournal
  BY TypedIs, FilesOf DEF RecAJ, Entering
<1>2. PICK b : Ctx(b)
  BY <1>1 DEF Entering
<1>3. op.kind # "create" /\ cache # NoTable /\ IsChunked /\ IsDirOf(meta) /\ op.from \in Content
  BY <1>1, <1>2, CtxTable
<1>4. fs.aj.count \in Nat /\ fs.aj.chunks \in Nat
  BY <1>1 DEF AppendJournal
<1> QED
  BY <1>1, <1>3, <1>4, MetaIs DEF IsChunked, IsDirOf, MaybeMeta

LEMMA StepRaDel ==
  ASSUME Confined, Typed, RecAJ, DeleteChunks(Targets(fs.aj), "raMeta", "err"),
         UNCHANGED record, UNCHANGED bounds
  PROVE  Typed' /\ Where'
<1>1. meta' = meta /\ cache' = cache /\ dirty' = dirty /\ writes' = writes
  BY DEF record, bounds
<1>2. /\ faults' \in 0..MaxFaults
      /\ \/ fs' = [fs EXCEPT !.dir = Without(fs.dir, Targets(fs.aj))] /\ To("raMeta")
         \/ fs' \in {fs} \cup ChunksLeft(Targets(fs.aj)) /\ To("err")
  BY CallIs DEF DeleteChunks
<1>3. PICK T : T \subseteq Targets(fs.aj) /\ fs' = [fs EXCEPT !.dir = Without(fs.dir, T)]
               /\ ((To("raMeta") /\ T = Targets(fs.aj)) \/ To("err"))
  <2>1. CASE fs' = [fs EXCEPT !.dir = Without(fs.dir, Targets(fs.aj))] /\ To("raMeta")
    BY <2>1
  <2>2. CASE fs' = fs /\ To("err")
    <3>1. Without(fs.dir, {}) = fs.dir
      BY WithoutIs, FilesOf, TypedIs
    <3>2. fs = [fs EXCEPT !.dir = fs.dir]
      BY TypedIs DEF FsType, FsRec
    <3> QED
      BY <2>2, <3>1, <3>2
  <2>3. CASE fs' \in ChunksLeft(Targets(fs.aj)) /\ To("err")
    BY <2>3 DEF ChunksLeft
  <2> QED
    BY <1>2, <2>1, <2>2, <2>3
<1>4. Without(fs.dir, T) \in MaybeDir /\ Files(Without(fs.dir, T)) = Files(fs.dir) \ T
  BY WithoutIs, FilesOf, TypedIs
<1>5. /\ FsType(fs') /\ fs'.dir = Without(fs.dir, T) /\ fs'.bak = fs.bak /\ fs'.ready = fs.ready
      /\ fs'.aj = fs.aj /\ fs'.oj = fs.oj /\ fs'.single = fs.single
  BY <1>3, <1>4, SetDir, TypedIs
<1>6. Agree(fs', meta, cache, op.from)
  BY <1>3, RecAJIs, AgreeUndone, TypedIs DEF Same
<1>7. CASE To("raMeta") /\ T = Targets(fs.aj)
  <2>1. pc' = "raMeta" /\ op' = op
    BY <1>7, ToLabel
  <2>2. Typed'
    BY <1>1, <1>2, <1>5, <2>1, DiskTyped, TypedIs
  <2>3. Same' /\ (IsChunked => IsChunked')
    BY <1>1, <1>6, <2>1 DEF Same, IsChunked
  <2>4. Entering'
    BY <1>1, <1>5, <2>1, <2>3, EnteringKept, RecAJIs
  <2>5. AtRaMeta'
    BY <1>4, <1>5, <1>7, <2>4, RecAJIs DEF AtRaMeta, RecAJ
  <2> QED
    BY <2>1, <2>2, <2>5 DEF Where, Labels
<1>8. CASE To("err")
  <2>1. op' \in OpRec /\ op'.from = op.from
    BY <1>8, RecAJIs, ToReturn, TypedIs DEF Entering
  <2>2. Typed'
    BY <1>1, <1>2, <1>5, <2>1, DiskTyped, TypedIs
  <2>3. Same'
    BY <1>1, <1>6, <2>1 DEF Same
  <2> QED
    BY <1>8, <2>2, <2>3, EnterErr, RecAJIs, TypedIs
<1> QED
  BY <1>3, <1>7, <1>8

LEMMA CountsSet ==
  ASSUME NEW m \in Meta, m.mode = "chunked", NEW x \in Nat, NEW y \in Nat
  PROVE  [m EXCEPT !.count = x, !.chunks = y] = Chunked(x, y)
<1> DEFINE g == [m EXCEPT !.count = x, !.chunks = y]
<1>1. g \in Meta /\ g.mode = "chunked" /\ g.count = x /\ g.chunks = y
  BY DEF Meta
<1>2. g = [mode |-> g.mode, count |-> g.count, chunks |-> g.chunks]
  BY <1>1, MetaIs
<1> QED
  BY <1>1, <1>2 DEF Chunked

LEMMA StepRaMeta ==
  ASSUME Typed, AtRaMeta,
         Save([cache EXCEPT !.count = fs.aj.count, !.chunks = fs.aj.chunks], "raDelJ", "err"),
         UNCHANGED bounds
  PROVE  Typed' /\ Where'
<1> DEFINE rec == Chunked(fs.aj.count, fs.aj.chunks)
<1>1. RecAJ /\ Files(fs.dir) \cap Targets(fs.aj) = {}
  BY DEF AtRaMeta
<1>2. rec \in MaybeMeta /\ IsDirOf(rec) /\ cache.mode = "chunked" /\ cache \in Meta
  BY <1>1, RecAJIs, MetaIs, TypedIs
<1>3. [cache EXCEPT !.count = fs.aj.count, !.chunks = fs.aj.chunks] = rec
  <2>1. fs.aj.count \in Nat /\ fs.aj.chunks \in Nat
    BY <1>1, RecAJIs DEF AppendJournal
  <2> QED
    <3>1. cache \in Meta /\ cache.mode = "chunked"
      BY <1>2
    <3>2. PICK c \in Meta : c = cache /\ c.mode = "chunked"
      BY <3>1
    <3>3. PICK x, y \in Nat : x = fs.aj.count /\ y = fs.aj.chunks
      BY <2>1
    <3>4. [c EXCEPT !.count = x, !.chunks = y] = Chunked(x, y)
      BY <3>2, CountsSet
    <3> QED
      BY <3>2, <3>3, <3>4 DEF rec
<1>4. writes' = writes
  BY DEF bounds
<1> HIDE DEF rec
<1>5. /\ faults' \in 0..MaxFaults /\ fs' = fs /\ cache' = rec /\ meta' \in MaybeMeta /\ meta' \in {meta, rec}
      /\ dirty' \in BOOLEAN /\ (~dirty' => cache' = meta')
      /\ \/ meta' = rec /\ To("raDelJ")
         \/ To("err")
  BY <1>2, <1>3, SaveIs
<1>6. IsDirOf(meta') /\ IsDirOf(cache')
  BY <1>1, <1>2, <1>5, RecAJIs
<1>7. Agree(fs', meta', cache', op.from)
  BY <1>1, <1>5, <1>6, AgreeAny, RecAJIs, TypedIs DEF Same
<1>8. CASE meta' = rec /\ To("raDelJ")
  <2>1. pc' = "raDelJ" /\ op' = op
    BY <1>8, ToLabel
  <2>2. Typed'
    BY <1>2, <1>5, <2>1, SaveTyped, TypedIs
  <2>3. Same' /\ IsChunked' /\ cache' # NoTable
    BY <1>6, <1>7, <2>1 DEF Same, IsChunked, IsDirOf
  <2>4. Entering'
    BY <1>1, <1>4, <1>5, <2>1, <2>3, EnteringKept, RecAJIs
  <2>5. AtRaDelJ'
    BY <1>1, <1>5, <1>8, <2>4, RecAJIs DEF AtRaDelJ, AtRaMeta, RecAJ, Both, rec
  <2> QED
    BY <2>1, <2>2, <2>5 DEF Where, Labels
<1>9. CASE To("err")
  <2>1. op' \in OpRec /\ op'.from = op.from
    BY <1>1, <1>9, RecAJIs, ToReturn, TypedIs DEF Entering
  <2>2. Typed'
    BY <1>2, <1>5, <2>1, SaveTyped, TypedIs
  <2>3. Same'
    BY <1>7, <2>1 DEF Same
  <2> QED
    BY <1>1, <1>9, <2>2, <2>3, EnterErr, RecAJIs, TypedIs
<1> QED
  BY <1>5, <1>8, <1>9

LEMMA StepRaDelJ ==
  ASSUME Confined, Typed, AtRaDelJ, DropAppendJournal("ok", "err"),
         UNCHANGED record, UNCHANGED bounds
  PROVE  Typed' /\ Where'
<1>1. meta' = meta /\ cache' = cache /\ dirty' = dirty /\ writes' = writes
  BY DEF record, bounds
<1>2. /\ RecAJ /\ Files(fs.dir) \cap Targets(fs.aj) = {}
      /\ meta = Chunked(fs.aj.count, fs.aj.chunks) /\ cache = Chunked(fs.aj.count, fs.aj.chunks)
  BY DEF AtRaDelJ, AtRaMeta, Both
<1>3. /\ faults' \in 0..MaxFaults
      /\ \/ fs' = [fs EXCEPT !.aj = NoJournal] /\ To("ok")
         \/ fs' = fs /\ To("err")
  BY CallIs DEF DropAppendJournal
<1>4. CASE fs' = [fs EXCEPT !.aj = NoJournal] /\ To("ok")
  <2>1. /\ FsType(fs') /\ fs'.ready = fs.ready /\ fs'.aj = NoJournal /\ fs'.oj = fs.oj
    <3>1. FsType(fs) /\ NoJournal \in AppendJournal \cup {NoJournal}
      BY TypedIs
    <3> QED
      BY <1>4, <3>1, SetAj
  <2>2. /\ pc' = "recO" /\ op' \in OpRec /\ op'.ret = Tail(op.ret) /\ op'.kind = op.kind
        /\ op'.data = op.data /\ op'.from = op.from /\ op'.prev = op.prev
    BY <1>2, <1>4, RecAJIs, ToReturn, OrFailIs, TypedIs DEF Returns, Entering
  <2>3. Typed'
    BY <1>1, <1>3, <2>1, <2>2, DiskTyped, TypedIs
  <2>4. Agree(fs', meta, cache, op.from)
    <3>1. Stands(fs, meta, op.from) /\ IsDirOf(meta) /\ fs.aj # NoJournal
      BY <1>2, RecAJIs, SameRecords
    <3> QED
      BY <1>2, <1>4, <3>1, AgreeUndoneRecord, TypedIs
  <2>5. Same'
    BY <1>1, <2>2, <2>4 DEF Same
  <2>6. PICK b : b = Tail(op.ret)
    OBVIOUS
  <2>7. Ctx(b)'
    <3>1. Ctx(b) /\ op.kind # "create"
      BY <1>2, <2>6, RecAJIs DEF Entering
    <3>2. IsChunked => IsChunked'
      BY <1>1 DEF IsChunked
    <3>3. writes \in Nat /\ fs.ready \in Nat
      BY TypedIs
    <3> QED
      BY <1>1, <2>1, <2>2, <3>1, <3>2, <3>3, CtxKept
  <2>8. RecO'
    BY <2>1, <2>2, <2>5, <2>6, <2>7 DEF RecO
  <2> QED
    BY <2>2, <2>3, <2>8 DEF Where, Labels
<1>5. CASE fs' = fs /\ To("err")
  <2>1. op' \in OpRec /\ op'.from = op.from
    BY <1>2, <1>5, RecAJIs, ToReturn, TypedIs DEF Entering
  <2>2. Typed'
    BY <1>1, <1>3, <1>5, <2>1, DiskTyped, TypedIs
  <2>3. Same'
    BY <1>1, <1>2, <1>5, <2>1, RecAJIs DEF Same
  <2> QED
    BY <1>2, <1>5, <2>2, <2>3, EnterErr, RecAJIs, TypedIs
<1> QED
  BY <1>3, <1>4, <1>5

(* The overwrite journal: recO to throw.                                   *)

LEMMA CtxStays ==
  ASSUME Typed, NEW r, r = op.ret, Ctx(r), op'.kind = op.kind, op'.data = op.data, op'.from = op.from,
         op'.prev = op.prev, writes' = writes, fs'.ready \in {0, fs.ready},
         cache # NoTable => cache' # NoTable, IsChunked => IsChunked',
         fs'.oj \in OldJournal => fs.oj \in OldJournal,
         op.kind = "create" => fs' = fs /\ meta' = meta /\ cache' = cache
  PROVE  Ctx(r)'
  BY CtxKept, TypedIs

LEMMA CtxSame ==
  ASSUME Typed, NEW r, r = op.ret, Ctx(r), op'.kind = op.kind, op'.data = op.data, op'.from = op.from,
         op'.prev = op.prev, UNCHANGED <<fs, meta, cache, writes>>
  PROVE  Ctx(r)'
<1>1. IsChunked => IsChunked'
  BY DEF IsChunked
<1> QED
  BY <1>1, CtxStays, TypedIs

LEMMA ChooseIs ==
  ASSUME Typed, ChooseRecovery
  PROVE  \/ fs.oj = NoJournal /\ fs.bak = NoDir /\ To("ok")
         \/ fs.oj = NoJournal /\ fs.bak # NoDir /\ (To("roDelBak") \/ To("err"))
         \/ fs.oj \in OldJournal /\ OldTargetMatches /\ To("roDelOld")
         \/ /\ fs.oj \in OldJournal /\ ~OldTargetMatches
            /\ \/ fs.oj.prev = <<>> /\ Run("clrDel", <<Frame("roDelOld", "throw")>>)
               \/ fs.oj.prev # <<>> /\ Run("clrDel", <<Frame("recA", "throw"), Frame("appOld", "throw"),
                                                       Frame("roDelOld", "throw")>>)
         \/ /\ fs.oj \in OverwriteJournal
            /\ \/ To("err")
               \/ fs.ready = fs.oj.id /\ IsChunked /\ To("rrReset")
               \/ fs.ready = 0 /\ IsChunked /\ To("rpMk")
<1>1. fs.oj \in OverwriteJournal \cup OldJournal \cup {NoJournal}
  BY TypedIs, FilesOf
<1>2. CASE fs.oj = NoJournal
  <2>1. fs.oj \notin OldJournal /\ fs.oj \notin OverwriteJournal
    BY <1>2, JournalsApart
  <2>2. CASE fs.bak = NoDir
    BY <1>2, <2>1, <2>2 DEF ChooseRecovery
  <2>3. CASE fs.bak # NoDir
    <3>1. To(IF IsChunked /\ ValidDir(fs.dir, cache.count, cache.chunks, FALSE) THEN "roDelBak" ELSE "err")
      BY <1>2, <2>1, <2>3 DEF ChooseRecovery
    <3> QED
      BY <1>2, <2>3, <3>1
  <2> QED
    BY <2>2, <2>3
<1>3. CASE fs.oj \in OldJournal
  <2>1. fs.oj # NoJournal /\ fs.oj \notin OverwriteJournal
    BY <1>3, JournalsApart
  <2>2. IF OldTargetMatches THEN To("roDelOld")
        ELSE Run("clrDel", IF fs.oj.prev = <<>> THEN <<Frame("roDelOld", "throw")>>
                           ELSE <<Frame("recA", "throw"), Frame("appOld", "throw"),
                                  Frame("roDelOld", "throw")>>)
    BY <1>3, <2>1 DEF ChooseRecovery
  <2> QED
    BY <1>3, <2>2
<1>4. CASE fs.oj \in OverwriteJournal
  <2>1. fs.oj # NoJournal /\ fs.oj \notin OldJournal
    BY <1>4, JournalsApart
  <2>2. To(CASE fs.ready \notin {0, fs.oj.id} \/ ~IsChunked -> "err"
             [] fs.ready = fs.oj.id /\ IsChunked ->
                  IF ValidDir(fs.bak, fs.oj.count, fs.oj.chunks, FALSE) THEN "rrReset" ELSE "err"
             [] OTHER -> IF Files(fs.bak) \subseteq 0..(fs.oj.chunks - 1) THEN "rpMk" ELSE "err")
    BY <1>4, <2>1 DEF ChooseRecovery
  <2>3. CASE fs.ready \notin {0, fs.oj.id} \/ ~IsChunked
    <3>1. ~(fs.ready = fs.oj.id /\ IsChunked)
      BY <2>3
    <3>2. To("err")
      BY <2>2, <2>3, <3>1
    <3> QED
      BY <1>4, <3>2
  <2>4. CASE fs.ready = fs.oj.id /\ IsChunked
    <3>1. To(IF ValidDir(fs.bak, fs.oj.count, fs.oj.chunks, FALSE) THEN "rrReset" ELSE "err")
      BY <2>2, <2>4
    <3>2. To("rrReset") \/ To("err")
      BY <3>1
    <3> QED
      BY <1>4, <2>4, <3>2
  <2>5. CASE ~(fs.ready \notin {0, fs.oj.id} \/ ~IsChunked) /\ ~(fs.ready = fs.oj.id /\ IsChunked)
    <3>1. To(IF Files(fs.bak) \subseteq 0..(fs.oj.chunks - 1) THEN "rpMk" ELSE "err")
      BY <2>2, <2>5
    <3>2. (To("rpMk") \/ To("err")) /\ fs.ready = 0 /\ IsChunked
      BY <2>5, <3>1
    <3> QED
      BY <1>4, <3>2
  <2> QED
    BY <2>3, <2>4, <2>5
<1> QED
  BY <1>1, <1>2, <1>3, <1>4

(* A target in place is what stands.                                       *)
LEMMA OldMatches ==
  ASSUME Typed, Same, fs.oj \in OldJournal, fs.aj = NoJournal, IsChunked, OldTargetMatches
  PROVE  /\ op.from \in Content /\ op.from = fs.oj.target /\ Both(RecordOf(op.from))
         /\ Holds(fs.dir, op.from)
<1>1. /\ op.from \in Content /\ Stands(fs, cache, op.from) /\ IsDirOf(cache) /\ cache \in Meta
      /\ fs.dir \in MaybeDir /\ fs.oj.target # <<>>
  BY SameRecords, TypedIs, FilesOf, MetaIs DEF IsChunked
<1>2. Complete(fs.dir, cache.chunks) /\ Listing(fs.dir) = fs.oj.target /\ cache.chunks \in Nat
  BY <1>1, MetaIs DEF OldTargetMatches
<1>3. Holds(fs.dir, fs.oj.target) /\ Len(fs.oj.target) = cache.chunks /\ fs.oj.target \in Content
  BY <1>1, <1>2, ListingHolds
<1>4. fs.oj # NoJournal /\ fs.oj \notin OverwriteJournal
  BY JournalsApart
<1>5. OldTarget(fs, cache, op.from) \/ OldPrev(fs, cache, op.from)
  BY <1>1, <1>4, StandsRecord, TypedIs DEF Plain, Appending, Split, Sealed
<1>6. op.from = fs.oj.target /\ cache.count = Records(op.from)
  <2>1. CASE OldTarget(fs, cache, op.from)
    BY <1>1, <2>1, RecordIs DEF OldTarget
  <2>2. CASE OldPrev(fs, cache, op.from)
    BY <1>2, <2>2 DEF OldPrev, Counted
  <2> QED
    BY <1>5, <2>1, <2>2
<1>7. cache = RecordOf(op.from)
  <2>1. cache = [mode |-> cache.mode, count |-> cache.count, chunks |-> cache.chunks] /\ cache.mode = "chunked"
    BY <1>1, MetaIs DEF IsDirOf
  <2> QED
    BY <1>3, <1>6, <2>1 DEF RecordOf, Chunked
<1>8. cache.chunks # 0
  BY <1>1, <1>3, EmptyContent
<1>9. meta = cache
  BY <1>8 DEF Same, Agree
<1> QED
  BY <1>1, <1>3, <1>6, <1>7, <1>9 DEF Both

(* Otherwise the generation before it stands, and is written again.        *)
LEMMA OldRedoes ==
  ASSUME Typed, NEW b, Ctx(b), Same, fs.oj \in OldJournal, fs.aj = NoJournal, ~OldTargetMatches
  PROVE  Redoing(b)
<1>1. fs.oj # NoJournal /\ fs.oj \notin OverwriteJournal
  BY JournalsApart
<1>2. IsChunked /\ IsDirOf(meta) /\ op.from \in Content /\ op.kind # "create"
  BY <1>1, CtxTable
<1>3. b \in Bodies
  BY <1>2 DEF Ctx, Bodies, Creates
<1>4. Stands(fs, cache, op.from) /\ IsDirOf(cache)
  BY <1>2, SameRecords
<1>5. OldTarget(fs, cache, op.from) \/ OldPrev(fs, cache, op.from)
  BY <1>1, <1>2, <1>4, StandsRecord, TypedIs DEF Plain, Appending, Split, Sealed
<1>6. ASSUME OldTarget(fs, cache, op.from) PROVE FALSE
  <2>1. cache.chunks = Len(op.from) /\ Complete(fs.dir, Len(op.from)) /\ Listing(fs.dir) = fs.oj.target
    BY <1>2, <1>6, RecordIs, HoldsListing DEF OldTarget
  <2> QED
    BY <2>1 DEF OldTargetMatches
<1>7. op.from = fs.oj.prev /\ fs.bak = NoDir
  BY <1>5, <1>6 DEF OldPrev
<1> QED
  BY <1>2, <1>3, <1>7 DEF Redoing

LEMMA RedoingKept ==
  ASSUME Typed, NEW b, Redoing(b), op'.kind = op.kind, op'.data = op.data, op'.from = op.from,
         op'.prev = op.prev, writes' = writes, fs'.ready \in {0, fs.ready},
         fs'.oj = fs.oj, fs'.bak = fs.bak, IsDirOf(meta'), IsChunked'
  PROVE  Redoing(b)'
<1>1. Ctx(b) /\ IsChunked /\ fs.oj # NoJournal
  BY JournalsApart DEF Redoing
<1>2. op.kind # "create" /\ cache' # NoTable
  BY <1>1, NoFiles DEF Redoing, Ctx, Creates, IsChunked
<1>3. Ctx(b)'
  BY <1>1, <1>2, CtxKept, TypedIs
<1> QED
  BY <1>3 DEF Redoing

LEMMA StepRecO ==
  ASSUME Typed, RecO, ChooseRecovery, UNCHANGED disk, UNCHANGED record, UNCHANGED bounds
  PROVE  Typed' /\ Where'
<1>1. fs' = fs /\ faults' = faults /\ meta' = meta /\ cache' = cache /\ dirty' = dirty /\ writes' = writes
  BY DEF disk, record, bounds
<1>2. Ctx(op.ret) /\ Same /\ fs.aj = NoJournal /\ op.ret # <<>>
  BY CtxHead DEF RecO
<1>3. ASSUME To("err") PROVE Typed' /\ Where'
  <2>1. op' \in OpRec /\ op'.from = op.from
    BY <1>2, <1>3, ToReturn, TypedIs
  <2>2. Same'
    BY <1>1, <1>2, <2>1 DEF Same
  <2> QED
    BY <1>1, <1>2, <1>3, <2>1, <2>2, CtxErr, DiskTyped, TypedIs
<1>4. ASSUME NEW l, l \notin {"ok", "err"}, To(l)
      PROVE  pc' = l /\ op' = op /\ Typed' /\ RecO' /\ Same'
  <2>1. pc' = l /\ op' = op
    BY <1>4, ToLabel
  <2>2. Same'
    BY <1>1, <1>2, <2>1 DEF Same
  <2>3. PICK r : r = op.ret
    OBVIOUS
  <2>4. Ctx(r)'
    BY <1>1, <1>2, <2>1, <2>3, CtxSame
  <2> QED
    BY <1>1, <1>2, <2>1, <2>2, <2>3, <2>4, DiskTyped, TypedIs DEF RecO
<1>5. CASE fs.oj = NoJournal /\ fs.bak = NoDir /\ To("ok")
  <2>1. /\ op' \in OpRec /\ op'.ret = Tail(op.ret) /\ op'.kind = op.kind
        /\ op'.data = op.data /\ op'.from = op.from /\ op'.prev = op.prev
    BY <1>2, <1>5, ToReturn, TypedIs
  <2>2. Same'
    BY <1>1, <1>2, <2>1 DEF Same
  <2>3. \A r : r = op.ret => Ctx(r)'
    BY <1>1, <1>2, <2>1, CtxSame
  <2> QED
    BY <1>1, <1>2, <1>5, <2>1, <2>2, <2>3, CtxOk, DiskTyped, TypedIs
<1>6. CASE fs.oj = NoJournal /\ fs.bak # NoDir /\ To("roDelBak")
  <2>1. op.kind # "create"
    BY <1>2, <1>6, NoFiles DEF Ctx, Creates
  <2>2. pc' = "roDelBak" /\ op' = op /\ Typed' /\ RecO'
    BY <1>4, <1>6
  <2>3. AtDelBak'
    BY <1>1, <1>6, <2>1, <2>2 DEF AtDelBak
  <2> QED
    BY <2>2, <2>3 DEF Where, Labels
<1>7. CASE fs.oj \in OldJournal /\ OldTargetMatches /\ To("roDelOld")
  <2>1. IsChunked
    BY <1>2, <1>7, CtxTable, JournalsApart
  <2>2. op.from \in Content /\ Both(RecordOf(op.from)) /\ Holds(fs.dir, op.from)
    BY <1>2, <1>7, <2>1, OldMatches
  <2>3. pc' = "roDelOld" /\ op' = op /\ Typed' /\ RecO'
    BY <1>4, <1>7
  <2>4. AtDelOld'
    BY <1>1, <1>7, <2>2, <2>3 DEF AtDelOld, Both
  <2> QED
    BY <2>3, <2>4 DEF Where, Labels
<1>8. CASE fs.oj \in OldJournal /\ ~OldTargetMatches /\ fs.oj.prev = <<>>
           /\ Run("clrDel", <<Frame("roDelOld", "throw")>>)
  <2>0. PICK b : b = op.ret
    OBVIOUS
  <2>1. Redoing(b) /\ b \in Bodies /\ op.from = <<>> /\ IsChunked /\ IsDirOf(meta)
    BY <1>2, <1>8, <2>0, OldRedoes DEF Redoing
  <2>2. <<Frame("roDelOld", "throw")>> \o op.ret = Redo(b) /\ Redo(b) \in Seq(FrameType)
    BY <2>0, <2>1, BodyIs DEF Redo
  <2>3. /\ pc' = "clrDel" /\ op' \in OpRec /\ op'.ret = Redo(b) /\ op'.kind = op.kind /\ op'.data = op.data
        /\ op'.from = op.from /\ op'.prev = op.prev
    BY <1>8, <2>2, RunsTo, TypedIs
  <2>4. Same' /\ IsChunked'
    BY <1>1, <1>2, <2>1, <2>3 DEF Same, IsChunked
  <2>5. Redoing(b)'
    BY <1>1, <2>1, <2>3, <2>4, RedoingKept, TypedIs
  <2>6. Clearing'
    BY <1>1, <1>2, <2>1, <2>3, <2>4, <2>5 DEF Clearing
  <2> QED
    BY <1>1, <2>3, <2>6, DiskTyped, TypedIs DEF Where, Labels
<1>9. CASE fs.oj \in OldJournal /\ ~OldTargetMatches /\ fs.oj.prev # <<>>
           /\ Run("clrDel", <<Frame("recA", "throw"), Frame("appOld", "throw"), Frame("roDelOld", "throw")>>)
  <2>0. PICK b : b = op.ret
    OBVIOUS
  <2>1. Redoing(b) /\ b \in Bodies /\ op.from # <<>> /\ IsChunked /\ IsDirOf(meta)
    BY <1>2, <1>9, <2>0, OldRedoes DEF Redoing
  <2>2. /\ <<Frame("recA", "throw"), Frame("appOld", "throw"), Frame("roDelOld", "throw")>> \o op.ret = RedoAll(b)
        /\ RedoAll(b) \in Seq(FrameType)
    BY <2>0, <2>1, BodyIs DEF RedoAll
  <2>3. /\ pc' = "clrDel" /\ op' \in OpRec /\ op'.ret = RedoAll(b) /\ op'.kind = op.kind /\ op'.data = op.data
        /\ op'.from = op.from /\ op'.prev = op.prev
    BY <1>9, <2>2, RunsTo, TypedIs
  <2>4. Same' /\ IsChunked'
    BY <1>1, <1>2, <2>1, <2>3 DEF Same, IsChunked
  <2>5. Redoing(b)'
    BY <1>1, <2>1, <2>3, <2>4, RedoingKept, TypedIs
  <2>6. Clearing'
    BY <1>1, <1>2, <2>1, <2>3, <2>4, <2>5 DEF Clearing
  <2> QED
    BY <1>1, <2>3, <2>6, DiskTyped, TypedIs DEF Where, Labels
<1>10. CASE fs.oj \in OverwriteJournal /\ IsChunked /\ (\/ fs.ready = fs.oj.id /\ To("rrReset")
                                                        \/ fs.ready = 0 /\ To("rpMk"))
  <2>1. op.from \in Content /\ Stands(fs, cache, op.from) /\ IsDirOf(cache) /\ cache # NoTable
    BY <1>2, <1>10, SameRecords DEF IsChunked
  <2>2. fs.oj # NoJournal /\ fs.oj \notin OldJournal
    BY <1>10, JournalsApart
  <2>3. Split(fs, op.from) \/ Sealed(fs, op.from)
    BY <2>1, <2>2, StandsRecord, TypedIs DEF Plain, Appending, OldTarget, OldPrev
  <2>4. Counts(fs.oj, op.from)
    BY <2>3 DEF Split, Sealed
  <2>5. CASE fs.ready = fs.oj.id /\ To("rrReset")
    <3>1. pc' = "rrReset" /\ op' = op /\ Typed' /\ RecO'
      BY <1>4, <2>5
    <3>2. Sealed(fs, op.from)
      BY <2>3, <2>5 DEF Split
    <3>3. AtReset'
      BY <1>1, <1>10, <2>1, <2>4, <2>5, <3>1, <3>2 DEF AtReset, Restores
    <3> QED
      BY <3>1, <3>3 DEF Where, Labels
  <2>6. CASE fs.ready = 0 /\ To("rpMk")
    <3>1. pc' = "rpMk" /\ op' = op /\ Typed' /\ RecO'
      BY <1>4, <2>6
    <3>2. Split(fs, op.from)
      <4>1. fs.oj.id # 0
        BY <1>10, FilesOf, TypedIs
      <4> QED
        BY <2>3, <2>6, <4>1 DEF Sealed
    <3>3. Partial(fs.dir, op.from)
      <4>1. CASE Holds(fs.dir, op.from)
        BY <4>1 DEF Holds, DirIs, Partial
      <4>2. CASE Spread(fs, op.from)
        BY <4>2 DEF Spread, Partial
      <4> QED
        BY <3>2, <4>1, <4>2 DEF Split
    <3>4. AtMake'
      BY <1>1, <1>10, <2>1, <2>4, <2>6, <3>1, <3>3 DEF AtMake, Restores
    <3> QED
      BY <3>1, <3>4 DEF Where, Labels
  <2> QED
    BY <1>10, <2>5, <2>6
<1> QED
  BY <1>3, <1>5, <1>6, <1>7, <1>8, <1>9, <1>10, ChooseIs

LEMMA RestoresIs ==
  ASSUME Typed, Restores
  PROVE  /\ Ctx(op.ret) /\ Same /\ fs.aj = NoJournal /\ op.ret # <<>> /\ op.kind # "create"
         /\ cache # NoTable /\ IsChunked /\ IsDirOf(cache) /\ IsDirOf(meta) /\ op.from \in Content
         /\ fs.oj # NoJournal /\ fs.oj \notin OldJournal /\ fs.oj \in OverwriteJournal /\ fs.oj.id # 0
         /\ fs.oj.chunks = Len(op.from) /\ fs.oj.count = Records(op.from)
         /\ Split(fs, op.from) \/ Sealed(fs, op.from)
         /\ fs.ready = fs.oj.id => Sealed(fs, op.from)
         /\ fs.ready # fs.oj.id => fs.ready = 0 /\ Split(fs, op.from)
<1>1. /\ Ctx(op.ret) /\ Same /\ fs.aj = NoJournal /\ op.ret # <<>> /\ op.from \in Content
      /\ fs.oj \in OverwriteJournal /\ fs.oj.chunks = Len(op.from) /\ fs.oj.count = Records(op.from)
      /\ fs.ready \in {0, fs.oj.id}
  BY CtxHead DEF Restores, RecO, Counts
<1>2. fs.oj # NoJournal /\ fs.oj \notin OldJournal /\ fs.oj.id # 0
  BY <1>1, JournalsApart, FilesOf, TypedIs
<1>3. op.kind # "create" /\ cache # NoTable /\ IsChunked /\ IsDirOf(meta)
  BY <1>1, <1>2, CtxTable
<1>4. IsDirOf(cache) /\ Stands(fs, cache, op.from)
  BY <1>1, <1>3, SameRecords
<1>5. Split(fs, op.from) \/ Sealed(fs, op.from)
  BY <1>2, <1>4, StandsRecord, TypedIs DEF Plain, Appending, OldTarget, OldPrev
<1> QED
  BY <1>1, <1>2, <1>3, <1>4, <1>5 DEF Split, Sealed

LEMMA RestoresKept ==
  ASSUME Typed, Restores, op' = op, Same', writes' = writes, fs'.ready = fs.ready, fs'.oj = fs.oj,
         fs'.aj = fs.aj, IsChunked'
  PROVE  Restores'
<1>1. PICK r : r = op.ret
  OBVIOUS
<1>2. cache' # NoTable
  BY DEF IsChunked
<1>3. Ctx(r)'
  BY <1>1, <1>2, CtxStays, RestoresIs, TypedIs
<1> QED
  BY <1>1, <1>3 DEF Restores, RecO

LEMMA RestoresErr ==
  ASSUME Typed, Restores, To("err"), UNCHANGED bounds, faults' \in 0..MaxFaults,
         FsType(fs'), fs'.ready = fs.ready, fs'.oj = fs.oj,
         meta' \in MaybeMeta, cache' \in MaybeMeta, dirty' \in BOOLEAN, ~dirty' => cache' = meta',
         Agree(fs', meta', cache', op.from)
  PROVE  Typed' /\ Where'
<1>1. op' \in OpRec /\ op'.from = op.from
  BY ToReturn, RestoresIs, TypedIs
<1>2. Typed'
  BY <1>1 DEF Typed, bounds
<1>3. Same'
  BY <1>1 DEF Same
<1> QED
  BY <1>2, <1>3, CtxErr, RestoresIs, TypedIs

(* What the deletion of a directory may leave.                             *)
LEMMA LeftIs ==
  ASSUME Typed, fs' \in {fs} \cup DirLeft
  PROVE  \E S : fs' = [fs EXCEPT !.dir = Without(fs.dir, S)] /\ Without(fs.dir, S) \in MaybeDir
<1>1. CASE fs' = fs
  <2>1. Without(fs.dir, {}) = fs.dir /\ fs.dir \in MaybeDir
    BY WithoutIs, FilesOf, TypedIs
  <2>2. fs = [fs EXCEPT !.dir = fs.dir]
    BY TypedIs DEF FsType, FsRec
  <2> QED
    BY <1>1, <2>1, <2>2
<1>2. CASE fs' \in DirLeft
  <2>1. PICK S : fs' = [fs EXCEPT !.dir = Without(fs.dir, S)]
    BY <1>2 DEF DirLeft
  <2>2. Without(fs.dir, S) \in MaybeDir
    BY WithoutIs, FilesOf, TypedIs
  <2> QED
    BY <2>1, <2>2
<1> QED
  BY <1>1, <1>2

LEMMA SealedKept ==
  ASSUME NEW f, NEW g, NEW v, Sealed(f, v), g.oj = f.oj, g.bak = f.bak, g.ready = f.ready, g.aj = f.aj
  PROVE  Sealed(g, v)
  BY DEF Sealed

LEMMA StepReset ==
  ASSUME Confined, Typed, AtReset, ResetDir("rpMk", "err"), UNCHANGED record, UNCHANGED bounds
  PROVE  Typed' /\ Where'
<1>1. meta' = meta /\ cache' = cache /\ dirty' = dirty /\ writes' = writes
  BY DEF record, bounds
<1>2. Restores /\ Sealed(fs, op.from)
  BY DEF AtReset
<1>3. /\ faults' \in 0..MaxFaults
      /\ \/ fs' = [fs EXCEPT !.dir = NoDir] /\ To("rpMk")
         \/ fs' \in {fs} \cup DirLeft /\ To("err")
  BY CallIs DEF ResetDir
<1>4. PICK d \in MaybeDir : /\ fs' = [fs EXCEPT !.dir = d]
                            /\ (d = NoDir /\ To("rpMk")) \/ To("err")
  BY <1>3, LeftIs DEF MaybeDir
<1>5. /\ FsType(fs') /\ fs'.dir = d /\ fs'.bak = fs.bak /\ fs'.ready = fs.ready /\ fs'.aj = fs.aj
      /\ fs'.oj = fs.oj
  BY <1>4, SetDir, TypedIs
<1>6. Sealed(fs', op.from) /\ Agree(fs', meta, cache, op.from)
  BY <1>2, <1>5, SealedKept, AgreeBehind, RestoresIs
<1>7. CASE d = NoDir /\ To("rpMk")
  <2>1. pc' = "rpMk" /\ op' = op
    BY <1>7, ToLabel
  <2>2. Same' /\ IsChunked'
    BY <1>1, <1>2, <1>6, <2>1, RestoresIs DEF Same, IsChunked
  <2>3. Restores'
    BY <1>1, <1>2, <1>5, <2>1, <2>2, RestoresKept
  <2>4. AtMake'
    BY <1>5, <1>7, <2>3 DEF AtMake, Partial
  <2>5. Typed'
    BY <1>1, <1>3, <1>5, <2>1, DiskTyped, TypedIs
  <2> QED
    BY <2>1, <2>4, <2>5 DEF Where, Labels
<1>8. CASE To("err")
  <2>1. Agree(fs', meta', cache', op.from)
    BY <1>1, <1>6
  <2>2. /\ meta' \in MaybeMeta /\ cache' \in MaybeMeta /\ dirty' \in BOOLEAN /\ (~dirty' => cache' = meta')
    BY <1>1 DEF Typed
  <2> QED
    BY <1>2, <1>3, <1>5, <1>8, <2>1, <2>2, RestoresErr
<1> QED
  BY <1>4, <1>7, <1>8

LEMMA MadeDirIs ==
  ASSUME Typed
  PROVE  [fs EXCEPT !.dir = IF @ = NoDir THEN EmptyDir ELSE @] = [fs EXCEPT !.dir = MadeDir(fs.dir)]
  BY DEF MadeDir

LEMMA StepMake ==
  ASSUME Confined, Typed, AtMake,
         IF NeedsDir THEN MakeDir("rpCopy", "err") ELSE To("rpCopy") /\ UNCHANGED disk,
         UNCHANGED record, UNCHANGED bounds
  PROVE  Typed' /\ Where'
<1>1. meta' = meta /\ cache' = cache /\ dirty' = dirty /\ writes' = writes
  BY DEF record, bounds
<1>2. Restores /\ Partial(fs.dir, op.from) /\ Same
  BY RestoresIs DEF AtMake
<1>3. /\ faults' \in 0..MaxFaults
      /\ \/ fs' = [fs EXCEPT !.dir = MadeDir(fs.dir)] /\ To("rpCopy")
         \/ fs' = fs /\ To("rpCopy") /\ ~NeedsDir
         \/ fs' = fs /\ To("err")
  <2>1. CASE NeedsDir
    <3>1. Call([fs EXCEPT !.dir = MadeDir(fs.dir)], {}, "rpCopy", "err")
      BY <2>1, MadeDirIs DEF MakeDir
    <3> QED
      BY <3>1, CallIs
  <2>2. CASE ~NeedsDir
    BY <2>2, TypedIs DEF disk
  <2> QED
    BY <2>1, <2>2
<1>4. /\ FsType(fs') /\ fs'.bak = fs.bak /\ fs'.ready = fs.ready /\ fs'.aj = fs.aj /\ fs'.oj = fs.oj
      /\ Agree(fs', meta, cache, op.from)
  <2>1. CASE fs' = [fs EXCEPT !.dir = MadeDir(fs.dir)]
    <3>1. MadeDir(fs.dir) \in MaybeDir
      BY MadeHolds, NoContent, FilesOf, TypedIs DEF MaybeDir
    <3> QED
      BY <1>2, <2>1, <3>1, SetDir, AgreeMade, TypedIs DEF Same
  <2>2. CASE fs' = fs
    BY <1>2, <2>2, TypedIs DEF Same
  <2> QED
    BY <1>3, <2>1, <2>2
<1>5. CASE To("rpCopy")
  <2>1. pc' = "rpCopy" /\ op' = op
    BY <1>5, ToLabel
  <2>2. Same' /\ IsChunked'
    BY <1>1, <1>2, <1>4, <2>1, RestoresIs DEF Same, IsChunked
  <2>3. Restores'
    BY <1>1, <1>2, <1>4, <2>1, <2>2, RestoresKept
  <2>4. Partial(fs'.dir, op.from) /\ (NeedsDir => fs'.dir # NoDir)
    <3>1. CASE fs' = [fs EXCEPT !.dir = MadeDir(fs.dir)]
      <4>1. fs.dir \in MaybeDir /\ MadeDir(fs.dir) \in MaybeDir /\ MadeDir(fs.dir) \in Dir
        BY MadeHolds, NoContent, FilesOf, TypedIs DEF MaybeDir
      <4>2. fs'.dir = MadeDir(fs.dir) /\ fs'.dir # NoDir
        BY <3>1, <4>1, SetDir, TypedIs, Apart
      <4>3. CASE fs.dir = NoDir
        <5>1. fs'.dir = EmptyDir /\ EmptyDir \in Dir
          BY <4>2, <4>3, EmptyDirIs DEF MadeDir
        <5>2. \A i \in Idx : EmptyDir[i] = Absent
          BY DEF EmptyDir
        <5> QED
          BY <4>2, <5>1, <5>2 DEF Partial
      <4>4. CASE fs.dir # NoDir
        BY <1>2, <4>2, <4>4 DEF MadeDir
      <4> QED
        BY <4>3, <4>4
    <3>2. CASE fs' = fs /\ ~NeedsDir
      BY <1>2, <3>2
    <3>3. CASE fs' = fs /\ To("err")
      BY <1>5, <3>3, <2>1, RestoresIs, <1>2, ToReturn, TypedIs, CtxHead
    <3> QED
      BY <1>3, <3>1, <3>2, <3>3
  <2>5. AtCopy'
    BY <1>4, <2>1, <2>3, <2>4 DEF AtCopy, AtMake, NeedsDir
  <2>6. Typed'
    BY <1>1, <1>3, <1>4, <2>1, DiskTyped, TypedIs
  <2> QED
    BY <2>1, <2>5, <2>6 DEF Where, Labels
<1>6. CASE To("err")
  <2>1. Agree(fs', meta', cache', op.from)
    BY <1>1, <1>4
  <2>2. /\ meta' \in MaybeMeta /\ cache' \in MaybeMeta /\ dirty' \in BOOLEAN /\ (~dirty' => cache' = meta')
    BY <1>1 DEF Typed
  <2> QED
    BY <1>2, <1>3, <1>4, <1>6, <2>1, <2>2, RestoresErr
<1> QED
  BY <1>3, <1>5, <1>6

(* A chunk that is neither in the directory nor contradicted by it.        *)
LEMMA RestoreIs ==
  ASSUME Typed, RestoreChunk
  PROVE  \/ /\ ToRestore = {} /\ To("rpMeta") /\ UNCHANGED disk
         \/ \E i \in ToRestore :
              \/ To("err") /\ UNCHANGED disk
              \/ /\ ~Conflict(i) /\ ~Lost(i)
                 /\ Call([fs EXCEPT !.dir[i] = fs.bak[i]], {}, "rpCopy", "err")
<1>1. CASE ToRestore = {}
  BY <1>1 DEF RestoreChunk
<1>2. CASE ToRestore # {}
  <2> DEFINE i == CHOOSE x \in ToRestore : \A y \in ToRestore : x <= y
  <2>1. IF Conflict(i) \/ Lost(i) THEN To("err") /\ UNCHANGED disk
        ELSE Call([fs EXCEPT !.dir[i] = fs.bak[i]], {}, "rpCopy", "err")
    BY <1>2 DEF RestoreChunk
  <2>2. \E x \in ToRestore : \A y \in ToRestore : x <= y
    <3>1. \A x \in ToRestore : x \in Nat
      BY DEF ToRestore
    <3> HIDE DEF i
    <3>2. PICK x \in ToRestore : \A y \in ToRestore : ~ (<<y, x>> \in OpToRel(<, Nat))
      <4>1. IsWellFoundedOn(OpToRel(<, Nat), Nat)
        BY NatLessThanWellFounded
      <4>2. ToRestore \subseteq Nat
        BY <3>1
      <4> QED
        BY <1>2, <4>1, <4>2, WFMin
    <3>3. \A y \in ToRestore : ~ (y < x)
      BY <3>1, <3>2 DEF OpToRel
    <3> QED
      BY <3>1, <3>3
  <2>3. i \in ToRestore
    BY <2>2
  <2> HIDE DEF i
  <2> QED
    BY <2>1, <2>3
<1> QED
  BY <1>1, <1>2

LEMMA RestoredAll ==
  ASSUME Typed, AtCopy, ToRestore = {}
  PROVE  Holds(fs.dir, op.from)
<1>1. /\ Restores /\ Partial(fs.dir, op.from) /\ (NeedsDir => fs.dir # NoDir)
      /\ fs.dir \in MaybeDir /\ op.from \in Content /\ fs.oj.chunks = Len(op.from)
      /\ Len(op.from) \in Nat
  BY RestoresIs, FilesOf, TypedIs, RecordIs DEF AtCopy, AtMake
<1>2. ASSUME NEW i \in Nat, i < Len(op.from) PROVE At(fs.dir, i) # Absent
  <2>1. i \in 0..(fs.oj.chunks - 1)
    BY <1>1, <1>2
  <2> QED
    BY <2>1 DEF ToRestore, Conflict, Lost
<1>3. CASE fs.dir = NoDir
  <2>1. Len(op.from) = 0
    <3>1. ASSUME Len(op.from) # 0 PROVE FALSE
      <4>1. At(fs.dir, 0) # Absent
        BY <1>1, <1>2, <3>1
      <4> QED
        BY <1>3, <4>1 DEF At
    <3> QED
      BY <3>1
  <2> QED
    BY <1>1, <1>3, <2>1, EmptyContent DEF Holds
<1>4. CASE fs.dir # NoDir
  <2>1. fs.dir \in Dir /\ \A i \in Idx : fs.dir[i] = Absent \/ (i < Len(op.from) /\ fs.dir[i] = op.from[i + 1])
    BY <1>1, <1>4 DEF Partial, MaybeDir
  <2>2. ASSUME NEW i \in Idx, i < Len(op.from) PROVE fs.dir[i] # Absent
    <3>1. i \in Nat
      BY Apart DEF Idx
    <3> QED
      BY <1>2, <1>4, <2>2, <3>1 DEF At
  <2> QED
    BY <2>1, <2>2 DEF Holds, DirIs
<1> QED
  BY <1>3, <1>4

LEMMA SetOne ==
  ASSUME NEW d \in Dir, NEW i \in Idx, NEW c \in Chunk \cup {Absent}
  PROVE  /\ [d EXCEPT ![i] = c] \in Dir
         /\ \A j \in Idx : [d EXCEPT ![i] = c][j] = IF j = i THEN c ELSE d[j]
  BY DEF Dir

LEMMA StepCopy ==
  ASSUME Confined, Typed, AtCopy, RestoreChunk, UNCHANGED record, UNCHANGED bounds
  PROVE  Typed' /\ Where'
<1>1. meta' = meta /\ cache' = cache /\ dirty' = dirty /\ writes' = writes
  BY DEF record, bounds
<1>2. /\ Restores /\ Partial(fs.dir, op.from) /\ (NeedsDir => fs.dir # NoDir) /\ Same
      /\ op.from \in Content /\ Len(op.from) \in Nat
  BY RestoresIs, RecordIs DEF AtCopy, AtMake
<1>3. ASSUME fs' = fs, faults' \in 0..MaxFaults, To("err") PROVE Typed' /\ Where'
  <2>1. /\ meta' \in MaybeMeta /\ cache' \in MaybeMeta /\ dirty' \in BOOLEAN /\ (~dirty' => cache' = meta')
        /\ FsType(fs')
    BY <1>1, <1>3 DEF Typed
  <2>2. Agree(fs', meta', cache', op.from)
    BY <1>1, <1>2, <1>3 DEF Same
  <2> QED
    BY <1>2, <1>3, <2>1, <2>2, RestoresErr
<1>4. CASE ToRestore = {} /\ To("rpMeta") /\ UNCHANGED disk
  <2>1. pc' = "rpMeta" /\ op' = op /\ fs' = fs /\ faults' = faults
    BY <1>4, ToLabel DEF disk
  <2>2. Same' /\ IsChunked'
    BY <1>1, <1>2, <2>1, RestoresIs DEF Same, IsChunked
  <2>3. Restores'
    BY <1>1, <1>2, <2>1, <2>2, RestoresKept
  <2>4. AtRestored'
    BY <1>4, <2>1, <2>3, RestoredAll DEF AtRestored
  <2>5. Typed'
    BY <1>1, <2>1, DiskTyped, TypedIs
  <2> QED
    BY <2>1, <2>4, <2>5 DEF Where, Labels
<1>5. ASSUME NEW i \in ToRestore, ~Conflict(i), ~Lost(i),
             Call([fs EXCEPT !.dir[i] = fs.bak[i]], {}, "rpCopy", "err")
      PROVE  Typed' /\ Where'
  <2>1. /\ faults' \in 0..MaxFaults
        /\ \/ fs' = [fs EXCEPT !.dir[i] = fs.bak[i]] /\ To("rpCopy")
           \/ fs' = fs /\ To("err")
    BY <1>5, CallIs
  <2>2. /\ i \in Nat /\ i < Len(op.from) /\ i \in Idx /\ op.from[i + 1] \in Chunk
        /\ At(fs.dir, i) = Absent /\ At(fs.bak, i) # Absent
    <3>1. i \in 0..(Len(op.from) - 1) /\ At(fs.dir, i) = Absent /\ At(fs.bak, i) # Absent
      BY <1>2, <1>5, RestoresIs DEF ToRestore
    <3>2. i \in Nat /\ i < Len(op.from)
      BY <1>2, <3>1
    <3> QED
      BY <1>2, <3>1, <3>2, ContentAt
  <2>3. fs.dir \in Dir /\ fs.dir # NoDir
    <3>1. fs.oj.chunks > 0
      BY <1>2, <2>2, RestoresIs
    <3> QED
      BY <1>2, <3>1, FilesOf, TypedIs DEF NeedsDir, MaybeDir
  <2>4. fs.bak \in Dir /\ fs.bak # NoDir
    BY <2>2, FilesOf, TypedIs DEF At, MaybeDir
  <2>5. fs.dir[i] = Absent /\ fs.bak[i] # Absent
    BY <2>2, <2>3, <2>4 DEF At
  <2>6. fs.bak[i] = op.from[i + 1]
    <3>1. CASE Sealed(fs, op.from)
      BY <2>2, <3>1 DEF Sealed, DirIs
    <3>2. CASE Split(fs, op.from)
      <4>1. ~Holds(fs.dir, op.from)
        BY <2>2, <2>3, <2>5, Apart DEF Holds, DirIs
      <4>2. Spread(fs, op.from)
        BY <3>2, <4>1 DEF Split
      <4> QED
        BY <2>2, <2>5, <4>2 DEF Spread
    <3> QED
      BY <1>2, <3>1, <3>2, RestoresIs
  <2>7. CASE fs' = [fs EXCEPT !.dir[i] = fs.bak[i]] /\ To("rpCopy")
    <3>1. PICK d \in Dir : /\ d = [fs.dir EXCEPT ![i] = fs.bak[i]]
                           /\ \A j \in Idx : d[j] = IF j = i THEN op.from[i + 1] ELSE fs.dir[j]
      <4>1. PICK c \in Chunk \cup {Absent} : c = fs.bak[i] /\ c = op.from[i + 1]
        BY <2>2, <2>6
      <4>2. PICK h \in Dir : h = fs.dir
        BY <2>3
      <4>3. /\ [h EXCEPT ![i] = c] \in Dir
            /\ \A j \in Idx : [h EXCEPT ![i] = c][j] = IF j = i THEN c ELSE h[j]
        BY <2>2, SetOne
      <4> QED
        BY <4>1, <4>2, <4>3
    <3>2. fs' = [fs EXCEPT !.dir = d]
      BY <2>7, <3>1
    <3>3. /\ FsType(fs') /\ fs'.dir = d /\ fs'.bak = fs.bak /\ fs'.ready = fs.ready /\ fs'.aj = fs.aj
          /\ fs'.oj = fs.oj
      BY <3>2, SetDir, TypedIs DEF MaybeDir
    <3>4. Partial(d, op.from)
      BY <1>2, <2>2, <2>3, <3>1 DEF Partial
    <3>5. Split(fs', op.from) \/ Sealed(fs', op.from)
      <4>1. CASE Sealed(fs, op.from)
        BY <3>3, <4>1, SealedKept
      <4>2. CASE Split(fs, op.from)
        <5>1. ~Holds(fs.dir, op.from)
          BY <2>2, <2>3, <2>5, Apart DEF Holds, DirIs
        <5>2. Spread(fs, op.from)
          BY <4>2, <5>1 DEF Split
        <5>3. \A j \in Idx :
                IF j < Len(op.from) THEN /\ {d[j], fs.bak[j]} \subseteq {Absent, op.from[j + 1]}
                                         /\ ~(d[j] = Absent /\ fs.bak[j] = Absent)
                ELSE d[j] = Absent /\ fs.bak[j] = Absent
          BY <2>2, <2>5, <3>1, <5>2 DEF Spread
        <5>4. Spread(fs', op.from)
          BY <3>3, <5>2, <5>3 DEF Spread
        <5> QED
          BY <3>3, <4>2, <5>4 DEF Split
      <4> QED
        BY <1>2, <4>1, <4>2, RestoresIs
    <3>6. Agree(fs', meta, cache, op.from)
      BY <1>2, <3>5, AgreeBehind, RestoresIs
    <3>7. pc' = "rpCopy" /\ op' = op
      BY <2>7, ToLabel
    <3>8. Same' /\ IsChunked'
      BY <1>1, <1>2, <3>6, <3>7, RestoresIs DEF Same, IsChunked
    <3>9. Restores'
      BY <1>1, <1>2, <3>3, <3>7, <3>8, RestoresKept
    <3>10. AtCopy'
      BY <3>3, <3>4, <3>7, <3>9, Apart DEF AtCopy, AtMake
    <3>11. Typed'
      BY <1>1, <2>1, <3>3, <3>7, DiskTyped, TypedIs
    <3> QED
      BY <3>7, <3>10, <3>11 DEF Where, Labels
  <2> QED
    BY <1>3, <2>1, <2>7
<1>6. ASSUME To("err"), UNCHANGED disk PROVE Typed' /\ Where'
  BY <1>3, <1>6, TypedIs DEF disk
<1> QED
  BY <1>4, <1>5, <1>6, RestoreIs

LEMMA StepRestored ==
  ASSUME Typed, AtRestored,
         IF ValidDir(fs.dir, fs.oj.count, fs.oj.chunks, ~fs.oj.dirExisted)
         THEN Save(Chunked(fs.oj.count, fs.oj.chunks), "roDelJ", "err")
         ELSE To("err") /\ UNCHANGED <<disk, record>>,
         UNCHANGED bounds
  PROVE  Typed' /\ Where'
<1>1. Restores /\ Holds(fs.dir, op.from) /\ Same /\ op.from \in Content /\ writes' = writes
  BY RestoresIs DEF AtRestored, bounds
<1>2. Chunked(fs.oj.count, fs.oj.chunks) = RecordOf(op.from) /\ RecordOf(op.from) \in MaybeMeta
      /\ IsDirOf(RecordOf(op.from))
  BY <1>1, RestoresIs, RecordIs DEF RecordOf, MaybeMeta
<1>3. CASE To("err") /\ UNCHANGED <<disk, record>>
  <2>1. /\ meta' \in MaybeMeta /\ cache' \in MaybeMeta /\ dirty' \in BOOLEAN /\ (~dirty' => cache' = meta')
        /\ FsType(fs') /\ fs' = fs /\ faults' \in 0..MaxFaults
    BY <1>3 DEF Typed, disk, record
  <2>2. Agree(fs', meta', cache', op.from)
    BY <1>1, <1>3 DEF Same, disk, record
  <2> QED
    BY <1>1, <1>3, <2>1, <2>2, RestoresErr
<1>4. CASE Save(RecordOf(op.from), "roDelJ", "err")
  <2>1. /\ faults' \in 0..MaxFaults /\ fs' = fs /\ cache' = RecordOf(op.from)
        /\ meta' \in MaybeMeta /\ meta' \in {meta, RecordOf(op.from)}
        /\ dirty' \in BOOLEAN /\ (~dirty' => cache' = meta')
        /\ \/ meta' = RecordOf(op.from) /\ To("roDelJ")
           \/ To("err")
    BY <1>2, <1>4, SaveIs
  <2>2. IsDirOf(meta') /\ IsDirOf(cache')
    BY <1>1, <1>2, <2>1, RestoresIs
  <2>3. Agree(fs', meta', cache', op.from)
    BY <1>1, <2>1, <2>2, AgreeBehind, RestoresIs
  <2>4. CASE meta' = RecordOf(op.from) /\ To("roDelJ")
    <3>1. pc' = "roDelJ" /\ op' = op
      BY <2>4, ToLabel
    <3>2. Same' /\ IsChunked'
      BY <2>2, <2>3, <3>1 DEF Same, IsChunked, IsDirOf
    <3>3. Restores'
      BY <1>1, <2>1, <3>1, <3>2, RestoresKept
    <3>4. AtDelJ'
      BY <1>1, <2>1, <2>4, <3>1, <3>3 DEF AtDelJ, AtRestored, Both
    <3>5. Typed'
      BY <1>2, <2>1, <3>1, SaveTyped, TypedIs
    <3> QED
      BY <3>1, <3>4, <3>5 DEF Where, Labels
  <2>5. CASE To("err")
    <3>1. FsType(fs')
      BY <2>1, TypedIs
    <3> QED
      BY <1>1, <1>2, <2>1, <2>3, <2>5, <3>1, RestoresErr
  <2> QED
    BY <2>1, <2>4, <2>5
<1> QED
  BY <1>2, <1>3, <1>4

LEMMA StepRoDelJ ==
  ASSUME Confined, Typed, AtDelJ, DropOverwriteJournal("roDelBak", "err"),
         UNCHANGED record, UNCHANGED bounds
  PROVE  Typed' /\ Where'
<1>1. meta' = meta /\ cache' = cache /\ dirty' = dirty /\ writes' = writes
  BY DEF record, bounds
<1>2. /\ Restores /\ Holds(fs.dir, op.from) /\ Same /\ op.from \in Content
      /\ meta = RecordOf(op.from) /\ cache = RecordOf(op.from)
  BY RestoresIs DEF AtDelJ, AtRestored, Both
<1>3. /\ faults' \in 0..MaxFaults
      /\ \/ fs' = [fs EXCEPT !.oj = NoJournal] /\ To("roDelBak")
         \/ fs' = fs /\ To("err")
  BY CallIs DEF DropOverwriteJournal
<1>4. CASE fs' = [fs EXCEPT !.oj = NoJournal] /\ To("roDelBak")
  <2>1. /\ FsType(fs') /\ fs'.dir = fs.dir /\ fs'.ready = fs.ready /\ fs'.aj = fs.aj /\ fs'.oj = NoJournal
    <3>1. FsType(fs) /\ NoJournal \in OverwriteJournal \cup {NoJournal}
      BY TypedIs
    <3> QED
      BY <1>4, <3>1, SetOj
  <2>2. pc' = "roDelBak" /\ op' = op
    BY <1>4, ToLabel
  <2>3. Agree(fs', meta, cache, op.from)
    BY <1>2, <2>1, AgreePlain, RestoresIs
  <2>4. Same' /\ IsChunked'
    BY <1>1, <1>2, <2>2, <2>3, RestoresIs DEF Same, IsChunked
  <2>5. PICK r : r = op.ret
    OBVIOUS
  <2>6. Ctx(r)'
    BY <1>1, <1>2, <2>1, <2>2, <2>4, <2>5, CtxStays, RestoresIs, TypedIs, JournalsApart
  <2>7. AtDelBak'
    BY <1>2, <2>1, <2>2, <2>4, <2>5, <2>6, RestoresIs DEF AtDelBak, RecO
  <2>8. Typed'
    BY <1>1, <1>3, <2>1, <2>2, DiskTyped, TypedIs
  <2> QED
    BY <2>2, <2>7, <2>8 DEF Where, Labels
<1>5. CASE fs' = fs /\ To("err")
  <2>1. /\ meta' \in MaybeMeta /\ cache' \in MaybeMeta /\ dirty' \in BOOLEAN /\ (~dirty' => cache' = meta')
        /\ FsType(fs')
    BY <1>1, <1>5 DEF Typed
  <2>2. Agree(fs', meta', cache', op.from)
    BY <1>1, <1>2, <1>5 DEF Same
  <2> QED
    BY <1>2, <1>3, <1>5, <2>1, <2>2, RestoresErr
<1> QED
  BY <1>3, <1>4, <1>5

(* What the deletion of the backup may leave.                              *)
LEMMA BakLeftAre ==
  BakLeft = {WithBak(fs, Without(fs.bak, S), r) : S \in SUBSET Files(fs.bak), r \in {0, fs.ready}}
  BY SMT DEF BakLeft, WithBak

LEMMA BakLeftIs ==
  ASSUME Typed, fs' \in {fs, WithBak(fs, NoDir, 0)} \cup BakLeft
  PROVE  /\ FsType(fs') /\ fs'.dir = fs.dir /\ fs'.aj = fs.aj /\ fs'.oj = fs.oj /\ fs'.single = fs.single
         /\ fs'.ready \in {0, fs.ready}
         /\ fs' = WithBak(fs, NoDir, 0) => fs'.bak = NoDir /\ fs'.ready = 0
         /\ fs.bak = NoDir => fs'.bak = NoDir
<1>1. CASE fs' = WithBak(fs, NoDir, 0)
  <2>1. FsType(fs) /\ NoDir \in MaybeDir /\ 0 \in Nat
    BY TypedIs DEF MaybeDir
  <2> QED
    BY <1>1, <2>1, SetBak
<1>2. CASE fs' = fs /\ fs' # WithBak(fs, NoDir, 0)
  BY <1>2, TypedIs
<1>3. CASE fs' \in BakLeft /\ fs' # WithBak(fs, NoDir, 0)
  <2>1. PICK S \in SUBSET Files(fs.bak), r \in {0, fs.ready} : fs' = WithBak(fs, Without(fs.bak, S), r)
    BY <1>3, BakLeftAre
  <2>2. /\ Without(fs.bak, S) \in MaybeDir /\ (fs.bak = NoDir <=> Without(fs.bak, S) = NoDir)
        /\ (r # 0 => fs.bak # NoDir) /\ r \in Nat /\ FsType(fs)
    BY <2>1, WithoutIs, FilesOf, TypedIs
  <2>3. r # 0 => Without(fs.bak, S) # NoDir
    BY <2>2
  <2> QED
    BY <1>3, <2>1, <2>2, <2>3, SetBak
<1> QED
  BY <1>1, <1>2, <1>3

LEMMA DropBackupIs ==
  ASSUME Confined, Typed, NEW n, NEW e, DropBackup(n, e)
  PROVE  /\ faults' \in 0..MaxFaults
         /\ FsType(fs') /\ fs'.dir = fs.dir /\ fs'.aj = fs.aj /\ fs'.oj = fs.oj /\ fs'.single = fs.single
         /\ fs'.ready \in {0, fs.ready}
         /\ (To(n) /\ fs'.bak = NoDir /\ fs'.ready = 0) \/ To(e)
<1>1. /\ faults' \in 0..MaxFaults
      /\ \/ fs' = WithBak(fs, NoDir, 0) /\ To(n)
         \/ fs' \in {fs} \cup BakLeft /\ To(e)
  BY CallIs DEF DropBackup, WithBak
<1>2. fs' \in {fs, WithBak(fs, NoDir, 0)} \cup BakLeft
  BY <1>1
<1> QED
  BY <1>1, <1>2, BakLeftIs

LEMMA StepRoDelBak ==
  ASSUME Confined, Typed, AtDelBak, DropBackup("ok", "ok"), UNCHANGED record, UNCHANGED bounds
  PROVE  Typed' /\ Where'
<1>1. meta' = meta /\ cache' = cache /\ dirty' = dirty /\ writes' = writes
  BY DEF record, bounds
<1>2. /\ Ctx(op.ret) /\ op.ret # <<>> /\ Same /\ fs.aj = NoJournal /\ fs.oj = NoJournal /\ op.kind # "create"
  BY CtxHead DEF AtDelBak, RecO
<1>3. /\ faults' \in 0..MaxFaults /\ To("ok")
      /\ FsType(fs') /\ fs'.dir = fs.dir /\ fs'.aj = fs.aj /\ fs'.oj = fs.oj /\ fs'.single = fs.single
      /\ fs'.ready \in {0, fs.ready}
  BY DropBackupIs
<1>4. Agree(fs', meta, cache, op.from)
  BY <1>2, <1>3, AgreeAlone, TypedIs DEF Same
<1>5. /\ op' \in OpRec /\ op'.ret = Tail(op.ret) /\ op'.kind = op.kind
      /\ op'.data = op.data /\ op'.from = op.from /\ op'.prev = op.prev
  BY <1>2, <1>3, ToReturn, TypedIs
<1>6. Same' /\ (IsChunked => IsChunked')
  BY <1>1, <1>4, <1>5 DEF Same, IsChunked
<1>7. \A r : r = op.ret => Ctx(r)'
  BY <1>1, <1>2, <1>3, <1>5, <1>6, CtxStays, TypedIs
<1>8. Where'
  BY <1>2, <1>3, <1>6, <1>7, CtxOk, TypedIs
<1> QED
  BY <1>1, <1>3, <1>5, <1>8, DiskTyped, TypedIs

LEMMA StepRoDelOld ==
  ASSUME Confined, Typed, AtDelOld, DropOverwriteJournal("ok", "err"), UNCHANGED record, UNCHANGED bounds
  PROVE  Typed' /\ Where'
<1>1. meta' = meta /\ cache' = cache /\ dirty' = dirty /\ writes' = writes
  BY DEF record, bounds
<1>2. /\ Ctx(op.ret) /\ op.ret # <<>> /\ Same /\ fs.aj = NoJournal /\ fs.oj # NoJournal
      /\ op.from \in Content /\ meta = RecordOf(op.from) /\ cache = RecordOf(op.from) /\ Holds(fs.dir, op.from)
      /\ op.kind # "create"
  BY CtxHead, JournalsApart, CtxTable DEF AtDelOld, RecO, Both
<1>3. /\ faults' \in 0..MaxFaults
      /\ \/ fs' = [fs EXCEPT !.oj = NoJournal] /\ To("ok")
         \/ fs' = fs /\ To("err")
  BY CallIs DEF DropOverwriteJournal
<1>4. /\ op' \in OpRec /\ op'.ret = Tail(op.ret) /\ op'.kind = op.kind
      /\ op'.data = op.data /\ op'.from = op.from /\ op'.prev = op.prev
  BY <1>2, <1>3, ToReturn, TypedIs
<1>5. CASE fs' = [fs EXCEPT !.oj = NoJournal] /\ To("ok")
  <2>1. /\ FsType(fs') /\ fs'.dir = fs.dir /\ fs'.ready = fs.ready /\ fs'.aj = fs.aj /\ fs'.oj = NoJournal
    <3>1. FsType(fs) /\ NoJournal \in OverwriteJournal \cup {NoJournal}
      BY TypedIs
    <3> QED
      BY <1>5, <3>1, SetOj
  <2>2. Agree(fs', meta, cache, op.from)
    BY <1>2, <2>1, AgreePlain
  <2>3. Same' /\ (IsChunked => IsChunked')
    BY <1>1, <1>4, <2>2 DEF Same, IsChunked
  <2>4. \A r : r = op.ret => Ctx(r)'
    BY <1>1, <1>2, <1>4, <2>1, <2>3, CtxStays, TypedIs, JournalsApart
  <2>5. Where'
    BY <1>2, <1>5, <2>1, <2>3, <2>4, CtxOk, TypedIs
  <2> QED
    BY <1>1, <1>3, <1>4, <2>1, <2>5, DiskTyped, TypedIs
<1>6. CASE fs' = fs /\ To("err")
  <2>1. Same'
    BY <1>1, <1>2, <1>4, <1>6 DEF Same
  <2>2. Typed'
    BY <1>1, <1>3, <1>4, <1>6, DiskTyped, TypedIs
  <2> QED
    BY <1>2, <1>6, <2>1, <2>2, CtxErr, TypedIs
<1> QED
  BY <1>3, <1>5, <1>6

LEMMA BodyHead ==
  ASSUME NEW b \in Bodies
  PROVE  Head(b)["err"] = "failed"
<1>1. Head(b) \in {OrFail("readBody"), OrFail("app"), OrFail("wStart")}
  BY StacksAre DEF Bodies
<1> QED
  BY <1>1, OrFailIs DEF Returns

LEMMA StepThrow ==
  ASSUME Typed, AtThrow, To("err"), UNCHANGED disk, UNCHANGED record, UNCHANGED bounds
  PROVE  Typed' /\ Where'
<1>1. fs' = fs /\ faults' = faults /\ meta' = meta /\ cache' = cache /\ dirty' = dirty /\ writes' = writes
  BY DEF disk, record, bounds
<1>2. PICK b \in Bodies : op.ret \in {b, Redo(b), RedoAppend(b)}
  BY DEF AtThrow
<1>3. op.ret # <<>> /\ Same
  BY <1>2, BodyIs DEF AtThrow
<1>4. /\ op' \in OpRec /\ op'.ret = Tail(op.ret) /\ op'.from = op.from /\ pc' = Head(op.ret)["err"]
  BY <1>3, ToReturn, TypedIs
<1>5. Same' /\ Typed'
  BY <1>1, <1>3, <1>4, DiskTyped, TypedIs DEF Same
<1>6. CASE op.ret = b
  <2>1. pc' = "failed"
    BY <1>4, <1>6, BodyHead
  <2> QED
    BY <1>5, <2>1, Failed
<1>7. CASE op.ret = Redo(b)
  <2>1. pc' = "throw" /\ op'.ret = b
    BY <1>4, <1>7, BodyIs
  <2>2. AtThrow'
    BY <1>5, <2>1 DEF AtThrow
  <2> QED
    BY <1>5, <2>1, <2>2 DEF Where, Labels
<1>8. CASE op.ret = RedoAppend(b)
  <2>1. pc' = "throw" /\ op'.ret = Redo(b)
    BY <1>4, <1>8, BodyIs
  <2>2. AtThrow'
    BY <1>5, <2>1 DEF AtThrow
  <2> QED
    BY <1>5, <2>1, <2>2 DEF Where, Labels
<1> QED
  BY <1>2, <1>6, <1>7, <1>8

-----------------------------------------------------------------------------
(* Clearing the table: clrDel, clrMk, clrMeta.                             *)

(* An error behind the journal of an overwrite is caught, and one of the   *)
(* recovery of an old overwrite passes through the calls on the stack.     *)
LEMMA RenewErr ==
  ASSUME Typed, op.ret \in {Renew, RenewAppend, RenewAll}, op.kind = "overwrite", To("err"), Same',
         fs'.oj \in OverwriteJournal, cache' # NoTable
  PROVE  op' \in OpRec /\ op'.from = op.from /\ Where'
<1>1. op.ret # <<>> /\ Head(op.ret)["err"] = "wCatch"
  BY RenewIs
<1>2. op' \in OpRec /\ op'.from = op.from /\ op'.kind = op.kind /\ pc' = "wCatch"
  BY <1>1, ToReturn, TypedIs
<1>3. AtWCatch'
  BY <1>2 DEF AtWCatch
<1> QED
  BY <1>2, <1>3 DEF Where, Labels

LEMMA RedoErr ==
  ASSUME Typed, NEW b \in Bodies, op.ret \in {Redo(b), RedoAppend(b), RedoAll(b)}, To("err"), Same'
  PROVE  op' \in OpRec /\ op'.from = op.from /\ Where'
<1>1. op.ret # <<>> /\ Head(op.ret)["err"] = "throw" /\ Tail(op.ret) \in {b, Redo(b), RedoAppend(b)}
  BY BodyIs
<1>2. op' \in OpRec /\ op'.from = op.from /\ op'.ret = Tail(op.ret) /\ pc' = "throw"
  BY <1>1, ToReturn, TypedIs
<1>3. AtThrow'
  BY <1>1, <1>2 DEF AtThrow
<1> QED
  BY <1>2, <1>3 DEF Where, Labels

LEMMA RedoingIs ==
  ASSUME Typed, NEW b, Redoing(b)
  PROVE  /\ b \in Bodies /\ Ctx(b) /\ op.from \in Content /\ cache # NoTable /\ IsChunked
         /\ IsDirOf(meta) /\ IsDirOf(cache) /\ op.kind # "create"
         /\ fs.oj \in OldJournal /\ fs.oj # NoJournal /\ fs.oj \notin OverwriteJournal
         /\ op.from = fs.oj.prev /\ fs.bak = NoDir
<1>1. /\ b \in Bodies /\ Ctx(b) /\ op.from \in Content /\ cache # NoTable /\ IsChunked
      /\ IsDirOf(meta) /\ IsDirOf(cache) /\ fs.oj \in OldJournal /\ op.from = fs.oj.prev /\ fs.bak = NoDir
  BY DEF Redoing, IsChunked, IsDirOf
<1>2. fs.oj # NoJournal /\ fs.oj \notin OverwriteJournal
  BY <1>1, JournalsApart
<1>3. op.kind # "create"
  BY <1>1, <1>2, NoFiles DEF Ctx, Creates
<1> QED
  BY <1>1, <1>2, <1>3

LEMMA RedoingStays ==
  ASSUME Typed, NEW b, Redoing(b), op'.kind = op.kind, op'.data = op.data, op'.from = op.from,
         op'.prev = op.prev, writes' = writes, fs'.ready = fs.ready, fs'.oj = fs.oj, fs'.bak = fs.bak,
         IsDirOf(meta'), IsDirOf(cache')
  PROVE  Redoing(b)'
<1>1. cache' # NoTable /\ IsChunked'
  BY DEF IsDirOf, IsChunked
<1>2. Ctx(b) /\ op.kind # "create" /\ writes \in Nat /\ fs.ready \in Nat
  BY RedoingIs, TypedIs
<1>3. Ctx(b)'
  BY <1>1, <1>2, CtxKept
<1> QED
  BY <1>1, <1>3 DEF Redoing

LEMMA RenewingStays ==
  ASSUME Typed, Renewing, op'.kind = op.kind, op'.from = op.from, fs'.ready = fs.ready,
         fs'.oj = fs.oj, fs'.bak = fs.bak, fs'.aj \in {fs.aj, NoJournal},
         IsDirOf(meta'), IsDirOf(cache')
  PROVE  Renewing'
<1>1. Sealed(fs', op.from)
  BY DEF Renewing, Sealed
<1> QED
  BY <1>1 DEF Renewing, IsChunked, IsDirOf

LEMMA ClearingIs ==
  ASSUME Typed, Clearing
  PROVE  /\ fs.aj = NoJournal /\ Same /\ op.from \in Content /\ IsDirOf(meta) /\ IsDirOf(cache)
         /\ cache # NoTable /\ meta # NoTable /\ op.ret # <<>>
<1>1. CASE Renewing /\ op.ret = IF op.data = <<>> THEN Renew ELSE RenewAll
  BY <1>1, RenewingIs, RenewIs DEF Renewing, IsChunked, IsDirOf, Clearing
<1>2. CASE \E b \in Bodies : Redoing(b) /\ op.ret = IF op.from = <<>> THEN Redo(b) ELSE RedoAll(b)
  <2>1. PICK b \in Bodies : Redoing(b) /\ op.ret = IF op.from = <<>> THEN Redo(b) ELSE RedoAll(b)
    BY <1>2
  <2> QED
    BY <2>1, RedoingIs, BodyIs DEF IsDirOf, Clearing
<1> QED
  BY <1>1, <1>2 DEF Clearing

LEMMA ClearingStays ==
  ASSUME Typed, Clearing, op' = op, UNCHANGED <<meta, cache, writes>>, fs'.ready = fs.ready,
         fs'.oj = fs.oj, fs'.bak = fs.bak, fs'.aj = fs.aj, Same'
  PROVE  Clearing'
<1>1. IsDirOf(meta') /\ IsDirOf(cache') /\ fs'.aj = NoJournal /\ writes' = writes
  BY ClearingIs
<1>2. CASE Renewing /\ op.ret = IF op.data = <<>> THEN Renew ELSE RenewAll
  <2>1. Renewing'
    BY <1>1, <1>2, RenewingStays
  <2> QED
    BY <1>1, <1>2, <2>1 DEF Clearing
<1>3. CASE \E b \in Bodies : Redoing(b) /\ op.ret = IF op.from = <<>> THEN Redo(b) ELSE RedoAll(b)
  <2>1. PICK b \in Bodies : Redoing(b) /\ op.ret = IF op.from = <<>> THEN Redo(b) ELSE RedoAll(b)
    BY <1>3
  <2>2. Redoing(b)'
    BY <1>1, <2>1, RedoingStays
  <2> QED
    BY <1>1, <2>1, <2>2 DEF Clearing
<1> QED
  BY <1>2, <1>3 DEF Clearing

LEMMA ClearingErr ==
  ASSUME Typed, Clearing, To("err"), Same', fs'.oj = fs.oj, cache' # NoTable
  PROVE  op' \in OpRec /\ op'.from = op.from /\ Where'
<1>1. CASE Renewing /\ op.ret = IF op.data = <<>> THEN Renew ELSE RenewAll
  BY <1>1, RenewErr, RenewingIs
<1>2. CASE \E b \in Bodies : Redoing(b) /\ op.ret = IF op.from = <<>> THEN Redo(b) ELSE RedoAll(b)
  <2>1. PICK b \in Bodies : Redoing(b) /\ op.ret = IF op.from = <<>> THEN Redo(b) ELSE RedoAll(b)
    BY <1>2
  <2> QED
    BY <2>1, RedoErr
<1> QED
  BY <1>1, <1>2 DEF Clearing

(* An error of a step of the clearing that leaves a part of the directory. *)
LEMMA ClearingFrom ==
  ASSUME Typed, Clearing, To("err")
  PROVE  op' \in OpRec /\ op'.from = op.from
  BY ToReturn, ClearingIs, TypedIs

LEMMA ClearingLess ==
  ASSUME Typed, Clearing, NEW d \in MaybeDir, d = NoDir \/ \E S : d = Without(fs.dir, S),
         NEW g, g = [fs EXCEPT !.dir = d]
  PROVE  Agree(g, meta, cache, op.from)
<1>1. /\ FsType(g) /\ g.dir = d /\ g.bak = fs.bak /\ g.ready = fs.ready /\ g.aj = fs.aj /\ g.oj = fs.oj
  BY SetDir, TypedIs
<1>2. CASE Renewing
  <2>1. Sealed(fs, op.from)
    BY <1>2 DEF Renewing
  <2>2. Sealed(g, op.from)
    BY <1>1, <2>1, SealedKept
  <2> QED
    BY <2>2, AgreeBehind, ClearingIs
<1>3. CASE \E b \in Bodies : Redoing(b)
  <2>1. PICK b \in Bodies : Redoing(b)
    BY <1>3
  <2>2. /\ Stands(fs, meta, op.from) /\ Stands(fs, cache, op.from) /\ IsDirOf(meta) /\ IsDirOf(cache)
        /\ fs.aj = NoJournal /\ fs.oj \in OldJournal /\ op.from = fs.oj.prev
    BY <2>1, ClearingIs, RedoingIs, SameRecords
  <2>3. Stands(g, meta, op.from) /\ Stands(g, cache, op.from)
    BY <2>2, OldLess, TypedIs
  <2>4. meta = cache \/ cache.chunks = 0
    BY <2>2, ClearingIs DEF Same, Agree
  <2> QED
    BY <2>2, <2>3, <2>4 DEF Agree
<1> QED
  BY <1>2, <1>3 DEF Clearing

LEMMA StepClrDel ==
  ASSUME Confined, Typed, Clearing, ResetDir("clrMk", "err"), UNCHANGED record, UNCHANGED bounds
  PROVE  Typed' /\ Where'
<1>1. meta' = meta /\ cache' = cache /\ dirty' = dirty /\ writes' = writes
  BY DEF record, bounds
<1>2. /\ faults' \in 0..MaxFaults
      /\ \/ fs' = [fs EXCEPT !.dir = NoDir] /\ To("clrMk")
         \/ fs' \in {fs} \cup DirLeft /\ To("err")
  BY CallIs DEF ResetDir
<1>3. PICK d \in MaybeDir : /\ fs' = [fs EXCEPT !.dir = d] /\ (d = NoDir \/ \E S : d = Without(fs.dir, S))
                            /\ (d = NoDir /\ To("clrMk")) \/ To("err")
  BY <1>2, LeftIs DEF MaybeDir
<1>4. /\ FsType(fs') /\ fs'.dir = d /\ fs'.bak = fs.bak /\ fs'.ready = fs.ready /\ fs'.aj = fs.aj
      /\ fs'.oj = fs.oj
  BY <1>3, SetDir, TypedIs
<1>5. Agree(fs', meta, cache, op.from)
  BY <1>3, ClearingLess
<1>6. CASE d = NoDir /\ To("clrMk")
  <2>1. pc' = "clrMk" /\ op' = op
    BY <1>6, ToLabel
  <2>2. Same'
    BY <1>1, <1>5, <2>1 DEF Same
  <2>3. AtClrMk'
    BY <1>1, <1>4, <1>6, <2>1, <2>2, ClearingStays DEF AtClrMk
  <2>4. Typed'
    BY <1>1, <1>2, <1>4, <2>1, DiskTyped, TypedIs
  <2> QED
    BY <2>1, <2>3, <2>4 DEF Where, Labels
<1>7. CASE To("err")
  <2>1. op' \in OpRec /\ op'.from = op.from
    BY <1>7, ClearingFrom
  <2>2. Same'
    BY <1>1, <1>5, <2>1 DEF Same
  <2>3. Where'
    BY <1>1, <1>4, <1>7, <2>2, ClearingErr, ClearingIs
  <2> QED
    BY <1>1, <1>2, <1>4, <2>1, <2>3, DiskTyped, TypedIs
<1> QED
  BY <1>3, <1>6, <1>7

LEMMA MakeDirIs ==
  ASSUME Confined, Typed, NEW n, NEW e, MakeDir(n, e)
  PROVE  /\ faults' \in 0..MaxFaults
         /\ \/ /\ fs' = [fs EXCEPT !.dir = MadeDir(fs.dir)] /\ To(n)
               /\ fs'.dir = MadeDir(fs.dir) /\ fs'.dir \in Dir
            \/ fs' = fs /\ To(e)
         /\ FsType(fs') /\ fs'.bak = fs.bak /\ fs'.ready = fs.ready /\ fs'.aj = fs.aj /\ fs'.oj = fs.oj
         /\ fs'.single = fs.single
<1>1. Call([fs EXCEPT !.dir = MadeDir(fs.dir)], {}, n, e)
  BY MadeDirIs DEF MakeDir
<1>2. /\ faults' \in 0..MaxFaults
      /\ \/ fs' = [fs EXCEPT !.dir = MadeDir(fs.dir)] /\ To(n)
         \/ fs' = fs /\ To(e)
  BY <1>1, CallIs
<1>3. MadeDir(fs.dir) \in Dir /\ MadeDir(fs.dir) \in MaybeDir
  BY MadeHolds, NoContent, FilesOf, TypedIs DEF MaybeDir
<1>4. CASE fs' = [fs EXCEPT !.dir = MadeDir(fs.dir)] /\ To(n)
  BY <1>2, <1>3, <1>4, SetDir, TypedIs
<1>5. CASE fs' = fs /\ To(e)
  BY <1>2, <1>5, TypedIs
<1> QED
  BY <1>2, <1>4, <1>5

LEMMA StepClrMk ==
  ASSUME Confined, Typed, AtClrMk, MakeDir("clrMeta", "err"), UNCHANGED record, UNCHANGED bounds
  PROVE  Typed' /\ Where'
<1>1. meta' = meta /\ cache' = cache /\ dirty' = dirty /\ writes' = writes
  BY DEF record, bounds
<1>2. Clearing /\ fs.dir = NoDir /\ Same
  BY ClearingIs DEF AtClrMk
<1>3. /\ faults' \in 0..MaxFaults
      /\ \/ fs' = [fs EXCEPT !.dir = MadeDir(fs.dir)] /\ fs'.dir = MadeDir(fs.dir) /\ To("clrMeta")
         \/ fs' = fs /\ To("err")
      /\ FsType(fs') /\ fs'.bak = fs.bak /\ fs'.ready = fs.ready /\ fs'.aj = fs.aj /\ fs'.oj = fs.oj
  BY MakeDirIs
<1>4. Agree(fs', meta, cache, op.from)
  BY <1>2, <1>3, AgreeMade, TypedIs DEF Same
<1>5. CASE fs' = [fs EXCEPT !.dir = MadeDir(fs.dir)] /\ fs'.dir = MadeDir(fs.dir) /\ To("clrMeta")
  <2>1. pc' = "clrMeta" /\ op' = op
    BY <1>5, ToLabel
  <2>2. Same'
    BY <1>1, <1>4, <2>1 DEF Same
  <2>3. DirIs(fs'.dir, <<>>)
    BY <1>2, <1>5, EmptyDirIs DEF MadeDir
  <2>4. AtClrMeta'
    BY <1>1, <1>2, <1>3, <2>1, <2>2, <2>3, ClearingStays DEF AtClrMeta
  <2>5. Typed'
    BY <1>1, <1>3, <2>1, DiskTyped, TypedIs
  <2> QED
    BY <2>1, <2>4, <2>5 DEF Where, Labels
<1>6. CASE fs' = fs /\ To("err")
  <2>1. op' \in OpRec /\ op'.from = op.from
    BY <1>2, <1>6, ClearingFrom
  <2>2. Same'
    BY <1>1, <1>4, <2>1 DEF Same
  <2>3. Where'
    BY <1>1, <1>2, <1>3, <1>6, <2>2, ClearingErr, ClearingIs
  <2> QED
    BY <1>1, <1>3, <2>1, <2>3, DiskTyped, TypedIs
<1> QED
  BY <1>3, <1>5, <1>6

(* An empty directory stands for the generation before an old overwrite.   *)
LEMMA AgreeEmptied ==
  ASSUME NEW f, FsType(f), f.oj \in OldJournal, f.bak = NoDir, f.aj = NoJournal, Holds(f.dir, <<>>),
         NEW v \in Content, v = f.oj.prev
  PROVE  /\ Stands(f, Chunked(0, 0), v)
         /\ Agree(f, Chunked(0, 0), Chunked(0, 0), v)
<1> DEFINE e == Chunked(0, 0)
<1>1. IsDirOf(e) /\ e.count = 0 /\ e.chunks = 0
  BY MetaIs
<1>2. Files(f.dir) = 0..(0 - 1) /\ Listing(f.dir) = <<>>
  BY NoContent, HoldsListing
<1>3. Records(<<>>) = 0 /\ f.oj.target # <<>>
  BY NoRecords, FilesOf
<1> HIDE DEF e
<1>4. Counted(f, e, v)
  BY <1>1, <1>2, <1>3 DEF Counted
<1>5. OldPrev(f, e, v)
  BY <1>3, <1>4 DEF OldPrev
<1>6. Stands(f, e, v)
  BY <1>1, <1>3, <1>5, StandsChunked
<1> QED
  BY <1>6 DEF Agree, e

LEMMA StepClrMeta ==
  ASSUME Typed, AtClrMeta, Save(Chunked(0, 0), "ok", "err"), UNCHANGED bounds
  PROVE  Typed' /\ Where'
<1> DEFINE e == Chunked(0, 0)
<1>1. Clearing /\ DirIs(fs.dir, <<>>) /\ fs.aj = NoJournal /\ writes' = writes
  BY DEF AtClrMeta, Clearing, bounds
<1>2. e \in MaybeMeta /\ IsDirOf(e) /\ e # NoTable /\ e.chunks = 0 /\ e = RecordOf(<<>>)
  BY MetaIs, EmptyRecord DEF MaybeMeta, IsDirOf
<1> HIDE DEF e
<1>3. /\ faults' \in 0..MaxFaults /\ fs' = fs /\ cache' = e /\ meta' \in MaybeMeta /\ meta' \in {meta, e}
      /\ dirty' \in BOOLEAN /\ (~dirty' => cache' = meta')
      /\ \/ meta' = e /\ To("ok")
         \/ To("err")
  BY <1>2, SaveIs DEF e
<1>4. IsDirOf(meta') /\ IsDirOf(cache') /\ IsDirOf(meta)
  BY <1>1, <1>2, <1>3, ClearingIs
<1>5. Agree(fs', meta', cache', op.from)
  <2>1. CASE Renewing
    <3>1. Sealed(fs', op.from)
      BY <1>3, <2>1 DEF Renewing
    <3> QED
      BY <1>1, <1>4, <3>1, AgreeBehind, ClearingIs
  <2>2. CASE \E b \in Bodies : Redoing(b)
    <3>1. PICK b \in Bodies : Redoing(b)
      BY <2>2
    <3>2. Stands(fs, e, op.from)
      BY <1>1, <3>1, AgreeEmptied, RedoingIs, TypedIs DEF e, Holds
    <3>3. Stands(fs, meta, op.from)
      BY <1>1, ClearingIs, SameRecords
    <3> QED
      BY <1>2, <1>3, <1>4, <3>2, <3>3 DEF Agree
  <2> QED
    BY <1>1, <2>1, <2>2 DEF Clearing
<1>6. op' \in OpRec /\ op'.from = op.from /\ op'.kind = op.kind /\ op'.data = op.data /\ op'.prev = op.prev
      /\ op'.ret = Tail(op.ret)
  BY <1>1, <1>3, ToReturn, ClearingIs, TypedIs
<1>7. Same' /\ Typed'
  BY <1>2, <1>3, <1>5, <1>6, SaveTyped DEF Same
<1>8. CASE meta' = e /\ To("ok")
  <2>1. pc' = Head(op.ret)["ok"]
    BY <1>1, <1>8, ToReturn, ClearingIs, TypedIs
  <2>2. EmptyAgain' /\ fs'.aj = NoJournal
    BY <1>1, <1>3, <1>8 DEF EmptyAgain, Both, e
  <2>3. CASE Renewing /\ op.ret = IF op.data = <<>> THEN Renew ELSE RenewAll
    <3>1. Renewing'
      BY <1>3, <1>4, <1>6, <2>3, RenewingStays
    <3>2. CASE op.data = <<>>
      <4>1. pc' = "wMeta"
        BY <2>1, <2>3, <3>2, RenewIs
      <4>2. AtWMeta'
        BY <1>1, <1>2, <1>3, <1>6, <1>8, <3>1, <3>2 DEF AtWMeta, Filled, Both
      <4> QED
        BY <1>7, <4>1, <4>2 DEF Where, Labels
    <3>3. CASE op.data # <<>>
      <4>1. pc' = "recA" /\ op'.ret = RenewAppend
        BY <1>6, <2>1, <2>3, <3>3, RenewIs
      <4>2. RecA'
        BY <1>6, <2>2, <3>1, <3>3, <4>1 DEF RecA
      <4> QED
        BY <1>7, <4>1, <4>2 DEF Where, Labels
    <3> QED
      BY <3>2, <3>3
  <2>4. CASE \E b \in Bodies : Redoing(b) /\ op.ret = IF op.from = <<>> THEN Redo(b) ELSE RedoAll(b)
    <3>1. PICK b \in Bodies : Redoing(b) /\ op.ret = IF op.from = <<>> THEN Redo(b) ELSE RedoAll(b)
      BY <2>4
    <3>2. Redoing(b)'
      BY <1>1, <1>3, <1>4, <1>6, <3>1, RedoingStays
    <3>3. CASE op.from = <<>>
      <4>1. pc' = "roDelOld" /\ op'.ret = b
        BY <1>6, <2>1, <3>1, <3>3, BodyIs
      <4>2. RecO' /\ (fs.oj \in OldJournal)' /\ (op.from \in Content)'
        BY <1>7, <2>2, <3>2, <4>1 DEF RecO, Redoing
      <4>3. AtDelOld'
        BY <1>1, <1>2, <1>3, <1>6, <1>8, <3>3, <4>2 DEF AtDelOld, Both, Holds
      <4> QED
        BY <1>7, <4>1, <4>3 DEF Where, Labels
    <3>4. CASE op.from # <<>>
      <4>1. pc' = "recA" /\ op'.ret = RedoAppend(b)
        BY <1>6, <2>1, <3>1, <3>4, BodyIs
      <4>2. RecA'
        BY <1>6, <2>2, <3>2, <3>4, <4>1 DEF RecA
      <4> QED
        BY <1>7, <4>1, <4>2 DEF Where, Labels
    <3> QED
      BY <3>3, <3>4
  <2> QED
    BY <1>1, <2>3, <2>4 DEF Clearing
<1>9. CASE To("err")
  <2>1. cache' # NoTable /\ fs'.oj = fs.oj
    BY <1>2, <1>3
  <2> QED
    BY <1>1, <1>7, <1>9, <2>1, ClearingErr
<1> QED
  BY <1>3, <1>8, <1>9

-----------------------------------------------------------------------------
(* Appending: app, appOld, appMk to appUndoJ.                              *)

LEMMA SetBatch ==
  ASSUME op \in OpRec, NEW x \in Content, NEW m \in MaybeMeta, op' = [op EXCEPT !.batch = x, !.prev = m]
  PROVE  /\ op' \in OpRec /\ op'.ret = op.ret /\ op'.kind = op.kind /\ op'.data = op.data
         /\ op'.batch = x /\ op'.from = op.from /\ op'.prev = m
         /\ op'.todo = op.todo /\ op'.val = op.val
  BY DEF OpRec

LEMMA AppendsIs ==
  ASSUME Typed, Appends
  PROVE  /\ Base \in Content /\ op.batch \in Content /\ op.batch # <<>> /\ op.from \in Content
         /\ Len(Base) \in Nat /\ Len(op.batch) \in Nat
         /\ Len(Base) + Len(op.batch) <= MaxChunks /\ Whole \in Content
         /\ Journal \in AppendJournal /\ Journal # NoJournal
         /\ Journal.count = Records(Base) /\ Journal.chunks = Len(Base) /\ Journal.n = Len(op.batch)
         /\ op.prev = RecordOf(Base) /\ op.prev \in MaybeMeta /\ op.prev # NoTable /\ IsDirOf(op.prev)
         /\ Targets(Journal) = Behind(Base, op.batch) /\ AppendTargets = Behind(Base, op.batch)
         /\ KnownChunks(op.prev) = Len(Base) /\ KnownCount(op.prev) = Records(Base)
         /\ op.ret # <<>>
<1>1. /\ Base \in Content /\ op.batch \in Content /\ op.batch # <<>> /\ op.from \in Content
      /\ Len(Base) + Len(op.batch) <= MaxChunks /\ op.ret # <<>>
  <2>1. op.batch \in Content /\ op.data \in Content /\ Len(<<>>) = 0 /\ <<>> \in Content
    BY TypedIs, NoContent
  <2>2. \A c \in Content : Len(c) \in Nat /\ Len(c) <= MaxChunks
    BY ContentAt
  <2>3. CASE AppendsNew
    BY <2>1, <2>3, OrFailIs, Stack1 DEF AppendsNew, Base, Returns
  <2>4. CASE AppendsRenew
    <3>1. Base = <<>> /\ op.from \in Content
      BY <2>4, RenewingIs DEF AppendsRenew, Base
    <3> QED
      BY <2>1, <2>2, <2>4, <3>1, RenewIs DEF AppendsRenew
  <2>5. CASE AppendsRedo
    <3>1. PICK b \in Bodies : op.ret = Redo(b) /\ Redoing(b) /\ op.batch = op.from /\ op.from # <<>>
      BY <2>5 DEF AppendsRedo
    <3>2. Base = <<>> /\ op.from \in Content
      BY <3>1, RedoingIs DEF Base
    <3> QED
      BY <2>1, <2>2, <3>1, <3>2, BodyIs
  <2> QED
    BY <2>3, <2>4, <2>5 DEF Appends
<1>2. Len(Base) \in Nat /\ Len(op.batch) \in Nat /\ Records(Base) \in Nat /\ Whole \in Content
  BY <1>1, RecordIs, Joined DEF Whole
<1>3. /\ Journal \in AppendJournal /\ Journal # NoJournal
      /\ Journal.count = Records(Base) /\ Journal.chunks = Len(Base) /\ Journal.n = Len(op.batch)
  BY <1>2, JournalsApart DEF Journal, AppendJournal
<1>4. /\ op.prev = RecordOf(Base) /\ op.prev \in MaybeMeta /\ op.prev # NoTable /\ IsDirOf(op.prev)
      /\ op.prev.count = Records(Base) /\ op.prev.chunks = Len(Base)
  BY <1>1, RecordIs DEF Appends, MaybeMeta
<1> QED
  BY <1>1, <1>2, <1>3, <1>4 DEF Targets, Behind, AppendTargets, KnownChunks, KnownCount

(* Without its journal an append has not begun, with it it is undone.      *)
LEMMA AppendsAgree ==
  ASSUME Typed, Appends, NEW f, FsType(f), f.oj = fs.oj, f.bak = fs.bak, f.ready = fs.ready,
         f.aj = NoJournal, Holds(f.dir, Base)
  PROVE  Agree(f, op.prev, op.prev, op.from)
<1>1. op.prev = RecordOf(Base) /\ IsDirOf(op.prev) /\ op.from \in Content
  BY AppendsIs
<1>2. CASE AppendsNew
  <2>1. Base = op.from /\ fs.oj = NoJournal
    BY <1>2 DEF AppendsNew, Base
  <2> QED
    BY <1>1, <2>1, AgreePlain
<1>3. CASE AppendsRenew
  <2>1. Sealed(fs, op.from)
    BY <1>3 DEF AppendsRenew, Renewing
  <2>2. Sealed(f, op.from)
    BY <2>1 DEF Sealed
  <2> QED
    BY <1>1, <2>2, AgreeBehind
<1>4. CASE AppendsRedo
  <2>1. PICK b \in Bodies : Redoing(b)
    BY <1>4 DEF AppendsRedo
  <2>2. fs.oj \in OldJournal /\ fs.oj # NoJournal /\ fs.bak = NoDir /\ op.from = fs.oj.prev
    BY <2>1, RedoingIs
  <2>3. Base = <<>>
    BY <2>2 DEF Base
  <2> QED
    BY <1>1, <2>2, <2>3, AgreeEmptied, EmptyRecord
<1> QED
  BY <1>2, <1>3, <1>4 DEF Appends

LEMMA JournaledAgree ==
  ASSUME Typed, Appends, NEW f, FsType(f), f.oj = fs.oj, f.bak = fs.bak, f.ready = fs.ready,
         f.aj = Journal, Holds(Without(f.dir, Targets(Journal)), Base),
         NEW m, IsDirOf(m), NEW k, IsDirOf(k)
  PROVE  Agree(f, m, k, op.from)
<1>1. op.from \in Content /\ f.aj # NoJournal /\ Fits(f.aj, Base)
  BY AppendsIs DEF Fits, Counts
<1>2. Stands(f, m, op.from) /\ Stands(f, k, op.from)
  <2>1. CASE AppendsNew
    <3>1. Base = op.from /\ fs.oj = NoJournal
      BY <2>1 DEF AppendsNew, Base
    <3>2. Appending(f, op.from)
      BY <1>1, <3>1 DEF Appending
    <3> QED
      BY <1>1, <3>2, StandsChunked
  <2>2. CASE AppendsRenew
    <3>1. Sealed(fs, op.from) /\ Base = <<>>
      BY <2>2, RenewingIs DEF AppendsRenew, Renewing, Base
    <3>2. Sealed(f, op.from)
      BY <1>1, <3>1 DEF Sealed
    <3> QED
      BY <1>1, <3>2, StandsChunked
  <2>3. CASE AppendsRedo
    <3>1. PICK b \in Bodies : Redoing(b)
      BY <2>3 DEF AppendsRedo
    <3>2. fs.oj \in OldJournal /\ fs.oj # NoJournal /\ fs.bak = NoDir /\ op.from = fs.oj.prev
      BY <3>1, RedoingIs
    <3>3. Base = <<>>
      BY <3>2 DEF Base
    <3>4. OldPrev(f, m, op.from) /\ OldPrev(f, k, op.from)
      BY <1>1, <3>2, <3>3 DEF OldPrev
    <3> QED
      BY <1>1, <3>4, StandsChunked
  <2> QED
    BY <2>1, <2>2, <2>3 DEF Appends
<1> QED
  BY <1>1, <1>2 DEF Agree

LEMMA AppendsStays ==
  ASSUME Typed, Appends, op' = op, writes' = writes, fs'.oj = fs.oj, fs'.bak = fs.bak,
         fs'.ready = fs.ready, fs'.aj \in {NoJournal, Journal}, IsDirOf(meta'), IsDirOf(cache')
  PROVE  Appends' /\ Base' = Base /\ Whole' = Whole /\ Journal' = Journal /\ op'.prev = op.prev
<1>1. Base' = Base /\ Whole' = Whole /\ Journal' = Journal
  BY DEF Base, Whole, Journal
<1>2. CASE AppendsNew
  BY <1>1, <1>2 DEF AppendsNew, Appends
<1>3. CASE AppendsRenew
  <2>1. Renewing /\ Base = <<>>
    BY <1>3, RenewingIs DEF AppendsRenew, Base
  <2>2. fs'.aj # NoJournal => Fits(fs'.aj, <<>>)
    BY <2>1, AppendsIs DEF Fits, Counts
  <2>3. Renewing'
    BY <2>1, <2>2 DEF Renewing, Sealed, IsDirOf, IsChunked
  <2> QED
    BY <1>1, <1>3, <2>3 DEF AppendsRenew, Appends
<1>4. CASE AppendsRedo
  <2>1. PICK b \in Bodies : op.ret = Redo(b) /\ Redoing(b) /\ op.batch = op.from /\ op.from # <<>>
    BY <1>4 DEF AppendsRedo
  <2>2. Redoing(b)'
    BY <2>1, RedoingStays
  <2> QED
    BY <1>1, <2>1, <2>2 DEF AppendsRedo, Appends
<1> QED
  BY <1>2, <1>3, <1>4 DEF Appends

LEMMA AppendErr ==
  ASSUME Typed, Appends, To("err"), fs'.oj = fs.oj, IsDirOf(cache'), Agree(fs', meta', cache', op.from)
  PROVE  op' \in OpRec /\ Where'
<1>1. op' \in OpRec /\ op'.from = op.from /\ pc' = Head(op.ret)["err"]
  BY AppendsIs, ToReturn, TypedIs
<1>2. Same' /\ cache' # NoTable
  BY <1>1 DEF Same, IsDirOf
<1>3. CASE AppendsNew
  <2>1. pc' = "failed"
    BY <1>1, <1>3, OrFailIs, Stack1 DEF AppendsNew, Returns
  <2> QED
    BY <1>1, <1>2, <2>1, Failed
<1>4. CASE AppendsRenew
  BY <1>1, <1>2, <1>4, RenewErr, RenewingIs DEF AppendsRenew
<1>5. CASE AppendsRedo
  <2>1. PICK b \in Bodies : op.ret = Redo(b) /\ Redoing(b)
    BY <1>5 DEF AppendsRedo
  <2> QED
    BY <1>1, <1>2, <2>1, RedoErr
<1> QED
  BY <1>3, <1>4, <1>5 DEF Appends

LEMMA AppIs ==
  ASSUME Typed, AtApp
  PROVE  \/ /\ op.ret = <<OrFail("okDone")>> /\ op.kind = "append" /\ IsChunked /\ op.data # <<>>
            /\ op.data \in Content /\ op.from \in Content
            /\ Len(op.from) + Len(op.data) <= MaxChunks /\ Same /\ fs.aj = NoJournal /\ fs.oj = NoJournal
            /\ cache = RecordOf(op.from) /\ meta = RecordOf(op.from) /\ Holds(fs.dir, op.from)
         \/ op.ret = <<OrFail("cMeta")>> /\ Creates /\ op.data = <<>>
         \/ op.ret = Renew /\ Renewing /\ EmptyAgain /\ op.data # <<>>
<1>1. CASE /\ op.ret = <<OrFail("okDone")>> /\ op.kind = "append" /\ IsChunked /\ op.data \in Batches
           /\ Len(op.from) + Len(op.data) <= MaxChunks /\ Same /\ fs.aj = NoJournal /\ fs.oj = NoJournal
  <2>1. op.data # <<>> /\ op.data \in Content
    BY <1>1, ChunkAssumption
  <2>2. /\ op.from \in Content /\ IsDirOf(meta) /\ IsDirOf(cache)
        /\ Stands(fs, meta, op.from) /\ Stands(fs, cache, op.from)
    BY <1>1, SameRecords DEF IsChunked
  <2>3. Plain(fs, meta, op.from) /\ Plain(fs, cache, op.from)
    BY <1>1, <2>2, StandsRecord, TypedIs, JournalsApart DEF Appending, Split, Sealed, OldTarget, OldPrev
  <2> QED
    BY <1>1, <2>1, <2>2, <2>3 DEF Plain
<1>2. CASE op.ret = <<OrFail("cMeta")>> /\ Creates
  BY <1>2 DEF Creates
<1>3. CASE op.ret = Renew /\ Renewing /\ EmptyAgain /\ op.data # <<>>
  BY <1>3
<1> QED
  BY <1>1, <1>2, <1>3 DEF AtApp

LEMMA StepApp ==
  ASSUME Typed, pc = "app", AtApp, StartAppend, UNCHANGED disk, UNCHANGED record, UNCHANGED bounds
  PROVE  Typed' /\ Where'
<1>1. fs' = fs /\ faults' = faults /\ meta' = meta /\ cache' = cache /\ dirty' = dirty /\ writes' = writes
  BY DEF disk, record, bounds
<1>2. \/ op.data = <<>> /\ To("ok")
      \/ op.data # <<>> /\ pc' = "appMk" /\ op' = [op EXCEPT !.batch = op.data, !.prev = cache]
  BY DEF StartAppend
<1>3. CASE /\ op.ret = <<OrFail("okDone")>> /\ op.kind = "append" /\ IsChunked /\ op.data # <<>>
           /\ op.data \in Content /\ op.from \in Content
           /\ Len(op.from) + Len(op.data) <= MaxChunks /\ Same /\ fs.aj = NoJournal /\ fs.oj = NoJournal
           /\ cache = RecordOf(op.from) /\ meta = RecordOf(op.from) /\ Holds(fs.dir, op.from)
  <2>1. pc' = "appMk" /\ op' = [op EXCEPT !.batch = op.data, !.prev = cache]
    BY <1>2, <1>3
  <2>2. /\ op' \in OpRec /\ op'.ret = op.ret /\ op'.kind = op.kind /\ op'.data = op.data
        /\ op'.batch = op.data /\ op'.from = op.from /\ op'.prev = cache
    BY <2>1, SetBatch, TypedIs
  <2>3. Typed'
    BY <1>1, <2>2, DiskTyped, TypedIs
  <2>4. Base' = op.from /\ AppendsNew'
    BY <1>1, <1>3, <2>2 DEF Base, AppendsNew
  <2>5. AtAppMk'
    BY <1>1, <1>3, <2>2, <2>4 DEF AtAppMk, Appends, Both
  <2> QED
    BY <2>1, <2>3, <2>5 DEF Where, Labels
<1>4. CASE op.ret = <<OrFail("cMeta")>> /\ Creates /\ op.data = <<>>
  <2>1. To("ok") /\ Head(op.ret)["ok"] = "cMeta" /\ op.ret # <<>>
    BY <1>2, <1>4, OrFailIs, Stack1 DEF Returns
  <2>2. /\ pc' = "cMeta" /\ op' \in OpRec /\ op'.kind = op.kind /\ op'.data = op.data
        /\ op'.from = op.from /\ op'.prev = op.prev
    BY <2>1, ToReturn, TypedIs
  <2>3. Typed'
    BY <1>1, <2>2, DiskTyped, TypedIs
  <2>4. Creates'
    BY <1>1, <1>4, <2>2 DEF Creates, Both
  <2> QED
    BY <2>2, <2>3, <2>4 DEF Where, Labels
<1>5. CASE op.ret = Renew /\ Renewing /\ EmptyAgain /\ op.data # <<>>
  <2>1. pc' = "appMk" /\ op' = [op EXCEPT !.batch = op.data, !.prev = cache]
    BY <1>2, <1>5
  <2>2. /\ op' \in OpRec /\ op'.ret = op.ret /\ op'.kind = op.kind /\ op'.data = op.data
        /\ op'.batch = op.data /\ op'.from = op.from /\ op'.prev = cache
    BY <2>1, SetBatch, TypedIs
  <2>3. Typed'
    BY <1>1, <2>2, DiskTyped, TypedIs
  <2>4. IsDirOf(meta) /\ IsDirOf(cache) /\ fs.oj # NoJournal /\ cache = RecordOf(<<>>) /\ meta = cache
    BY <1>5, EmptyRecord, RenewingIs DEF Renewing, IsChunked, IsDirOf, EmptyAgain, Both
  <2>5. Renewing'
    BY <1>1, <1>5, <2>2, <2>4, RenewingStays
  <2>6. Base' = <<>> /\ AppendsRenew'
    BY <1>1, <1>5, <2>2, <2>4, <2>5 DEF Base, AppendsRenew
  <2>7. AtAppMk'
    BY <1>1, <1>5, <2>2, <2>4, <2>6 DEF AtAppMk, Appends, Both, EmptyAgain, Holds
  <2> QED
    BY <2>1, <2>3, <2>7 DEF Where, Labels
<1> QED
  BY <1>3, <1>4, <1>5, AppIs

LEMMA StepAppOld ==
  ASSUME Typed, pc = "appOld", AtAppOld, StartAppend, UNCHANGED disk, UNCHANGED record, UNCHANGED bounds
  PROVE  Typed' /\ Where'
<1>1. fs' = fs /\ faults' = faults /\ meta' = meta /\ cache' = cache /\ dirty' = dirty /\ writes' = writes
  BY DEF disk, record, bounds
<1>2. PICK b \in Bodies : op.ret = Redo(b) /\ Redoing(b) /\ EmptyAgain /\ op.from # <<>>
  BY DEF AtAppOld
<1>3. /\ op.from \in Content /\ op.from = fs.oj.prev /\ IsDirOf(meta) /\ IsDirOf(cache)
      /\ fs.oj # NoJournal /\ cache = RecordOf(<<>>) /\ meta = cache
  BY <1>2, RedoingIs, EmptyRecord DEF EmptyAgain, Both
<1>4. pc' = "appMk" /\ op' = [op EXCEPT !.batch = op.from, !.prev = cache]
  BY <1>2, <1>3 DEF StartAppend
<1>5. /\ op' \in OpRec /\ op'.ret = op.ret /\ op'.kind = op.kind /\ op'.data = op.data
      /\ op'.batch = op.from /\ op'.from = op.from /\ op'.prev = cache
  BY <1>3, <1>4, SetBatch, TypedIs
<1>6. Typed'
  BY <1>1, <1>5, DiskTyped, TypedIs
<1>7. Redoing(b)'
  <2>1. Ctx(b) /\ op.kind # "create" /\ IsChunked
    BY <1>2, RedoingIs
  <2> QED
    BY <1>1, <1>2, <1>5, <2>1 DEF Redoing, Ctx, IsChunked, Creates
<1>8. Base' = <<>> /\ AppendsRedo'
  BY <1>1, <1>2, <1>3, <1>5, <1>7 DEF Base, AppendsRedo
<1>9. AtAppMk'
  BY <1>1, <1>2, <1>3, <1>5, <1>8 DEF AtAppMk, Appends, Both, EmptyAgain, Holds
<1> QED
  BY <1>4, <1>6, <1>9 DEF Where, Labels

LEMMA StepAppMk ==
  ASSUME Confined, Typed, AtAppMk, MakeDir("appJ", "err"), UNCHANGED record, UNCHANGED bounds
  PROVE  Typed' /\ Where'
<1>1. meta' = meta /\ cache' = cache /\ dirty' = dirty /\ writes' = writes
  BY DEF record, bounds
<1>2. /\ Appends /\ fs.aj = NoJournal /\ Holds(fs.dir, Base) /\ meta = op.prev /\ cache = op.prev
      /\ Base \in Content /\ IsDirOf(op.prev)
  BY AppendsIs DEF AtAppMk, Both
<1>3. /\ faults' \in 0..MaxFaults
      /\ \/ fs'.dir = MadeDir(fs.dir) /\ To("appJ")
         \/ fs' = fs /\ To("err")
      /\ FsType(fs') /\ fs'.bak = fs.bak /\ fs'.ready = fs.ready /\ fs'.aj = fs.aj /\ fs'.oj = fs.oj
  BY MakeDirIs
<1>4. CASE fs'.dir = MadeDir(fs.dir) /\ To("appJ")
  <2>1. pc' = "appJ" /\ op' = op
    BY <1>4, ToLabel
  <2>2. DirIs(fs'.dir, Base)
    BY <1>2, <1>4, MadeHolds, FilesOf, TypedIs
  <2>3. Appends' /\ Base' = Base
    BY <1>1, <1>2, <1>3, <2>1, AppendsStays
  <2>4. AtAppJ'
    BY <1>1, <1>2, <1>3, <2>1, <2>2, <2>3 DEF AtAppJ, Both
  <2>5. Typed'
    BY <1>1, <1>3, <2>1, DiskTyped, TypedIs
  <2> QED
    BY <2>1, <2>4, <2>5 DEF Where, Labels
<1>5. CASE fs' = fs /\ To("err")
  <2>1. Agree(fs', meta', cache', op.from) /\ IsDirOf(cache')
    BY <1>1, <1>2, <1>5, AppendsAgree, TypedIs
  <2>2. op' \in OpRec /\ Where'
    BY <1>2, <1>3, <1>5, <2>1, AppendErr
  <2> QED
    BY <1>1, <1>3, <2>2, DiskTyped, TypedIs
<1> QED
  BY <1>3, <1>4, <1>5

LEMMA StepAppJ ==
  ASSUME Confined, Typed, AtAppJ, PublishJournal, UNCHANGED record, UNCHANGED bounds
  PROVE  Typed' /\ Where'
<1>1. meta' = meta /\ cache' = cache /\ dirty' = dirty /\ writes' = writes
  BY DEF record, bounds
<1>2. /\ Appends /\ fs.aj = NoJournal /\ DirIs(fs.dir, Base) /\ meta = op.prev /\ cache = op.prev
      /\ Base \in Content /\ op.batch \in Content /\ IsDirOf(op.prev)
      /\ Len(Base) \in Nat /\ Len(op.batch) \in Nat
  BY AppendsIs DEF AtAppJ, Both
<1>3. /\ faults' \in 0..MaxFaults
      /\ \/ fs' = [fs EXCEPT !.aj = Journal] /\ To("appWrite")
         \/ fs' = fs /\ To("err")
  <2>1. \/ To("err") /\ UNCHANGED disk
        \/ Call([fs EXCEPT !.aj = Journal], {}, "appWrite", "err")
    <3>1. Journal = [count |-> KnownCount(cache), chunks |-> KnownChunks(cache), n |-> Len(op.batch)]
      BY <1>2, AppendsIs DEF Journal
    <3> QED
      BY <3>1 DEF PublishJournal
  <2>2. CASE To("err") /\ UNCHANGED disk
    BY <2>2, TypedIs DEF disk
  <2>3. CASE Call([fs EXCEPT !.aj = Journal], {}, "appWrite", "err")
    BY <2>3, CallIs
  <2> QED
    BY <2>1, <2>2, <2>3
<1>4. CASE fs' = [fs EXCEPT !.aj = Journal] /\ To("appWrite")
  <2>1. /\ FsType(fs') /\ fs'.dir = fs.dir /\ fs'.bak = fs.bak /\ fs'.ready = fs.ready
        /\ fs'.aj = Journal /\ fs'.oj = fs.oj
    <3>1. FsType(fs) /\ Journal \in AppendJournal \cup {NoJournal}
      BY <1>2, AppendsIs, TypedIs
    <3> QED
      BY <1>4, <3>1, SetAj
  <2>2. pc' = "appWrite" /\ op' = op
    BY <1>4, ToLabel
  <2>3. Appends' /\ Base' = Base /\ Journal' = Journal
    BY <1>1, <1>2, <2>1, <2>2, AppendsStays
  <2>4. Holds(Without(fs'.dir, Targets(fs'.aj)), Base)
    <3>1. Files(fs.dir) = 0..(Len(Base) - 1)
      BY <1>2, DirListing
    <3>2. Files(fs.dir) \cap Behind(Base, op.batch) = {}
      BY <1>2, <3>1 DEF Behind
    <3>3. Targets(fs'.aj) = Behind(Base, op.batch)
      BY <1>2, <2>1, AppendsIs
    <3>4. Without(fs.dir, Behind(Base, op.batch)) = fs.dir
      BY <3>2, WithoutIs, FilesOf, TypedIs
    <3> QED
      BY <1>2, <2>1, <3>3, <3>4 DEF Holds
  <2>5. AtAppWrite'
    BY <1>1, <1>2, <2>1, <2>2, <2>3, <2>4 DEF AtAppWrite, Journaled, Both
  <2>6. Typed'
    BY <1>1, <1>3, <2>1, <2>2, DiskTyped, TypedIs
  <2> QED
    BY <2>2, <2>5, <2>6 DEF Where, Labels
<1>5. CASE fs' = fs /\ To("err")
  <2>1. Agree(fs', meta', cache', op.from) /\ IsDirOf(cache')
    BY <1>1, <1>2, <1>5, AppendsAgree, TypedIs DEF Holds
  <2>2. op' \in OpRec /\ Where'
    BY <1>2, <1>5, <2>1, AppendErr
  <2> QED
    BY <1>1, <1>3, <1>5, <2>2, DiskTyped, TypedIs
<1> QED
  BY <1>3, <1>4, <1>5

(* Whatever an append has written or deleted so far lies behind its base.  *)
LEMMA StepAppWrite ==
  ASSUME Confined, Typed, AtAppWrite, WriteChunks(KnownChunks(op.prev), "appMeta", "appUndo"),
         UNCHANGED record, UNCHANGED bounds
  PROVE  Typed' /\ Where'
<1>1. meta' = meta /\ cache' = cache /\ dirty' = dirty /\ writes' = writes
  BY DEF record, bounds
<1>2. /\ Appends /\ fs.aj = Journal /\ DirIs(fs.dir, Base) /\ meta = op.prev /\ cache = op.prev
      /\ Base \in Content /\ op.batch \in Content /\ IsDirOf(op.prev)
      /\ Len(Base) \in Nat /\ Len(op.batch) \in Nat /\ Len(Base) + Len(op.batch) <= MaxChunks
      /\ KnownChunks(op.prev) = Len(Base) /\ Targets(fs.aj) = Behind(Base, op.batch)
  BY AppendsIs DEF AtAppWrite, Journaled, Both
<1> DEFINE w == With(fs.dir, Len(Base), op.batch)
           S == Behind(Base, op.batch)
<1>3. DirIs(w, Whole) /\ Without(w, S) = fs.dir /\ w \in MaybeDir
  <2>1. PICK c, e \in Content, d \in MaybeDir : c = Base /\ e = op.batch /\ d = fs.dir
    BY <1>2, FilesOf, TypedIs
  <2>2. DirIs(With(d, Len(c), e), c \o e) /\ Without(With(d, Len(c), e), Behind(c, e)) = d
    BY <1>2, <2>1, Extended
  <2>3. DirIs(w, Whole) /\ Without(w, S) = fs.dir
    BY <2>1, <2>2 DEF Whole
  <2> QED
    BY <2>3 DEF DirIs, MaybeDir
<1>4. /\ faults' \in 0..MaxFaults
      /\ \/ fs' = [fs EXCEPT !.dir = w] /\ To("appMeta")
         \/ fs' \in {fs} \cup ChunksWritten(Len(Base)) /\ To("appUndo")
  BY <1>2, CallIs DEF WriteChunks
<1>5. ChunksWritten(Len(Base)) = {[fs EXCEPT !.dir = Without(w, T)] : T \in SUBSET S}
  BY DEF ChunksWritten, Behind
<1> HIDE DEF w, S
<1>6. PICK d \in MaybeDir : /\ fs' = [fs EXCEPT !.dir = d] /\ Without(d, S) = fs.dir
                            /\ (d = w /\ To("appMeta")) \/ To("appUndo")
  <2>1. CASE fs' = [fs EXCEPT !.dir = w] /\ To("appMeta")
    BY <1>3, <2>1
  <2>2. CASE fs' = fs /\ To("appUndo")
    <3>1. Files(fs.dir) = 0..(Len(Base) - 1)
      BY <1>2, DirListing
    <3>2. Files(fs.dir) \cap S = {}
      BY <1>2, <3>1 DEF Behind, S
    <3>3. Without(fs.dir, S) = fs.dir /\ fs.dir \in MaybeDir
      BY <3>2, WithoutIs, FilesOf, TypedIs
    <3>4. fs = [fs EXCEPT !.dir = fs.dir]
      BY TypedIs DEF FsType, FsRec
    <3> QED
      BY <2>2, <3>3, <3>4
  <2>3. CASE fs' \in ChunksWritten(Len(Base)) /\ To("appUndo")
    <3>1. PICK T \in SUBSET S : fs' = [fs EXCEPT !.dir = Without(w, T)]
      BY <1>5, <2>3
    <3>2. Without(w, T) \in MaybeDir /\ Without(Without(w, T), S) = Without(w, S)
      BY <1>3, WithoutIs, WithoutMore
    <3> QED
      BY <1>3, <2>3, <3>1, <3>2
  <2> QED
    BY <1>4, <2>1, <2>2, <2>3
<1>7. /\ FsType(fs') /\ fs'.dir = d /\ fs'.bak = fs.bak /\ fs'.ready = fs.ready /\ fs'.aj = fs.aj
      /\ fs'.oj = fs.oj
  BY <1>6, SetDir, TypedIs
<1>8. op' = op /\ (pc' = "appMeta" \/ pc' = "appUndo") /\ (pc' = "appMeta" => d = w)
  BY <1>6, ToLabel
<1>9. Appends' /\ Base' = Base /\ Journal' = Journal /\ Whole' = Whole /\ op'.prev = op.prev
  BY <1>1, <1>2, <1>7, <1>8, AppendsStays
<1>10. Journaled' /\ Both(op.prev)'
  BY <1>1, <1>2, <1>6, <1>7, <1>9 DEF Journaled, Both, Holds, S
<1>11. Typed'
  BY <1>1, <1>4, <1>7, <1>8, DiskTyped, TypedIs
<1>12. CASE pc' = "appMeta"
  <2>1. AtAppMeta'
    BY <1>3, <1>7, <1>8, <1>9, <1>10, <1>12 DEF AtAppMeta
  <2> QED
    BY <1>11, <1>12, <2>1 DEF Where, Labels
<1>13. CASE pc' = "appUndo"
  <2>1. AtAppUndo'
    BY <1>10 DEF AtAppUndo
  <2> QED
    BY <1>11, <1>13, <2>1 DEF Where, Labels
<1> QED
  BY <1>8, <1>12, <1>13

LEMMA AppendedIs ==
  ASSUME Typed, Appends
  PROVE  Appended = RecordOf(Whole)
<1>1. Base \in Content /\ op.batch \in Content /\ Whole = Base \o op.batch
  BY AppendsIs DEF Whole
<1>2. Base \in Seq(Chunk) /\ op.batch \in Seq(Chunk)
  BY <1>1, ContentIs
<1>3. Records(Whole) = Records(Base) + Records(op.batch) /\ Len(Whole) = Len(Base) + Len(op.batch)
  BY <1>1, <1>2, RecordsJoined, Joined
<1> QED
  BY <1>3, AppendsIs DEF Appended, RecordOf

LEMMA JournaledIs ==
  ASSUME Typed, Journaled
  PROVE  /\ Appends /\ fs.aj = Journal /\ IsDirOf(meta) /\ IsDirOf(cache) /\ meta \in MaybeMeta
         /\ Holds(Without(fs.dir, Targets(Journal)), Base) /\ AppendTargets = Targets(Journal)
         /\ IsDirOf(op.prev) /\ op.prev \in MaybeMeta
         /\ Whole \in Content /\ IsDirOf(RecordOf(Whole)) /\ RecordOf(Whole) \in MaybeMeta
<1>1. Appends /\ Whole \in Content
  BY AppendsIs DEF Journaled
<1>2. IsDirOf(RecordOf(Whole)) /\ RecordOf(Whole) \in MaybeMeta
  BY <1>1, RecordIs DEF MaybeMeta
<1> QED
  BY <1>1, <1>2, AppendsIs, TypedIs DEF Journaled

(* A step that touches neither the journals nor the backup.                *)
LEMMA JournaledStays ==
  ASSUME Typed, Journaled, op' = op, writes' = writes, fs'.oj = fs.oj, fs'.bak = fs.bak,
         fs'.ready = fs.ready, fs'.aj = fs.aj, IsDirOf(meta'), IsDirOf(cache'),
         Without(fs'.dir, Targets(Journal)) = Without(fs.dir, Targets(Journal))
  PROVE  Journaled' /\ Base' = Base /\ Whole' = Whole /\ Journal' = Journal
<1>1. Appends' /\ Base' = Base /\ Whole' = Whole /\ Journal' = Journal
  BY JournaledIs, AppendsStays
<1> QED
  BY <1>1, JournaledIs DEF Journaled

LEMMA StepAppMeta ==
  ASSUME Typed, AtAppMeta, Save(Appended, "appDelJ", "appUndoM"), UNCHANGED bounds
  PROVE  Typed' /\ Where'
<1>1. Journaled /\ DirIs(fs.dir, Whole) /\ Appends /\ writes' = writes
  BY JournaledIs DEF AtAppMeta, bounds
<1>2. PICK rec : rec = RecordOf(Whole) /\ rec \in MaybeMeta /\ IsDirOf(rec) /\ rec = Appended
  BY <1>1, JournaledIs, AppendedIs
<1>3. /\ faults' \in 0..MaxFaults /\ fs' = fs /\ cache' = rec /\ meta' \in MaybeMeta /\ meta' \in {meta, rec}
      /\ dirty' \in BOOLEAN /\ (~dirty' => cache' = meta')
      /\ \/ meta' = rec /\ To("appDelJ")
         \/ To("appUndoM")
  BY <1>2, SaveIs
<1>4. op' = op /\ ((pc' = "appDelJ" /\ meta' = rec) \/ pc' = "appUndoM")
  BY <1>3, ToLabel
<1>5. Journaled' /\ Whole' = Whole
  BY <1>1, <1>2, <1>3, <1>4, JournaledStays, JournaledIs
<1>6. Typed'
  BY <1>2, <1>3, <1>4, SaveTyped, TypedIs
<1>7. CASE pc' = "appDelJ" /\ meta' = rec
  <2>1. AtAppDelJ'
    BY <1>1, <1>2, <1>3, <1>5, <1>7 DEF AtAppDelJ, Both
  <2> QED
    BY <1>6, <1>7, <2>1 DEF Where, Labels
<1>8. CASE pc' = "appUndoM"
  BY <1>5, <1>6, <1>8 DEF Where, Labels
<1> QED
  BY <1>4, <1>7, <1>8

(* An append has its files and its record: the journal goes.               *)
LEMMA StepAppDelJ ==
  ASSUME Confined, Typed, AtAppDelJ, DropAppendJournal("ok", "appUndoM"),
         UNCHANGED record, UNCHANGED bounds
  PROVE  Typed' /\ Where'
<1>1. meta' = meta /\ cache' = cache /\ dirty' = dirty /\ writes' = writes
  BY DEF record, bounds
<1>2. /\ Journaled /\ Appends /\ DirIs(fs.dir, Whole) /\ Whole \in Content /\ Base \in Content
      /\ op.batch \in Content /\ meta = RecordOf(Whole) /\ cache = RecordOf(Whole)
      /\ IsDirOf(RecordOf(Whole)) /\ op.ret # <<>> /\ op.from \in Content
      /\ Whole = Base \o op.batch
  BY JournaledIs, AppendsIs DEF AtAppDelJ, Both, Whole
<1>3. /\ faults' \in 0..MaxFaults
      /\ \/ fs' = [fs EXCEPT !.aj = NoJournal] /\ To("ok")
         \/ fs' = fs /\ To("appUndoM")
  BY CallIs DEF DropAppendJournal
<1>4. CASE fs' = fs /\ To("appUndoM")
  <2>1. pc' = "appUndoM" /\ op' = op
    BY <1>4, ToLabel
  <2>2. Journaled'
    BY <1>1, <1>2, <1>4, <2>1, JournaledStays, JournaledIs
  <2>3. Typed'
    BY <1>1, <1>3, <1>4, <2>1, DiskTyped, TypedIs
  <2> QED
    BY <2>1, <2>2, <2>3 DEF Where, Labels
<1>5. CASE fs' = [fs EXCEPT !.aj = NoJournal] /\ To("ok")
  <2>1. /\ FsType(fs') /\ fs'.dir = fs.dir /\ fs'.bak = fs.bak /\ fs'.ready = fs.ready
        /\ fs'.aj = NoJournal /\ fs'.oj = fs.oj
    <3>1. FsType(fs) /\ NoJournal \in AppendJournal \cup {NoJournal}
      BY TypedIs
    <3> QED
      BY <1>5, <3>1, SetAj
  <2>2. /\ pc' = Head(op.ret)["ok"] /\ op' \in OpRec /\ op'.ret = Tail(op.ret) /\ op'.kind = op.kind
        /\ op'.data = op.data /\ op'.from = op.from /\ op'.prev = op.prev
    BY <1>2, <1>5, ToReturn, TypedIs
  <2>3. Typed'
    BY <1>1, <1>3, <2>1, <2>2, DiskTyped, TypedIs
  <2>4. CASE AppendsNew
    <3>1. pc' = "okDone"
      BY <2>2, <2>4, OrFailIs, Stack1 DEF AppendsNew, Returns
    <3>2. Target' = Whole
      BY <2>2, <2>4 DEF AppendsNew, Target, Whole, Base
    <3>3. Agree(fs', meta', cache', Whole)
      BY <1>1, <1>2, <2>1, <2>4, AgreePlain DEF AppendsNew, Holds
    <3>4. AtDone'
      BY <3>2, <3>3 DEF AtDone
    <3> QED
      BY <2>3, <3>1, <3>4 DEF Where, Labels
  <2>5. CASE AppendsRenew
    <3>1. pc' = "wMeta" /\ Renewing /\ op.batch = op.data /\ Base = <<>>
      BY <2>2, <2>5, RenewIs, RenewingIs DEF AppendsRenew, Base
    <3>2. Whole = op.data
      BY <1>2, <3>1, NothingJoined
    <3>3. Renewing'
      BY <1>1, <1>2, <2>1, <2>2, <3>1, RenewingStays
    <3>4. AtWMeta'
      BY <1>1, <1>2, <2>1, <2>2, <3>2, <3>3 DEF AtWMeta, Filled, Both
    <3> QED
      BY <2>3, <3>1, <3>4 DEF Where, Labels
  <2>6. CASE AppendsRedo
    <3>1. PICK b \in Bodies : op.ret = Redo(b) /\ Redoing(b) /\ op.batch = op.from
      BY <2>6 DEF AppendsRedo
    <3>2. /\ pc' = "roDelOld" /\ op'.ret = b /\ Base = <<>> /\ fs.oj \in OldJournal
          /\ op.from = fs.oj.prev /\ fs.bak = NoDir
      BY <2>2, <3>1, BodyIs, RedoingIs DEF Base
    <3>3. Whole = op.from
      BY <1>2, <3>1, <3>2, NothingJoined
    <3>4. Redoing(b)'
      BY <1>1, <1>2, <2>1, <2>2, <3>1, RedoingStays
    <3>5. Agree(fs', meta', cache', op.from)
      <4>1. /\ Files(fs.dir) = 0..(Len(Whole) - 1) /\ Listing(fs.dir) = Whole
            /\ RecordOf(Whole).count = Records(Whole) /\ RecordOf(Whole).chunks = Len(Whole)
        BY <1>2, DirListing, RecordIs
      <4>2. Counted(fs', RecordOf(Whole), op.from)
        BY <2>1, <3>2, <3>3, <4>1 DEF Counted
      <4>3. OldPrev(fs', RecordOf(Whole), op.from)
        BY <2>1, <3>2, <4>2 DEF OldPrev
      <4>4. Stands(fs', RecordOf(Whole), op.from)
        BY <1>2, <4>3, StandsChunked
      <4> QED
        BY <1>1, <1>2, <4>4 DEF Agree
    <3>6. AtDelOld'
      BY <1>1, <1>2, <2>1, <2>2, <3>2, <3>3, <3>4, <3>5 DEF AtDelOld, RecO, Same, Both, Redoing, Holds
    <3> QED
      BY <2>3, <3>2, <3>6 DEF Where, Labels
  <2> QED
    BY <1>2, <2>4, <2>5, <2>6 DEF Appends
<1> QED
  BY <1>3, <1>4, <1>5

(* The chunks of the append are deleted, or only some of them.             *)
LEMMA UndoIs ==
  ASSUME Confined, Typed, Journaled, NEW n, n \notin {"ok", "err"}, DeleteChunks(AppendTargets, n, "err"),
         UNCHANGED record, UNCHANGED bounds
  PROVE  /\ Typed' /\ FsType(fs') /\ fs'.oj = fs.oj /\ fs'.aj = fs.aj
         /\ \/ /\ op' = op /\ pc' = n /\ Journaled' /\ Holds(fs'.dir, Base) /\ Base' = Base
            \/ Where'
<1>1. meta' = meta /\ cache' = cache /\ dirty' = dirty /\ writes' = writes
  BY DEF record, bounds
<1> DEFINE S == Targets(Journal)
<1>2. AppendTargets = S /\ Appends /\ Holds(Without(fs.dir, S), Base) /\ fs.aj = Journal
      /\ IsDirOf(meta) /\ IsDirOf(cache)
  BY JournaledIs
<1> HIDE DEF S
<1>3. /\ faults' \in 0..MaxFaults
      /\ \/ fs' = [fs EXCEPT !.dir = Without(fs.dir, S)] /\ To(n)
         \/ fs' \in {fs} \cup ChunksLeft(S) /\ To("err")
  BY <1>2, CallIs DEF DeleteChunks
<1>4. PICK T : T \subseteq S /\ fs' = [fs EXCEPT !.dir = Without(fs.dir, T)]
               /\ ((To(n) /\ T = S) \/ To("err"))
  <2>1. CASE fs' = [fs EXCEPT !.dir = Without(fs.dir, S)] /\ To(n)
    BY <2>1
  <2>2. CASE fs' = fs /\ To("err")
    <3>1. Without(fs.dir, {}) = fs.dir
      BY WithoutIs, FilesOf, TypedIs
    <3>2. fs = [fs EXCEPT !.dir = fs.dir]
      BY TypedIs DEF FsType, FsRec
    <3> QED
      BY <2>2, <3>1, <3>2
  <2>3. CASE fs' \in ChunksLeft(S) /\ To("err")
    BY <2>3 DEF ChunksLeft
  <2> QED
    BY <1>3, <2>1, <2>2, <2>3
<1>5. Without(fs.dir, T) \in MaybeDir /\ Without(Without(fs.dir, T), S) = Without(fs.dir, S)
  BY <1>4, WithoutIs, WithoutMore, FilesOf, TypedIs
<1>6. /\ FsType(fs') /\ fs'.dir = Without(fs.dir, T) /\ fs'.bak = fs.bak /\ fs'.ready = fs.ready
      /\ fs'.aj = fs.aj /\ fs'.oj = fs.oj
  BY <1>4, <1>5, SetDir, TypedIs
<1>7. CASE To(n) /\ T = S
  <2>1. op' = op /\ pc' = n
    BY <1>7, ToLabel
  <2>2. Journaled' /\ Base' = Base
    BY <1>1, <1>2, <1>5, <1>6, <2>1, JournaledStays DEF S
  <2>3. Typed'
    BY <1>1, <1>3, <1>6, <2>1, DiskTyped, TypedIs
  <2> QED
    BY <1>2, <1>6, <1>7, <2>1, <2>2, <2>3
<1>8. CASE To("err")
  <2>1. Agree(fs', meta', cache', op.from) /\ IsDirOf(cache')
    BY <1>1, <1>2, <1>5, <1>6, JournaledAgree DEF S
  <2>2. op' \in OpRec /\ Where'
    BY <1>2, <1>6, <1>8, <2>1, AppendErr
  <2> QED
    BY <1>1, <1>3, <1>6, <2>2, DiskTyped, TypedIs
<1> QED
  BY <1>4, <1>7, <1>8

LEMMA StepAppUndo ==
  ASSUME Confined, Typed, AtAppUndo, DeleteChunks(AppendTargets, "appUndoJ", "err"),
         UNCHANGED record, UNCHANGED bounds
  PROVE  Typed' /\ Where'
<1>1. Journaled /\ Both(op.prev)
  BY DEF AtAppUndo
<1>2. Typed'
  BY <1>1, UndoIs
<1>3. CASE op' = op /\ pc' = "appUndoJ" /\ Journaled' /\ Holds(fs'.dir, Base) /\ Base' = Base
  <2>1. AtAppUndoJ'
    BY <1>1, <1>3 DEF AtAppUndoJ, Both, record
  <2> QED
    BY <1>2, <1>3, <2>1 DEF Where, Labels
<1> QED
  BY <1>1, <1>2, <1>3, UndoIs

LEMMA StepAppUndoM ==
  ASSUME Confined, Typed, Journaled, DeleteChunks(AppendTargets, "appUndoMeta", "err"),
         UNCHANGED record, UNCHANGED bounds
  PROVE  Typed' /\ Where'
<1>1. Typed'
  BY UndoIs
<1>2. CASE op' = op /\ pc' = "appUndoMeta" /\ Journaled' /\ Holds(fs'.dir, Base) /\ Base' = Base
  <2>1. AtAppUndoMeta'
    BY <1>2 DEF AtAppUndoMeta
  <2> QED
    BY <1>1, <1>2, <2>1 DEF Where, Labels
<1> QED
  BY <1>1, <1>2, UndoIs

LEMMA StepAppUndoMeta ==
  ASSUME Typed, AtAppUndoMeta, Save(op.prev, "appUndoJ", "err"), UNCHANGED bounds
  PROVE  Typed' /\ Where'
<1>1. /\ Journaled /\ Appends /\ Holds(fs.dir, Base) /\ IsDirOf(op.prev) /\ op.prev \in MaybeMeta
      /\ IsDirOf(meta) /\ writes' = writes /\ fs.aj = Journal
      /\ Holds(Without(fs.dir, Targets(Journal)), Base)
  BY JournaledIs DEF AtAppUndoMeta, bounds
<1>2. PICK rec : rec = op.prev /\ rec \in MaybeMeta
  BY <1>1
<1>3. /\ faults' \in 0..MaxFaults /\ fs' = fs /\ cache' = rec /\ meta' \in MaybeMeta /\ meta' \in {meta, rec}
      /\ dirty' \in BOOLEAN /\ (~dirty' => cache' = meta')
      /\ \/ meta' = rec /\ To("appUndoJ")
         \/ To("err")
  BY <1>2, SaveIs
<1>4. IsDirOf(meta') /\ IsDirOf(cache')
  BY <1>1, <1>2, <1>3
<1>5. CASE meta' = rec /\ To("appUndoJ")
  <2>1. pc' = "appUndoJ" /\ op' = op
    BY <1>5, ToLabel
  <2>2. Journaled' /\ Base' = Base
    BY <1>1, <1>3, <1>4, <2>1, JournaledStays
  <2>3. AtAppUndoJ'
    BY <1>1, <1>2, <1>3, <1>5, <2>1, <2>2 DEF AtAppUndoJ, Both
  <2>4. Typed'
    BY <1>2, <1>3, <2>1, SaveTyped, TypedIs
  <2> QED
    BY <2>1, <2>3, <2>4 DEF Where, Labels
<1>6. CASE To("err")
  <2>1. Agree(fs', meta', cache', op.from)
    BY <1>1, <1>3, <1>4, JournaledAgree, TypedIs
  <2>2. op' \in OpRec /\ Where'
    BY <1>1, <1>3, <1>4, <1>6, <2>1, AppendErr
  <2> QED
    BY <1>2, <1>3, <2>2, SaveTyped
<1> QED
  BY <1>3, <1>5, <1>6

LEMMA StepAppUndoJ ==
  ASSUME Confined, Typed, AtAppUndoJ, DropAppendJournal("err", "err"),
         UNCHANGED record, UNCHANGED bounds
  PROVE  Typed' /\ Where'
<1>1. meta' = meta /\ cache' = cache /\ dirty' = dirty /\ writes' = writes
  BY DEF record, bounds
<1>2. /\ Journaled /\ Appends /\ Holds(fs.dir, Base) /\ IsDirOf(op.prev) /\ meta = op.prev /\ cache = op.prev
      /\ fs.aj = Journal /\ Holds(Without(fs.dir, Targets(Journal)), Base)
  BY JournaledIs DEF AtAppUndoJ, Both
<1>3. /\ faults' \in 0..MaxFaults /\ To("err")
      /\ fs' = [fs EXCEPT !.aj = NoJournal] \/ fs' = fs
  BY CallIs DEF DropAppendJournal
<1>4. /\ FsType(fs') /\ fs'.dir = fs.dir /\ fs'.bak = fs.bak /\ fs'.ready = fs.ready
      /\ fs'.aj \in {NoJournal, fs.aj} /\ fs'.oj = fs.oj
  <2>1. CASE fs' = fs
    BY <2>1, TypedIs
  <2>2. CASE fs' = [fs EXCEPT !.aj = NoJournal]
    <3>1. FsType(fs) /\ NoJournal \in AppendJournal \cup {NoJournal}
      BY TypedIs
    <3> QED
      BY <2>2, <3>1, SetAj
  <2> QED
    BY <1>3, <2>1, <2>2
<1>5. Agree(fs', meta', cache', op.from) /\ IsDirOf(cache')
  <2>1. CASE fs'.aj = NoJournal
    BY <1>1, <1>2, <1>4, <2>1, AppendsAgree
  <2>2. CASE fs'.aj = fs.aj
    BY <1>1, <1>2, <1>4, <2>2, JournaledAgree
  <2> QED
    BY <1>1, <1>2, <1>4, <2>1, <2>2
<1>6. op' \in OpRec /\ Where'
  BY <1>2, <1>3, <1>4, <1>5, AppendErr
<1> QED
  BY <1>1, <1>3, <1>4, <1>6, DiskTyped, TypedIs

-----------------------------------------------------------------------------
(* Overwriting: wStart to wCatch.                                          *)

(* Without a journal the record counts what the directory holds.           *)
LEMMA PlainIs ==
  ASSUME Typed, Same, IsChunked, fs.aj = NoJournal, fs.oj = NoJournal
  PROVE  /\ op.from \in Content /\ cache = RecordOf(op.from) /\ meta = RecordOf(op.from)
         /\ Holds(fs.dir, op.from)
<1>1. /\ op.from \in Content /\ IsDirOf(meta) /\ IsDirOf(cache)
      /\ Stands(fs, meta, op.from) /\ Stands(fs, cache, op.from)
  BY SameRecords DEF IsChunked
<1>2. Plain(fs, meta, op.from) /\ Plain(fs, cache, op.from)
  BY <1>1, StandsRecord, TypedIs, JournalsApart DEF Appending, Split, Sealed, OldTarget, OldPrev
<1> QED
  BY <1>1, <1>2 DEF Plain

LEMMA StepWStart ==
  ASSUME Confined, Typed, AtWStart, StartOverwrite, UNCHANGED record, UNCHANGED bounds
  PROVE  Typed' /\ Where'
<1>1. meta' = meta /\ cache' = cache /\ dirty' = dirty /\ writes' = writes /\ crashes' = crashes
  BY DEF record, bounds
<1>2. /\ op.kind = "overwrite" /\ op.ret = <<>> /\ Same /\ fs.aj = NoJournal /\ fs.oj = NoJournal
      /\ IsChunked /\ fs.ready < writes /\ op.from \in Content /\ cache = RecordOf(op.from)
      /\ meta = RecordOf(op.from) /\ Holds(fs.dir, op.from) /\ writes \in Nat /\ fs.ready \in Nat
      /\ IsDirOf(cache) /\ cache.count = Records(op.from) /\ cache.chunks = Len(op.from)
      /\ cache.count \in Nat /\ cache.chunks \in Nat
  BY PlainIs, TypedIs, RecordIs DEF AtWStart
<1> DEFINE j == [id |-> writes, dirExisted |-> fs.dir # NoDir, count |-> cache.count, chunks |-> cache.chunks]
<1>3. /\ j \in OverwriteJournal /\ j.id = writes /\ j.id # 0 /\ j.count = Records(op.from)
      /\ j.chunks = Len(op.from)
  BY <1>2 DEF OverwriteJournal
<1>4. /\ faults' \in 0..MaxFaults
      /\ \/ fs' = [fs EXCEPT !.oj = j] /\ To("wMkBak")
         \/ fs' = fs /\ To("failed")
  <2>1. \/ To("failed") /\ UNCHANGED disk
        \/ Call([fs EXCEPT !.oj = j], {}, "wMkBak", "failed")
    BY DEF StartOverwrite
  <2>2. CASE To("failed") /\ UNCHANGED disk
    BY <2>2, TypedIs DEF disk
  <2>3. CASE Call([fs EXCEPT !.oj = j], {}, "wMkBak", "failed")
    BY <2>3, CallIs
  <2> QED
    BY <2>1, <2>2, <2>3
<1> HIDE DEF j
<1>5. CASE fs' = [fs EXCEPT !.oj = j] /\ To("wMkBak")
  <2>1. /\ FsType(fs') /\ fs'.dir = fs.dir /\ fs'.bak = fs.bak /\ fs'.ready = fs.ready
        /\ fs'.aj = fs.aj /\ fs'.oj = j
    <3>1. FsType(fs) /\ j \in OverwriteJournal \cup {NoJournal}
      BY <1>3, TypedIs
    <3> QED
      BY <1>3, <1>5, <3>1, SetOj
  <2>2. pc' = "wMkBak" /\ op' = op
    BY <1>5, ToLabel
  <2>3. Split(fs', op.from)
    BY <1>2, <1>3, <2>1 DEF Split, Counts
  <2>4. Agree(fs', meta, cache, op.from)
    BY <1>2, <2>3, AgreeBehind
  <2>5. AtWMkBak'
    BY <1>1, <1>2, <2>1, <2>2, <2>3, <2>4 DEF AtWMkBak, Overwriting, Same, IsChunked
  <2>6. Typed'
    BY <1>1, <1>2, <1>3, <1>4, <2>1, <2>2 DEF Typed
  <2> QED
    BY <2>2, <2>5, <2>6 DEF Where, Labels
<1>6. CASE fs' = fs /\ To("failed")
  <2>1. pc' = "failed" /\ op' = op
    BY <1>6, ToLabel
  <2>2. Same'
    BY <1>1, <1>2, <1>6, <2>1 DEF Same
  <2> QED
    BY <1>1, <1>4, <1>6, <2>1, <2>2, DiskTyped, TypedIs, Failed
<1> QED
  BY <1>4, <1>5, <1>6

(* An error of the overwrite runs the recovery.                            *)
LEMMA OverwriteErr ==
  ASSUME Typed, op.kind = "overwrite", To("wCatch"), Agree(fs', meta', cache', op.from),
         fs'.oj \in OverwriteJournal, cache' # NoTable
  PROVE  op' = op /\ Where'
<1>1. pc' = "wCatch" /\ op' = op
  BY ToLabel
<1>2. AtWCatch'
  BY <1>1 DEF AtWCatch, Same
<1> QED
  BY <1>1, <1>2 DEF Where, Labels

LEMMA SetBakOnly ==
  ASSUME NEW f, FsType(f), NEW d \in Dir, NEW g, g = [f EXCEPT !.bak = d]
  PROVE  /\ FsType(g) /\ g.dir = f.dir /\ g.bak = d /\ g.ready = f.ready /\ g.aj = f.aj
         /\ g.oj = f.oj /\ g.single = f.single
  BY Apart DEF FsType, FsRec, MaybeDir

LEMMA OverwritingIs ==
  ASSUME Typed, Overwriting
  PROVE  /\ op.kind = "overwrite" /\ op.ret = <<>> /\ op.from \in Content /\ IsChunked /\ Same
         /\ IsDirOf(meta) /\ IsDirOf(cache) /\ cache # NoTable
  BY SameRecords DEF Overwriting, IsChunked

LEMMA StepWMkBak ==
  ASSUME Confined, Typed, AtWMkBak,
         IF fs.bak # NoDir THEN To("wCatch") /\ UNCHANGED disk
         ELSE Call([fs EXCEPT !.bak = EmptyDir], {}, "wMove", "wCatch"),
         UNCHANGED record, UNCHANGED bounds
  PROVE  Typed' /\ Where'
<1>1. meta' = meta /\ cache' = cache /\ dirty' = dirty /\ writes' = writes
  BY DEF record, bounds
<1>2. /\ Overwriting /\ Split(fs, op.from) /\ Holds(fs.dir, op.from) /\ op.from \in Content
      /\ IsChunked /\ Same /\ IsDirOf(meta) /\ IsDirOf(cache) /\ cache # NoTable
      /\ op.kind = "overwrite" /\ fs.oj \in OverwriteJournal /\ fs.aj = NoJournal
  BY OverwritingIs DEF AtWMkBak, Split
<1>3. /\ faults' \in 0..MaxFaults
      /\ \/ fs.bak = NoDir /\ fs' = [fs EXCEPT !.bak = EmptyDir] /\ To("wMove")
         \/ fs' = fs /\ To("wCatch")
  <2>1. CASE fs.bak # NoDir
    BY <2>1, TypedIs DEF disk
  <2>2. CASE fs.bak = NoDir
    <3>1. Call([fs EXCEPT !.bak = EmptyDir], {}, "wMove", "wCatch")
      BY <2>2
    <3> QED
      BY <2>2, <3>1, CallIs
  <2> QED
    BY <2>1, <2>2
<1>4. CASE fs.bak = NoDir /\ fs' = [fs EXCEPT !.bak = EmptyDir] /\ To("wMove")
  <2>1. /\ FsType(fs') /\ fs'.dir = fs.dir /\ fs'.bak = EmptyDir /\ fs'.ready = fs.ready
        /\ fs'.aj = fs.aj /\ fs'.oj = fs.oj
    BY <1>4, SetBakOnly, EmptyDirIs, TypedIs
  <2>2. pc' = "wMove" /\ op' = op /\ fs.ready = 0
    BY <1>4, ToLabel, FilesOf, TypedIs
  <2>3. Split(fs', op.from)
    BY <1>2, <2>1 DEF Split
  <2>4. Agree(fs', meta, cache, op.from)
    BY <1>2, <2>3, AgreeBehind
  <2>5. EmptyDir \in Dir /\ Partial(EmptyDir, op.from)
    BY EmptyDirIs DEF Partial, EmptyDir
  <2>6. AtWMove'
    BY <1>1, <1>2, <2>1, <2>2, <2>3, <2>4, <2>5 DEF AtWMove, Overwriting, Same, IsChunked
  <2>7. Typed'
    BY <1>1, <1>3, <2>1, <2>2, DiskTyped, TypedIs
  <2> QED
    BY <2>2, <2>6, <2>7 DEF Where, Labels
<1>5. CASE fs' = fs /\ To("wCatch")
  <2>1. op' = op /\ Where'
    BY <1>1, <1>2, <1>5, OverwriteErr DEF Same
  <2> QED
    BY <1>1, <1>3, <1>5, <2>1, DiskTyped, TypedIs
<1> QED
  BY <1>3, <1>4, <1>5

(* Chunk by chunk the directory moves into the backup.                     *)
LEMMA MoveIs ==
  ASSUME Typed, BackupChunk
  PROVE  \/ Files(fs.dir) = {} /\ To("wReady") /\ UNCHANGED disk
         \/ \E i \in Files(fs.dir) :
              Call([fs EXCEPT !.bak[i] = fs.dir[i], !.dir[i] = Absent], {}, "wMove", "wCatch")
<1>1. CASE Files(fs.dir) = {}
  BY <1>1 DEF BackupChunk
<1>2. CASE Files(fs.dir) # {}
  <2> DEFINE i == CHOOSE x \in Files(fs.dir) : \A y \in Files(fs.dir) : x <= y
  <2>1. Call([fs EXCEPT !.bak[i] = fs.dir[i], !.dir[i] = Absent], {}, "wMove", "wCatch")
    BY <1>2, Zenon DEF BackupChunk
  <2>2. \E x \in Files(fs.dir) : \A y \in Files(fs.dir) : x <= y
    <3> HIDE DEF i
    <3>1. Files(fs.dir) \subseteq Nat
      BY FilesIs, FilesOf, TypedIs, Apart DEF Idx
    <3>2. PICK x \in Files(fs.dir) : \A y \in Files(fs.dir) : ~ (<<y, x>> \in OpToRel(<, Nat))
      BY <1>2, <3>1, NatLessThanWellFounded, WFMin
    <3>3. \A y \in Files(fs.dir) : ~ (y < x)
      BY <3>1, <3>2 DEF OpToRel
    <3> QED
      BY <3>1, <3>3
  <2>3. i \in Files(fs.dir)
    BY <2>2
  <2> HIDE DEF i
  <2> QED
    BY <2>1, <2>3
<1> QED
  BY <1>1, <1>2

WithBoth(f, d, c) == [f EXCEPT !.bak = d, !.dir = c]
MovedOne(f, i) == [f EXCEPT !.bak[i] = f.dir[i], !.dir[i] = Absent]

LEMMA MovedIs ==
  ASSUME NEW f, FsType(f), f.dir \in Dir, f.bak \in Dir, NEW i \in Idx, NEW g, g = MovedOne(f, i)
  PROVE  /\ FsType(g) /\ g.ready = f.ready /\ g.aj = f.aj /\ g.oj = f.oj /\ g.dir \in Dir /\ g.bak \in Dir
         /\ \A j \in Idx : g.bak[j] = IF j = i THEN f.dir[i] ELSE f.bak[j]
         /\ \A j \in Idx : g.dir[j] = IF j = i THEN Absent ELSE f.dir[j]
<1>1. PICK h, k \in Dir : h = f.bak /\ k = f.dir
  OBVIOUS
<1>2. PICK x, y \in Chunk \cup {Absent} : x = k[i] /\ y = Absent
  BY DEF Dir
<1>3. /\ [h EXCEPT ![i] = x] \in Dir
      /\ \A j \in Idx : [h EXCEPT ![i] = x][j] = IF j = i THEN x ELSE h[j]
  BY SetOne
<1>4. /\ [k EXCEPT ![i] = y] \in Dir
      /\ \A j \in Idx : [k EXCEPT ![i] = y][j] = IF j = i THEN y ELSE k[j]
  BY SetOne
<1>5. PICK d \in Dir : /\ d = [h EXCEPT ![i] = x]
                       /\ \A j \in Idx : d[j] = IF j = i THEN x ELSE h[j]
  BY <1>3
<1>6. PICK c \in Dir : /\ c = [k EXCEPT ![i] = y]
                       /\ \A j \in Idx : c[j] = IF j = i THEN y ELSE k[j]
  BY <1>4
<1>7. g = WithBoth(f, d, c)
  BY <1>1, <1>2, <1>5, <1>6 DEF WithBoth, MovedOne
<1>8. /\ FsType(g) /\ g.dir = c /\ g.bak = d /\ g.ready = f.ready /\ g.aj = f.aj
      /\ g.oj = f.oj /\ g.single = f.single
  <2>1. d \in Dir /\ c \in Dir
    BY <1>5, <1>6
  <2> QED
    <3>1. g = [f EXCEPT !.bak = d, !.dir = c]
      BY <1>7 DEF WithBoth
    <3> QED
      BY <2>1, <3>1, Apart DEF FsType, FsRec, MaybeDir
<1> QED
  BY <1>1, <1>2, <1>5, <1>6, <1>8

LEMMA MovingIs ==
  ASSUME Typed, AtWMove
  PROVE  /\ Overwriting /\ Split(fs, op.from) /\ fs.bak \in Dir /\ fs.ready = 0 /\ op.from \in Content
         /\ IsChunked /\ Same /\ IsDirOf(meta) /\ IsDirOf(cache) /\ cache # NoTable
         /\ op.kind = "overwrite" /\ op.ret = <<>> /\ fs.oj \in OverwriteJournal /\ fs.aj = NoJournal
         /\ fs.oj.id # 0 /\ fs.oj.id <= writes /\ fs.oj.id \in Nat
         /\ fs.dir \in MaybeDir
         /\ fs.dir # NoDir => Spread(fs, op.from) /\ fs.dir \in Dir
<1>1. /\ Overwriting /\ Split(fs, op.from) /\ fs.bak \in Dir /\ fs.ready = 0 /\ op.from \in Content
      /\ IsChunked /\ Same /\ IsDirOf(meta) /\ IsDirOf(cache) /\ cache # NoTable
      /\ op.kind = "overwrite" /\ op.ret = <<>> /\ fs.oj \in OverwriteJournal /\ fs.aj = NoJournal
      /\ Partial(fs.bak, op.from)
  BY OverwritingIs DEF AtWMove, Split
<1>2. fs.oj.id # 0 /\ fs.oj.id <= writes /\ fs.oj.id \in Nat
  BY <1>1 DEF Typed, FsType, OverwriteJournal
<1>3. fs.dir \in MaybeDir /\ (fs.dir # NoDir => fs.dir \in Dir)
  BY FilesOf, TypedIs DEF MaybeDir
<1>4. ASSUME fs.dir \in Dir PROVE Spread(fs, op.from)
  <2>1. CASE Spread(fs, op.from)
    BY <2>1
  <2>2. CASE Holds(fs.dir, op.from)
    <3>1. \A i \in Idx : fs.dir[i] = IF i < Len(op.from) THEN op.from[i + 1] ELSE Absent
      BY <1>4, <2>2, Apart DEF Holds, DirIs
    <3>2. \A i \in Idx : fs.bak[i] = Absent \/ (i < Len(op.from) /\ fs.bak[i] = op.from[i + 1])
      BY <1>1, Apart DEF Partial
    <3>3. \A i \in Idx : i < Len(op.from) => op.from[i + 1] # Absent
      <4>1. \A i \in Idx : i \in Nat
        BY Apart DEF Idx
      <4> QED
        BY <1>1, <4>1, ContentAt, Apart
    <3> QED
      BY <1>1, <1>4, <3>1, <3>2, <3>3 DEF Spread
  <2> QED
    BY <1>1, <2>1, <2>2 DEF Split
<1> QED
  BY <1>1, <1>2, <1>3, <1>4

LEMMA StepWMove ==
  ASSUME Confined, Typed, AtWMove, BackupChunk, UNCHANGED record, UNCHANGED bounds
  PROVE  Typed' /\ Where'
<1>1. meta' = meta /\ cache' = cache /\ dirty' = dirty /\ writes' = writes
  BY DEF record, bounds
<1>2. CASE Files(fs.dir) = {} /\ To("wReady") /\ UNCHANGED disk
  <2>1. pc' = "wReady" /\ op' = op /\ fs' = fs /\ faults' = faults
    BY <1>2, ToLabel DEF disk
  <2>2. AtWReady'
    BY <1>1, <1>2, <2>1 DEF AtWReady, AtWMove, Overwriting, Same, IsChunked
  <2>3. Typed'
    BY <1>1, <2>1, DiskTyped, TypedIs
  <2> QED
    BY <2>1, <2>2, <2>3 DEF Where, Labels
<1>3. ASSUME NEW i \in Files(fs.dir),
             Call([fs EXCEPT !.bak[i] = fs.dir[i], !.dir[i] = Absent], {}, "wMove", "wCatch")
      PROVE  Typed' /\ Where'
  <2>1. /\ faults' \in 0..MaxFaults
        /\ \/ fs' = [fs EXCEPT !.bak[i] = fs.dir[i], !.dir[i] = Absent] /\ To("wMove")
           \/ fs' = fs /\ To("wCatch")
    BY <1>3, CallIs
  <2>2. CASE fs' = fs /\ To("wCatch")
    <3>1. op' = op /\ Where'
      BY <1>1, <2>2, OverwriteErr, MovingIs DEF Same
    <3> QED
      BY <1>1, <2>1, <2>2, <3>1, DiskTyped, TypedIs
  <2>3. CASE fs' = [fs EXCEPT !.bak[i] = fs.dir[i], !.dir[i] = Absent] /\ To("wMove")
    <3>1. fs.dir \in Dir /\ fs.bak \in Dir /\ i \in Idx /\ fs.dir[i] # Absent /\ Spread(fs, op.from)
      <4>1. fs.dir # NoDir
        BY <1>3, FilesIs
      <4>2. fs.dir \in Dir /\ fs.bak \in Dir /\ Spread(fs, op.from)
        BY <4>1, MovingIs
      <4> QED
        BY <1>3, <4>2, FilesIs
    <3>2. PICK f, g : f = fs /\ g = fs' /\ g = MovedOne(f, i)
      BY <2>3 DEF MovedOne
    <3>3. /\ FsType(g) /\ g.ready = f.ready /\ g.aj = f.aj /\ g.oj = f.oj /\ g.dir \in Dir /\ g.bak \in Dir
          /\ \A j \in Idx : g.bak[j] = IF j = i THEN f.dir[i] ELSE f.bak[j]
          /\ \A j \in Idx : g.dir[j] = IF j = i THEN Absent ELSE f.dir[j]
      BY <3>1, <3>2, MovedIs, TypedIs
    <3>4. pc' = "wMove" /\ op' = op
      BY <2>3, ToLabel
    <3>5. i < Len(op.from) /\ fs.dir[i] = op.from[i + 1]
      BY <3>1 DEF Spread
    <3>6. \A j \in Idx :
            IF j < Len(op.from) THEN /\ {g.dir[j], g.bak[j]} \subseteq {Absent, op.from[j + 1]}
                                     /\ ~(g.dir[j] = Absent /\ g.bak[j] = Absent)
            ELSE g.dir[j] = Absent /\ g.bak[j] = Absent
      BY <3>1, <3>2, <3>3, <3>5 DEF Spread
    <3>7. Spread(g, op.from)
      BY <3>1, <3>2, <3>3, <3>6 DEF Spread
    <3>8. Split(g, op.from)
      BY <3>2, <3>3, <3>7, MovingIs DEF Split
    <3>9. Agree(g, meta, cache, op.from)
      BY <3>8, AgreeBehind, MovingIs
    <3>10. Partial(g.bak, op.from)
      BY <3>3, <3>6 DEF Partial
    <3>11. AtWMove'
      BY <1>1, <3>2, <3>3, <3>4, <3>8, <3>9, <3>10, MovingIs DEF AtWMove, Overwriting, Same, IsChunked
    <3>12. Typed'
      BY <1>1, <2>1, <3>2, <3>3, <3>4, DiskTyped, TypedIs
    <3> QED
      BY <3>4, <3>11, <3>12 DEF Where, Labels
  <2> QED
    BY <2>1, <2>2, <2>3
<1> QED
  BY <1>2, <1>3, MoveIs

LEMMA SetReady ==
  ASSUME NEW f, FsType(f), f.bak \in Dir, NEW r \in Nat, NEW g, g = [f EXCEPT !.ready = r]
  PROVE  /\ FsType(g) /\ g.dir = f.dir /\ g.bak = f.bak /\ g.ready = r /\ g.aj = f.aj
         /\ g.oj = f.oj /\ g.single = f.single
  BY Apart DEF FsType, FsRec, MaybeDir

(* The directory is empty: everything is in the backup.                    *)
LEMMA MovedAll ==
  ASSUME Typed, AtWReady
  PROVE  DirIs(fs.bak, op.from)
<1>1. /\ Split(fs, op.from) /\ fs.bak \in Dir /\ op.from \in Content /\ Files(fs.dir) = {}
      /\ fs.dir \in MaybeDir /\ Partial(fs.bak, op.from)
  BY MovingIs DEF AtWReady, AtWMove
<1>2. CASE fs.dir = NoDir
  <2>1. op.from = <<>>
    BY <1>1, <1>2, Apart DEF Split, Holds, DirIs, Spread
  <2>2. Len(op.from) = 0
    BY <2>1, NoContent
  <2>3. \A i \in Idx : fs.bak[i] = Absent
    <3>1. \A i \in Idx : i \in Nat
      BY Apart DEF Idx
    <3> QED
      BY <1>1, <2>2, <3>1, Apart DEF Partial
  <2>4. \A i \in Idx : ~(i < Len(op.from))
    BY <2>2, Apart DEF Idx
  <2> QED
    BY <1>1, <2>3, <2>4 DEF DirIs
<1>3. CASE fs.dir # NoDir
  <2>1. Spread(fs, op.from) /\ fs.dir \in Dir
    BY <1>3, MovingIs DEF AtWReady
  <2>2. \A i \in Idx : fs.dir[i] = Absent
    BY <1>1, <2>1, FilesIs
  <2>3. \A i \in Idx : fs.bak[i] = IF i < Len(op.from) THEN op.from[i + 1] ELSE Absent
    BY <2>1, <2>2 DEF Spread
  <2> QED
    BY <1>1, <2>3 DEF DirIs
<1> QED
  BY <1>2, <1>3

LEMMA StepWReady ==
  ASSUME Confined, Typed, AtWReady, MarkReady, UNCHANGED record, UNCHANGED bounds
  PROVE  Typed' /\ Where'
<1>1. meta' = meta /\ cache' = cache /\ dirty' = dirty /\ writes' = writes /\ crashes' = crashes
  BY DEF record, bounds
<1>2. AtWMove
  BY DEF AtWReady
<1>3. /\ faults' \in 0..MaxFaults
      /\ \/ fs' = [fs EXCEPT !.ready = fs.oj.id] /\ To("wClear")
         \/ fs' = fs /\ To("wCatch")
  <2>1. \/ To("wCatch") /\ UNCHANGED disk
        \/ Call([fs EXCEPT !.ready = fs.oj.id], {}, "wClear", "wCatch")
    BY DEF MarkReady
  <2>2. CASE To("wCatch") /\ UNCHANGED disk
    BY <2>2, TypedIs DEF disk
  <2>3. CASE Call([fs EXCEPT !.ready = fs.oj.id], {}, "wClear", "wCatch")
    BY <2>3, CallIs
  <2> QED
    BY <2>1, <2>2, <2>3
<1>4. CASE fs' = fs /\ To("wCatch")
  <2>1. op' = op /\ Where'
    BY <1>1, <1>2, <1>4, OverwriteErr, MovingIs DEF Same
  <2> QED
    BY <1>1, <1>3, <1>4, <2>1, DiskTyped, TypedIs
<1>5. CASE fs' = [fs EXCEPT !.ready = fs.oj.id] /\ To("wClear")
  <2>1. /\ FsType(fs') /\ fs'.dir = fs.dir /\ fs'.bak = fs.bak /\ fs'.ready = fs.oj.id
        /\ fs'.aj = fs.aj /\ fs'.oj = fs.oj
    <3>1. PICK r \in Nat : r = fs.oj.id
      BY <1>2, MovingIs
    <3> QED
      BY <1>2, <1>5, <3>1, SetReady, MovingIs, TypedIs
  <2>2. pc' = "wClear" /\ op' = op
    BY <1>5, ToLabel
  <2>3. Sealed(fs', op.from)
    BY <1>2, <2>1, MovedAll, MovingIs DEF Sealed, Split
  <2>4. AtWClear'
    BY <1>1, <1>2, <2>1, <2>2, <2>3, MovingIs DEF AtWClear, Renewing, IsChunked
  <2>5. Typed'
    BY <1>1, <1>2, <1>3, <2>1, <2>2, MovingIs DEF Typed
  <2> QED
    BY <2>2, <2>4, <2>5 DEF Where, Labels
<1> QED
  BY <1>3, <1>4, <1>5

LEMMA StepWClear ==
  ASSUME Typed, AtWClear, NewGeneration, UNCHANGED disk, UNCHANGED record, UNCHANGED bounds
  PROVE  Typed' /\ Where'
<1>1. fs' = fs /\ faults' = faults /\ meta' = meta /\ cache' = cache /\ dirty' = dirty /\ writes' = writes
  BY DEF disk, record, bounds
<1>2. Renewing /\ fs.aj = NoJournal /\ op.ret = <<>> /\ Same
  BY RenewingIs DEF AtWClear
<1>3. PICK r \in Seq(FrameType) : r = (IF op.data = <<>> THEN Renew ELSE RenewAll) /\ Run("clrDel", r)
  BY RenewIs DEF NewGeneration, Renew, RenewAll
<1>4. r \o op.ret = r
  BY <1>2, NoStack
<1>5. /\ pc' = "clrDel" /\ op' \in OpRec /\ op'.ret = r /\ op'.kind = op.kind /\ op'.data = op.data
      /\ op'.from = op.from
  BY <1>3, <1>4, RunsTo, TypedIs
<1>6. Renewing' /\ Same'
  BY <1>1, <1>2, <1>5 DEF Renewing, IsChunked, Same
<1>7. Clearing'
  BY <1>1, <1>2, <1>3, <1>5, <1>6 DEF Clearing
<1>8. Typed'
  BY <1>1, <1>5, DiskTyped, TypedIs
<1> QED
  BY <1>5, <1>7, <1>8 DEF Where, Labels

(* The new chunks and their record are in place.                           *)
LEMMA StepWMeta ==
  ASSUME Typed, AtWMeta, Save([cache EXCEPT !.count = Records(op.data)], "wDelJ", "wCatch"),
         UNCHANGED bounds
  PROVE  Typed' /\ Where'
<1>1. /\ Renewing /\ Filled(op.data) /\ meta = RecordOf(op.data) /\ cache = RecordOf(op.data)
      /\ op.data \in Content /\ IsDirOf(meta) /\ cache # NoTable /\ op.from \in Content
      /\ fs.oj \in OverwriteJournal /\ op.kind = "overwrite" /\ Same /\ writes' = writes
  BY RenewingIs, TypedIs DEF AtWMeta, Filled, Both, bounds, Renewing
<1>2. [cache EXCEPT !.count = Records(op.data)] = cache
  <2>1. PICK x, y \in Nat : x = Records(op.data) /\ y = Len(op.data)
    BY <1>1, RecordIs
  <2>2. [Chunked(x, y) EXCEPT !.count = x] = Chunked(x, y)
    BY DEF Chunked
  <2> QED
    BY <1>1, <2>1, <2>2 DEF RecordOf
<1>3. /\ faults' \in 0..MaxFaults /\ fs' = fs /\ cache' = cache /\ meta' = meta
      /\ dirty' \in BOOLEAN /\ (~dirty' => cache' = meta')
      /\ To("wDelJ") \/ To("wCatch")
  <2>1. Save(cache, "wDelJ", "wCatch") /\ cache \in MaybeMeta
    BY <1>2, TypedIs
  <2> QED
    BY <1>1, <2>1, SaveIs
<1>4. op' = op /\ pc' \in {"wDelJ", "wCatch"}
  BY <1>3, ToLabel
<1>5. AtWMeta' /\ Same' /\ AtWCatch'
  BY <1>1, <1>3, <1>4 DEF AtWMeta, Filled, Both, Renewing, IsChunked, Same, AtWCatch
<1>6. Typed'
  BY <1>3, <1>4, SaveTyped, TypedIs
<1> QED
  BY <1>4, <1>5, <1>6 DEF Where, Labels

LEMMA StepWDelJ ==
  ASSUME Confined, Typed, AtWMeta, DropOverwriteJournal("wDelBak", "wCatch"),
         UNCHANGED record, UNCHANGED bounds
  PROVE  Typed' /\ Where'
<1>1. meta' = meta /\ cache' = cache /\ dirty' = dirty /\ writes' = writes
  BY DEF record, bounds
<1>2. /\ Renewing /\ fs.aj = NoJournal /\ DirIs(fs.dir, op.data) /\ meta = RecordOf(op.data)
      /\ cache = RecordOf(op.data) /\ op.data \in Content /\ cache # NoTable
      /\ fs.oj \in OverwriteJournal /\ op.kind = "overwrite" /\ Same
  BY RenewingIs, TypedIs DEF AtWMeta, Filled, Both
<1>3. /\ faults' \in 0..MaxFaults
      /\ \/ fs' = [fs EXCEPT !.oj = NoJournal] /\ To("wDelBak")
         \/ fs' = fs /\ To("wCatch")
  BY CallIs DEF DropOverwriteJournal
<1>4. CASE fs' = [fs EXCEPT !.oj = NoJournal] /\ To("wDelBak")
  <2>1. /\ FsType(fs') /\ fs'.dir = fs.dir /\ fs'.ready = fs.ready /\ fs'.aj = fs.aj /\ fs'.oj = NoJournal
    <3>1. FsType(fs) /\ NoJournal \in OverwriteJournal \cup {NoJournal}
      BY TypedIs
    <3> QED
      BY <1>4, <3>1, SetOj
  <2>2. pc' = "wDelBak" /\ op' = op
    BY <1>4, ToLabel
  <2>3. Agree(fs', meta, cache, op.data)
    BY <1>2, <2>1, AgreePlain DEF Holds
  <2>4. AtWDelBak'
    BY <1>1, <1>2, <2>1, <2>2, <2>3 DEF AtWDelBak
  <2>5. Typed'
    BY <1>1, <1>3, <2>1, <2>2, DiskTyped, TypedIs
  <2> QED
    BY <2>2, <2>4, <2>5 DEF Where, Labels
<1>5. CASE fs' = fs /\ To("wCatch")
  <2>1. op' = op /\ Where'
    BY <1>1, <1>2, <1>5, OverwriteErr DEF Same
  <2> QED
    BY <1>1, <1>3, <1>5, <2>1, DiskTyped, TypedIs
<1> QED
  BY <1>3, <1>4, <1>5

LEMMA StepWDelBak ==
  ASSUME Confined, Typed, AtWDelBak, DropBackup("okDone", "okDone"), UNCHANGED record, UNCHANGED bounds
  PROVE  Typed' /\ Where'
<1>1. meta' = meta /\ cache' = cache /\ dirty' = dirty /\ writes' = writes
  BY DEF record, bounds
<1>2. /\ faults' \in 0..MaxFaults /\ To("okDone")
      /\ FsType(fs') /\ fs'.dir = fs.dir /\ fs'.aj = fs.aj /\ fs'.oj = fs.oj /\ fs'.single = fs.single
      /\ fs'.ready \in {0, fs.ready}
  BY DropBackupIs
<1>3. pc' = "okDone" /\ op' = op
  BY <1>2, ToLabel
<1>4. Agree(fs', meta', cache', op.data)
  BY <1>1, <1>2, AgreeAlone, TypedIs DEF AtWDelBak
<1>5. Target' = op.data
  BY <1>3 DEF Target, AtWDelBak
<1>6. AtDone'
  BY <1>4, <1>5 DEF AtDone
<1>7. Typed'
  BY <1>1, <1>2, <1>3, DiskTyped, TypedIs
<1> QED
  BY <1>3, <1>6, <1>7 DEF Where, Labels

LEMMA StepWCatch ==
  ASSUME Typed, AtWCatch, Run("recA", <<Frame("recO", "failed"), Frame("failed", "failed")>>),
         UNCHANGED disk, UNCHANGED record, UNCHANGED bounds
  PROVE  Typed' /\ Where'
<1>1. fs' = fs /\ faults' = faults /\ meta' = meta /\ cache' = cache /\ dirty' = dirty /\ writes' = writes
  BY DEF disk, record, bounds
<1>2. op.kind = "overwrite" /\ Same /\ fs.oj \notin OldJournal /\ cache # NoTable
  BY JournalsApart DEF AtWCatch
<1>3. PICK x, y \in FrameType : x = OrFail("recO") /\ y = OrFail("failed")
  BY OrFailIs DEF Returns
<1>4. Run("recA", <<x, y>>)
  BY <1>3 DEF OrFail
<1>5. PICK s \in Seq(FrameType) : s = op.ret
  BY TypedIs
<1>6. /\ <<x, y>> \o s \in Seq(FrameType) /\ <<x, y>> \o s # <<>> /\ Head(<<x, y>> \o s) = x
      /\ Tail(<<x, y>> \o s) = <<y>> \o s /\ <<y>> \o s # <<>> /\ Head(<<y>> \o s) = y
  BY Push1, Push2
<1>7. PICK r : r = <<x, y>> \o s
  OBVIOUS
<1>8. /\ pc' = "recA" /\ op' \in OpRec /\ op'.ret = r /\ op'.kind = op.kind /\ op'.from = op.from
  BY <1>4, <1>5, <1>6, <1>7, RunsTo, TypedIs
<1>9. Same'
  BY <1>1, <1>2, <1>8 DEF Same
<1>10. Ctx(Tail(r))'
  BY <1>1, <1>2, <1>3, <1>6, <1>7, <1>8 DEF Ctx
<1>11. RecA'
  BY <1>3, <1>6, <1>7, <1>8, <1>9, <1>10 DEF RecA, Entering
<1>12. Typed'
  BY <1>1, <1>8, DiskTyped, TypedIs
<1> QED
  BY <1>8, <1>11, <1>12 DEF Where, Labels

-----------------------------------------------------------------------------
(* The migration of a single-file table: mDelA to mClean.                  *)

LEMMA MigratingIs ==
  ASSUME Typed, Migrating
  PROVE  /\ Migrates /\ Same /\ op.from \in Content /\ op.data = op.from /\ op.batch = op.data
         /\ op.kind = "migrate" /\ meta = op.prev /\ cache = op.prev /\ op.prev = Single(op.from)
         /\ fs.single = op.from /\ fs.aj = NoJournal /\ fs.oj = NoJournal
<1>1. /\ Migrates /\ op.from \in Content /\ op.data = op.from /\ op.batch = op.data
      /\ op.kind = "migrate" /\ meta = op.prev /\ cache = op.prev /\ op.prev = Single(op.from)
      /\ fs.single = op.from /\ fs.aj = NoJournal /\ fs.oj = NoJournal
  BY DEF Migrating, Migrates, Both
<1>2. Agree(fs, meta, cache, op.from)
  BY <1>1, AgreeSingle
<1> QED
  BY <1>1, <1>2 DEF Same

(* Until its record is saved the migration touches nothing the table needs.*)
LEMMA MigratingKept ==
  ASSUME Typed, Migrating, UNCHANGED record, UNCHANGED bounds, op' = op, FsType(fs'),
         fs'.ready \in {0, fs.ready}, fs'.single = fs.single, fs'.aj = NoJournal, fs'.oj = NoJournal,
         faults' \in 0..MaxFaults
  PROVE  Typed' /\ Migrating' /\ (pc' = "failed" => Where')
<1>1. meta' = meta /\ cache' = cache /\ dirty' = dirty /\ writes' = writes
  BY DEF record, bounds
<1>2. Migrating'
  BY <1>1 DEF Migrating, Migrates, Both
<1>3. Typed'
  BY <1>1, DiskTyped, TypedIs
<1>4. Same'
  <2>1. Agree(fs', meta', cache', op.from)
    BY <1>1, MigratingIs, AgreeSingle
  <2> QED
    BY <2>1 DEF Same
<1> QED
  BY <1>2, <1>3, <1>4, Failed

LEMMA StepMDelA ==
  ASSUME Confined, Typed, Migrating, DropAppendJournal("mDelO", "failed"),
         UNCHANGED record, UNCHANGED bounds
  PROVE  Typed' /\ Where'
<1>1. /\ faults' \in 0..MaxFaults
      /\ \/ fs' = [fs EXCEPT !.aj = NoJournal] /\ To("mDelO")
         \/ fs' = fs /\ To("failed")
  BY CallIs DEF DropAppendJournal
<1>2. op' = op /\ pc' \in {"mDelO", "failed"}
  BY <1>1, ToLabel
<1>3. /\ FsType(fs') /\ fs'.ready = fs.ready /\ fs'.single = fs.single
      /\ fs'.aj = NoJournal /\ fs'.oj = NoJournal
  <2>1. FsType(fs) /\ fs.aj = NoJournal /\ fs.oj = NoJournal /\ NoJournal \in AppendJournal \cup {NoJournal}
    BY MigratingIs, TypedIs
  <2>2. CASE fs' = [fs EXCEPT !.aj = NoJournal]
    BY <2>1, <2>2, SetAj
  <2>3. CASE fs' = fs
    BY <2>1, <2>3
  <2> QED
    BY <1>1, <2>2, <2>3
<1>4. Typed' /\ Migrating' /\ (pc' = "failed" => Where')
  BY <1>1, <1>2, <1>3, MigratingKept
<1> QED
  BY <1>2, <1>4 DEF Where, Labels

LEMMA StepMDelO ==
  ASSUME Confined, Typed, Migrating, DropOverwriteJournal("mDelB", "failed"),
         UNCHANGED record, UNCHANGED bounds
  PROVE  Typed' /\ Where'
<1>1. /\ faults' \in 0..MaxFaults
      /\ \/ fs' = [fs EXCEPT !.oj = NoJournal] /\ To("mDelB")
         \/ fs' = fs /\ To("failed")
  BY CallIs DEF DropOverwriteJournal
<1>2. op' = op /\ pc' \in {"mDelB", "failed"}
  BY <1>1, ToLabel
<1>3. /\ FsType(fs') /\ fs'.ready = fs.ready /\ fs'.single = fs.single
      /\ fs'.aj = NoJournal /\ fs'.oj = NoJournal
  <2>1. FsType(fs) /\ fs.aj = NoJournal /\ fs.oj = NoJournal /\ NoJournal \in OverwriteJournal \cup {NoJournal}
    BY MigratingIs, TypedIs
  <2>2. CASE fs' = [fs EXCEPT !.oj = NoJournal]
    BY <2>1, <2>2, SetOj
  <2>3. CASE fs' = fs
    BY <2>1, <2>3
  <2> QED
    BY <1>1, <2>2, <2>3
<1>4. Typed' /\ Migrating' /\ (pc' = "failed" => Where')
  BY <1>1, <1>2, <1>3, MigratingKept
<1> QED
  BY <1>2, <1>4 DEF Where, Labels

LEMMA StepMDelB ==
  ASSUME Confined, Typed, Migrating, DropBackup("mReset", "failed"),
         UNCHANGED record, UNCHANGED bounds
  PROVE  Typed' /\ Where'
<1>1. /\ faults' \in 0..MaxFaults
      /\ FsType(fs') /\ fs'.dir = fs.dir /\ fs'.aj = fs.aj /\ fs'.oj = fs.oj /\ fs'.single = fs.single
      /\ fs'.ready \in {0, fs.ready} /\ (To("mReset") \/ To("failed"))
  BY DropBackupIs
<1>2. op' = op /\ pc' \in {"mReset", "failed"}
  BY <1>1, ToLabel
<1>3. Typed' /\ Migrating' /\ (pc' = "failed" => Where')
  BY <1>1, <1>2, MigratingKept, MigratingIs
<1> QED
  BY <1>2, <1>3 DEF Where, Labels

LEMMA ResetIs ==
  ASSUME Confined, Typed, NEW n, NEW e, ResetDir(n, e)
  PROVE  /\ faults' \in 0..MaxFaults
         /\ FsType(fs') /\ fs'.bak = fs.bak /\ fs'.ready = fs.ready /\ fs'.aj = fs.aj /\ fs'.oj = fs.oj
         /\ fs'.single = fs.single
         /\ (fs'.dir = NoDir /\ To(n)) \/ To(e)
<1>1. /\ faults' \in 0..MaxFaults
      /\ \/ fs' = [fs EXCEPT !.dir = NoDir] /\ To(n)
         \/ fs' \in {fs} \cup DirLeft /\ To(e)
  BY CallIs DEF ResetDir
<1>2. PICK d \in MaybeDir : fs' = [fs EXCEPT !.dir = d] /\ ((d = NoDir /\ To(n)) \/ To(e))
  BY <1>1, LeftIs DEF MaybeDir
<1>3. /\ FsType(fs') /\ fs'.dir = d /\ fs'.bak = fs.bak /\ fs'.ready = fs.ready /\ fs'.aj = fs.aj
      /\ fs'.oj = fs.oj /\ fs'.single = fs.single
  BY <1>2, SetDir, TypedIs
<1> QED
  BY <1>1, <1>2, <1>3

LEMMA StepMReset ==
  ASSUME Confined, Typed, Migrating, ResetDir("mMk", "failed"), UNCHANGED record, UNCHANGED bounds
  PROVE  Typed' /\ Where'
<1>1. /\ faults' \in 0..MaxFaults
      /\ FsType(fs') /\ fs'.ready = fs.ready /\ fs'.aj = fs.aj /\ fs'.oj = fs.oj
      /\ fs'.single = fs.single
      /\ (fs'.dir = NoDir /\ To("mMk")) \/ To("failed")
  BY ResetIs
<1>2. op' = op /\ pc' \in {"mMk", "failed"} /\ (pc' = "mMk" => fs'.dir = NoDir)
  BY <1>1, ToLabel
<1>3. Typed' /\ Migrating' /\ (pc' = "failed" => Where')
  BY <1>1, <1>2, MigratingKept, MigratingIs
<1>4. pc' = "mMk" => AtMMk'
  BY <1>2, <1>3 DEF AtMMk
<1> QED
  BY <1>2, <1>3, <1>4 DEF Where, Labels

LEMMA StepMCatch ==
  ASSUME Confined, Typed, Migrating, ResetDir("failed", "failed"), UNCHANGED record, UNCHANGED bounds
  PROVE  Typed' /\ Where'
<1>1. /\ faults' \in 0..MaxFaults
      /\ FsType(fs') /\ fs'.ready = fs.ready /\ fs'.aj = fs.aj /\ fs'.oj = fs.oj
      /\ fs'.single = fs.single /\ To("failed")
  BY ResetIs
<1>2. op' = op /\ pc' = "failed"
  BY <1>1, ToLabel
<1> QED
  BY <1>1, <1>2, MigratingKept, MigratingIs

LEMMA StepMMk ==
  ASSUME Confined, Typed, AtMMk, MakeDir("mWrite", "failed"), UNCHANGED record, UNCHANGED bounds
  PROVE  Typed' /\ Where'
<1>1. Migrating /\ fs.dir = NoDir
  BY DEF AtMMk
<1>2. /\ faults' \in 0..MaxFaults
      /\ (To("mWrite") /\ fs'.dir = MadeDir(fs.dir)) \/ To("failed")
      /\ FsType(fs') /\ fs'.ready = fs.ready /\ fs'.aj = fs.aj /\ fs'.oj = fs.oj
      /\ fs'.single = fs.single
  BY MakeDirIs
<1>3. op' = op /\ pc' \in {"mWrite", "failed"} /\ (pc' = "mWrite" => fs'.dir = MadeDir(fs.dir))
  BY <1>2, ToLabel
<1>4. Typed' /\ Migrating' /\ (pc' = "failed" => Where')
  BY <1>1, <1>2, <1>3, MigratingKept, MigratingIs
<1>5. pc' = "mWrite" => AtMWrite'
  BY <1>1, <1>3, <1>4, EmptyDirIs DEF AtMWrite, MadeDir
<1> QED
  BY <1>3, <1>4, <1>5 DEF Where, Labels

LEMMA StepMWrite ==
  ASSUME Confined, Typed, AtMWrite, WriteChunks(0, "mCheck", "mCatch"),
         UNCHANGED record, UNCHANGED bounds
  PROVE  Typed' /\ Where'
<1>1. /\ Migrating /\ DirIs(fs.dir, <<>>) /\ op.batch = op.data /\ op.data \in Content
      /\ fs.dir = EmptyDir
  BY MigratingIs, EmptyDirOnly DEF AtMWrite
<1> DEFINE w == With(fs.dir, 0, op.batch)
<1>2. DirIs(w, op.data) /\ w \in MaybeDir
  <2>1. DirIs(w, op.data)
    BY <1>1, DirOfIs
  <2> QED
    BY <2>1 DEF DirIs, MaybeDir
<1>3. /\ faults' \in 0..MaxFaults
      /\ \/ fs' = [fs EXCEPT !.dir = w] /\ To("mCheck")
         \/ fs' \in {fs} \cup ChunksWritten(0) /\ To("mCatch")
  BY CallIs DEF WriteChunks
<1>4. ChunksWritten(0) = {[fs EXCEPT !.dir = Without(w, T)] :
                             T \in SUBSET (0..(0 + Len(op.batch) - 1))}
  BY DEF ChunksWritten
<1> HIDE DEF w
<1>5. PICK d \in MaybeDir : fs' = [fs EXCEPT !.dir = d] /\ ((d = w /\ To("mCheck")) \/ To("mCatch"))
  <2>1. CASE fs' = [fs EXCEPT !.dir = w] /\ To("mCheck")
    BY <1>2, <2>1
  <2>2. CASE fs' = fs /\ To("mCatch")
    <3>1. fs = [fs EXCEPT !.dir = fs.dir] /\ fs.dir \in MaybeDir
      BY TypedIs DEF FsType, FsRec
    <3> QED
      BY <2>2, <3>1
  <2>3. CASE fs' \in ChunksWritten(0) /\ To("mCatch")
    <3>1. PICK T : fs' = [fs EXCEPT !.dir = Without(w, T)]
      BY <1>4, <2>3
    <3> QED
      BY <1>2, <2>3, <3>1, WithoutIs
  <2> QED
    BY <1>3, <2>1, <2>2, <2>3
<1>6. /\ FsType(fs') /\ fs'.dir = d /\ fs'.bak = fs.bak /\ fs'.ready = fs.ready /\ fs'.aj = fs.aj
      /\ fs'.oj = fs.oj /\ fs'.single = fs.single
  BY <1>5, SetDir, TypedIs
<1>7. op' = op /\ pc' \in {"mCheck", "mCatch"} /\ (pc' = "mCheck" => d = w)
  BY <1>5, ToLabel
<1>8. Typed' /\ Migrating'
  BY <1>1, <1>3, <1>6, <1>7, MigratingKept, MigratingIs
<1>9. pc' = "mCheck" => AtMCheck'
  BY <1>2, <1>6, <1>7, <1>8 DEF AtMCheck
<1> QED
  BY <1>7, <1>8, <1>9 DEF Where, Labels

LEMMA StepMCheck ==
  ASSUME Typed, AtMCheck, NEW l \in {"mMeta", "mCatch"}, To(l),
         UNCHANGED disk, UNCHANGED record, UNCHANGED bounds
  PROVE  Typed' /\ Where'
<1>1. fs' = fs /\ faults' = faults /\ Migrating
  BY DEF disk, AtMCheck
<1>2. op' = op /\ pc' = l
  BY ToLabel
<1>3. Typed' /\ Migrating'
  BY <1>1, <1>2, MigratingKept, MigratingIs, TypedIs
<1>4. AtMCheck'
  BY <1>1, <1>2, <1>3 DEF AtMCheck
<1> QED
  BY <1>2, <1>3, <1>4 DEF Where, Labels

(* Only a failed call leads to the undoing of a change of the record.      *)
LEMMA SaveFails ==
  ASSUME Typed, NEW rec, NEW n, n \notin {"ok", "err"}, NEW e, Save(rec, n, e)
  PROVE  pc' = n \/ faults' > 0
<1>1. faults \in Nat
  BY TypedIs
<1>2. To(n) => pc' = n
  BY ToLabel
<1> QED
  BY <1>1, <1>2 DEF Save, Fault

LEMMA StepMMeta ==
  ASSUME Typed, AtMCheck, Save(Chunked(Records(op.data), Len(op.data)), "mClean", "mUndoMeta"),
         UNCHANGED bounds
  PROVE  Typed' /\ Where'
<1>1. /\ Migrates /\ op.data \in Content /\ op.kind = "migrate" /\ op.data = op.from
      /\ meta = op.prev /\ DirIs(fs.dir, op.data) /\ fs.aj = NoJournal /\ fs.oj = NoJournal
  BY MigratingIs DEF AtMCheck
<1>2. RecordOf(op.data) \in MaybeMeta /\ RecordOf(op.data) = Chunked(Records(op.data), Len(op.data))
  BY <1>1, RecordIs DEF MaybeMeta, RecordOf
<1>3. /\ faults' \in 0..MaxFaults /\ fs' = fs /\ cache' = RecordOf(op.data) /\ meta' \in MaybeMeta
      /\ meta' \in {meta, RecordOf(op.data)}
      /\ dirty' \in BOOLEAN /\ (~dirty' => cache' = meta')
      /\ \/ meta' = RecordOf(op.data) /\ To("mClean")
         \/ To("mUndoMeta")
  BY <1>2, SaveIs
<1>4. op' = op /\ pc' \in {"mClean", "mUndoMeta"} /\ (pc' = "mClean" => meta' = RecordOf(op.data))
  BY <1>3, ToLabel
<1>5. Typed'
  BY <1>2, <1>3, <1>4, SaveTyped, TypedIs
<1>6. pc' = "mClean" => AtMClean'
  BY <1>1, <1>3, <1>4 DEF AtMClean, Both
<1>7. pc' = "mUndoMeta" => AtMUndoMeta'
  BY <1>1, <1>2, <1>3, <1>4, SaveFails DEF AtMUndoMeta, Migrates
<1> QED
  BY <1>4, <1>5, <1>6, <1>7 DEF Where, Labels

LEMMA StepMUndoMeta ==
  ASSUME Typed, AtMUndoMeta, Save(op.prev, "mCatch", "failed"), faults' = faults, UNCHANGED bounds
  PROVE  Typed' /\ Where'
<1>1. Migrates /\ op.prev \in MaybeMeta
  BY OpIs, TypedIs DEF AtMUndoMeta
<1>2. /\ faults' \in 0..MaxFaults /\ fs' = fs /\ cache' = op.prev /\ meta' \in MaybeMeta
      /\ dirty' \in BOOLEAN /\ (~dirty' => cache' = meta')
  BY <1>1, SaveIs
<1>3. meta' = op.prev /\ To("mCatch")
  BY TypedIs DEF Save, Fault
<1>4. op' = op /\ pc' = "mCatch"
  BY <1>3, ToLabel
<1>5. Migrating'
  BY <1>1, <1>2, <1>3, <1>4 DEF Migrating, Migrates, Both
<1>6. Typed'
  BY <1>1, <1>2, <1>4, SaveTyped, TypedIs
<1> QED
  BY <1>4, <1>5, <1>6 DEF Where, Labels

LEMMA StepMClean ==
  ASSUME Confined, Typed, AtMClean, Call([fs EXCEPT !.single = Absent], {}, "okDone", "okDone"),
         UNCHANGED record, UNCHANGED bounds
  PROVE  Typed' /\ Where'
<1>1. meta' = meta /\ cache' = cache /\ dirty' = dirty /\ writes' = writes
  BY DEF record, bounds
<1>2. /\ faults' \in 0..MaxFaults /\ fs' \in {fs, [fs EXCEPT !.single = Absent]} /\ To("okDone")
  BY CallIs
<1>3. /\ FsType(fs') /\ fs'.dir = fs.dir /\ fs'.ready = fs.ready /\ fs'.aj = fs.aj /\ fs'.oj = fs.oj
  BY <1>2, SetSingle, TypedIs
<1>4. op' = op /\ pc' = "okDone"
  BY <1>2, ToLabel
<1>5. /\ op.kind = "migrate" /\ op.data \in Content /\ fs.aj = NoJournal /\ fs.oj = NoJournal
      /\ DirIs(fs.dir, op.data) /\ meta = RecordOf(op.data) /\ cache = RecordOf(op.data)
  BY DEF AtMClean, Both
<1>6. Agree(fs', meta', cache', op.data)
  BY <1>1, <1>3, <1>5, AgreePlain DEF Holds
<1>7. Target' = op.data
  BY <1>4, <1>5 DEF Target
<1>8. AtDone'
  BY <1>6, <1>7 DEF AtDone
<1>9. Typed'
  BY <1>1, <1>2, <1>3, <1>4, DiskTyped, TypedIs
<1> QED
  BY <1>4, <1>8, <1>9 DEF Where, Labels

-----------------------------------------------------------------------------
(* The deletion of a table's artifacts: purge, purged.                     *)

LEMMA DroppedIs ==
  /\ Dropped("oj") <=> fs.oj = NoJournal
  /\ Dropped("aj") <=> fs.aj = NoJournal
  /\ Dropped("bak") <=> fs.bak = NoDir /\ fs.ready = 0
  /\ Dropped("single") <=> fs.single = Absent
  /\ Dropped("dir") <=> fs.dir = NoDir
  BY DEF Dropped

LEMMA ArtifactIs == ASSUME NEW h \in Artifacts PROVE h \in {"oj", "aj", "bak", "single", "dir"}
  BY DEF Artifacts

LEMMA PurgedIs ==
  /\ Purged("oj") = [fs EXCEPT !["oj"] = NoJournal]
  /\ Purged("aj") = [fs EXCEPT !["aj"] = NoJournal]
  /\ Purged("bak") = WithBak(fs, NoDir, 0)
  /\ Purged("single") = [fs EXCEPT !.single = Absent]
  /\ Purged("dir") = [fs EXCEPT !.dir = NoDir]
  /\ PurgeLeft("oj") = {} /\ PurgeLeft("aj") = {} /\ PurgeLeft("single") = {}
  /\ PurgeLeft("bak") = BakLeft /\ PurgeLeft("dir") = DirLeft
<1>1. /\ PurgeLeft("oj") = {} /\ PurgeLeft("aj") = {} /\ PurgeLeft("single") = {}
      /\ PurgeLeft("bak") = BakLeft /\ PurgeLeft("dir") = DirLeft
  BY Zenon DEF PurgeLeft
<1>2. /\ Purged("oj") = [fs EXCEPT !["oj"] = NoJournal]
      /\ Purged("aj") = [fs EXCEPT !["aj"] = NoJournal]
  BY DEF Purged
<1>3. Purged("bak") = WithBak(fs, NoDir, 0)
  BY DEF Purged, WithBak
<1>4. Purged("single") = [fs EXCEPT !.single = Absent]
  BY DEF Purged
<1>5. Purged("dir") = [fs EXCEPT !.dir = NoDir]
  BY DEF Purged
<1> QED
  BY <1>1, <1>2, <1>3, <1>4, <1>5

(* A deletion touches the artifact it is for.                              *)
LEMMA PurgeIs ==
  ASSUME Typed, NEW h \in Artifacts, fs' \in {fs, Purged(h)} \cup PurgeLeft(h)
  PROVE  /\ FsType(fs') /\ fs'.ready \in {0, fs.ready} /\ fs'.oj \in {fs.oj, NoJournal}
         /\ \A f \in Artifacts : Dropped(f) => Dropped(f)'
         /\ fs' = Purged(h) => Dropped(h)'
<1>0. FsType(fs)
  BY TypedIs
<1>1. CASE h = "oj"
  <2>1. [fs EXCEPT !["oj"] = NoJournal] = [fs EXCEPT !.oj = NoJournal]
    BY <1>0 DEF FsType, FsRec
  <2>2. fs' \in {fs, [fs EXCEPT !.oj = NoJournal]} /\ (fs' = Purged(h) => fs' = [fs EXCEPT !.oj = NoJournal])
    BY <1>1, <2>1, PurgedIs
  <2>3. NoJournal \in OverwriteJournal \cup {NoJournal}
    OBVIOUS
  <2>4. /\ FsType(fs') /\ fs'.ready = fs.ready /\ fs'.oj \in {fs.oj, NoJournal} /\ fs'.aj = fs.aj
        /\ fs'.bak = fs.bak /\ fs'.single = fs.single /\ fs'.dir = fs.dir
        /\ fs' = Purged(h) => fs'.oj = NoJournal
    BY <1>0, <2>2, <2>3, SetOj
  <2> QED
    BY <1>1, <2>4, ArtifactIs DEF Dropped
<1>2. CASE h = "aj"
  <2>1. [fs EXCEPT !["aj"] = NoJournal] = [fs EXCEPT !.aj = NoJournal]
    BY <1>0 DEF FsType, FsRec
  <2>2. fs' \in {fs, [fs EXCEPT !.aj = NoJournal]} /\ (fs' = Purged(h) => fs' = [fs EXCEPT !.aj = NoJournal])
    BY <1>2, <2>1, PurgedIs
  <2>3. NoJournal \in AppendJournal \cup {NoJournal}
    OBVIOUS
  <2>4. /\ FsType(fs') /\ fs'.ready = fs.ready /\ fs'.oj = fs.oj /\ fs'.aj \in {fs.aj, NoJournal}
        /\ fs'.bak = fs.bak /\ fs'.single = fs.single /\ fs'.dir = fs.dir
        /\ fs' = Purged(h) => fs'.aj = NoJournal
    BY <1>0, <2>2, <2>3, SetAj
  <2> QED
    BY <1>2, <2>4, ArtifactIs DEF Dropped
<1>3. CASE h = "single"
  <2>2. fs' \in {fs, [fs EXCEPT !.single = Absent]} /\ (fs' = Purged(h) => fs' = [fs EXCEPT !.single = Absent])
    BY <1>3, PurgedIs
  <2>4. /\ FsType(fs') /\ fs'.ready = fs.ready /\ fs'.oj = fs.oj /\ fs'.aj = fs.aj
        /\ fs'.bak = fs.bak /\ fs'.single \in {fs.single, Absent} /\ fs'.dir = fs.dir
        /\ fs' = Purged(h) => fs'.single = Absent
    BY <1>0, <2>2, SetSingle
  <2> QED
    BY <1>3, <2>4, ArtifactIs DEF Dropped
<1>4. CASE h = "bak"
  <2>1. /\ fs' \in {fs, WithBak(fs, NoDir, 0)} \cup BakLeft
        /\ fs' = Purged(h) => fs' = WithBak(fs, NoDir, 0)
    BY <1>4, PurgedIs
  <2>2. /\ FsType(fs') /\ fs'.ready \in {0, fs.ready} /\ fs'.oj = fs.oj /\ fs'.aj = fs.aj
        /\ fs'.single = fs.single /\ fs'.dir = fs.dir /\ (fs.bak = NoDir => fs'.bak = NoDir)
        /\ fs' = Purged(h) => fs'.bak = NoDir /\ fs'.ready = 0
    BY <2>1, BakLeftIs
  <2> QED
    BY <1>4, <2>2, ArtifactIs DEF Dropped
<1>5. CASE h = "dir"
  <2>1. /\ fs' \in {fs, [fs EXCEPT !.dir = NoDir]} \cup DirLeft
        /\ fs' = Purged(h) => fs' = [fs EXCEPT !.dir = NoDir]
    BY <1>5, PurgedIs
  <2>2. PICK d \in MaybeDir : /\ fs' = [fs EXCEPT !.dir = d] /\ (fs.dir = NoDir => d = NoDir)
                              /\ fs' = Purged(h) => d = NoDir
    <3>1. CASE fs' = [fs EXCEPT !.dir = NoDir]
      BY <3>1 DEF MaybeDir
    <3>2. CASE fs' \in {fs} \cup DirLeft /\ fs' # [fs EXCEPT !.dir = NoDir]
      <4>1. PICK S : fs' = [fs EXCEPT !.dir = Without(fs.dir, S)] /\ Without(fs.dir, S) \in MaybeDir
        BY <3>2, LeftIs
      <4>2. fs.dir = NoDir => Without(fs.dir, S) = NoDir
        BY DEF Without
      <4> QED
        BY <2>1, <3>2, <4>1, <4>2
    <3> QED
      BY <2>1, <3>1, <3>2
  <2>3. /\ FsType(fs') /\ fs'.dir = d /\ fs'.ready = fs.ready /\ fs'.oj = fs.oj /\ fs'.aj = fs.aj
        /\ fs'.bak = fs.bak /\ fs'.single = fs.single
    BY <1>0, <2>2, SetDir
  <2> QED
    BY <1>5, <2>2, <2>3, ArtifactIs DEF Dropped
<1> QED
  BY <1>1, <1>2, <1>3, <1>4, <1>5, ArtifactIs

LEMMA AllDropped ==
  ASSUME FsType(fs), \A f \in Artifacts : Dropped(f)
  PROVE  fs = FS0
<1>1. /\ fs.oj = NoJournal /\ fs.aj = NoJournal /\ fs.bak = NoDir /\ fs.ready = 0
      /\ fs.single = Absent /\ fs.dir = NoDir
  BY DroppedIs DEF Artifacts
<1> QED
  BY <1>1, NoFilesOnly

LEMMA NothingThere == fs = FS0 => \A f \in Artifacts : Dropped(f)
<1>1. fs = FS0 => /\ fs.oj = NoJournal /\ fs.aj = NoJournal /\ fs.bak = NoDir /\ fs.ready = 0
                  /\ fs.single = Absent /\ fs.dir = NoDir
  BY NoFiles
<1> QED
  BY <1>1, DroppedIs, ArtifactIs

(* What is left to delete.                                                 *)
LEMMA TodoIs ==
  ASSUME NEW t \in Seq(Artifacts), t # <<>>
  PROVE  /\ Head(t) \in Artifacts /\ Tail(t) \in Seq(Artifacts)
         /\ \A f : (\E i \in DOMAIN t : t[i] = f) => f = Head(t) \/ \E i \in DOMAIN Tail(t) : Tail(t)[i] = f
<1>1. /\ Len(t) \in Nat \ {0} /\ Head(t) = t[1] /\ Head(t) \in Artifacts
      /\ Tail(t) \in Seq(Artifacts) /\ Len(Tail(t)) = Len(t) - 1
      /\ \A i \in 1..(Len(t) - 1) : Tail(t)[i] = t[i + 1]
      /\ DOMAIN t = 1..Len(t) /\ DOMAIN Tail(t) = 1..(Len(t) - 1)
  BY HeadTailProperties
<1>2. ASSUME NEW i \in DOMAIN t, i # 1 PROVE i - 1 \in DOMAIN Tail(t) /\ Tail(t)[i - 1] = t[i]
  BY <1>1, <1>2
<1> QED
  BY <1>1, <1>2

Todo(o, r) == [o EXCEPT !.todo = r]
Valued(o, w) == [o EXCEPT !.val = w]
TodoFailed(o, r) == Valued(Todo(o, r), <<"failed">>)

LEMMA SetVal ==
  ASSUME NEW o \in OpRec, NEW w \in Content \cup {Absent, <<"failed">>}, NEW x, x = Valued(o, w)
  PROVE  /\ x \in OpRec /\ x.todo = o.todo /\ x.kind = o.kind /\ x.data = o.data
         /\ x.batch = o.batch /\ x.ret = o.ret /\ x.from = o.from /\ x.prev = o.prev
         /\ x.val = w
  BY DEF Valued, OpRec

LEMMA SetTodo ==
  ASSUME op \in OpRec, NEW r \in Seq(Artifacts), op' = Todo(op, r) \/ op' = TodoFailed(op, r)
  PROVE  /\ op' \in OpRec /\ op'.todo = r /\ op'.kind = op.kind /\ op'.data = op.data
         /\ op'.batch = op.batch /\ op'.ret = op.ret /\ op'.from = op.from /\ op'.prev = op.prev
         /\ (op'.val = op.val /\ op' = Todo(op, r)) \/ op'.val = <<"failed">>
<1>1. CASE op' = Todo(op, r)
  <2>1. op' = [op EXCEPT !.todo = r]
    BY <1>1 DEF Todo
  <2>2. /\ op' \in OpRec /\ op'.todo = r /\ op'.kind = op.kind /\ op'.data = op.data
        /\ op'.batch = op.batch /\ op'.ret = op.ret /\ op'.from = op.from /\ op'.prev = op.prev
        /\ op'.val = op.val
    BY <2>1 DEF OpRec
  <2> QED
    BY <1>1, <2>2
<1>2. CASE op' = TodoFailed(op, r)
  <2>1. PICK w \in Content \cup {Absent, <<"failed">>} : w = <<"failed">>
    OBVIOUS
  <2>2. PICK o : o = Todo(op, r)
    OBVIOUS
  <2>3. /\ o \in OpRec /\ o.todo = r /\ o.kind = op.kind /\ o.data = op.data
        /\ o.batch = op.batch /\ o.ret = op.ret /\ o.from = op.from /\ o.prev = op.prev
    BY <2>2 DEF Todo, OpRec
  <2>4. op' = Valued(o, w)
    BY <1>2, <2>1, <2>2 DEF TodoFailed
  <2>5. /\ op' \in OpRec /\ op'.todo = o.todo /\ op'.kind = o.kind /\ op'.data = o.data
        /\ op'.batch = o.batch /\ op'.ret = o.ret /\ op'.from = o.from /\ op'.prev = o.prev
        /\ op'.val = w
    BY <2>1, <2>3, <2>4, SetVal
  <2> QED
    BY <2>1, <2>3, <2>5
<1> QED
  BY <1>1, <1>2

(* One deletion of the purge.                                              *)
LEMMA PurgeStep ==
  ASSUME Typed, Confined, AtPurge, Purge
  PROVE  \E r \in Seq(Artifacts), w \in {"done", "failed"} :
           /\ r = Tail(op.todo) /\ faults' \in 0..MaxFaults /\ UNCHANGED record
           /\ pc' = IF r # <<>> THEN "purge" ELSE IF op.kind = "drop" THEN "okDone" ELSE "purged"
           /\ fs' \in {fs, Purged(Head(op.todo))} \cup PurgeLeft(Head(op.todo))
           /\ w = "done" => fs' = Purged(Head(op.todo)) /\ op' = Todo(op, r)
           /\ w = "failed" => op' = TodoFailed(op, r)
<1>1. op.todo \in Seq(Artifacts) /\ op.todo # <<>>
  BY TypedIs DEF OpRec, AtPurge
<1>2. PICK r \in Seq(Artifacts) : r = Tail(op.todo)
  BY <1>1, TodoIs
<1>3. PICK l : l = IF r # <<>> THEN "purge" ELSE IF op.kind = "drop" THEN "okDone" ELSE "purged"
  OBVIOUS
<1>4. /\ pc' = l /\ UNCHANGED record
      /\ \/ /\ fs' = Purged(Head(op.todo)) /\ UNCHANGED faults
            /\ op' = [op EXCEPT !.todo = r]
         \/ /\ Fault /\ fs' \in {fs} \cup PurgeLeft(Head(op.todo))
            /\ op' = [op EXCEPT !.todo = r, !.val = <<"failed">>]
  BY <1>2, <1>3 DEF Purge
<1>5. [op EXCEPT !.todo = r, !.val = <<"failed">>] = TodoFailed(op, r)
  BY Zenon DEF TodoFailed, Todo, Valued
<1>6. faults' \in 0..MaxFaults
  <2>1. faults \in 0..MaxFaults /\ MaxFaults \in Nat
    BY TypedIs, ChunkAssumption
  <2> QED
    BY <1>4, <2>1 DEF Fault
<1>9. pc' = l /\ UNCHANGED record
  BY <1>4
<1>7. CASE fs' = Purged(Head(op.todo)) /\ op' = [op EXCEPT !.todo = r]
  <2>1. op' = Todo(op, r)
    BY <1>7 DEF Todo
  <2>2. fs' = Purged(Head(op.todo))
    BY <1>7
  <2> QED
    BY <1>2, <1>3, <1>6, <1>9, <2>1, <2>2
<1>8. CASE /\ fs' \in {fs} \cup PurgeLeft(Head(op.todo))
           /\ op' = [op EXCEPT !.todo = r, !.val = <<"failed">>]
  <2>1. op' = TodoFailed(op, r)
    BY <1>5, <1>8, Zenon
  <2>2. fs' \in {fs} \cup PurgeLeft(Head(op.todo))
    BY <1>8
  <2> QED
    BY <1>2, <1>3, <1>6, <1>9, <2>1, <2>2
<1> QED
  BY <1>4, <1>7, <1>8

LEMMA PurgeFaults ==
  ASSUME Typed, Purge
  PROVE  faults' >= faults
<1>1. faults \in Nat
  BY TypedIs
<1> QED
  BY <1>1 DEF Purge, Fault

LEMMA StepPurge ==
  ASSUME Confined, Typed, AtPurge, Purge, UNCHANGED bounds
  PROVE  Typed' /\ Where'
<1>0. /\ op.todo \in Seq(Artifacts) /\ op.todo # <<>> /\ op \in OpRec
  BY TypedIs DEF OpRec, AtPurge
<1>1. PICK h \in Artifacts : h = Head(op.todo)
  BY <1>0, TodoIs
<1>2. PICK r \in Seq(Artifacts), w \in {"done", "failed"} :
           /\ r = Tail(op.todo) /\ faults' \in 0..MaxFaults /\ UNCHANGED record
           /\ pc' = IF r # <<>> THEN "purge" ELSE IF op.kind = "drop" THEN "okDone" ELSE "purged"
           /\ fs' \in {fs, Purged(h)} \cup PurgeLeft(h)
           /\ w = "done" => fs' = Purged(h) /\ op' = Todo(op, r)
           /\ w = "failed" => op' = TodoFailed(op, r)
  BY <1>1, PurgeStep
<1>3. /\ FsType(fs') /\ fs'.ready \in {0, fs.ready} /\ fs'.oj \in {fs.oj, NoJournal}
      /\ \A f \in Artifacts : Dropped(f) => Dropped(f)'
      /\ fs' = Purged(h) => Dropped(h)'
  BY <1>2, PurgeIs
<1>4. op' = Todo(op, r) \/ op' = TodoFailed(op, r)
  BY <1>2
<1>5. /\ op' \in OpRec /\ op'.todo = r /\ op'.kind = op.kind /\ op'.data = op.data
      /\ op'.ret = op.ret /\ op'.from = op.from /\ op'.prev = op.prev
      /\ (op'.val = op.val /\ op' = Todo(op, r)) \/ op'.val = <<"failed">>
  BY <1>0, <1>4, SetTodo
<1>6. <<"failed">> # <<>>
  OBVIOUS
<1>7. meta' = meta /\ cache' = cache /\ dirty' = dirty /\ writes' = writes
  BY <1>2 DEF record, bounds
<1>8. Typed'
  BY <1>2, <1>3, <1>5, <1>7, DiskTyped
<1>9. CASE op.kind = "drop" /\ Both(NoTable)
  <2>1. op'.kind = "drop" /\ Both(NoTable)'
    BY <1>5, <1>7, <1>9 DEF Both
  <2>2. CASE r # <<>>
    <3>1. pc' = "purge" /\ AtPurge'
      BY <1>2, <1>5, <2>1, <2>2 DEF AtPurge, Purging
    <3> QED
      BY <1>8, <3>1 DEF Where, Labels
  <2>3. CASE r = <<>>
    <3>1. pc' = "okDone"
      BY <1>2, <1>9, <2>3
    <3>2. Target' = Gone
      BY <2>1 DEF Target
    <3>3. AtDone'
      BY <2>1, <3>2, StandsNothing DEF AtDone, Both
    <3> QED
      BY <1>8, <3>1, <3>3 DEF Where, Labels
  <2> QED
    BY <2>2, <2>3
<1>10. CASE op.kind # "drop"
  <2>1. NewTable /\ op.kind = "create"
    BY <1>10 DEF AtPurge, Purging, Undone, NewTable
  <2>2. Purging'
    <3>1. CASE /\ NewTable /\ Both(NoTable) /\ op.prev = NoTable /\ op.ret = <<>>
               /\ op.val = <<>> => \A f \in Artifacts : Dropped(f) \/ \E i \in DOMAIN op.todo : op.todo[i] = f
      <4>1. /\ NewTable' /\ Both(NoTable)' /\ op'.prev = NoTable /\ op'.ret = <<>>
        BY <1>5, <1>7, <3>1 DEF NewTable, Both
      <4>2. ASSUME op'.val = <<>>, NEW f \in Artifacts PROVE Dropped(f)' \/ \E i \in DOMAIN op'.todo : op'.todo[i] = f
        <5>1. (op'.val = op.val /\ w = "done") \/ op'.val = <<"failed">>
          <6>1. ASSUME w = "failed" PROVE op'.val = <<"failed">>
            <7>1. op' = Valued(Todo(op, r), <<"failed">>)
              BY <1>2, <6>1 DEF TodoFailed
            <7>2. PICK o : o = Todo(op, r)
              OBVIOUS
            <7>3. o \in OpRec
              BY <1>0, <7>2 DEF Todo, OpRec
            <7>4. PICK x \in Content \cup {Absent, <<"failed">>} : x = <<"failed">>
              OBVIOUS
            <7> QED
              BY <7>1, <7>2, <7>3, <7>4, SetVal
          <6> QED
            BY <1>2, <1>5, <6>1
        <5>2. w = "done" /\ op.val = <<>>
          BY <1>6, <4>2, <5>1
        <5>3. Dropped(h)'
          BY <1>2, <1>3, <5>2
        <5>4. Dropped(f) \/ f = h \/ \E i \in DOMAIN r : r[i] = f
          BY <1>0, <1>1, <1>2, <3>1, <5>2, TodoIs
        <5> QED
          BY <1>3, <1>5, <5>3, <5>4
      <4> QED
        BY <4>1, <4>2 DEF Purging
    <3>2. CASE Undone /\ op.prev # NoTable
      <4>1. \A f \in Artifacts : Dropped(f)'
        BY <1>3, <3>2, NothingThere DEF Undone
      <4>2. fs' = FS0
        <5>1. Dropped("oj")' /\ Dropped("aj")' /\ Dropped("bak")' /\ Dropped("single")' /\ Dropped("dir")'
          BY <4>1 DEF Artifacts
        <5>2. /\ fs'.oj = NoJournal /\ fs'.aj = NoJournal /\ fs'.bak = NoDir /\ fs'.ready = 0
              /\ fs'.single = Absent /\ fs'.dir = NoDir
          BY <5>1 DEF Dropped
        <5> QED
          BY <1>3, <5>2, NoFilesOnly
      <4>3. Undone'
        <5>1. faults' > 0
          <6>1. faults \in Nat /\ faults' \in Nat /\ faults > 0
            BY <1>2, <3>2, TypedIs DEF Undone
          <6> QED
            BY <6>1, PurgeFaults
        <5> QED
          BY <1>5, <1>7, <3>2, <4>2, <5>1 DEF Undone, NewTable
      <4> QED
        BY <1>5, <3>2, <4>3 DEF Purging
    <3> QED
      BY <1>10, <3>1, <3>2 DEF AtPurge, Purging
  <2>3. CASE r # <<>>
    <3>1. pc' = "purge" /\ AtPurge'
      BY <1>2, <1>5, <2>2, <2>3 DEF AtPurge
    <3> QED
      BY <1>8, <3>1 DEF Where, Labels
  <2>4. CASE r = <<>>
    <3>1. pc' = "purged" /\ AtPurged'
      BY <1>2, <1>5, <1>10, <2>1, <2>2, <2>4 DEF AtPurged
    <3> QED
      BY <1>8, <3>1 DEF Where, Labels
  <2> QED
    BY <2>3, <2>4
<1> QED
  BY <1>9, <1>10 DEF AtPurge, Purging, Undone, NewTable

LEMMA SameGone ==
  ASSUME op'.from = Gone, meta' = NoTable, cache' = NoTable
  PROVE  Same'
  BY StandsNothing DEF Same

LEMMA StepPurged ==
  ASSUME Typed, AtPurged, Purge2, UNCHANGED bounds
  PROVE  Typed' /\ Where'
<1>1. fs' = fs /\ faults' = faults /\ meta' = meta /\ cache' = cache /\ dirty' = dirty /\ writes' = writes
  BY DEF Purge2, disk, record, bounds
<1>2. Purging /\ op.kind = "create" /\ op.todo = <<>>
  BY DEF AtPurged
<1>3. CASE op.prev # NoTable
  <2>1. To("cUndoMeta") /\ Undone
    BY <1>2, <1>3 DEF Purge2, Purging
  <2>2. pc' = "cUndoMeta" /\ op' = op
    BY <2>1, ToLabel
  <2>3. Undone'
    BY <1>1, <2>1, <2>2 DEF Undone, NewTable
  <2>4. Typed'
    BY <1>1, <2>2, DiskTyped, TypedIs DEF record, bounds, Purge2
  <2> QED
    BY <2>2, <2>3, <2>4 DEF Where, Labels
<1>4. CASE op.prev = NoTable
  <2>1. /\ NewTable /\ Both(NoTable) /\ op.ret = <<>> /\ op.from = Gone /\ op.data = <<>>
        /\ op.val = <<>> => \A f \in Artifacts : Dropped(f) \/ \E i \in DOMAIN op.todo : op.todo[i] = f
    BY <1>2, <1>4 DEF Purging, NewTable
  <2>2. CASE op.val # <<>>
    <3>1. To("failed")
      BY <1>4, <2>2 DEF Purge2
    <3>2. pc' = "failed" /\ op' = op
      BY <3>1, ToLabel
    <3>3. Same'
      BY <1>1, <2>1, <3>2, SameGone DEF Both
    <3>4. Typed'
      BY <1>1, <3>2, DiskTyped, TypedIs DEF record, bounds, Purge2
    <3> QED
      BY <3>2, <3>3, <3>4, Failed
  <2>3. CASE op.val = <<>>
    <3>1. \A f \in Artifacts : Dropped(f)
      <4>1. DOMAIN op.todo = {}
        BY <1>2
      <4> QED
        BY <2>1, <2>3, <4>1
    <3>2. fs = FS0
      BY <3>1, AllDropped, TypedIs
    <3>3. PICK x, y, z \in FrameType : x = OrFail("recO") /\ y = OrFail("app") /\ z = OrFail("cMeta")
      BY OrFailIs DEF Returns
    <3>4. Run("recA", <<x, y, z>>)
      BY <1>4, <2>3, <3>3 DEF Purge2, OrFail
    <3>5. /\ <<x, y, z>> \in Seq(FrameType) /\ <<x, y, z>> # <<>> /\ Head(<<x, y, z>>) = x
          /\ Tail(<<x, y, z>>) = <<y, z>>
      BY Stack3
    <3>6. <<y, z>> = ToCreate
      BY <3>3 DEF ToCreate
    <3>7. PICK r \in Seq(FrameType) : r = <<x, y, z>> /\ r # <<>> /\ Head(r) = x /\ Tail(r) = ToCreate
      BY <3>5, <3>6
    <3>8. r \o op.ret = r
      BY <2>1, NoStack
    <3>9. /\ pc' = "recA" /\ op' \in OpRec /\ op'.ret = r /\ op'.kind = op.kind /\ op'.data = op.data
          /\ op'.from = op.from /\ op'.prev = op.prev
      BY <3>4, <3>7, <3>8, RunsTo, TypedIs
    <3>10. Creates'
      BY <1>1, <1>2, <1>4, <2>1, <3>2, <3>9 DEF Creates, Both, FS0
    <3>11. Same'
      BY <1>1, <2>1, <3>9, SameGone DEF Both
    <3>12. Ctx(ToCreate)'
      BY <3>10 DEF Ctx
    <3>13. RecA'
      BY <3>3, <3>7, <3>9, <3>11, <3>12 DEF RecA, Entering
    <3>14. Typed'
      BY <1>1, <3>9, DiskTyped, TypedIs DEF record, bounds, Purge2
    <3> QED
      BY <3>9, <3>13, <3>14 DEF Where, Labels
  <2> QED
    BY <2>2, <2>3
<1> QED
  BY <1>3, <1>4

-----------------------------------------------------------------------------
(* The record of a created and of a dropped table.                         *)

LEMMA NoRecord == /\ NoTable \in MaybeMeta /\ RecordOf(<<>>) = Chunked(0, 0) /\ Chunked(0, 0) \in MaybeMeta
                  /\ Chunked(0, 0) # NoTable
  BY EmptyRecord, MetaIs DEF MaybeMeta

LEMMA StepCMeta ==
  ASSUME Typed, Creates, Save(Chunked(Records(op.data), KnownChunks(cache)), "okDone", "cUndo"),
         UNCHANGED bounds
  PROVE  Typed' /\ Where'
<1>1. /\ op.kind = "create" /\ op.data = <<>> /\ op.from = Gone /\ op.prev = NoTable /\ fs = FS0
      /\ meta = NoTable /\ cache = NoTable
  BY DEF Creates, Both
<1>2. Chunked(Records(op.data), KnownChunks(cache)) = Chunked(0, 0)
  BY <1>1, NoRecords DEF KnownChunks
<1>3. /\ faults' \in 0..MaxFaults /\ fs' = fs /\ cache' = Chunked(0, 0) /\ meta' \in MaybeMeta
      /\ meta' \in {meta, Chunked(0, 0)}
      /\ dirty' \in BOOLEAN /\ (~dirty' => cache' = meta')
      /\ \/ meta' = Chunked(0, 0) /\ To("okDone")
         \/ To("cUndo")
  <2>1. Save(Chunked(0, 0), "okDone", "cUndo")
    BY <1>2
  <2> QED
    BY <2>1, SaveIs, NoRecord
<1>4. op' = op /\ pc' \in {"okDone", "cUndo"} /\ (pc' = "okDone" => meta' = Chunked(0, 0))
  BY <1>3, ToLabel
<1>5. Typed'
  BY <1>3, <1>4, SaveTyped, TypedIs, NoRecord
<1>6. CASE pc' = "okDone"
  <2>1. Holds(FS0.dir, <<>>) /\ FS0.aj = NoJournal /\ FS0.oj = NoJournal
    BY NoFiles DEF Holds
  <2>2. Agree(FS0, Chunked(0, 0), Chunked(0, 0), <<>>)
    BY <2>1, AgreePlain, NoContent, NoRecord
  <2>3. Target' = <<>>
    BY <1>1, <1>4 DEF Target
  <2>4. AtDone'
    BY <1>1, <1>3, <1>4, <1>6, <2>2, <2>3 DEF AtDone
  <2> QED
    BY <1>5, <1>6, <2>4 DEF Where, Labels
<1>7. CASE pc' = "cUndo"
  <2>1. faults' > 0
    <3>1. Save(Chunked(0, 0), "okDone", "cUndo")
      BY <1>2
    <3> QED
      BY <1>7, <3>1, SaveFails
  <2>2. Undone'
    BY <1>1, <1>3, <1>4, <2>1 DEF Undone, NewTable, FS0
  <2> QED
    BY <1>5, <1>7, <2>2 DEF Where, Labels
<1> QED
  BY <1>4, <1>6, <1>7

LEMMA PurgeAllIs ==
  /\ PurgeAll \in Seq(Artifacts) /\ PurgeAll # <<>>
  /\ \A f \in Artifacts : \E i \in DOMAIN PurgeAll : PurgeAll[i] = f
<1>1. PurgeAll = <<"oj", "aj", "bak", "single", "dir">>
  BY DEF PurgeAll
<1>2. PurgeAll \in Seq(Artifacts) /\ PurgeAll # <<>>
  BY <1>1 DEF Artifacts
<1>3. DOMAIN PurgeAll = 1..5
  BY <1>1
<1>4. /\ PurgeAll[1] = "oj" /\ PurgeAll[2] = "aj" /\ PurgeAll[3] = "bak" /\ PurgeAll[4] = "single"
      /\ PurgeAll[5] = "dir"
  BY <1>1
<1>5. 1 \in 1..5 /\ 2 \in 1..5 /\ 3 \in 1..5 /\ 4 \in 1..5 /\ 5 \in 1..5
  OBVIOUS
<1> QED
  BY <1>2, <1>3, <1>4, <1>5, ArtifactIs

LEMMA PurgeChunkedIs == PurgeChunked \in Seq(Artifacts) /\ PurgeChunked # <<>>
  BY DEF PurgeChunked, Artifacts

UndoFrom(o, t, k) == [o EXCEPT !.todo = t, !.prev = k]

LEMMA SetUndo ==
  ASSUME op \in OpRec, NEW t \in Seq(Artifacts), NEW k \in MaybeMeta, op' = UndoFrom(op, t, k)
  PROVE  /\ op' \in OpRec /\ op'.todo = t /\ op'.kind = op.kind /\ op'.data = op.data
         /\ op'.from = op.from /\ op'.prev = k
<1>1. PICK o : o = [op EXCEPT !.todo = t]
  OBVIOUS
<1>2. /\ o \in OpRec /\ o.todo = t /\ o.kind = op.kind /\ o.data = op.data /\ o.from = op.from
  BY <1>1 DEF OpRec
<1>3. op' = [o EXCEPT !.prev = k]
  BY <1>1, Zenon DEF UndoFrom
<1>4. /\ op' \in OpRec /\ op'.todo = o.todo /\ op'.kind = o.kind /\ op'.data = o.data
      /\ op'.from = o.from /\ op'.prev = k
  BY <1>2, <1>3 DEF OpRec
<1> QED
  BY <1>2, <1>4

LEMMA StepCUndo ==
  ASSUME Typed, Undone, pc' = "purge", op' = [op EXCEPT !.todo = PurgeChunked, !.prev = cache],
         UNCHANGED disk, UNCHANGED record, UNCHANGED bounds
  PROVE  Typed' /\ Where'
<1>1. fs' = fs /\ faults' = faults /\ meta' = meta /\ cache' = cache /\ dirty' = dirty /\ writes' = writes
  BY DEF disk, record, bounds
<1>2. op' = UndoFrom(op, PurgeChunked, cache)
  BY Zenon DEF UndoFrom
<1>3. /\ op' \in OpRec /\ op'.todo = PurgeChunked /\ op'.kind = op.kind /\ op'.data = op.data
      /\ op'.from = op.from /\ op'.prev = cache
  BY <1>2, SetUndo, PurgeChunkedIs, TypedIs
<1>4. Undone'
  BY <1>1, <1>3 DEF Undone, NewTable, FS0
<1>5. AtPurge'
  BY <1>1, <1>3, <1>4, PurgeChunkedIs, NoRecord DEF AtPurge, Purging, Undone
<1>6. Typed'
  BY <1>1, <1>3, DiskTyped, TypedIs
<1> QED
  BY <1>5, <1>6 DEF Where, Labels

LEMMA StepCUndoMeta ==
  ASSUME Typed, Undone, Save(NoTable, "failed", "failed"), faults' = faults, UNCHANGED bounds
  PROVE  Typed' /\ Where'
<1>1. /\ faults' \in 0..MaxFaults /\ fs' = fs /\ cache' = NoTable /\ meta' \in MaybeMeta
      /\ dirty' \in BOOLEAN /\ (~dirty' => cache' = meta') /\ To("failed")
  BY SaveIs, NoRecord
<1>2. meta' = NoTable
  BY TypedIs DEF Save, Fault
<1>3. op' = op /\ pc' = "failed"
  BY <1>1, ToLabel
<1>4. Same'
  BY <1>1, <1>2, <1>3, SameGone DEF Undone, NewTable
<1>5. Typed'
  BY <1>1, <1>3, SaveTyped, TypedIs, NoRecord
<1> QED
  BY <1>3, <1>4, <1>5, Failed

LEMMA StepDMeta ==
  ASSUME Typed, AtDMeta, Save(NoTable, "purge", "dUndoMeta"), UNCHANGED bounds
  PROVE  Typed' /\ Where'
<1>1. op.kind = "drop" /\ Same /\ cache # NoTable /\ op.prev = cache /\ op.todo # <<>>
  BY DEF AtDMeta
<1>2. /\ faults' \in 0..MaxFaults /\ fs' = fs /\ cache' = NoTable /\ meta' \in MaybeMeta
      /\ meta' \in {meta, NoTable}
      /\ dirty' \in BOOLEAN /\ (~dirty' => cache' = meta')
      /\ \/ meta' = NoTable /\ To("purge")
         \/ To("dUndoMeta")
  BY SaveIs, NoRecord
<1>3. op' = op /\ pc' \in {"purge", "dUndoMeta"} /\ (pc' = "purge" => meta' = NoTable)
  BY <1>2, ToLabel
<1>4. Typed'
  BY <1>2, <1>3, SaveTyped, TypedIs, NoRecord
<1>5. pc' = "purge" => AtPurge'
  BY <1>1, <1>2, <1>3 DEF AtPurge, Purging, Both
<1>6. pc' = "dUndoMeta" => AtDUndoMeta'
  <2>1. Stands(fs, meta, op.from) /\ Stands(fs, op.prev, op.from)
    BY <1>1 DEF Same, Agree
  <2>2. Agree(fs, op.prev, op.prev, op.from)
    BY <2>1 DEF Agree
  <2> QED
    BY <1>1, <1>2, <1>3, <2>1, <2>2, SaveFails DEF AtDUndoMeta
<1> QED
  BY <1>3, <1>4, <1>5, <1>6 DEF Where, Labels

LEMMA StepDUndoMeta ==
  ASSUME Typed, AtDUndoMeta, Save(op.prev, "failed", "failed"), faults' = faults, UNCHANGED bounds
  PROVE  Typed' /\ Where'
<1>1. op.prev \in MaybeMeta
  BY OpIs, TypedIs
<1>2. /\ faults' \in 0..MaxFaults /\ fs' = fs /\ cache' = op.prev /\ meta' \in MaybeMeta
      /\ dirty' \in BOOLEAN /\ (~dirty' => cache' = meta') /\ To("failed")
  BY <1>1, SaveIs
<1>3. meta' = op.prev
  BY TypedIs DEF Save, Fault
<1>4. op' = op /\ pc' = "failed"
  BY <1>2, ToLabel
<1>5. Same'
  BY <1>2, <1>3, <1>4 DEF AtDUndoMeta, Same
<1>6. Typed'
  BY <1>1, <1>2, <1>4, SaveTyped, TypedIs
<1> QED
  BY <1>4, <1>5, <1>6, Failed

-----------------------------------------------------------------------------
(* Reading, and reporting an outcome.                                      *)

LEMMA ReadIs ==
  ASSUME op \in OpRec, NEW c \in Content, op' = [op EXCEPT !.val = c]
  PROVE  /\ op' \in OpRec /\ op'.val = c /\ op'.kind = op.kind /\ op'.from = op.from
  BY DEF OpRec

LEMMA StepReadBody ==
  ASSUME Typed, pc = "readBody", AtReadBody, ReadBody, UNCHANGED bounds
  PROVE  Typed' /\ Where'
<1>1. fs' = fs /\ faults' = faults /\ meta' = meta /\ cache' = cache /\ dirty' = dirty /\ writes' = writes
  BY DEF ReadBody, disk, record, bounds
<1>2. op.kind = "read" /\ Same /\ fs.aj = NoJournal /\ fs.oj = NoJournal /\ cache # NoTable
  BY DEF AtReadBody
<1>3. \/ To("failed")
      \/ /\ pc' = "readDone"
         /\ \/ cache.mode = "single" /\ op' = [op EXCEPT !.val = fs.single]
            \/ cache.mode # "single" /\ op' = [op EXCEPT !.val = Listing(fs.dir)]
  BY DEF ReadBody
<1>4. CASE To("failed")
  <2>1. pc' = "failed" /\ op' = op
    BY <1>4, ToLabel
  <2>2. Same'
    BY <1>1, <1>2, <2>1 DEF Same
  <2>3. Typed'
    BY <1>1, <2>1, DiskTyped, TypedIs DEF record
  <2> QED
    BY <2>1, <2>2, <2>3, Failed
<1>5. CASE pc' = "readDone" /\ op' = [op EXCEPT !.val = op.from] /\ op.from \in Content
  <2>1. op' \in OpRec /\ op'.val = op.from /\ op'.kind = op.kind /\ op'.from = op.from
    BY <1>5, ReadIs, TypedIs
  <2>2. AtReadDone'
    BY <1>1, <1>2, <2>1 DEF AtReadDone, Same
  <2>3. Typed'
    BY <1>1, <2>1, DiskTyped, TypedIs DEF record
  <2> QED
    BY <1>5, <2>2, <2>3 DEF Where, Labels
<1>6. cache.mode = "single" => fs.single = op.from /\ op.from \in Content
  <2>1. cache.mode = "single" => ~IsChunked
    BY DEF IsChunked
  <2> QED
    BY <1>2, <2>1, SameRecords
<1>7. cache.mode # "single" => Listing(fs.dir) = op.from /\ op.from \in Content
  <2>1. cache.mode # "single" => IsChunked
    BY <1>2, TypedIs, MetaIs DEF IsChunked
  <2>2. IsChunked => Listing(fs.dir) = op.from /\ op.from \in Content
    BY <1>2, PlainIs, HoldsListing
  <2> QED
    BY <2>1, <2>2
<1> QED
  BY <1>3, <1>4, <1>5, <1>6, <1>7

(* What stands is what a client observes.                                  *)
LEMMA AgreeView ==
  ASSUME Typed, NEW v, Agree(fs, meta, cache, v)
  PROVE  View = v
  BY StandsIs, ViewIs, TypedIs DEF Agree

LEMMA NoOpIs ==
  /\ NoOp \in OpRec /\ NoOp.ret = <<>> /\ NoOp.kind = "none"
<1>1. /\ <<>> \in Content /\ <<>> \in Seq(FrameType) /\ <<>> \in Seq(Artifacts) /\ NoTable \in MaybeMeta
  BY NoContent DEF MaybeMeta
<1> QED
  BY <1>1 DEF NoOp, OpRec, Kinds, Gone

LEMMA StepReport ==
  ASSUME Typed, Where, Report, UNCHANGED bounds
  PROVE  Typed' /\ Where'
<1>1. fs' = fs /\ faults' = faults /\ meta' = meta /\ cache' = cache /\ dirty' = dirty /\ writes' = writes
  BY DEF Report, disk, record, bounds
<1>2. CASE pc = "okDone" /\ pc' = "acked" /\ op' = op
  <2>1. AtDone
    BY <1>2 DEF Where
  <2>2. AtDone'
    BY <1>1, <1>2, <2>1 DEF AtDone, Target
  <2>3. Typed'
    BY <1>1, <1>2, DiskTyped, TypedIs DEF record
  <2> QED
    BY <1>2, <2>2, <2>3 DEF Where, Labels
<1>3. CASE pc \in {"readDone", "acked", "failed"} /\ pc' = "idle" /\ op' = NoOp
  <2>1. \E v : Agree(fs, meta, cache, v)
    BY <1>3 DEF Where, AtReadDone, AtDone, Same
  <2>2. Agree(fs, meta, cache, View)
    BY <2>1, AgreeView
  <2>3. View' = View
    BY <1>1 DEF View, Conflict
  <2>4. AtIdle'
    BY <1>1, <2>2, <2>3 DEF AtIdle
  <2>5. Typed'
    BY <1>1, <1>3, DiskTyped, TypedIs, NoOpIs DEF record
  <2> QED
    BY <1>3, <2>4, <2>5 DEF Where, Labels
<1> QED
  BY <1>2, <1>3 DEF Report

-----------------------------------------------------------------------------
(* An operation begins: its locals record the content it starts from.      *)

Started(k, d, r, v, m, t) ==
  [kind |-> k, data |-> d, batch |-> d, ret |-> r, from |-> v, prev |-> m, todo |-> t, val |-> <<>>]

LEMMA StartIs ==
  ASSUME Typed, AtIdle, NEW l, NEW r \in Seq(FrameType), NEW k \in Kinds, NEW d \in Content, Start(l, r, k, d)
  PROVE  /\ pc' = l /\ op' \in OpRec /\ op'.kind = k /\ op'.data = d /\ op'.ret = r
         /\ op'.batch = d /\ op'.from = View /\ op'.prev = cache
         /\ k = "drop" => op'.todo = PurgeChunked
         /\ k = "create" => op'.todo = PurgeAll
         /\ op'.val = <<>>
         /\ fs' = fs /\ faults' = faults /\ meta' = meta /\ cache' = cache /\ dirty' = dirty
         /\ crashes' = crashes
<1>1. PICK t : t = CASE k = "drop" -> PurgeChunked [] k = "create" -> PurgeAll [] OTHER -> <<>>
  OBVIOUS
<1>2. /\ k = "drop" => t = PurgeChunked
      /\ k = "create" => t = PurgeAll
      /\ k \notin {"drop", "create"} => t = <<>>
  BY <1>1
<1>3. t \in Seq(Artifacts)
  <2>1. <<>> \in Seq(Artifacts)
    OBVIOUS
  <2> QED
    BY <1>2, <2>1, PurgeAllIs, PurgeChunkedIs
<1>4. op' = [NoOp EXCEPT !.kind = k, !.data = d, !.batch = d, !.ret = r, !.from = View,
                         !.prev = cache, !.todo = t]
  BY <1>1, Zenon DEF Start
<1>5. op' = Started(k, d, r, View, cache, t)
  BY <1>4 DEF NoOp, Started
<1>6. View \in Content \cup {Gone} /\ cache \in MaybeMeta
  BY AgreeRecords, TypedIs DEF AtIdle
<1>7. <<>> \in Content
  BY NoContent
<1>8. op' \in OpRec
  BY <1>3, <1>5, <1>6, <1>7 DEF Started, OpRec
<1>9. /\ op'.kind = k /\ op'.data = d /\ op'.ret = r /\ op'.batch = d /\ op'.from = View
      /\ op'.prev = cache /\ op'.todo = t /\ op'.val = <<>>
  BY <1>5 DEF Started
<1>10. pc' = l /\ UNCHANGED <<disk, record, crashes>>
  BY DEF Start
<1> QED
  BY <1>2, <1>8, <1>9, <1>10 DEF disk, record

LEMMA BeginTyped ==
  ASSUME Typed, UNCHANGED <<disk, record, crashes>>, op' \in OpRec,
         writes' = writes \/ (writes < MaxWrites /\ writes' = writes + 1)
  PROVE  Typed' /\ writes' \in Nat /\ writes' >= writes
<1>1. MaxWrites \in Nat /\ writes \in 0..MaxWrites /\ fs.ready \in Nat
  BY TypedIs, ChunkAssumption DEF Typed
<1>2. \A j \in OverwriteJournal : j.id \in Nat
  BY DEF OverwriteJournal
<1> QED
  BY <1>1, <1>2 DEF Typed, disk, record

(* What stands before an operation stands for it.                          *)
LEMMA BeginSame ==
  ASSUME Typed, AtIdle, fs' = fs, meta' = meta, cache' = cache, op'.from = View
  PROVE  Same'
  BY DEF AtIdle, Same

LEMMA StepBeginRead ==
  ASSUME Typed, AtIdle, BeginRead, UNCHANGED crashes
  PROVE  Typed' /\ Where'
<1>1. Recoveries("readBody") = <<OrFail("recO"), OrFail("readBody")>>
  BY DEF Recoveries, OrFail
<1>2. OrFail("recO") \in FrameType /\ OrFail("readBody") \in FrameType
  BY OrFailIs DEF Returns
<1>3. <<OrFail("recO"), OrFail("readBody")>> \in Seq(FrameType)
      /\ <<OrFail("recO"), OrFail("readBody")>> # <<>>
      /\ Head(<<OrFail("recO"), OrFail("readBody")>>) = OrFail("recO")
      /\ Tail(<<OrFail("recO"), OrFail("readBody")>>) = ToRead
  BY <1>2, Stack2 DEF ToRead
<1>4. Start("recA", <<OrFail("recO"), OrFail("readBody")>>, "read", <<>>) /\ cache # NoTable
  BY <1>1 DEF BeginRead
<1>5. /\ pc' = "recA" /\ op' \in OpRec /\ op'.kind = "read" /\ op'.ret = <<OrFail("recO"), OrFail("readBody")>>
      /\ op'.from = View /\ fs' = fs /\ faults' = faults /\ meta' = meta /\ cache' = cache /\ dirty' = dirty
  BY <1>3, <1>4, StartIs, NoContent DEF Kinds
<1>6. Typed'
  BY <1>5, BeginTyped DEF BeginRead, disk, record
<1>7. Same'
  BY <1>5, BeginSame
<1>8. Ctx(ToRead)'
  BY <1>4, <1>5 DEF Ctx, ToRead, OrFail
<1>9. Entering'
  BY <1>3, <1>5, <1>7, <1>8 DEF Entering, OrFail, ToRead
<1> QED
  BY <1>5, <1>6, <1>9 DEF Where, Labels, RecA

LEMMA NoFrames == <<>> \in Seq(FrameType)
  OBVIOUS

LEMMA Appended3 ==
  ASSUME NEW x \in FrameType, NEW y \in FrameType, NEW z \in FrameType
  PROVE  Append(<<x, y>>, z) = <<x, y, z>>
<1>1. <<x, y>> \in Seq(FrameType)
  BY Stack2
<1>2. PICK s \in Seq(FrameType) : s = <<x, y>>
  BY <1>1
<1>9. Len(s) = 2 /\ s[1] = x /\ s[2] = y
  BY <1>2
<1>10. Append(s, z) \in Seq(FrameType)
  BY <1>2
<1>3. PICK a \in Seq(FrameType) : a = Append(s, z)
  BY <1>10
<1>4. Len(a) = 3 /\ a[1] = x /\ a[2] = y /\ a[3] = z
  BY <1>9, <1>2, <1>3
<1>5. PICK b \in Seq(FrameType) : b = <<x, y, z>>
  BY Stack3
<1>6. Len(b) = 3 /\ b[1] = x /\ b[2] = y /\ b[3] = z
  BY <1>5
<1>7. \A i \in 1..3 : a[i] = b[i]
  BY <1>4, <1>6
<1>8. a = b
  BY <1>3, <1>4, <1>5, <1>6, <1>7, SeqEqual
<1> QED
  BY <1>2, <1>3, <1>5, <1>8

LEMMA StepBeginAppend ==
  ASSUME Typed, AtIdle, BeginAppend, UNCHANGED crashes
  PROVE  Typed' /\ Where'
<1>1. PICK d \in Batches :
        /\ Len(View) + Len(d) <= MaxChunks
        /\ Start("recA", Append(Recoveries("app"), Frame("okDone", "failed")), "append", d)
  BY DEF BeginAppend
<1>2. d \in Content /\ d # <<>> /\ View \in Content /\ IsChunked
  BY ChunkAssumption DEF BeginAppend
<1>4. OrFail("recO") \in FrameType /\ OrFail("app") \in FrameType /\ OrFail("okDone") \in FrameType
  BY OrFailIs DEF Returns
<1>3. Append(Recoveries("app"), Frame("okDone", "failed")) = <<OrFail("recO"), OrFail("app"), OrFail("okDone")>>
  <2>1. /\ Recoveries("app") = <<OrFail("recO"), OrFail("app")>>
        /\ Frame("okDone", "failed") = OrFail("okDone")
    BY DEF Recoveries, OrFail
  <2> QED
    BY <1>4, <2>1, Appended3
<1>5. <<OrFail("recO"), OrFail("app"), OrFail("okDone")>> \in Seq(FrameType)
      /\ <<OrFail("recO"), OrFail("app"), OrFail("okDone")>> # <<>>
      /\ Head(<<OrFail("recO"), OrFail("app"), OrFail("okDone")>>) = OrFail("recO")
      /\ Tail(<<OrFail("recO"), OrFail("app"), OrFail("okDone")>>) = ToAppend
  BY <1>4, Stack3 DEF ToAppend
<1>6. /\ pc' = "recA" /\ op' \in OpRec /\ op'.kind = "append" /\ op'.data = d
      /\ op'.ret = <<OrFail("recO"), OrFail("app"), OrFail("okDone")>>
      /\ op'.from = View /\ fs' = fs /\ faults' = faults /\ meta' = meta /\ cache' = cache /\ dirty' = dirty
  BY <1>1, <1>2, <1>3, <1>5, StartIs DEF Kinds
<1>7. Typed'
  BY <1>6, BeginTyped DEF BeginAppend, Mutates, disk, record
<1>8. Same'
  BY <1>6, BeginSame
<1>9. Ctx(ToAppend)'
  <2>1. IsChunked'
    BY <1>2, <1>6 DEF IsChunked
  <2> QED
    BY <1>1, <1>6, <2>1 DEF Ctx, ToAppend, OrFail
<1>10. Entering'
  BY <1>5, <1>6, <1>8, <1>9 DEF Entering, OrFail, ToAppend
<1> QED
  BY <1>6, <1>7, <1>10 DEF Where, Labels, RecA

LEMMA StepBeginOverwrite ==
  ASSUME Typed, AtIdle, BeginOverwrite, UNCHANGED crashes
  PROVE  Typed' /\ Where'
<1>1. PICK d \in Overwrites : Start("recA", Recoveries("wStart"), "overwrite", d)
  BY DEF BeginOverwrite
<1>2. d \in Content /\ IsChunked
  BY ChunkAssumption DEF BeginOverwrite
<1>3. Recoveries("wStart") = <<OrFail("recO"), OrFail("wStart")>>
  BY DEF Recoveries, OrFail
<1>4. OrFail("recO") \in FrameType /\ OrFail("wStart") \in FrameType
  BY OrFailIs DEF Returns
<1>5. <<OrFail("recO"), OrFail("wStart")>> \in Seq(FrameType)
      /\ <<OrFail("recO"), OrFail("wStart")>> # <<>>
      /\ Head(<<OrFail("recO"), OrFail("wStart")>>) = OrFail("recO")
      /\ Tail(<<OrFail("recO"), OrFail("wStart")>>) = ToOverwrite
  BY <1>4, Stack2 DEF ToOverwrite
<1>6. /\ pc' = "recA" /\ op' \in OpRec /\ op'.kind = "overwrite"
      /\ op'.ret = <<OrFail("recO"), OrFail("wStart")>>
      /\ op'.from = View /\ fs' = fs /\ faults' = faults /\ meta' = meta /\ cache' = cache /\ dirty' = dirty
  BY <1>1, <1>2, <1>3, <1>5, StartIs DEF Kinds
<1>7. Typed'
  BY <1>6, BeginTyped DEF BeginOverwrite, Mutates, disk, record
<1>8. Same'
  BY <1>6, BeginSame
<1>9. fs'.ready < writes'
  <2>1. fs.ready \in Nat /\ writes \in Nat /\ fs.ready <= writes
    BY TypedIs DEF Typed
  <2> QED
    BY <1>6, <2>1 DEF BeginOverwrite, Mutates
<1>10. Ctx(ToOverwrite)'
  <2>1. IsChunked'
    BY <1>2, <1>6 DEF IsChunked
  <2> QED
    BY <1>6, <1>9, <2>1 DEF Ctx, ToOverwrite, OrFail
<1>11. Entering'
  BY <1>5, <1>6, <1>8, <1>10 DEF Entering, OrFail, ToOverwrite
<1> QED
  BY <1>6, <1>7, <1>11 DEF Where, Labels, RecA

LEMMA StepBeginMigrate ==
  ASSUME Typed, AtIdle, BeginMigrate, UNCHANGED crashes
  PROVE  Typed' /\ Where'
<1>1. cache # NoTable /\ cache.mode = "single" /\ Start("mDelA", <<>>, "migrate", fs.single)
  BY DEF BeginMigrate
<1>2. ~IsDirOf(cache)
  BY <1>1 DEF IsDirOf
<1>3. /\ meta = cache /\ cache = Single(View) /\ fs.single = View /\ fs.aj = NoJournal /\ fs.oj = NoJournal
      /\ View \in Content
  BY <1>1, <1>2, AgreeRecords, TypedIs DEF AtIdle
<1>4. /\ pc' = "mDelA" /\ op' \in OpRec /\ op'.kind = "migrate" /\ op'.data = View /\ op'.batch = View
      /\ op'.from = View /\ op'.prev = cache
      /\ fs' = fs /\ faults' = faults /\ meta' = meta /\ cache' = cache /\ dirty' = dirty
  BY <1>1, <1>3, StartIs, NoFrames DEF Kinds
<1>5. Typed'
  BY <1>4, BeginTyped DEF BeginMigrate, Mutates, disk, record
<1>6. Migrating'
  BY <1>3, <1>4 DEF Migrating, Migrates, Both, Single
<1> QED
  BY <1>4, <1>5, <1>6 DEF Where, Labels

LEMMA StepBeginCreate ==
  ASSUME Confined, Typed, AtIdle, BeginCreate, UNCHANGED crashes
  PROVE  Typed' /\ Where'
<1>1. PICK d \in CreateData : Start("purge", <<>>, "create", d)
  BY DEF BeginCreate
<1>2. d = <<>> /\ cache = NoTable
  BY DEF Confined, BeginCreate
<1>3. meta = NoTable /\ View = Gone
  <2>1. Agree(fs, meta, cache, View) /\ meta \in MaybeMeta /\ cache \in MaybeMeta
    BY TypedIs DEF AtIdle
  <2>2. (meta = NoTable <=> cache = NoTable) /\ (cache = NoTable <=> View = Gone)
    BY <2>1, AgreeRecords
  <2> QED
    BY <1>2, <2>2
<1>4. /\ pc' = "purge" /\ op' \in OpRec /\ op'.kind = "create" /\ op'.data = <<>> /\ op'.ret = <<>>
      /\ op'.from = Gone /\ op'.prev = NoTable /\ op'.todo = PurgeAll
      /\ fs' = fs /\ faults' = faults /\ meta' = NoTable /\ cache' = NoTable /\ dirty' = dirty
      /\ meta' = meta /\ cache' = cache
  BY <1>1, <1>2, <1>3, StartIs, NoFrames, NoContent DEF Kinds
<1>5. Typed'
  BY <1>4, BeginTyped DEF BeginCreate, Mutates, disk, record
<1>6. \A f \in Artifacts : \E i \in DOMAIN op'.todo : op'.todo[i] = f
  BY <1>4, PurgeAllIs
<1>7. AtPurge'
  <2>1. NewTable' /\ Both(NoTable)' /\ op'.prev = NoTable /\ op'.ret = <<>> /\ op'.todo # <<>>
    BY <1>4, PurgeAllIs DEF NewTable, Both
  <2> QED
    BY <1>6, <2>1 DEF AtPurge, Purging
<1> QED
  BY <1>4, <1>5, <1>7 DEF Where, Labels

LEMMA StepBeginDrop ==
  ASSUME Typed, AtIdle, BeginDrop, UNCHANGED crashes
  PROVE  Typed' /\ Where'
<1>1. Start("dMeta", <<>>, "drop", <<>>) /\ cache # NoTable
  BY DEF BeginDrop
<1>2. /\ pc' = "dMeta" /\ op' \in OpRec /\ op'.kind = "drop" /\ op'.todo = PurgeChunked
      /\ op'.from = View /\ op'.prev = cache
      /\ fs' = fs /\ faults' = faults /\ meta' = meta /\ cache' = cache /\ dirty' = dirty
  BY <1>1, StartIs, NoFrames, NoContent DEF Kinds
<1>3. Typed'
  BY <1>2, BeginTyped DEF BeginDrop, Mutates, disk, record
<1>4. Same'
  BY <1>2, BeginSame
<1>5. AtDMeta'
  BY <1>1, <1>2, <1>4, PurgeChunkedIs DEF AtDMeta
<1> QED
  BY <1>2, <1>3, <1>5 DEF Where, Labels

LEMMA StepBegin ==
  ASSUME Confined, Typed, Where, Begin, UNCHANGED crashes
  PROVE  Typed' /\ Where'
<1>1. pc = "idle"
  BY DEF Begin, BeginRead, BeginAppend, BeginOverwrite, BeginMigrate, BeginCreate, BeginDrop, Start
<1>2. AtIdle
  BY <1>1 DEF Where
<1> QED
  BY <1>2, StepBeginRead, StepBeginAppend, StepBeginOverwrite, StepBeginMigrate, StepBeginCreate,
     StepBeginDrop DEF Begin

-----------------------------------------------------------------------------
(* The manager persists its pending mutations: what the record of the      *)
(* cache stands for becomes what the durable record stands for.  The same  *)
(* argument covers a step that changes nothing.                            *)

Flushed ==
  /\ meta' \in {meta, cache}
  /\ fs' = fs /\ cache' = cache /\ pc' = pc /\ op' = op /\ writes' = writes /\ faults' = faults

LEMMA FlushIs ==
  ASSUME Typed, Flush
  PROVE  Typed' /\ Flushed
  BY DEF Flush, bounds, Typed, Flushed

LEMMA FlushAgree ==
  ASSUME Flushed, NEW v, Agree(fs, meta, cache, v)
  PROVE  Agree(fs', meta', cache', v)
  BY DEF Flushed, Agree

LEMMA FlushSame ==
  ASSUME Flushed, Same
  PROVE  Same'
  BY FlushAgree DEF Same, Flushed

LEMMA FlushBoth ==
  ASSUME Flushed, NEW r, Both(r)
  PROVE  meta' = r /\ cache' = r /\ meta' = meta
  BY DEF Flushed, Both

LEMMA FlushCtx ==
  ASSUME Typed, Flushed, NEW b, Ctx(b)
  PROVE  Ctx(b)'
<1>1. op.kind = "create" => meta' = meta
  <2>1. op.kind = "create" => Both(NoTable)
    BY DEF Ctx, Creates
  <2> QED
    BY <2>1, FlushBoth
<1>2. IsChunked => IsChunked'
  BY DEF Flushed, IsChunked
<1> QED
  BY <1>1, <1>2, CtxKept, TypedIs DEF Flushed

LEMMA FlushRecO ==
  ASSUME Typed, Flushed, RecO
  PROVE  RecO'
<1>1. PICK b : b = op.ret
  OBVIOUS
<1>2. Ctx(b)'
  BY <1>1, FlushCtx DEF RecO
<1>3. Same'
  BY FlushSame DEF RecO
<1> QED
  BY <1>1, <1>2, <1>3 DEF RecO, Flushed

LEMMA FlushRestores ==
  ASSUME Typed, Flushed, Restores
  PROVE  Restores'
<1>1. RecO'
  BY FlushRecO DEF Restores
<1> QED
  BY <1>1 DEF Restores, Flushed

LEMMA FlushEntering ==
  ASSUME Typed, Flushed, Entering
  PROVE  Entering'
<1>1. PICK b : b = Tail(op.ret)
  OBVIOUS
<1>2. Ctx(b)'
  BY <1>1, FlushCtx DEF Entering
<1>3. Same'
  BY FlushSame DEF Entering
<1> QED
  BY <1>1, <1>2, <1>3 DEF Entering, Flushed

LEMMA FlushRenewing ==
  ASSUME Typed, Flushed, Renewing
  PROVE  Renewing'
<1>1. IsDirOf(cache) /\ IsDirOf(meta)
  BY DEF Renewing, IsChunked, IsDirOf
<1> QED
  BY <1>1, RenewingStays DEF Flushed

LEMMA FlushRedoing ==
  ASSUME Typed, Flushed, NEW b, Redoing(b)
  PROVE  Redoing(b)'
<1>1. IsDirOf(cache) /\ IsDirOf(meta)
  BY DEF Redoing, IsChunked, IsDirOf
<1> QED
  BY <1>1, RedoingStays DEF Flushed

LEMMA FlushEmpty ==
  ASSUME Flushed, EmptyAgain
  PROVE  EmptyAgain'
  BY FlushBoth DEF EmptyAgain, Flushed, Both

LEMMA FlushRecA ==
  ASSUME Typed, Flushed, RecA
  PROVE  RecA'
<1>1. CASE Entering
  BY <1>1, FlushEntering DEF RecA
<1>2. CASE op.ret = RenewAppend /\ Renewing /\ EmptyAgain /\ op.data # <<>>
  <2>1. Renewing' /\ EmptyAgain'
    BY <1>2, FlushRenewing, FlushEmpty
  <2> QED
    BY <1>2, <2>1 DEF RecA, Flushed, RenewAppend
<1>3. CASE \E b \in Bodies : op.ret = RedoAppend(b) /\ Redoing(b) /\ EmptyAgain /\ op.from # <<>>
  <2>1. PICK b \in Bodies : op.ret = RedoAppend(b) /\ Redoing(b) /\ EmptyAgain /\ op.from # <<>>
    BY <1>3
  <2>2. Redoing(b)' /\ EmptyAgain'
    BY <2>1, FlushRedoing, FlushEmpty
  <2>3. op'.ret = RedoAppend(b) /\ op'.from # <<>>
    BY <2>1 DEF Flushed
  <2> QED
    BY <2>2, <2>3 DEF RecA, RedoAppend, Bodies, ToRead, ToAppend, ToOverwrite, OrFail
<1> QED
  BY <1>1, <1>2, <1>3 DEF RecA

LEMMA FlushClearing ==
  ASSUME Typed, Flushed, Clearing
  PROVE  Clearing'
<1>1. fs'.aj = NoJournal /\ Same'
  BY FlushSame DEF Clearing, Flushed
<1>2. CASE Renewing /\ op.ret = IF op.data = <<>> THEN Renew ELSE RenewAll
  <2>1. Renewing'
    BY <1>2, FlushRenewing
  <2> QED
    BY <1>1, <1>2, <2>1 DEF Clearing, Flushed, Renew, RenewAll
<1>3. CASE \E b \in Bodies : Redoing(b) /\ op.ret = IF op.from = <<>> THEN Redo(b) ELSE RedoAll(b)
  <2>1. PICK b \in Bodies : Redoing(b) /\ op.ret = IF op.from = <<>> THEN Redo(b) ELSE RedoAll(b)
    BY <1>3
  <2>2. Redoing(b)'
    BY <2>1, FlushRedoing
  <2>3. op'.ret = IF op'.from = <<>> THEN Redo(b) ELSE RedoAll(b)
    BY <2>1 DEF Flushed
  <2> QED
    BY <1>1, <2>2, <2>3 DEF Clearing, Redo, RedoAll, Bodies, ToRead, ToAppend, ToOverwrite, OrFail
<1> QED
  BY <1>2, <1>3 DEF Clearing

(* An append, and the record it starts from.                               *)
LEMMA FlushAppends ==
  ASSUME Typed, Flushed, Appends, fs.aj \in {NoJournal, Journal}, IsDirOf(cache), IsDirOf(meta)
  PROVE  Appends' /\ Base' = Base /\ Whole' = Whole /\ Journal' = Journal
  BY AppendsStays DEF Flushed

LEMMA FlushJournaled ==
  ASSUME Typed, Flushed, Journaled
  PROVE  Journaled' /\ Base' = Base /\ Whole' = Whole
<1>1. IsDirOf(cache) /\ IsDirOf(meta)
  BY DEF Journaled
<1> QED
  BY <1>1, JournaledStays DEF Flushed

(* One of the places in the recovery of an overwrite.                      *)
LEMMA FlushRecovering ==
  ASSUME Typed, Where, Flushed,
         pc \in {"recA", "raDel", "raMeta", "raDelJ", "recO", "rrReset", "rpMk", "rpCopy", "rpMeta",
                 "roDelJ", "roDelBak", "roDelOld", "throw"}
  PROVE  Where'
<1>1. pc' = pc /\ fs' = fs /\ cache' = cache /\ op' = op
  BY DEF Flushed
<1>2. CASE pc = "recA"
  BY <1>1, <1>2, FlushRecA DEF Where, Labels
<1>3. CASE pc \in {"raDel", "raMeta", "raDelJ"}
  <2>1. Entering' /\ RecAJ'
    BY <1>1, <1>3, FlushEntering DEF Where, RecAJ, AtRaMeta, AtRaDelJ
  <2>2. pc = "raMeta" => AtRaMeta'
    BY <1>1, <2>1 DEF Where, AtRaMeta
  <2>3. pc = "raDelJ" => AtRaDelJ'
    <3>1. pc = "raDelJ" => AtRaMeta' /\ Both(Chunked(fs.aj.count, fs.aj.chunks))
      BY <1>1, <2>1 DEF Where, AtRaMeta, AtRaDelJ
    <3> QED
      BY <1>1, <3>1, FlushBoth DEF AtRaDelJ, Both
  <2> QED
    BY <1>1, <1>3, <2>1, <2>2, <2>3 DEF Where, Labels
<1>4. CASE pc = "recO"
  BY <1>1, <1>4, FlushRecO DEF Where, Labels
<1>5. CASE pc \in {"rrReset", "rpMk", "rpCopy", "rpMeta", "roDelJ"}
  <2>1. Restores'
    BY <1>5, FlushRestores DEF Where, AtReset, AtMake, AtCopy, AtRestored, AtDelJ
  <2>2. pc = "rrReset" => AtReset'
    BY <1>1, <2>1 DEF Where, AtReset
  <2>3. pc \in {"rpMk", "rpCopy"} => AtMake'
    BY <1>1, <2>1 DEF Where, AtMake, AtCopy
  <2>4. pc = "rpCopy" => AtCopy'
    BY <1>1, <2>3 DEF Where, AtCopy, NeedsDir
  <2>5. pc \in {"rpMeta", "roDelJ"} => AtRestored'
    BY <1>1, <2>1 DEF Where, AtRestored, AtDelJ
  <2>6. pc = "roDelJ" => AtDelJ'
    <3>1. pc = "roDelJ" => Both(RecordOf(op.from))
      BY DEF Where, AtDelJ
    <3> QED
      BY <1>1, <2>5, <3>1, FlushBoth DEF AtDelJ, Both
  <2> QED
    BY <1>1, <1>5, <2>2, <2>3, <2>4, <2>5, <2>6 DEF Where, Labels
<1>6. CASE pc = "roDelBak"
  <2>1. AtDelBak'
    BY <1>1, <1>6, FlushRecO DEF Where, AtDelBak
  <2> QED
    BY <1>1, <1>6, <2>1 DEF Where, Labels
<1>7. CASE pc = "roDelOld"
  <2>1. Both(RecordOf(op.from)) /\ RecO
    BY <1>7 DEF Where, AtDelOld
  <2>2. AtDelOld'
    BY <1>1, <1>7, <2>1, FlushBoth, FlushRecO DEF Where, AtDelOld, Both
  <2> QED
    BY <1>1, <1>7, <2>2 DEF Where, Labels
<1>8. CASE pc = "throw"
  <2>1. Same'
    BY <1>8, FlushSame DEF Where, AtThrow
  <2>2. AtThrow'
    BY <1>1, <1>8, <2>1 DEF Where, AtThrow, Redo, RedoAppend, Bodies, ToRead, ToAppend, ToOverwrite, OrFail
  <2> QED
    BY <1>1, <1>8, <2>2 DEF Where, Labels
<1> QED
  BY <1>2, <1>3, <1>4, <1>5, <1>6, <1>7, <1>8

LEMMA FlushCreates ==
  ASSUME Flushed, Creates
  PROVE  Creates' /\ meta' = meta
<1>1. Both(NoTable)
  BY DEF Creates
<1> QED
  BY <1>1, FlushBoth DEF Creates, Both, Flushed, FS0

LEMMA FlushAppending ==
  ASSUME Typed, Where, Flushed,
         pc \in {"clrDel", "clrMk", "clrMeta", "app", "appOld", "appMk", "appJ", "appWrite", "appMeta",
                 "appDelJ", "appUndo", "appUndoM", "appUndoMeta", "appUndoJ"}
  PROVE  Where'
<1>1. pc' = pc /\ fs' = fs /\ cache' = cache /\ op' = op
  BY DEF Flushed
<1>2. CASE pc \in {"clrDel", "clrMk", "clrMeta"}
  <2>1. Clearing'
    BY <1>2, FlushClearing DEF Where, AtClrMk, AtClrMeta
  <2> QED
    BY <1>1, <1>2, <2>1 DEF Where, Labels, AtClrMk, AtClrMeta
<1>3. CASE pc = "app"
  <2>1. AtApp
    BY <1>3 DEF Where
  <2>2. CASE op.ret = <<OrFail("cMeta")>> /\ Creates
    BY <1>1, <1>3, <2>2, FlushCreates DEF Where, Labels, AtApp, OrFail
  <2>3. CASE op.ret = Renew /\ Renewing /\ EmptyAgain /\ op.data # <<>>
    BY <1>1, <1>3, <2>3, FlushRenewing, FlushEmpty DEF Where, Labels, AtApp, Renew
  <2>4. CASE /\ op.ret = <<OrFail("okDone")>> /\ op.kind = "append" /\ IsChunked /\ op.data \in Batches
             /\ Len(op.from) + Len(op.data) <= MaxChunks /\ Same /\ fs.aj = NoJournal /\ fs.oj = NoJournal
    <3>1. Same' /\ IsChunked'
      BY <1>1, <2>4, FlushSame DEF IsChunked
    <3>2. AtApp'
      BY <1>1, <2>4, <3>1 DEF AtApp, OrFail
    <3> QED
      BY <1>1, <1>3, <3>2 DEF Where, Labels
  <2> QED
    BY <2>1, <2>2, <2>3, <2>4 DEF AtApp
<1>4. CASE pc = "appOld"
  <2>1. PICK b \in Bodies : op.ret = Redo(b) /\ Redoing(b) /\ EmptyAgain /\ op.from # <<>>
    BY <1>4 DEF Where, AtAppOld
  <2>2. Redoing(b)' /\ EmptyAgain'
    BY <2>1, FlushRedoing, FlushEmpty
  <2>3. AtAppOld'
    BY <1>1, <2>1, <2>2 DEF AtAppOld, Redo, Bodies, ToRead, ToAppend, ToOverwrite, OrFail
  <2> QED
    BY <1>1, <1>4, <2>3 DEF Where, Labels
<1>5. CASE pc \in {"appMk", "appJ"}
  <2>1. Appends /\ fs.aj = NoJournal /\ Both(op.prev) /\ Holds(fs.dir, Base)
    BY <1>5 DEF Where, AtAppMk, AtAppJ, Holds
  <2>2. IsDirOf(cache) /\ IsDirOf(meta)
    BY <2>1, AppendsIs DEF Both
  <2>3. Appends' /\ Base' = Base
    BY <2>1, <2>2, FlushAppends
  <2>4. Both(op.prev)'
    BY <1>1, <2>1, FlushBoth DEF Both
  <2>5. pc = "appJ" => DirIs(fs.dir, Base)
    BY DEF Where, AtAppJ
  <2> QED
    BY <1>1, <1>5, <2>1, <2>3, <2>4, <2>5 DEF Where, Labels, AtAppMk, AtAppJ
<1>6. CASE pc \in {"appWrite", "appMeta", "appDelJ", "appUndo", "appUndoM", "appUndoMeta", "appUndoJ"}
  <2>1. Journaled
    BY <1>6 DEF Where, AtAppWrite, AtAppMeta, AtAppDelJ, AtAppUndo, AtAppUndoMeta, AtAppUndoJ
  <2>2. Journaled' /\ Base' = Base /\ Whole' = Whole
    BY <2>1, FlushJournaled
  <2>3. Both(op.prev) => Both(op.prev)'
    BY <1>1, FlushBoth DEF Both
  <2>4. Both(RecordOf(Whole)) => meta' = RecordOf(Whole') /\ cache' = RecordOf(Whole')
    BY <2>2, FlushBoth
  <2>5. pc = "appWrite" => AtAppWrite'
    BY <1>1, <2>2, <2>3 DEF Where, AtAppWrite
  <2>6. pc = "appMeta" => AtAppMeta'
    BY <1>1, <2>2, <2>3 DEF Where, AtAppMeta
  <2>7. pc = "appDelJ" => AtAppDelJ'
    BY <1>1, <2>2, <2>4 DEF Where, AtAppDelJ, Both
  <2>8. pc = "appUndo" => AtAppUndo'
    BY <1>1, <2>2, <2>3 DEF Where, AtAppUndo
  <2>9. pc = "appUndoMeta" => AtAppUndoMeta'
    BY <1>1, <2>2, <2>3 DEF Where, AtAppUndoMeta
  <2>10. pc = "appUndoJ" => AtAppUndoJ'
    BY <1>1, <2>2, <2>3 DEF Where, AtAppUndoJ
  <2> QED
    BY <1>1, <1>6, <2>2, <2>5, <2>6, <2>7, <2>8, <2>9, <2>10 DEF Where, Labels
<1> QED
  BY <1>2, <1>3, <1>4, <1>5, <1>6

LEMMA ViewIsNext == View' = ViewOf(fs', meta')
  BY DEF View, ViewOf, Rest, Merged, Conflict, ConflictIn

LEMMA FlushWriting ==
  ASSUME Typed, Where, Flushed,
         pc \in {"wStart", "wMkBak", "wMove", "wReady", "wClear", "wMeta", "wDelJ", "wDelBak", "wCatch"}
  PROVE  Where'
<1>1. pc' = pc /\ fs' = fs /\ cache' = cache /\ op' = op /\ writes' = writes
  BY DEF Flushed
<1>2. IsChunked => IsChunked'
  BY <1>1 DEF IsChunked
<1>3. CASE pc = "wStart"
  <2>1. Same'
    BY <1>3, FlushSame DEF Where, AtWStart
  <2>2. AtWStart'
    BY <1>1, <1>2, <1>3, <2>1 DEF Where, AtWStart
  <2> QED
    BY <1>1, <1>3, <2>2 DEF Where, Labels
<1>4. CASE pc \in {"wMkBak", "wMove", "wReady"}
  <2>1. Overwriting
    BY <1>4 DEF Where, AtWMkBak, AtWMove, AtWReady
  <2>2. Overwriting'
    <3>1. Same'
      BY <2>1, FlushSame DEF Overwriting
    <3> QED
      BY <1>1, <1>2, <2>1, <3>1 DEF Overwriting
  <2>3. pc = "wMkBak" => AtWMkBak'
    BY <1>1, <2>2 DEF Where, AtWMkBak
  <2>4. pc \in {"wMove", "wReady"} => AtWMove'
    BY <1>1, <2>2 DEF Where, AtWMove, AtWReady
  <2>5. pc = "wReady" => AtWReady'
    BY <1>1, <2>4 DEF Where, AtWReady
  <2> QED
    BY <1>1, <1>4, <2>3, <2>4, <2>5 DEF Where, Labels
<1>5. CASE pc = "wClear"
  <2>1. AtWClear'
    BY <1>1, <1>5, FlushRenewing DEF Where, AtWClear
  <2> QED
    BY <1>1, <1>5, <2>1 DEF Where, Labels
<1>6. CASE pc \in {"wMeta", "wDelJ"}
  <2>1. Renewing' /\ Filled(op.data)
    BY <1>6, FlushRenewing DEF Where, AtWMeta
  <2>2. meta' = RecordOf(op.data) /\ cache' = RecordOf(op.data)
    BY <2>1, FlushBoth DEF Filled
  <2>3. AtWMeta'
    BY <1>1, <2>1, <2>2 DEF AtWMeta, Filled, Both
  <2> QED
    BY <1>1, <1>6, <2>3 DEF Where, Labels
<1>7. CASE pc = "wDelBak"
  <2>1. AtWDelBak'
    BY <1>1, <1>7, FlushAgree DEF Where, AtWDelBak
  <2> QED
    BY <1>1, <1>7, <2>1 DEF Where, Labels
<1>8. CASE pc = "wCatch"
  <2>1. AtWCatch'
    BY <1>1, <1>8, FlushSame DEF Where, AtWCatch
  <2> QED
    BY <1>1, <1>8, <2>1 DEF Where, Labels
<1> QED
  BY <1>3, <1>4, <1>5, <1>6, <1>7, <1>8

LEMMA FlushMigrating ==
  ASSUME Typed, Where, Flushed,
         pc \in {"mDelA", "mDelO", "mDelB", "mReset", "mCatch", "mMk", "mWrite", "mCheck", "mMeta",
                 "mUndoMeta", "mClean"}
  PROVE  Where'
<1>1. pc' = pc /\ fs' = fs /\ cache' = cache /\ op' = op /\ writes' = writes /\ faults' = faults /\ meta' \in {meta, cache}
  BY DEF Flushed
<1>2. Migrates => Migrates'
  BY <1>1 DEF Migrates
<1>3. Migrating => Migrating'
  BY <1>1, <1>2, FlushBoth DEF Migrating, Both
<1>4. CASE pc \in {"mDelA", "mDelO", "mDelB", "mReset", "mCatch"}
  BY <1>1, <1>3, <1>4 DEF Where, Labels
<1>5. CASE pc \in {"mMk", "mWrite", "mCheck", "mMeta"}
  BY <1>1, <1>3, <1>5 DEF Where, Labels, AtMMk, AtMWrite, AtMCheck
<1>6. CASE pc = "mUndoMeta"
  <2>1. AtMUndoMeta'
    BY <1>1, <1>2, <1>6 DEF Where, AtMUndoMeta
  <2> QED
    BY <1>1, <1>6, <2>1 DEF Where, Labels
<1>7. CASE pc = "mClean"
  <2>1. Both(RecordOf(op.data))
    BY <1>7 DEF Where, AtMClean
  <2>2. meta' = RecordOf(op.data) /\ cache' = RecordOf(op.data)
    BY <2>1, FlushBoth
  <2>3. AtMClean'
    BY <1>1, <1>7, <2>2 DEF Where, AtMClean, Both
  <2> QED
    BY <1>1, <1>7, <2>3 DEF Where, Labels
<1> QED
  BY <1>4, <1>5, <1>6, <1>7

LEMMA FlushPurging ==
  ASSUME Typed, Where, Flushed,
         pc \in {"purge", "purged", "cMeta", "cUndo", "cUndoMeta", "dMeta", "dUndoMeta"}
  PROVE  Where'
<1>1. pc' = pc /\ fs' = fs /\ cache' = cache /\ op' = op /\ writes' = writes /\ faults' = faults /\ meta' \in {meta, cache}
  BY DEF Flushed
<1>2. Undone => Undone'
  BY <1>1 DEF Undone, NewTable, FS0
<1>3. Both(NoTable) => Both(NoTable)'
  BY FlushBoth DEF Both
<1>4. CASE pc \in {"purge", "purged"}
  <2>1. Purging
    BY <1>4 DEF Where, AtPurge, AtPurged
  <2>2. CASE op.kind = "drop" /\ Both(NoTable)
    BY <1>1, <1>3, <1>4, <2>2 DEF Where, Labels, AtPurge, AtPurged, Purging
  <2>3. CASE Undone /\ op.prev # NoTable
    BY <1>1, <1>2, <1>4, <2>3 DEF Where, Labels, AtPurge, AtPurged, Purging
  <2>4. CASE /\ NewTable /\ Both(NoTable) /\ op.prev = NoTable /\ op.ret = <<>>
             /\ op.val = <<>> => \A f \in Artifacts : Dropped(f) \/ \E i \in DOMAIN op.todo : op.todo[i] = f
    <3>1. NewTable' /\ Both(NoTable)' /\ op'.prev = NoTable /\ op'.ret = <<>>
      BY <1>1, <1>3, <2>4 DEF NewTable
    <3>2. \A f \in Artifacts : Dropped(f) => Dropped(f)'
      BY <1>1 DEF Dropped, Artifacts
    <3>3. op'.val = <<>> => \A f \in Artifacts : Dropped(f)' \/ \E i \in DOMAIN op'.todo : op'.todo[i] = f
      BY <1>1, <2>4, <3>2
    <3>4. Purging'
      BY <3>1, <3>3 DEF Purging, Artifacts
    <3> QED
      BY <1>1, <1>4, <3>4 DEF Where, Labels, AtPurge, AtPurged
  <2> QED
    BY <2>1, <2>2, <2>3, <2>4 DEF Purging
<1>5. CASE pc = "cMeta"
  BY <1>1, <1>5, FlushCreates DEF Where, Labels
<1>6. CASE pc \in {"cUndo", "cUndoMeta"}
  BY <1>1, <1>2, <1>6 DEF Where, Labels
<1>7. CASE pc = "dMeta"
  <2>1. AtDMeta'
    BY <1>1, <1>7, FlushSame DEF Where, AtDMeta
  <2> QED
    BY <1>1, <1>7, <2>1 DEF Where, Labels
<1>8. CASE pc = "dUndoMeta"
  <2>1. AtDUndoMeta'
    BY <1>1, <1>8 DEF Where, AtDUndoMeta
  <2> QED
    BY <1>1, <1>8, <2>1 DEF Where, Labels
<1> QED
  BY <1>4, <1>5, <1>6, <1>7, <1>8

LEMMA FlushOutside ==
  ASSUME Typed, Where, Flushed,
         pc \in {"idle", "readBody", "readDone", "okDone", "acked", "failed"}
  PROVE  Where'
<1>1. pc' = pc /\ fs' = fs /\ cache' = cache /\ op' = op /\ writes' = writes /\ faults' = faults /\ meta' \in {meta, cache}
  BY DEF Flushed
<1>2. CASE pc = "idle"
  <2>1. Agree(fs, meta, cache, View)
    BY <1>2 DEF Where, AtIdle
  <2>2. View' = View
    BY <1>1, <2>1, ViewIsNext, StandsIs, TypedIs DEF Agree
  <2>3. AtIdle'
    BY <2>1, <2>2, FlushAgree DEF AtIdle
  <2> QED
    BY <1>1, <1>2, <2>3 DEF Where, Labels
<1>3. CASE pc = "readBody"
  <2>1. AtReadBody'
    BY <1>1, <1>3, FlushSame DEF Where, AtReadBody
  <2> QED
    BY <1>1, <1>3, <2>1 DEF Where, Labels
<1>4. CASE pc = "readDone"
  <2>1. AtReadDone'
    BY <1>1, <1>4, FlushSame DEF Where, AtReadDone
  <2> QED
    BY <1>1, <1>4, <2>1 DEF Where, Labels
<1>5. CASE pc \in {"okDone", "acked"}
  <2>1. AtDone'
    BY <1>1, <1>5, FlushAgree DEF Where, AtDone, Target
  <2> QED
    BY <1>1, <1>5, <2>1 DEF Where, Labels
<1>6. CASE pc = "failed"
  BY <1>1, <1>6, FlushSame DEF Where, Labels
<1> QED
  BY <1>2, <1>3, <1>4, <1>5, <1>6

LEMMA StepFlushed ==
  ASSUME Typed, Where, Flushed
  PROVE  Where'
<1>1. pc \in Labels
  BY DEF Where
<1> QED
  BY <1>1, FlushRecovering, FlushAppending, FlushWriting, FlushMigrating, FlushPurging, FlushOutside
     DEF Labels

LEMMA StepFlush ==
  ASSUME Typed, Where, Flush
  PROVE  Typed' /\ Where'
  BY FlushIs, StepFlushed

LEMMA StepStutters ==
  ASSUME Typed, Where, UNCHANGED vars
  PROVE  Typed' /\ Where'
<1>1. Flushed
  BY DEF vars, Flushed
<1>2. Typed'
  BY DEF vars, Typed
<1> QED
  BY <1>1, <1>2, StepFlushed

-----------------------------------------------------------------------------
(* At every step the table is what the operation found or what it writes.  *)

LEMMA SameStands == ASSUME Same PROVE Stands(fs, meta, op.from)
  BY DEF Same, Agree

LEMMA RedoingStands ==
  ASSUME Typed, NEW b, Redoing(b), EmptyAgain
  PROVE  Stands(fs, meta, op.from)
<1>1. /\ fs.oj \in OldJournal /\ fs.bak = NoDir /\ op.from \in Content /\ op.from = fs.oj.prev
  BY RedoingIs
<1>2. fs.aj = NoJournal /\ Holds(fs.dir, <<>>) /\ meta = Chunked(0, 0)
  BY DEF EmptyAgain, Holds, Both
<1> QED
  BY <1>1, <1>2, AgreeEmptied, TypedIs

LEMMA AppendsStands ==
  ASSUME Typed, Appends, fs.aj = NoJournal, Holds(fs.dir, Base), Both(op.prev)
  PROVE  Stands(fs, meta, op.from)
<1>1. Agree(fs, op.prev, op.prev, op.from)
  BY AppendsAgree, TypedIs
<1> QED
  BY <1>1 DEF Agree, Both

LEMMA JournaledSame ==
  ASSUME Typed, Journaled
  PROVE  Same /\ fs.aj = Journal /\ AppendTargets = Targets(Journal) /\ fs.aj # NoJournal
<1>1. /\ Appends /\ fs.aj = Journal /\ IsDirOf(meta) /\ IsDirOf(cache)
      /\ Holds(Without(fs.dir, Targets(Journal)), Base) /\ AppendTargets = Targets(Journal)
  BY JournaledIs
<1>2. Agree(fs, meta, cache, op.from)
  BY <1>1, JournaledAgree, TypedIs
<1> QED
  BY <1>1, <1>2, AppendsIs DEF Same

LEMMA StandsEmpty == Stands(FS0, Chunked(0, 0), <<>>)
<1>1. Holds(FS0.dir, <<>>) /\ FS0.aj = NoJournal /\ FS0.oj = NoJournal
  BY NoFiles DEF Holds
<1> QED
  BY <1>1, AgreePlain, NoContent, NoRecord DEF Agree

LEMMA UndoneStands ==
  ASSUME Undone
  PROVE  \/ meta = NoTable /\ Stands(fs, meta, Gone) /\ op.from = Gone
         \/ meta # NoTable /\ Stands(fs, meta, <<>>) /\ op.data = <<>> /\ op.kind = "create"
<1>1. NewTable /\ fs = FS0 /\ meta \in {NoTable, Chunked(0, 0)}
  BY DEF Undone
<1>2. Stands(fs, NoTable, Gone)
  BY StandsNothing DEF Agree
<1> QED
  BY <1>1, <1>2, StandsEmpty, NoRecord DEF NewTable

LEMMA Standing ==
  ASSUME Typed, Where, pc # "idle"
  PROVE  \E v \in {op.from, Target} : Stands(fs, meta, v)
<1>0. Stands(fs, NoTable, Gone)
  BY StandsNothing DEF Agree
<1>1. CASE pc \in {"raDel", "raMeta", "raDelJ", "recO", "rrReset", "rpMk", "rpCopy", "rpMeta",
                   "roDelJ", "roDelBak", "roDelOld", "throw"}
  <2>1. Same
    BY <1>1 DEF Where, RecAJ, AtRaMeta, AtRaDelJ, RecO, AtReset, AtMake, AtCopy, AtRestored, AtDelJ,
                AtDelBak, AtDelOld, AtThrow, Restores, Entering
  <2> QED
    BY <2>1, SameStands
<1>2. CASE pc = "recA"
  <2>1. RecA
    BY <1>2 DEF Where
  <2> QED
    BY <2>1, SameStands, RedoingStands, RenewingIs DEF RecA, Entering
<1>3. CASE pc \in {"clrDel", "clrMk", "clrMeta"}
  BY <1>3, SameStands DEF Where, AtClrMk, AtClrMeta, Clearing
<1>4. CASE pc = "app"
  <2>1. AtApp
    BY <1>4 DEF Where
  <2>2. Creates => Stands(fs, meta, op.from)
    BY <1>0 DEF Creates, Both
  <2> QED
    BY <2>1, <2>2, SameStands, RenewingIs DEF AtApp
<1>5. CASE pc = "appOld"
  BY <1>5, RedoingStands DEF Where, AtAppOld
<1>6. CASE pc \in {"appMk", "appJ"}
  BY <1>6, AppendsStands DEF Where, AtAppMk, AtAppJ, Holds
<1>7. CASE pc \in {"appWrite", "appMeta", "appDelJ", "appUndo", "appUndoM", "appUndoMeta", "appUndoJ"}
  <2>1. Journaled
    BY <1>7 DEF Where, AtAppWrite, AtAppMeta, AtAppDelJ, AtAppUndo, AtAppUndoMeta, AtAppUndoJ
  <2> QED
    BY <2>1, JournaledSame, SameStands
<1>8. CASE pc \in {"wStart", "wMkBak", "wMove", "wReady", "wClear", "wMeta", "wDelJ", "wCatch"}
  <2>1. Same
    BY <1>8, RenewingIs DEF Where, AtWStart, AtWMkBak, AtWMove, AtWReady, AtWClear, AtWMeta, AtWCatch,
                            Overwriting
  <2> QED
    BY <2>1, SameStands
<1>9. CASE pc = "wDelBak"
  <2>1. Stands(fs, meta, op.data) /\ op.kind = "overwrite"
    BY <1>9 DEF Where, AtWDelBak, Agree
  <2> QED
    BY <2>1 DEF Target
<1>10. CASE pc \in {"mDelA", "mDelO", "mDelB", "mReset", "mCatch", "mMk", "mWrite", "mCheck", "mMeta"}
  <2>1. Migrating
    BY <1>10 DEF Where, AtMMk, AtMWrite, AtMCheck
  <2> QED
    BY <2>1, MigratingIs, SameStands
<1>11. CASE pc \in {"mUndoMeta", "mClean"}
  <2>1. /\ op.data = op.from /\ op.from \in Content /\ fs.aj = NoJournal /\ fs.oj = NoJournal
        /\ DirIs(fs.dir, op.data)
        /\ \/ meta = Single(op.from) /\ fs.single = op.from
           \/ meta = RecordOf(op.from)
    BY <1>11 DEF Where, AtMUndoMeta, AtMClean, Migrates, Both
  <2>2. Holds(fs.dir, op.from)
    BY <2>1 DEF Holds
  <2>3. /\ Stands(fs, RecordOf(op.from), op.from)
        /\ fs.single = op.from => Stands(fs, Single(op.from), op.from)
    BY <2>1, <2>2, AgreePlain, AgreeSingle DEF Agree
  <2> QED
    BY <2>1, <2>3
<1>12. CASE pc \in {"purge", "purged"}
  <2>1. Purging
    BY <1>12 DEF Where, AtPurge, AtPurged
  <2>2. CASE op.kind = "drop" /\ Both(NoTable)
    BY <1>0, <2>2 DEF Both, Target
  <2>3. CASE NewTable /\ Both(NoTable)
    BY <1>0, <2>3 DEF Both, NewTable
  <2>4. CASE Undone
    BY <2>4, UndoneStands DEF Target
  <2> QED
    BY <2>1, <2>2, <2>3, <2>4 DEF Purging
<1>13. CASE pc = "cMeta"
  BY <1>0, <1>13 DEF Where, Creates, Both
<1>14. CASE pc \in {"cUndo", "cUndoMeta"}
  BY <1>14, UndoneStands DEF Where, Target
<1>15. CASE pc = "dMeta"
  BY <1>15, SameStands DEF Where, AtDMeta
<1>16. CASE pc = "dUndoMeta"
  BY <1>0, <1>16 DEF Where, AtDUndoMeta, Target
<1>17. CASE pc \in {"readBody", "readDone", "failed"}
  BY <1>17, SameStands DEF Where, AtReadBody, AtReadDone
<1>18. CASE pc \in {"okDone", "acked"}
  BY <1>18 DEF Where, AtDone, Agree
<1>19. pc \in Labels
  BY DEF Where
<1> QED
  BY <1>1, <1>2, <1>3, <1>4, <1>5, <1>6, <1>7, <1>8, <1>9, <1>10, <1>11, <1>12, <1>13, <1>14, <1>15,
     <1>16, <1>17, <1>18, <1>19 DEF Labels

-----------------------------------------------------------------------------
(* A kill inside a call that touches several files leaves the table what   *)
(* it was.                                                                 *)

LEMMA PartIs ==
  ASSUME Typed, NEW d \in MaybeDir, fs' = [fs EXCEPT !.dir = d]
  PROVE  /\ FsType(fs') /\ fs'.dir = d /\ fs'.bak = fs.bak /\ fs'.ready = fs.ready /\ fs'.aj = fs.aj
         /\ fs'.oj = fs.oj /\ fs'.single = fs.single
  BY SetDir, TypedIs

Survives ==
  /\ FsType(fs') /\ fs'.ready \in {0, fs.ready} /\ fs'.oj \in {fs.oj, NoJournal}
  /\ \E v : Stands(fs, meta, v) /\ Stands(fs', meta, v)

LEMMA SurvivesSame ==
  ASSUME FsType(fs'), fs'.ready \in {0, fs.ready}, fs'.oj \in {fs.oj, NoJournal}, Same,
         Stands(fs', meta, op.from)
  PROVE  Survives
<1>1. PICK v : v = op.from
  OBVIOUS
<1>2. Stands(fs, meta, v) /\ Stands(fs', meta, v)
  BY <1>1, SameStands
<1> QED
  BY <1>2 DEF Survives

LEMMA HalfReset ==
  ASSUME Typed, AtReset, fs' \in DirLeft
  PROVE  Survives
<1>1. PICK S : fs' = [fs EXCEPT !.dir = Without(fs.dir, S)] /\ Without(fs.dir, S) \in MaybeDir
  BY LeftIs
<1>2. /\ FsType(fs') /\ fs'.bak = fs.bak /\ fs'.ready = fs.ready /\ fs'.aj = fs.aj /\ fs'.oj = fs.oj
  BY <1>1, PartIs
<1>3. Restores /\ Sealed(fs, op.from)
  BY DEF AtReset
<1>4. Same /\ op.from \in Content /\ IsDirOf(meta)
  BY <1>3, RestoresIs
<1>5. Sealed(fs', op.from)
  BY <1>2, <1>3, SealedKept
<1>6. Agree(fs', meta, meta, op.from)
  BY <1>4, <1>5, AgreeBehind
<1> QED
  BY <1>2, <1>4, <1>6, SurvivesSame DEF Agree

LEMMA HalfCleared ==
  ASSUME Typed, Clearing, fs' \in DirLeft
  PROVE  Survives
<1>1. PICK S : fs' = [fs EXCEPT !.dir = Without(fs.dir, S)] /\ Without(fs.dir, S) \in MaybeDir
  BY LeftIs
<1>2. /\ FsType(fs') /\ fs'.bak = fs.bak /\ fs'.ready = fs.ready /\ fs'.aj = fs.aj /\ fs'.oj = fs.oj
  BY <1>1, PartIs
<1>3. Agree(fs', meta, cache, op.from)
  BY <1>1, ClearingLess
<1>4. Same
  BY ClearingIs
<1> QED
  BY <1>2, <1>3, <1>4, SurvivesSame DEF Agree

LEMMA SurvivesMigrating ==
  ASSUME Typed, Migrating, FsType(fs'), fs'.ready \in {0, fs.ready}, fs'.oj = fs.oj, fs'.aj = fs.aj,
         fs'.single = fs.single
  PROVE  Survives
<1>1. /\ Same /\ op.from \in Content /\ meta = Single(op.from)
      /\ fs.single = op.from /\ fs.aj = NoJournal /\ fs.oj = NoJournal
  BY MigratingIs
<1>2. Agree(fs', Single(op.from), Single(op.from), op.from)
  BY <1>1, AgreeSingle
<1> QED
  BY <1>1, <1>2, SurvivesSame DEF Agree

LEMMA HalfMigrated ==
  ASSUME Typed, Migrating, fs' \in DirLeft \cup BakLeft
  PROVE  Survives
<1>1. CASE fs' \in DirLeft
  <2>1. PICK S : fs' = [fs EXCEPT !.dir = Without(fs.dir, S)] /\ Without(fs.dir, S) \in MaybeDir
    BY <1>1, LeftIs
  <2> QED
    BY <2>1, PartIs, SurvivesMigrating
<1>2. CASE fs' \in BakLeft
  BY <1>2, BakLeftIs, SurvivesMigrating
<1> QED
  BY <1>1, <1>2

LEMMA HalfCopied ==
  ASSUME Typed, AtMWrite, fs' \in ChunksWritten(0)
  PROVE  Survives
<1>1. /\ Migrating /\ DirIs(fs.dir, <<>>) /\ op.batch = op.data /\ op.data \in Content
      /\ fs.dir = EmptyDir
  BY MigratingIs, EmptyDirOnly DEF AtMWrite
<1> DEFINE w == With(fs.dir, 0, op.batch)
<1>2. DirIs(w, op.data) /\ w \in MaybeDir
  <2>1. DirIs(w, op.data)
    BY <1>1, DirOfIs
  <2> QED
    BY <2>1 DEF DirIs, MaybeDir
<1>3. ChunksWritten(0) = {[fs EXCEPT !.dir = Without(w, T)] :
                             T \in SUBSET (0..(0 + Len(op.batch) - 1))}
  BY DEF ChunksWritten
<1> HIDE DEF w
<1>4. PICK T : fs' = [fs EXCEPT !.dir = Without(w, T)]
  BY <1>3
<1>5. Without(w, T) \in MaybeDir
  BY <1>2, WithoutIs
<1> QED
  BY <1>1, <1>4, <1>5, PartIs, SurvivesMigrating

LEMMA HalfDropped ==
  ASSUME Typed, NEW v, Agree(fs, meta, cache, v), fs.oj = NoJournal, fs' \in BakLeft
  PROVE  Survives
<1>1. /\ FsType(fs') /\ fs'.dir = fs.dir /\ fs'.aj = fs.aj /\ fs'.oj = fs.oj /\ fs'.single = fs.single
      /\ fs'.ready \in {0, fs.ready}
  BY BakLeftIs
<1>2. Agree(fs', meta, cache, v)
  BY <1>1, AgreeAlone, TypedIs
<1> QED
  BY <1>1, <1>2 DEF Survives, Agree

LEMMA HalfUndone ==
  ASSUME Typed, Same, fs.aj # NoJournal, fs' \in ChunksLeft(Targets(fs.aj))
  PROVE  Survives
<1>1. PICK T : T \subseteq Targets(fs.aj) /\ fs' = [fs EXCEPT !.dir = Without(fs.dir, T)]
  BY DEF ChunksLeft
<1>2. Without(fs.dir, T) \in MaybeDir
  BY WithoutIs, FilesOf, TypedIs
<1>3. Agree(fs', meta, cache, op.from)
  BY <1>1, AgreeUndone, TypedIs DEF Same
<1> QED
  BY <1>1, <1>2, <1>3, PartIs, SurvivesSame DEF Agree

LEMMA HalfAppended ==
  ASSUME Typed, AtAppWrite, fs' \in ChunksWritten(KnownChunks(op.prev))
  PROVE  Survives
<1>1. /\ Appends /\ fs.aj = Journal /\ DirIs(fs.dir, Base) /\ IsDirOf(meta) /\ IsDirOf(cache)
      /\ Base \in Content /\ op.batch \in Content
      /\ Len(Base) \in Nat /\ Len(op.batch) \in Nat /\ Len(Base) + Len(op.batch) <= MaxChunks
      /\ KnownChunks(op.prev) = Len(Base) /\ Targets(Journal) = Behind(Base, op.batch)
  BY AppendsIs DEF AtAppWrite, Journaled
<1> DEFINE w == With(fs.dir, Len(Base), op.batch)
           S == Behind(Base, op.batch)
<1>2. Without(w, S) = fs.dir /\ w \in MaybeDir
  <2>1. PICK c, e \in Content, d \in MaybeDir : c = Base /\ e = op.batch /\ d = fs.dir
    BY <1>1, FilesOf, TypedIs
  <2>2. DirIs(With(d, Len(c), e), c \o e) /\ Without(With(d, Len(c), e), Behind(c, e)) = d
    BY <1>1, <2>1, Extended
  <2>3. DirIs(w, Whole) /\ Without(w, S) = fs.dir
    BY <2>1, <2>2 DEF Whole
  <2> QED
    BY <2>3 DEF DirIs, MaybeDir
<1>3. ChunksWritten(Len(Base)) = {[fs EXCEPT !.dir = Without(w, T)] : T \in SUBSET S}
  BY DEF ChunksWritten, Behind
<1> HIDE DEF w, S
<1>4. PICK T \in SUBSET S : fs' = [fs EXCEPT !.dir = Without(w, T)]
  BY <1>1, <1>3
<1>5. Without(w, T) \in MaybeDir /\ Without(Without(w, T), S) = fs.dir
  BY <1>2, WithoutIs, WithoutMore
<1>6. /\ FsType(fs') /\ Without(fs'.dir, S) = fs.dir /\ fs'.bak = fs.bak /\ fs'.ready = fs.ready
      /\ fs'.aj = Journal /\ fs'.oj = fs.oj
  BY <1>1, <1>4, <1>5, PartIs
<1>7. Holds(Without(fs'.dir, Targets(Journal)), Base)
  BY <1>1, <1>6 DEF Holds, S
<1>8. Agree(fs', meta, cache, op.from)
  BY <1>1, <1>6, <1>7, JournaledAgree
<1>9. Same
  BY JournaledSame DEF AtAppWrite
<1> QED
  BY <1>6, <1>8, <1>9, SurvivesSame DEF Agree

LEMMA HalfPurged ==
  ASSUME Typed, AtPurge, fs' \in PurgeLeft(Head(op.todo))
  PROVE  Survives
<1>0. /\ op.todo \in Seq(Artifacts) /\ op.todo # <<>> /\ op \in OpRec
  BY TypedIs DEF OpRec, AtPurge
<1>1. PICK h \in Artifacts : h = Head(op.todo)
  BY <1>0, TodoIs
<1>2. /\ FsType(fs') /\ fs'.ready \in {0, fs.ready} /\ fs'.oj \in {fs.oj, NoJournal}
      /\ \A f \in Artifacts : Dropped(f) => Dropped(f)'
  BY <1>1, PurgeIs
<1>3. CASE meta = NoTable
  <2>1. Stands(fs, meta, Gone) /\ Stands(fs', meta, Gone)
    BY <1>3, StandsNothing DEF Agree
  <2> QED
    BY <1>2, <2>1 DEF Survives
<1>4. CASE Undone
  <2>1. \A f \in Artifacts : Dropped(f)'
    BY <1>2, <1>4, NothingThere DEF Undone
  <2>2. /\ fs'.oj = NoJournal /\ fs'.aj = NoJournal /\ fs'.bak = NoDir /\ fs'.ready = 0
        /\ fs'.single = Absent /\ fs'.dir = NoDir
    BY <2>1 DEF Dropped, Artifacts
  <2>3. fs' = FS0
    BY <1>2, <2>2, NoFilesOnly
  <2> QED
    BY <1>2, <1>4, <2>3, UndoneStands DEF Survives, Undone
<1> QED
  BY <1>3, <1>4 DEF AtPurge, Purging, Both

LEMMA HalfSurvives ==
  ASSUME Typed, Where, fs' \in HalfDone
  PROVE  Survives
<1>1. CASE pc = "rrReset"
  BY <1>1, HalfReset DEF Where, HalfDone
<1>2. CASE pc = "clrDel"
  BY <1>2, HalfCleared DEF Where, HalfDone
<1>3. CASE pc \in {"mReset", "mCatch", "mDelB"}
  <2>1. fs' \in DirLeft \cup BakLeft
    BY <1>3 DEF HalfDone
  <2> QED
    BY <1>3, <2>1, HalfMigrated DEF Where
<1>4. CASE pc \in {"roDelBak", "wDelBak"}
  <2>1. fs' \in BakLeft
    BY <1>4 DEF HalfDone
  <2>2. fs.oj = NoJournal /\ \E v : Agree(fs, meta, cache, v)
    BY <1>4 DEF Where, AtDelBak, AtWDelBak, RecO, Same
  <2> QED
    BY <2>1, <2>2, HalfDropped
<1>5. CASE pc = "raDel"
  <2>1. fs' \in ChunksLeft(Targets(fs.aj))
    BY <1>5 DEF HalfDone
  <2>2. Same /\ fs.aj # NoJournal
    BY <1>5, RecAJIs DEF Where
  <2> QED
    BY <2>1, <2>2, HalfUndone
<1>6. CASE pc \in {"appUndo", "appUndoM"}
  <2>1. fs' \in ChunksLeft(AppendTargets)
    BY <1>6 DEF HalfDone
  <2>2. Journaled
    BY <1>6 DEF Where, AtAppUndo
  <2> QED
    BY <2>1, <2>2, HalfUndone, JournaledSame
<1>7. CASE pc = "appWrite"
  <2>1. fs' \in ChunksWritten(KnownChunks(op.prev))
    BY <1>7 DEF HalfDone
  <2> QED
    BY <1>7, <2>1, HalfAppended DEF Where
<1>8. CASE pc = "mWrite"
  <2>1. fs' \in ChunksWritten(0)
    BY <1>8 DEF HalfDone
  <2> QED
    BY <1>8, <2>1, HalfCopied DEF Where
<1>9. CASE pc = "purge"
  <2>1. fs' \in PurgeLeft(Head(op.todo))
    BY <1>9 DEF HalfDone
  <2> QED
    BY <1>9, <2>1, HalfPurged DEF Where
<1>10. CASE pc \notin {"rrReset", "clrDel", "mReset", "mCatch", "mDelB", "roDelBak", "wDelBak", "raDel",
                       "appUndo", "appUndoM", "appWrite", "mWrite", "purge"}
  BY <1>10 DEF HalfDone
<1> QED
  BY <1>1, <1>2, <1>3, <1>4, <1>5, <1>6, <1>7, <1>8, <1>9, <1>10

LEMMA CrashSurvives ==
  ASSUME Typed, Where, Crash
  PROVE  Survives
<1>1. CASE fs' = fs
  <2>1. \E v : Stands(fs, meta, v)
    BY Standing DEF Where, AtIdle, Agree
  <2> QED
    BY <1>1, <2>1, TypedIs DEF Survives
<1>2. CASE fs' \in HalfDone
  BY <1>2, HalfSurvives
<1> QED
  BY <1>1, <1>2 DEF Crash

LEMMA StepCrash ==
  ASSUME Typed, Where, Crash
  PROVE  Typed' /\ Where' /\ View' = View
<1>1. /\ FsType(fs') /\ fs'.ready \in {0, fs.ready} /\ fs'.oj \in {fs.oj, NoJournal}
      /\ \E v : Stands(fs, meta, v) /\ Stands(fs', meta, v)
  BY CrashSurvives DEF Survives
<1>2. PICK v : Stands(fs, meta, v) /\ Stands(fs', meta, v)
  BY <1>1
<1>3. /\ pc' = "idle" /\ op' = NoOp /\ meta' = meta /\ cache' = meta /\ dirty' = FALSE
      /\ writes' = writes /\ faults' = faults /\ crashes < MaxCrashes /\ crashes' = crashes + 1
  BY DEF Crash
<1>4. View = v
  BY <1>2, StandsIs, ViewIs, TypedIs
<1>5. View' = v
  BY <1>1, <1>2, <1>3, StandsIs, ViewIsNext, TypedIs
<1>6. AtIdle'
  <2>1. Agree(fs', meta, meta, v)
    BY <1>2 DEF Agree
  <2> QED
    BY <1>3, <1>5, <2>1 DEF AtIdle
<1>7. Typed'
  <2>1. crashes' \in 0..MaxCrashes
    BY <1>3, ChunkAssumption DEF Typed
  <2>2. fs'.ready <= writes
    BY <1>1, TypedIs DEF Typed
  <2> QED
    BY <1>1, <1>3, <2>1, <2>2, NoOpIs, JournalsApart DEF Typed
<1> QED
  BY <1>3, <1>4, <1>5, <1>6, <1>7 DEF Where, Labels

-----------------------------------------------------------------------------
(* Every step of the handler keeps the invariant                           *)

(* No write of the metadata fails that takes back an earlier failed one.   *)
NoFailedUndo == pc \in {"mUndoMeta", "dUndoMeta", "cUndoMeta"} => faults' = faults

LEMMA KeepRecoverAppend ==
  ASSUME Confined, Typed, Where, RecoverAppend, UNCHANGED bounds
  PROVE  Typed' /\ Where'
<1>1. CASE pc = "recA" /\ To(IF fs.aj = NoJournal THEN "ok" ELSE "raDel") /\ UNCHANGED <<disk, record>>
  BY <1>1, StepRecA DEF Where
<1>2. CASE pc = "raDel" /\ DeleteChunks(Targets(fs.aj), "raMeta", "err") /\ UNCHANGED record
  BY <1>2, StepRaDel DEF Where
<1>3. CASE pc = "raMeta" /\ Save([cache EXCEPT !.count = fs.aj.count, !.chunks = fs.aj.chunks], "raDelJ", "err")
  BY <1>3, StepRaMeta DEF Where
<1>4. CASE pc = "raDelJ" /\ DropAppendJournal("ok", "err") /\ UNCHANGED record
  BY <1>4, StepRaDelJ DEF Where
<1> QED
  BY <1>1, <1>2, <1>3, <1>4 DEF RecoverAppend

LEMMA KeepRecoverOverwrite ==
  ASSUME Confined, Typed, Where, RecoverOverwrite, UNCHANGED bounds
  PROVE  Typed' /\ Where'
<1>1. CASE pc = "recO" /\ ChooseRecovery /\ UNCHANGED disk /\ UNCHANGED record
  BY <1>1, StepRecO DEF Where
<1>2. CASE pc = "rrReset" /\ ResetDir("rpMk", "err") /\ UNCHANGED record
  BY <1>2, StepReset DEF Where
<1>3. CASE /\ pc = "rpMk" /\ UNCHANGED record
           /\ IF NeedsDir THEN MakeDir("rpCopy", "err") ELSE To("rpCopy") /\ UNCHANGED disk
  BY <1>3, StepMake DEF Where
<1>4. CASE pc = "rpCopy" /\ RestoreChunk /\ UNCHANGED record
  BY <1>4, StepCopy DEF Where
<1>5. CASE pc = "roDelJ" /\ DropOverwriteJournal("roDelBak", "err") /\ UNCHANGED record
  BY <1>5, StepRoDelJ DEF Where
<1>6. CASE pc = "roDelBak" /\ DropBackup("ok", "ok") /\ UNCHANGED record
  BY <1>6, StepRoDelBak DEF Where
<1>7. CASE pc = "roDelOld" /\ DropOverwriteJournal("ok", "err") /\ UNCHANGED record
  BY <1>7, StepRoDelOld DEF Where
<1>8. CASE /\ pc = "rpMeta"
           /\ IF ValidDir(fs.dir, fs.oj.count, fs.oj.chunks, ~fs.oj.dirExisted)
              THEN Save(Chunked(fs.oj.count, fs.oj.chunks), "roDelJ", "err")
              ELSE To("err") /\ UNCHANGED <<disk, record>>
  BY <1>8, StepRestored DEF Where
<1> QED
  BY <1>1, <1>2, <1>3, <1>4, <1>5, <1>6, <1>7, <1>8 DEF RecoverOverwrite

LEMMA KeepClear ==
  ASSUME Confined, Typed, Where, Clear \/ Throw, UNCHANGED bounds
  PROVE  Typed' /\ Where'
<1>1. CASE pc = "clrDel" /\ ResetDir("clrMk", "err") /\ UNCHANGED record
  BY <1>1, StepClrDel DEF Where
<1>2. CASE pc = "clrMk" /\ MakeDir("clrMeta", "err") /\ UNCHANGED record
  BY <1>2, StepClrMk DEF Where
<1>3. CASE pc = "clrMeta" /\ Save(Chunked(0, 0), "ok", "err")
  BY <1>3, StepClrMeta DEF Where
<1>4. CASE pc = "throw" /\ To("err") /\ UNCHANGED <<disk, record>>
  BY <1>4, StepThrow DEF Where
<1> QED
  BY <1>1, <1>2, <1>3, <1>4 DEF Clear, Throw

LEMMA KeepAppend ==
  ASSUME Confined, Typed, Where, AppendFiles \/ AppendMeta, UNCHANGED bounds
  PROVE  Typed' /\ Where'
<1>1. CASE pc = "app" /\ StartAppend /\ UNCHANGED disk /\ UNCHANGED record
  BY <1>1, StepApp DEF Where
<1>2. CASE pc = "appOld" /\ StartAppend /\ UNCHANGED disk /\ UNCHANGED record
  BY <1>2, StepAppOld DEF Where
<1>3. CASE pc = "appMk" /\ MakeDir("appJ", "err") /\ UNCHANGED record
  BY <1>3, StepAppMk DEF Where
<1>4. CASE pc = "appJ" /\ PublishJournal /\ UNCHANGED record
  BY <1>4, StepAppJ DEF Where
<1>5. CASE pc = "appWrite" /\ WriteChunks(KnownChunks(op.prev), "appMeta", "appUndo") /\ UNCHANGED record
  BY <1>5, StepAppWrite DEF Where
<1>6. CASE pc = "appDelJ" /\ DropAppendJournal("ok", "appUndoM") /\ UNCHANGED record
  BY <1>6, StepAppDelJ DEF Where
<1>7. CASE pc = "appUndo" /\ DeleteChunks(AppendTargets, "appUndoJ", "err") /\ UNCHANGED record
  BY <1>7, StepAppUndo DEF Where
<1>8. CASE pc = "appUndoM" /\ DeleteChunks(AppendTargets, "appUndoMeta", "err") /\ UNCHANGED record
  BY <1>8, StepAppUndoM DEF Where
<1>9. CASE pc = "appUndoJ" /\ DropAppendJournal("err", "err") /\ UNCHANGED record
  BY <1>9, StepAppUndoJ DEF Where
<1>10. CASE pc = "appMeta" /\ Save(Appended, "appDelJ", "appUndoM")
  BY <1>10, StepAppMeta DEF Where
<1>11. CASE pc = "appUndoMeta" /\ Save(op.prev, "appUndoJ", "err")
  BY <1>11, StepAppUndoMeta DEF Where
<1> QED
  BY <1>1, <1>2, <1>3, <1>4, <1>5, <1>6, <1>7, <1>8, <1>9, <1>10, <1>11 DEF AppendFiles, AppendMeta

LEMMA KeepOverwrite ==
  ASSUME Confined, Typed, Where, OverwriteFiles \/ OverwriteMeta, UNCHANGED bounds
  PROVE  Typed' /\ Where'
<1>1. CASE pc = "wStart" /\ StartOverwrite /\ UNCHANGED record
  BY <1>1, StepWStart DEF Where
<1>2. CASE /\ pc = "wMkBak" /\ UNCHANGED record
           /\ IF fs.bak # NoDir THEN To("wCatch") /\ UNCHANGED disk
              ELSE Call([fs EXCEPT !.bak = EmptyDir], {}, "wMove", "wCatch")
  BY <1>2, StepWMkBak DEF Where
<1>3. CASE pc = "wMove" /\ BackupChunk /\ UNCHANGED record
  BY <1>3, StepWMove DEF Where
<1>4. CASE pc = "wReady" /\ MarkReady /\ UNCHANGED record
  BY <1>4, StepWReady DEF Where
<1>5. CASE pc = "wClear" /\ NewGeneration /\ UNCHANGED disk /\ UNCHANGED record
  BY <1>5, StepWClear DEF Where
<1>6. CASE pc = "wDelJ" /\ DropOverwriteJournal("wDelBak", "wCatch") /\ UNCHANGED record
  BY <1>6, StepWDelJ DEF Where
<1>7. CASE pc = "wDelBak" /\ DropBackup("okDone", "okDone") /\ UNCHANGED record
  BY <1>7, StepWDelBak DEF Where
<1>8. CASE /\ pc = "wCatch" /\ UNCHANGED disk /\ UNCHANGED record
           /\ Run("recA", <<Frame("recO", "failed"), Frame("failed", "failed")>>)
  BY <1>8, StepWCatch DEF Where
<1>9. CASE pc = "wMeta" /\ Save([cache EXCEPT !.count = Records(op.data)], "wDelJ", "wCatch")
  BY <1>9, StepWMeta DEF Where
<1> QED
  BY <1>1, <1>2, <1>3, <1>4, <1>5, <1>6, <1>7, <1>8, <1>9 DEF OverwriteFiles, OverwriteMeta

LEMMA KeepMigrate ==
  ASSUME Confined, Typed, Where, MigrateFiles \/ MigrateMeta, NoFailedUndo, UNCHANGED bounds
  PROVE  Typed' /\ Where'
<1>1. CASE pc = "mDelA" /\ DropAppendJournal("mDelO", "failed") /\ UNCHANGED record
  BY <1>1, StepMDelA DEF Where
<1>2. CASE pc = "mDelO" /\ DropOverwriteJournal("mDelB", "failed") /\ UNCHANGED record
  BY <1>2, StepMDelO DEF Where
<1>3. CASE pc = "mDelB" /\ DropBackup("mReset", "failed") /\ UNCHANGED record
  BY <1>3, StepMDelB DEF Where
<1>4. CASE pc = "mReset" /\ ResetDir("mMk", "failed") /\ UNCHANGED record
  BY <1>4, StepMReset DEF Where
<1>5. CASE pc = "mMk" /\ MakeDir("mWrite", "failed") /\ UNCHANGED record
  BY <1>5, StepMMk DEF Where
<1>6. CASE pc = "mWrite" /\ WriteChunks(0, "mCheck", "mCatch") /\ UNCHANGED record
  BY <1>6, StepMWrite DEF Where
<1>7. CASE /\ pc = "mCheck" /\ UNCHANGED disk /\ UNCHANGED record
           /\ To(IF ValidDir(fs.dir, Records(op.data), Len(op.data), FALSE) THEN "mMeta" ELSE "mCatch")
  <2>1. PICK l \in {"mMeta", "mCatch"} : To(l)
    BY <1>7
  <2> QED
    BY <1>7, <2>1, StepMCheck DEF Where
<1>8. CASE pc = "mCatch" /\ ResetDir("failed", "failed") /\ UNCHANGED record
  BY <1>8, StepMCatch DEF Where
<1>9. CASE pc = "mClean" /\ Call([fs EXCEPT !.single = Absent], {}, "okDone", "okDone") /\ UNCHANGED record
  BY <1>9, StepMClean DEF Where
<1>10. CASE pc = "mMeta" /\ Save(Chunked(Records(op.data), Len(op.data)), "mClean", "mUndoMeta")
  BY <1>10, StepMMeta DEF Where
<1>11. CASE pc = "mUndoMeta" /\ Save(op.prev, "mCatch", "failed")
  BY <1>11, StepMUndoMeta DEF Where, NoFailedUndo
<1> QED
  BY <1>1, <1>2, <1>3, <1>4, <1>5, <1>6, <1>7, <1>8, <1>9, <1>10, <1>11 DEF MigrateFiles, MigrateMeta

LEMMA KeepTable ==
  ASSUME Confined, Typed, Where, Purge \/ Purge2 \/ TableMeta, NoFailedUndo, UNCHANGED bounds
  PROVE  Typed' /\ Where'
<1>1. CASE Purge
  BY <1>1, StepPurge DEF Where, Purge
<1>2. CASE Purge2
  BY <1>2, StepPurged DEF Where, Purge2
<1>3. CASE pc = "cMeta" /\ Save(Chunked(Records(op.data), KnownChunks(cache)), "okDone", "cUndo")
  BY <1>3, StepCMeta DEF Where
<1>4. CASE /\ pc = "cUndo" /\ UNCHANGED <<disk, record>>
           /\ pc' = "purge" /\ op' = [op EXCEPT !.todo = PurgeChunked, !.prev = cache]
  BY <1>4, StepCUndo DEF Where
<1>5. CASE pc = "cUndoMeta" /\ Save(NoTable, "failed", "failed")
  BY <1>5, StepCUndoMeta DEF Where, NoFailedUndo
<1>6. CASE pc = "dMeta" /\ Save(NoTable, "purge", "dUndoMeta")
  BY <1>6, StepDMeta DEF Where
<1>7. CASE pc = "dUndoMeta" /\ Save(op.prev, "failed", "failed")
  BY <1>7, StepDUndoMeta DEF Where, NoFailedUndo
<1> QED
  BY <1>1, <1>2, <1>3, <1>4, <1>5, <1>6, <1>7 DEF TableMeta

LEMMA StepNext ==
  ASSUME Confined, Typed, Where, Next, NoFailedUndo
  PROVE  Typed' /\ Where'
<1>1. CASE Begin
  <2>1. crashes' = crashes
    BY <1>1 DEF Begin, BeginRead, BeginAppend, BeginOverwrite, BeginMigrate, BeginCreate, BeginDrop, Start
  <2> QED
    BY <1>1, <2>1, StepBegin
<1>2. CASE Step
  <2>1. CASE ReadBody
    BY <1>2, <2>1, StepReadBody DEF Where, ReadBody, Step
  <2> QED
    BY <1>2, <2>1, KeepRecoverAppend, KeepRecoverOverwrite, KeepClear, KeepAppend, KeepOverwrite,
       KeepMigrate, KeepTable, StepReport DEF Step
<1> QED
  BY <1>1, <1>2, StepFlush, StepCrash DEF Next

(* When one call may fail, the failed write is the one to take back.       *)
LEMMA OneFaultIs ==
  ASSUME MaxFaults <= 1, Typed, Where, Next
  PROVE  NoFailedUndo
<1>1. SUFFICES ASSUME pc \in {"mUndoMeta", "dUndoMeta", "cUndoMeta"} PROVE faults' = faults
  BY DEF NoFailedUndo
<1>2. faults > 0
  BY <1>1 DEF Where, AtMUndoMeta, AtDUndoMeta, Undone
<1>3. ~(faults < MaxFaults)
  BY <1>2, TypedIs, ChunkAssumption
<1>4. ~Fault
  BY <1>3 DEF Fault
<1>5. CASE Begin
  BY <1>1, <1>5 DEF Begin, BeginRead, BeginAppend, BeginOverwrite, BeginMigrate, BeginCreate, BeginDrop, Start
<1>6. CASE Step
  <2>1. MigrateMeta \/ TableMeta
    BY <1>1, <1>6 DEF Step, RecoverAppend, RecoverOverwrite, Throw, Clear, AppendFiles, AppendMeta,
       OverwriteFiles, OverwriteMeta, MigrateFiles, Purge, Purge2, ReadBody, Report
  <2>2. Save(op.prev, "mCatch", "failed") \/ Save(op.prev, "failed", "failed") \/ Save(NoTable, "failed", "failed")
    BY <1>1, <2>1 DEF MigrateMeta, TableMeta
  <2> QED
    BY <1>4, <2>2 DEF Save
<1>7. CASE Flush \/ Crash
  BY <1>7 DEF Flush, Crash
<1> QED
  BY <1>5, <1>6, <1>7 DEF Next

-----------------------------------------------------------------------------
(* The initial states                                                      *)

LEMMA FilesTyped ==
  ASSUME NEW d \in MaybeDir, NEW s \in Content \cup {Absent}
  PROVE  /\ FsType(Files0(d, s)) /\ Files0(d, s).dir = d /\ Files0(d, s).bak = NoDir
         /\ Files0(d, s).ready = 0 /\ Files0(d, s).aj = NoJournal /\ Files0(d, s).oj = NoJournal
         /\ Files0(d, s).single = s
  BY JournalsApart DEF Files0, FsType, FsRec, MaybeDir

OldFiles(d, j) == [Files0(d, Absent) EXCEPT !.oj = j]

LEMMA OldFilesTyped ==
  ASSUME Confined, NEW d \in MaybeDir, NEW j \in OldJournals, NEW f, f = OldFiles(d, j)
  PROVE  /\ FsType(f) /\ f.dir = d /\ f.bak = NoDir /\ f.ready = 0 /\ f.aj = NoJournal /\ f.oj = j
         /\ j \in OldJournal /\ j.prev \in Content /\ j.target \in Content /\ j.target # <<>>
         /\ f.oj \notin OverwriteJournal
<1>1. j \in OldJournal /\ j.target # <<>> /\ j \notin OverwriteJournal
  BY ChunkAssumption, JournalsApart DEF Confined
<1>2. j.prev \in Content /\ j.target \in Content
  BY <1>1 DEF OldJournal
<1> QED
  BY <1>1, <1>2 DEF OldFiles, Files0, FsType, FsRec, MaybeDir

LEMMA OldStart ==
  ASSUME Confined, NEW j \in OldJournals, NEW c \in {j.prev, <<>>, j.target}, NEW f,
         f = OldFiles(DirOf(c), j)
  PROVE  /\ FsType(f) /\ f.ready = 0 /\ f.oj \notin OverwriteJournal /\ RecordOf(c) \in MaybeMeta
         /\ \E v : Agree(f, RecordOf(c), RecordOf(c), v)
<1>1. DirOf(c) \in MaybeDir /\ c \in Content /\ DirIs(DirOf(c), c)
  <2>1. j.prev \in Content /\ j.target \in Content
    BY ChunkAssumption DEF OldJournal
  <2>2. c \in Content
    BY <2>1, NoContent
  <2>3. DirIs(DirOf(c), c)
    BY <2>2, DirOfIs
  <2> QED
    BY <2>2, <2>3 DEF DirIs, MaybeDir
<1>2. /\ FsType(f) /\ f.dir = DirOf(c) /\ f.bak = NoDir /\ f.ready = 0 /\ f.aj = NoJournal /\ f.oj = j
      /\ j \in OldJournal /\ j.prev \in Content /\ j.target \in Content /\ j.target # <<>>
      /\ f.oj \notin OverwriteJournal
  <2>1. PICK d \in MaybeDir : d = DirOf(c)
    BY <1>1
  <2>2. f = OldFiles(d, j)
    BY <2>1
  <2> QED
    <3>1. /\ FsType(f) /\ f.dir = d /\ f.bak = NoDir /\ f.ready = 0 /\ f.aj = NoJournal /\ f.oj = j
          /\ j \in OldJournal /\ j.prev \in Content /\ j.target \in Content /\ j.target # <<>>
          /\ f.oj \notin OverwriteJournal
      BY <2>1, <2>2, OldFilesTyped
    <3> QED
      BY <2>1, <3>1
<1>3. /\ RecordOf(c) \in MaybeMeta /\ IsDirOf(RecordOf(c))
      /\ RecordOf(c).count = Records(c) /\ RecordOf(c).chunks = Len(c)
  BY <1>1, RecordIs DEF MaybeMeta
<1>4. Holds(f.dir, c) /\ Files(f.dir) = 0..(Len(c) - 1) /\ Listing(f.dir) = c
  BY <1>1, <1>2, DirListing DEF Holds
<1>5. CASE c = j.target
  <2>1. OldTarget(f, RecordOf(c), c)
    BY <1>2, <1>4, <1>5 DEF OldTarget
  <2>2. Stands(f, RecordOf(c), c)
    BY <1>1, <1>3, <2>1, StandsChunked
  <2>3. Agree(f, RecordOf(c), RecordOf(c), c)
    BY <2>2 DEF Agree
  <2> QED
    BY <1>2, <1>3, <2>3
<1>6. CASE c # j.target
  <2>1. Counted(f, RecordOf(c), j.prev)
    BY <1>2, <1>3, <1>4, <1>6 DEF Counted
  <2>2. OldPrev(f, RecordOf(c), j.prev)
    BY <1>2, <2>1 DEF OldPrev
  <2>3. Stands(f, RecordOf(c), j.prev)
    BY <1>2, <1>3, <2>2, StandsChunked
  <2>4. Agree(f, RecordOf(c), RecordOf(c), j.prev)
    BY <2>3 DEF Agree
  <2> QED
    BY <1>2, <1>3, <2>4
<1> QED
  BY <1>5, <1>6

LEMMA InitStands ==
  ASSUME Confined, Init
  PROVE  /\ FsType(fs) /\ fs.ready = 0 /\ fs.oj \notin OverwriteJournal /\ cache \in MaybeMeta
         /\ \E v : Agree(fs, cache, cache, v)
<1>0. NoDir \in MaybeDir /\ \A c \in Content : c \in Content \cup {Absent} /\ Absent \in Content \cup {Absent}
  BY DEF MaybeDir
<1>1. CASE cache = NoTable /\ fs = Files0(NoDir, Absent)
  <2>1. FsType(fs) /\ fs.ready = 0 /\ fs.oj = NoJournal
    BY <1>1, NoFiles DEF FS0
  <2> QED
    BY <1>1, <2>1, StandsNothing, JournalsApart DEF MaybeMeta
<1>2. CASE \E c \in Overwrites : /\ cache = [mode |-> "single", count |-> Records(c), chunks |-> 0]
                                 /\ fs = Files0(NoDir, c)
  <2>1. PICK c \in Overwrites : cache = Single(c) /\ fs = Files0(NoDir, c)
    BY <1>2 DEF Single
  <2>2. c \in Content
    BY ChunkAssumption
  <2>3. FsType(fs) /\ fs.ready = 0 /\ fs.oj = NoJournal /\ fs.aj = NoJournal /\ fs.single = c
    BY <1>0, <2>1, <2>2, FilesTyped
  <2>4. Agree(fs, Single(c), Single(c), c) /\ Single(c) \in MaybeMeta
    BY <2>2, <2>3, AgreeSingle, RecordIs DEF MaybeMeta
  <2> QED
    BY <2>1, <2>3, <2>4, JournalsApart
<1>3. CASE \E c \in Overwrites : /\ cache = Chunked(Records(c), Len(c))
                                 /\ fs = Files0(IF c = <<>> THEN NoDir ELSE DirOf(c), Absent)
  <2>1. PICK c \in Overwrites : cache = RecordOf(c) /\ fs = Files0(IF c = <<>> THEN NoDir ELSE DirOf(c), Absent)
    BY <1>3 DEF RecordOf
  <2>2. c \in Content
    BY ChunkAssumption
  <2>3. PICK d \in MaybeDir : fs = Files0(d, Absent) /\ Holds(d, c)
    <3>1. CASE c = <<>>
      BY <1>0, <2>1, <3>1 DEF Holds
    <3>2. CASE c # <<>>
      BY <2>1, <2>2, <3>2, DirOfIs DEF Holds, DirIs, MaybeDir
    <3> QED
      BY <3>1, <3>2
  <2>4. FsType(fs) /\ fs.ready = 0 /\ fs.oj = NoJournal /\ fs.aj = NoJournal /\ fs.dir = d
    BY <2>3, FilesTyped
  <2>5. Agree(fs, RecordOf(c), RecordOf(c), c) /\ RecordOf(c) \in MaybeMeta
    BY <2>2, <2>3, <2>4, AgreePlain, RecordIs DEF MaybeMeta
  <2> QED
    BY <2>1, <2>4, <2>5, JournalsApart
<1>4. CASE \E j \in OldJournals : \E c \in {j.prev, <<>>, j.target} :
              /\ cache = Chunked(Records(c), Len(c))
              /\ fs = [Files0(DirOf(c), Absent) EXCEPT !.oj = j]
  <2>1. PICK j \in OldJournals, c \in Content :
            /\ c \in {j.prev, <<>>, j.target} /\ cache = RecordOf(c)
            /\ fs = OldFiles(DirOf(c), j)
    <3>1. \A j \in OldJournals : {j.prev, <<>>, j.target} \subseteq Content
      BY ChunkAssumption, NoContent DEF OldJournal
    <3> QED
      BY <1>4, <3>1 DEF RecordOf, OldFiles
  <2>2. PICK f : f = fs
    OBVIOUS
  <2>3. /\ FsType(f) /\ f.ready = 0 /\ f.oj \notin OverwriteJournal /\ RecordOf(c) \in MaybeMeta
        /\ \E v : Agree(f, RecordOf(c), RecordOf(c), v)
    BY <2>1, <2>2, OldStart
  <2> QED
    BY <2>1, <2>2, <2>3
<1> QED
  BY <1>1, <1>2, <1>3, <1>4 DEF Init

LEMMA Starts ==
  ASSUME Confined, Init
  PROVE  Typed /\ Where
<1>1. /\ FsType(fs) /\ fs.ready = 0 /\ fs.oj \notin OverwriteJournal /\ cache \in MaybeMeta
      /\ \E v : Agree(fs, cache, cache, v)
  BY InitStands
<1>2. /\ meta = cache /\ dirty = FALSE /\ pc = "idle" /\ op = NoOp /\ writes = 0 /\ faults = 0 /\ crashes = 0
  BY DEF Init
<1>3. Typed
  <2>1. writes \in 0..MaxWrites /\ faults \in 0..MaxFaults /\ crashes \in 0..MaxCrashes /\ fs.ready <= writes
    BY <1>1, <1>2, ChunkAssumption
  <2> QED
    BY <1>1, <1>2, <2>1, NoOpIs DEF Typed
<1>4. AtIdle
  BY <1>1, <1>2, <1>3, AgreeView DEF AtIdle
<1> QED
  BY <1>2, <1>3, <1>4 DEF Where, Labels

-----------------------------------------------------------------------------
(* What holds in every state                                               *)

LEMMA InvStep ==
  ASSUME Confined, Inv, [Next]_vars, [NoFailedUndo]_vars
  PROVE  Inv'
<1>1. CASE UNCHANGED vars
  BY <1>1, StepStutters DEF Inv
<1>2. CASE Next /\ NoFailedUndo
  BY <1>2, StepNext DEF Inv
<1> QED
  BY <1>1, <1>2

(* In every state the files under the durable record stand for one content *)
(* (Where), whatever calls fail and whenever the process is killed.        *)
THEOREM Inductive ==
  ASSUME Confined
  PROVE  Spec /\ [][NoFailedUndo]_vars => []Inv
<1>1. Init => Inv
  BY Starts DEF Inv
<1>2. Inv /\ [Next]_vars /\ [NoFailedUndo]_vars => Inv'
  BY InvStep
<1> QED
  BY <1>1, <1>2, PTL DEF Spec

(* With at most one failing call the hypothesis on the undoing holds.      *)
THEOREM OneFault ==
  ASSUME Confined, MaxFaults <= 1
  PROVE  Spec => []Inv /\ [][NoFailedUndo]_vars
<1>1. Init => Inv
  BY Starts DEF Inv
<1>2. Inv /\ [Next]_vars => [NoFailedUndo]_vars
  BY OneFaultIs DEF Inv
<1>3. Inv /\ [Next]_vars => Inv'
  BY <1>2, InvStep
<1> QED
  BY <1>1, <1>2, <1>3, PTL DEF Spec

LEMMA InvTypeOK == ASSUME Inv PROVE TypeOK
<1>1. Typed
  BY DEF Inv
<1>2. fs \in FsRec /\ (fs.ready # 0 => fs.bak # NoDir)
  BY <1>1, TypedIs DEF FsType
<1>3. op.data \in Content /\ op.from \in Content \cup {Gone} /\ op.prev \in Meta \cup {NoTable}
  BY <1>1, OpIs, TypedIs DEF MaybeMeta
<1>4. /\ fs \in [dir: Dir \cup {NoDir}, bak: Dir \cup {NoDir}, ready: Nat,
                 aj: AppendJournal \cup {NoJournal},
                 oj: OverwriteJournal \cup OldJournal \cup {NoJournal},
                 single: Content \cup {Absent}]
  BY <1>2 DEF FsRec, MaybeDir
<1> QED
  BY <1>1, <1>2, <1>3, <1>4 DEF TypeOK, Typed, MaybeMeta

LEMMA InvStands == ASSUME Inv PROVE \E v : Stands(fs, meta, v)
  BY Standing DEF Inv, Where, AtIdle, Agree

LEMMA InvCounts == ASSUME Inv PROVE CountAgrees
<1>1. SUFFICES ASSUME meta # NoTable, meta.mode = "chunked", fs.aj = NoJournal, fs.oj = NoJournal
               PROVE  Complete(fs.dir, meta.chunks) /\ meta.count = Records(Listing(fs.dir))
  BY DEF CountAgrees
<1>2. PICK v : Stands(fs, meta, v)
  BY InvStands
<1>3. IsDirOf(meta) /\ meta \in MaybeMeta
  BY <1>1, TypedIs DEF IsDirOf, Inv
<1>4. v \in Content /\ Plain(fs, meta, v)
  BY <1>1, <1>2, <1>3, StandsRecord, JournalsApart DEF Appending, Split, Sealed, OldTarget, OldPrev
<1>5. Holds(fs.dir, v) /\ meta = RecordOf(v)
  BY <1>4 DEF Plain
<1> QED
  BY <1>4, <1>5, HoldsListing, RecordIs

LEMMA InvReads == ASSUME Inv PROVE ReadReturnsView
<1>1. ASSUME pc = "readDone" PROVE op.val = View
  <2>1. Agree(fs, meta, cache, op.from) /\ op.val = op.from
    BY <1>1 DEF Inv, Where, AtReadDone, Same
  <2> QED
    BY <2>1, AgreeView DEF Inv
<1> QED
  BY <1>1 DEF ReadReturnsView

(* The state is well formed, and between two calls the record counts what  *)
(* is stored: count and chunks are those of the content a client sees.     *)
THEOREM ConsistentHolds ==
  ASSUME Confined
  PROVE  Spec /\ [][NoFailedUndo]_vars => []Consistent
<1>1. Inv => Consistent
  BY InvTypeOK, InvCounts DEF Consistent
<1> QED
  BY <1>1, Inductive, PTL

(* A read answers with the content of the table: it gives back no part of  *)
(* an append or an overwrite that did not come to its end, and misses      *)
(* nothing of one that did (readAll after the recoveries).                 *)
THEOREM ReadReturnsViewHolds ==
  ASSUME Confined
  PROVE  Spec /\ [][NoFailedUndo]_vars => []ReadReturnsView
  BY InvReads, Inductive, PTL

-----------------------------------------------------------------------------
(* The table is an atomic value (AtomicTable)                              *)

LEMMA ViewTyped == ASSUME Inv PROVE View \in Content \cup {Gone}
<1>1. PICK v : Stands(fs, meta, v)
  BY InvStands
<1>2. View = v /\ meta \in MaybeMeta
  BY <1>1, StandsIs, ViewIs, TypedIs DEF Inv
<1>3. meta = NoTable => v = Gone
  BY <1>1, <1>2, StandsRecord
<1>4. meta # NoTable => v \in Content
  BY <1>1, <1>2, StandsRecord
<1> QED
  BY <1>2, <1>3, <1>4

(* While an operation runs, the table is what it found or what it writes.  *)
Runs == pc # "idle" => View \in {op.from, Target}

LEMMA Running == Inv => Runs
<1>1. SUFFICES ASSUME Inv, pc # "idle" PROVE View \in {op.from, Target}
  BY DEF Runs
<1>2. PICK v \in {op.from, Target} : Stands(fs, meta, v)
  BY <1>1, Standing DEF Inv
<1>3. View = v
  BY <1>1, <1>2, StandsIs, ViewIs, TypedIs DEF Inv
<1> QED
  BY <1>2, <1>3

LEMMA RunningNext == Inv' => Runs'
  BY Running, PTL

(* A step inside an operation: the call stays what it is.                  *)
Kept ==
  /\ pc \notin {"idle", "acked"} /\ pc' \notin {"idle", "acked"}
  /\ op'.kind = op.kind /\ op'.data = op.data /\ op'.from = op.from

Inner(l) == l \notin {"idle", "acked"} /\ (l \in {"ok", "err"} => op.ret # <<>>)

LEMMA ToKeeps ==
  ASSUME Typed, pc \notin {"idle", "acked"}, NEW l, Inner(l), To(l)
  PROVE  Kept
<1>1. CASE l \in {"ok", "err"}
  <2>1. op.ret # <<>> /\ op \in OpRec
    BY <1>1, TypedIs DEF Inner
  <2>2. /\ pc' = Head(op.ret)[l] /\ Head(op.ret) \in FrameType
        /\ op'.kind = op.kind /\ op'.data = op.data /\ op'.from = op.from
    BY <1>1, <2>1, ToReturn
  <2>3. pc' \in Returns
    BY <1>1, <2>2 DEF FrameType
  <2> QED
    BY <2>2, <2>3 DEF Kept, Returns
<1>2. CASE l \notin {"ok", "err"}
  BY <1>2, ToLabel DEF Inner, Kept
<1> QED
  BY <1>1, <1>2

LEMMA CallKeeps ==
  ASSUME Typed, pc \notin {"idle", "acked"}, NEW f, NEW P, NEW n, NEW e, Call(f, P, n, e),
         Inner(n), Inner(e)
  PROVE  Kept
<1>1. To(n) \/ To(e)
  BY DEF Call
<1> QED
  BY <1>1, ToKeeps

LEMMA SaveKeeps ==
  ASSUME Typed, pc \notin {"idle", "acked"}, NEW r, NEW n, NEW e, Save(r, n, e), Inner(n), Inner(e)
  PROVE  Kept
<1>1. To(n) \/ To(e)
  BY DEF Save
<1> QED
  BY <1>1, ToKeeps

LEMMA RunKeeps ==
  ASSUME Typed, pc \notin {"idle", "acked"}, NEW l, l \notin {"idle", "acked"}, NEW r, Run(l, r)
  PROVE  Kept
<1>1. op \in OpRec
  BY TypedIs
<1> QED
  BY <1>1 DEF Run, Kept, OpRec

(* A method that returns has a caller.                                     *)
Methods ==
  {"recA", "raDel", "raMeta", "raDelJ", "recO", "rrReset", "rpMk", "rpCopy", "rpMeta", "roDelJ",
   "roDelBak", "roDelOld", "throw", "clrDel", "clrMk", "clrMeta", "app", "appOld", "appMk", "appJ",
   "appWrite", "appMeta", "appDelJ", "appUndo", "appUndoM", "appUndoMeta", "appUndoJ"}

LEMMA Stacked ==
  ASSUME Typed, Where, pc \in Methods
  PROVE  op.ret # <<>>
<1>1. CASE pc \in {"raDel", "raMeta", "raDelJ"}
  BY <1>1 DEF Where, RecAJ, AtRaMeta, AtRaDelJ, Entering
<1>2. CASE pc = "recA"
  <2>1. RecA
    BY <1>2 DEF Where
  <2> QED
    BY <2>1, BodyIs, RenewIs DEF RecA, Entering
<1>3. CASE pc \in {"recO", "rrReset", "rpMk", "rpCopy", "rpMeta", "roDelJ", "roDelBak", "roDelOld"}
  <2>1. Ctx(op.ret)
    BY <1>3 DEF Where, RecO, AtReset, AtMake, AtCopy, AtRestored, AtDelJ, AtDelBak, AtDelOld, Restores
  <2> QED
    BY <2>1, CtxHead
<1>4. CASE pc = "throw"
  <2>1. AtThrow
    BY <1>4 DEF Where
  <2> QED
    BY <2>1, BodyIs DEF AtThrow
<1>5. CASE pc \in {"clrDel", "clrMk", "clrMeta"}
  <2>1. Clearing
    BY <1>5 DEF Where, AtClrMk, AtClrMeta
  <2> QED
    BY <2>1, ClearingIs
<1>6. CASE pc = "app"
  <2>1. AtApp
    BY <1>6 DEF Where
  <2>2. <<OrFail("okDone")>> # <<>> /\ <<OrFail("cMeta")>> # <<>> /\ Renew # <<>>
    BY DEF Renew
  <2> QED
    BY <2>1, <2>2 DEF AtApp
<1>7. CASE pc = "appOld"
  <2>1. AtAppOld
    BY <1>7 DEF Where
  <2> QED
    BY <2>1, BodyIs DEF AtAppOld
<1>8. CASE pc \in {"appMk", "appJ", "appWrite", "appMeta", "appDelJ", "appUndo", "appUndoM",
                   "appUndoMeta", "appUndoJ"}
  <2>1. Appends
    BY <1>8 DEF Where, AtAppMk, AtAppJ, AtAppWrite, AtAppMeta, AtAppDelJ, AtAppUndo, AtAppUndoMeta,
                AtAppUndoJ, Journaled
  <2> QED
    BY <2>1, AppendsIs
<1> QED
  BY <1>1, <1>2, <1>3, <1>4, <1>5, <1>6, <1>7, <1>8 DEF Methods

LEMMA InnerIs ==
  ASSUME Typed, Where
  PROVE  /\ \A l : l \notin {"idle", "acked", "ok", "err"} => Inner(l)
         /\ pc \in Methods => Inner("ok") /\ Inner("err")
<1>1. \A l : l \notin {"idle", "acked", "ok", "err"} => Inner(l)
  BY DEF Inner
<1>2. ASSUME pc \in Methods PROVE Inner("ok") /\ Inner("err")
  BY <1>2, Stacked DEF Inner
<1> QED
  BY <1>1, <1>2

LEMMA KeptRecoverAppend ==
  ASSUME Typed, Where, RecoverAppend
  PROVE  Kept
<1>1. pc \in {"recA", "raDel", "raMeta", "raDelJ"}
  BY DEF RecoverAppend
<1>2. /\ pc \notin {"idle", "acked"} /\ Inner("ok") /\ Inner("err")
      /\ Inner("raDel") /\ Inner("raMeta") /\ Inner("raDelJ")
  BY <1>1, InnerIs DEF Methods
<1>3. CASE To(IF fs.aj = NoJournal THEN "ok" ELSE "raDel")
  BY <1>2, <1>3, ToKeeps
<1>4. CASE DeleteChunks(Targets(fs.aj), "raMeta", "err")
  BY <1>2, <1>4, CallKeeps DEF DeleteChunks
<1>5. CASE Save([cache EXCEPT !.count = fs.aj.count, !.chunks = fs.aj.chunks], "raDelJ", "err")
  BY <1>2, <1>5, SaveKeeps
<1>6. CASE DropAppendJournal("ok", "err")
  BY <1>2, <1>6, CallKeeps DEF DropAppendJournal
<1> QED
  BY <1>3, <1>4, <1>5, <1>6 DEF RecoverAppend

LEMMA KeptChooseRecovery ==
  ASSUME Typed, Where, pc = "recO", ChooseRecovery
  PROVE  Kept
<1>1. /\ pc \notin {"idle", "acked"} /\ Inner("ok") /\ Inner("err")
      /\ Inner("roDelBak") /\ Inner("roDelOld") /\ Inner("rrReset") /\ Inner("rpMk")
  BY InnerIs DEF Methods
<1>2. \/ \E l \in {"ok", "err", "roDelBak", "roDelOld", "rrReset", "rpMk"} : To(l)
      \/ \E r : Run("clrDel", r)
  <2>1. CASE fs.oj = NoJournal
    BY <2>1, JournalsApart DEF ChooseRecovery
  <2>2. CASE fs.oj \in OldJournal
    BY <2>2, JournalsApart DEF ChooseRecovery
  <2>3. CASE fs.oj \in OverwriteJournal
    <3>1. fs.oj \notin OldJournal /\ fs.oj # NoJournal
      BY <2>3, JournalsApart
    <3>2. \E l \in {"err", "rrReset", "rpMk"} : To(l)
      BY <2>3, <3>1 DEF ChooseRecovery
    <3> QED
      BY <3>2
  <2>4. fs.oj \in {NoJournal} \cup OldJournal \cup OverwriteJournal
    BY TypedIs DEF FsType, FsRec
  <2> QED
    BY <2>1, <2>2, <2>3, <2>4
<1>3. CASE \E l \in {"ok", "err", "roDelBak", "roDelOld", "rrReset", "rpMk"} : To(l)
  BY <1>1, <1>3, ToKeeps
<1>4. CASE \E r : Run("clrDel", r)
  BY <1>1, <1>4, RunKeeps
<1> QED
  BY <1>2, <1>3, <1>4

LEMMA KeptRecoverOverwrite ==
  ASSUME Typed, Where, RecoverOverwrite
  PROVE  Kept
<1>1. pc \in {"recO", "rrReset", "rpMk", "rpCopy", "roDelJ", "roDelBak", "roDelOld", "rpMeta"}
  BY DEF RecoverOverwrite
<1>2. /\ pc \notin {"idle", "acked"} /\ Inner("ok") /\ Inner("err")
      /\ Inner("rpMk") /\ Inner("rpCopy") /\ Inner("rpMeta") /\ Inner("roDelBak") /\ Inner("roDelJ")
  BY <1>1, InnerIs DEF Methods
<1>3. CASE pc = "recO" /\ ChooseRecovery
  BY <1>3, KeptChooseRecovery
<1>4. CASE ResetDir("rpMk", "err")
  BY <1>2, <1>4, CallKeeps DEF ResetDir
<1>5. CASE IF NeedsDir THEN MakeDir("rpCopy", "err") ELSE To("rpCopy") /\ UNCHANGED disk
  BY <1>2, <1>5, CallKeeps, ToKeeps DEF MakeDir
<1>6. CASE RestoreChunk
  <2>1. To("rpMeta") \/ To("err") \/ \E f : Call(f, {}, "rpCopy", "err")
    BY <1>6 DEF RestoreChunk
  <2> QED
    BY <1>2, <2>1, CallKeeps, ToKeeps
<1>7. CASE DropOverwriteJournal("roDelBak", "err") \/ DropOverwriteJournal("ok", "err")
  BY <1>2, <1>7, CallKeeps DEF DropOverwriteJournal
<1>8. CASE DropBackup("ok", "ok")
  BY <1>2, <1>8, CallKeeps DEF DropBackup
<1>9. CASE IF ValidDir(fs.dir, fs.oj.count, fs.oj.chunks, ~fs.oj.dirExisted)
           THEN Save(Chunked(fs.oj.count, fs.oj.chunks), "roDelJ", "err")
           ELSE To("err") /\ UNCHANGED <<disk, record>>
  BY <1>2, <1>9, SaveKeeps, ToKeeps
<1> QED
  BY <1>3, <1>4, <1>5, <1>6, <1>7, <1>8, <1>9 DEF RecoverOverwrite

LEMMA KeptClear ==
  ASSUME Typed, Where, Throw \/ Clear
  PROVE  Kept
<1>1. pc \in {"throw", "clrDel", "clrMk", "clrMeta"}
  BY DEF Throw, Clear
<1>2. /\ pc \notin {"idle", "acked"} /\ Inner("ok") /\ Inner("err") /\ Inner("clrMk") /\ Inner("clrMeta")
  BY <1>1, InnerIs DEF Methods
<1>3. \/ To("err") \/ ResetDir("clrMk", "err") \/ MakeDir("clrMeta", "err")
      \/ Save(Chunked(0, 0), "ok", "err")
  BY DEF Throw, Clear
<1> QED
  BY <1>2, <1>3, ToKeeps, CallKeeps, SaveKeeps DEF ResetDir, MakeDir

LEMMA KeptAppend ==
  ASSUME Typed, Where, AppendFiles \/ AppendMeta
  PROVE  Kept
<1>1. pc \in {"app", "appOld", "appMk", "appJ", "appWrite", "appMeta", "appDelJ", "appUndo", "appUndoM",
              "appUndoMeta", "appUndoJ"}
  BY DEF AppendFiles, AppendMeta
<1>2. /\ pc \notin {"idle", "acked"} /\ Inner("ok") /\ Inner("err") /\ Inner("appMk") /\ Inner("appJ")
      /\ Inner("appWrite") /\ Inner("appMeta") /\ Inner("appDelJ") /\ Inner("appUndo")
      /\ Inner("appUndoM") /\ Inner("appUndoMeta") /\ Inner("appUndoJ")
  BY <1>1, InnerIs DEF Methods
<1>3. CASE StartAppend
  <2>1. To("ok") \/ \E b : pc' = "appMk" /\ op' = [op EXCEPT !.batch = b, !.prev = cache]
    BY <1>3 DEF StartAppend
  <2>2. ASSUME NEW b, pc' = "appMk", op' = [op EXCEPT !.batch = b, !.prev = cache]
        PROVE  Kept
    <3>1. op \in OpRec
      BY TypedIs
    <3> QED
      BY <1>2, <2>2, <3>1 DEF Kept, OpRec
  <2> QED
    BY <1>2, <2>1, <2>2, ToKeeps
<1>4. CASE MakeDir("appJ", "err")
  BY <1>2, <1>4, CallKeeps DEF MakeDir
<1>5. CASE PublishJournal
  <2>1. To("err") \/ \E f : Call(f, {}, "appWrite", "err")
    BY <1>5 DEF PublishJournal
  <2> QED
    BY <1>2, <2>1, CallKeeps, ToKeeps
<1>6. CASE WriteChunks(KnownChunks(op.prev), "appMeta", "appUndo")
  BY <1>2, <1>6, CallKeeps DEF WriteChunks
<1>7. CASE DropAppendJournal("ok", "appUndoM") \/ DropAppendJournal("err", "err")
  BY <1>2, <1>7, CallKeeps DEF DropAppendJournal
<1>8. CASE DeleteChunks(AppendTargets, "appUndoJ", "err") \/ DeleteChunks(AppendTargets, "appUndoMeta", "err")
  BY <1>2, <1>8, CallKeeps DEF DeleteChunks
<1>9. CASE Save(Appended, "appDelJ", "appUndoM") \/ Save(op.prev, "appUndoJ", "err")
  BY <1>2, <1>9, SaveKeeps
<1> QED
  BY <1>3, <1>4, <1>5, <1>6, <1>7, <1>8, <1>9 DEF AppendFiles, AppendMeta

LEMMA KeptOverwrite ==
  ASSUME Typed, Where, OverwriteFiles \/ OverwriteMeta
  PROVE  Kept
<1>1. pc \in {"wStart", "wMkBak", "wMove", "wReady", "wClear", "wDelJ", "wDelBak", "wCatch", "wMeta"}
  BY DEF OverwriteFiles, OverwriteMeta
<1>2. /\ pc \notin {"idle", "acked"} /\ Inner("failed") /\ Inner("okDone") /\ Inner("wMkBak")
      /\ Inner("wMove") /\ Inner("wReady") /\ Inner("wClear") /\ Inner("wDelJ") /\ Inner("wDelBak")
      /\ Inner("wCatch")
  BY <1>1, InnerIs
<1>3. CASE StartOverwrite
  <2>1. To("failed") \/ \E f : Call(f, {}, "wMkBak", "failed")
    BY <1>3 DEF StartOverwrite
  <2> QED
    BY <1>2, <2>1, CallKeeps, ToKeeps
<1>4. CASE IF fs.bak # NoDir THEN To("wCatch") /\ UNCHANGED disk
           ELSE Call([fs EXCEPT !.bak = EmptyDir], {}, "wMove", "wCatch")
  BY <1>2, <1>4, CallKeeps, ToKeeps
<1>5. CASE BackupChunk
  <2>1. To("wReady") \/ \E f : Call(f, {}, "wMove", "wCatch")
    BY <1>5 DEF BackupChunk
  <2> QED
    BY <1>2, <2>1, CallKeeps, ToKeeps
<1>6. CASE MarkReady
  <2>1. To("wCatch") \/ \E f : Call(f, {}, "wClear", "wCatch")
    BY <1>6 DEF MarkReady
  <2> QED
    BY <1>2, <2>1, CallKeeps, ToKeeps
<1>7. CASE NewGeneration \/ Run("recA", <<Frame("recO", "failed"), Frame("failed", "failed")>>)
  <2>1. \E l \in {"clrDel", "recA"} : \E r : Run(l, r)
    BY <1>7 DEF NewGeneration
  <2> QED
    BY <1>2, <2>1, RunKeeps
<1>8. CASE DropOverwriteJournal("wDelBak", "wCatch")
  BY <1>2, <1>8, CallKeeps DEF DropOverwriteJournal
<1>9. CASE DropBackup("okDone", "okDone")
  BY <1>2, <1>9, CallKeeps DEF DropBackup
<1>10. CASE Save([cache EXCEPT !.count = Records(op.data)], "wDelJ", "wCatch")
  BY <1>2, <1>10, SaveKeeps
<1> QED
  BY <1>3, <1>4, <1>5, <1>6, <1>7, <1>8, <1>9, <1>10 DEF OverwriteFiles, OverwriteMeta

LEMMA KeptMigrate ==
  ASSUME Typed, Where, MigrateFiles \/ MigrateMeta
  PROVE  Kept
<1>1. pc \in {"mDelA", "mDelO", "mDelB", "mReset", "mMk", "mWrite", "mCheck", "mCatch", "mClean", "mMeta",
              "mUndoMeta"}
  BY DEF MigrateFiles, MigrateMeta
<1>2. /\ pc \notin {"idle", "acked"} /\ Inner("failed") /\ Inner("okDone") /\ Inner("mDelO")
      /\ Inner("mDelB") /\ Inner("mReset") /\ Inner("mMk") /\ Inner("mWrite") /\ Inner("mCheck")
      /\ Inner("mMeta") /\ Inner("mCatch") /\ Inner("mClean") /\ Inner("mUndoMeta")
  BY <1>1, InnerIs
<1>3. CASE DropAppendJournal("mDelO", "failed")
  BY <1>2, <1>3, CallKeeps DEF DropAppendJournal
<1>4. CASE DropOverwriteJournal("mDelB", "failed")
  BY <1>2, <1>4, CallKeeps DEF DropOverwriteJournal
<1>5. CASE DropBackup("mReset", "failed")
  BY <1>2, <1>5, CallKeeps DEF DropBackup
<1>6. CASE ResetDir("mMk", "failed") \/ ResetDir("failed", "failed")
  BY <1>2, <1>6, CallKeeps DEF ResetDir
<1>7. CASE MakeDir("mWrite", "failed")
  BY <1>2, <1>7, CallKeeps DEF MakeDir
<1>8. CASE WriteChunks(0, "mCheck", "mCatch")
  BY <1>2, <1>8, CallKeeps DEF WriteChunks
<1>9. CASE To(IF ValidDir(fs.dir, Records(op.data), Len(op.data), FALSE) THEN "mMeta" ELSE "mCatch")
  BY <1>2, <1>9, ToKeeps
<1>10. CASE Call([fs EXCEPT !.single = Absent], {}, "okDone", "okDone")
  BY <1>2, <1>10, CallKeeps
<1>11. CASE MigrateMeta
  <2>1. \/ Save(Chunked(Records(op.data), Len(op.data)), "mClean", "mUndoMeta")
        \/ Save(op.prev, "mCatch", "failed")
    BY <1>11 DEF MigrateMeta
  <2> QED
    BY <1>2, <2>1, SaveKeeps
<1> QED
  BY <1>3, <1>4, <1>5, <1>6, <1>7, <1>8, <1>9, <1>10, <1>11 DEF MigrateFiles

LEMMA KeptTable ==
  ASSUME Typed, Where, Purge \/ Purge2 \/ TableMeta
  PROVE  Kept
<1>1. pc \in {"purge", "purged", "cMeta", "cUndo", "cUndoMeta", "dMeta", "dUndoMeta"}
  BY DEF Purge, Purge2, TableMeta
<1>2. /\ pc \notin {"idle", "acked"} /\ Inner("failed") /\ Inner("okDone") /\ Inner("cUndo")
      /\ Inner("cUndoMeta") /\ Inner("purge") /\ Inner("dUndoMeta")
  BY <1>1, InnerIs
<1>3. op \in OpRec
  BY TypedIs
<1>4. CASE Purge
  <2>1. PICK n, t :
            /\ n \in {"purge", "okDone", "purged"} /\ pc' = n
            /\ op' = [op EXCEPT !.todo = t] \/ op' = [op EXCEPT !.todo = t, !.val = <<"failed">>]
    BY <1>4 DEF Purge
  <2> QED
    BY <1>2, <1>3, <2>1 DEF Kept, OpRec
<1>5. CASE Purge2
  <2>1. \/ To("cUndoMeta") \/ To("failed") \/ \E r : Run("recA", r)
    BY <1>5 DEF Purge2
  <2> QED
    BY <1>2, <2>1, ToKeeps, RunKeeps
<1>6. CASE pc' = "purge" /\ op' = [op EXCEPT !.todo = PurgeChunked, !.prev = cache]
  BY <1>2, <1>3, <1>6 DEF Kept, OpRec
<1>7. CASE \/ Save(Chunked(Records(op.data), KnownChunks(cache)), "okDone", "cUndo")
           \/ Save(NoTable, "failed", "failed") \/ Save(NoTable, "purge", "dUndoMeta")
           \/ Save(op.prev, "failed", "failed")
  BY <1>2, <1>7, SaveKeeps
<1> QED
  BY <1>4, <1>5, <1>6, <1>7 DEF TableMeta

LEMMA KeptRead ==
  ASSUME Typed, Where, ReadBody
  PROVE  Kept
<1>1. pc \notin {"idle", "acked"} /\ Inner("failed") /\ op \in OpRec
  BY InnerIs, TypedIs DEF ReadBody
<1>2. To("failed") \/ \E v : pc' = "readDone" /\ op' = [op EXCEPT !.val = v]
  BY DEF ReadBody
<1>3. CASE To("failed")
  BY <1>1, <1>3, ToKeeps
<1>4. CASE \E v : pc' = "readDone" /\ op' = [op EXCEPT !.val = v]
  BY <1>1, <1>4 DEF Kept, OpRec
<1> QED
  BY <1>2, <1>3, <1>4

LEMMA KeptStep ==
  ASSUME Typed, Where, Step, ~Report
  PROVE  Kept
  BY KeptRecoverAppend, KeptRecoverOverwrite, KeptClear, KeptAppend, KeptOverwrite, KeptMigrate,
     KeptTable, KeptRead DEF Step

-----------------------------------------------------------------------------
(* The other steps leave the table alone                                   *)

LEMMA StartsFrom ==
  ASSUME NEW l, NEW r, NEW k, NEW d, Start(l, r, k, d)
  PROVE  /\ pc = "idle" /\ pc' = l /\ op'.kind = k /\ op'.data = d /\ op'.from = View
         /\ fs' = fs /\ meta' = meta
<1>1. PICK t : t = CASE k = "drop" -> PurgeChunked [] k = "create" -> PurgeAll [] OTHER -> <<>>
  OBVIOUS
<1>2. op' = [NoOp EXCEPT !.kind = k, !.data = d, !.batch = d, !.ret = r, !.from = View,
                         !.prev = cache, !.todo = t]
  BY <1>1, Zenon DEF Start
<1>3. op' = Started(k, d, r, View, cache, t)
  BY <1>2 DEF NoOp, Started
<1>4. op'.kind = k /\ op'.data = d /\ op'.from = View
  BY <1>3 DEF Started
<1> QED
  BY <1>4 DEF Start, disk, record

LEMMA SameView == ASSUME fs' = fs, meta' = meta PROVE View' = View
  BY ViewIs, ViewIsNext

LEMMA BeginCalls ==
  ASSUME Inv, Inv', Begin
  PROVE  /\ pc = "idle" /\ pc' \notin {"idle", "acked"} /\ op'.from = View /\ View' = View
         /\ Target' \in Content \cup {Gone}
<1>1. PICK l, r, k, d :
          /\ l \in {"recA", "mDelA", "purge", "dMeta"} /\ k \in Kinds /\ Start(l, r, k, d)
          /\ k = "append" => View \in Content /\ Len(View) + Len(d) <= MaxChunks
  <2>1. CASE BeginRead
    BY <2>1 DEF BeginRead, Kinds
  <2>2. CASE BeginAppend
    BY <2>2 DEF BeginAppend, Kinds
  <2>3. CASE BeginOverwrite
    BY <2>3 DEF BeginOverwrite, Kinds
  <2>4. CASE BeginMigrate
    BY <2>4 DEF BeginMigrate, Kinds
  <2>5. CASE BeginCreate
    BY <2>5 DEF BeginCreate, Kinds
  <2>6. CASE BeginDrop
    BY <2>6 DEF BeginDrop, Kinds
  <2> QED
    BY <2>1, <2>2, <2>3, <2>4, <2>5, <2>6 DEF Begin
<1>2. /\ pc = "idle" /\ pc' = l /\ op'.kind = k /\ op'.data = d /\ op'.from = View
      /\ fs' = fs /\ meta' = meta
  BY <1>1, StartsFrom
<1>3. op'.data \in Content /\ View \in Content \cup {Gone} /\ View' = View
  BY <1>2, SameView, ViewTyped DEF Inv, Typed, OpRec
<1>4. k = "append" => op'.from \o op'.data \in Content
  BY <1>1, <1>2, <1>3, Joined
<1>5. Target' \in Content \cup {Gone}
  BY <1>2, <1>3, <1>4 DEF Target
<1> QED
  BY <1>1, <1>2, <1>3, <1>5

LEMMA FlushView ==
  ASSUME Typed, Flush, NEW v, Agree(fs, meta, cache, v)
  PROVE  View' = View
<1>1. fs' = fs /\ meta' = cache
  BY DEF Flush
<1>2. View = v
  BY AgreeView
<1>3. View' = v
  BY <1>1, ViewIsNext, StandsIs, TypedIs DEF Agree
<1> QED
  BY <1>2, <1>3

(* What AtomicTable sees of the running operation.                         *)
CallOf ==
  [status |-> CASE pc = "idle" -> "idle" [] pc = "acked" -> "ok" [] OTHER -> "running",
   from |-> IF pc = "idle" THEN View ELSE op.from,
   to |-> IF pc = "idle" THEN View ELSE Target]

Mapped ==
  /\ pc = "idle" => CallOf = [status |-> "idle", from |-> View, to |-> View]
  /\ pc = "acked" => CallOf = [status |-> "ok", from |-> op.from, to |-> Target]
  /\ pc \notin {"idle", "acked"} => CallOf = [status |-> "running", from |-> op.from, to |-> Target]

LEMMA IsMapped == Mapped
  BY DEF Mapped, CallOf

LEMMA IsMappedNext == Mapped'
  BY IsMapped, PTL

LEMMA AtomicInit ==
  ASSUME Inv, Init
  PROVE  Atomic!Init
<1>1. pc = "idle" /\ View \in Content \cup {Gone}
  BY ViewTyped DEF Init
<1>2. CallOf = [status |-> "idle", from |-> View, to |-> View]
  BY <1>1, IsMapped DEF Mapped
<1> QED
  BY <1>1, <1>2 DEF Atomic!Init, Atomic!Idle, CallOf

(* Each kind of step is a step of AtomicTable.                             *)
LEMMA AtomicStep ==
  ASSUME Inv, Inv', [Next]_vars
  PROVE  [Atomic!Next]_<<View, CallOf>>
<1> DEFINE Values == Content \cup {Gone}
           States == [status: {"idle", "running", "ok"}, from: Values, to: Values]
<1>1. /\ pc = "idle" => CallOf = [status |-> "idle", from |-> View, to |-> View]
      /\ pc = "acked" => CallOf = [status |-> "ok", from |-> op.from, to |-> Target]
      /\ pc \notin {"idle", "acked"} =>
           CallOf = [status |-> "running", from |-> op.from, to |-> Target]
  BY IsMapped DEF Mapped
<1>2. /\ pc' = "idle" => CallOf' = [status |-> "idle", from |-> View', to |-> View']
      /\ pc' = "acked" => CallOf' = [status |-> "ok", from |-> op'.from, to |-> Target']
      /\ pc' \notin {"idle", "acked"} =>
           CallOf' = [status |-> "running", from |-> op'.from, to |-> Target']
  BY IsMappedNext DEF Mapped
<1>3. View \in Values
  BY ViewTyped
<1>4. /\ Atomic!Begin <=> /\ CallOf.status = "idle"
                          /\ CallOf' \in States /\ CallOf'.status = "running"
                          /\ CallOf'.from = View /\ View' = View
      /\ Atomic!Flip <=> /\ CallOf.status = "running" /\ View' \in {CallOf.from, CallOf.to}
                         /\ CallOf' = CallOf
      /\ Atomic!Succeed <=> /\ CallOf.status = "running" /\ View = CallOf.to
                            /\ CallOf' = [CallOf EXCEPT !.status = "ok"] /\ View' = View
      /\ Atomic!End <=> /\ CallOf.status # "idle"
                        /\ CallOf' = [status |-> "idle", from |-> View, to |-> View]
                        /\ View' = View
  BY DEF Atomic!Begin, Atomic!Flip, Atomic!Succeed, Atomic!End, Atomic!Idle, Atomic!CallStates, CallOf
<1> HIDE DEF CallOf
<1>5. CASE Begin
  <2>1. /\ pc = "idle" /\ pc' \notin {"idle", "acked"} /\ op'.from = View /\ View' = View
        /\ Target' \in Values
    BY <1>5, BeginCalls
  <2>2. CallOf' = [status |-> "running", from |-> View, to |-> Target'] /\ CallOf.status = "idle"
    BY <1>1, <1>2, <2>1
  <2>3. CallOf' \in States /\ CallOf'.status = "running" /\ CallOf'.from = View
    BY <1>3, <2>1, <2>2
  <2>4. Atomic!Begin
    BY <1>4, <2>1, <2>2, <2>3
  <2> QED
    BY <2>4 DEF Atomic!Next
<1>6. CASE Step /\ ~Report
  <2>1. Kept
    BY <1>6, KeptStep DEF Inv
  <2>2. /\ pc \notin {"idle", "acked"} /\ pc' \notin {"idle", "acked"}
        /\ op'.from = op.from /\ Target' = Target
    BY <2>1 DEF Kept, Target
  <2>3. View' \in {op'.from, Target'}
    BY <2>2, RunningNext DEF Runs
  <2>4. CallOf' = CallOf /\ CallOf.status = "running" /\ View' \in {CallOf.from, CallOf.to}
    BY <1>1, <1>2, <2>2, <2>3
  <2>5. Atomic!Flip
    BY <1>4, <2>4
  <2> QED
    BY <2>5 DEF Atomic!Next
<1>7. CASE Report
  <2>1. View' = View
    BY <1>7, SameView DEF Report, disk, record
  <2>2. CASE pc = "okDone" /\ pc' = "acked" /\ op' = op
    <3>1. View = Target
      BY <2>2, AgreeView DEF Inv, Where, AtDone
    <3>2. Target' = Target
      BY <2>2 DEF Target
    <3>3. /\ CallOf.status = "running" /\ View = CallOf.to
          /\ CallOf' = [CallOf EXCEPT !.status = "ok"]
      BY <1>1, <1>2, <2>2, <3>1, <3>2
    <3>4. Atomic!Succeed
      BY <1>4, <2>1, <3>3
    <3> QED
      BY <3>4 DEF Atomic!Next
  <2>3. CASE pc \in {"readDone", "acked", "failed"} /\ pc' = "idle"
    <3>1. CallOf.status # "idle" /\ CallOf' = [status |-> "idle", from |-> View, to |-> View]
      BY <1>1, <1>2, <2>1, <2>3
    <3>2. Atomic!End
      BY <1>4, <2>1, <3>1
    <3> QED
      BY <3>2 DEF Atomic!Next
  <2> QED
    BY <1>7, <2>2, <2>3 DEF Report
<1>8. CASE Flush
  <2>1. pc' = pc /\ op' = op /\ Target' = Target
    BY <1>8 DEF Flush, Target
  <2>2. CASE pc \in {"idle", "acked"}
    <3>1. \E v : Agree(fs, meta, cache, v)
      BY <2>2 DEF Inv, Where, AtIdle, AtDone
    <3>2. View' = View
      BY <1>8, <3>1, FlushView DEF Inv
    <3> QED
      BY <1>1, <1>2, <2>1, <2>2, <3>2
  <2>3. CASE pc \notin {"idle", "acked"}
    <3>1. View' \in {op'.from, Target'}
      BY <2>1, <2>3, RunningNext DEF Runs
    <3>2. CallOf' = CallOf /\ CallOf.status = "running" /\ View' \in {CallOf.from, CallOf.to}
      BY <1>1, <1>2, <2>1, <2>3, <3>1
    <3>3. Atomic!Flip
      BY <1>4, <3>2
    <3> QED
      BY <3>3 DEF Atomic!Next
  <2> QED
    BY <2>2, <2>3
<1>9. CASE Crash
  <2>1. View' = View /\ pc' = "idle"
    BY <1>9, StepCrash DEF Inv, Crash
  <2>2. CASE pc = "idle"
    BY <1>1, <1>2, <2>1, <2>2
  <2>3. CASE pc # "idle"
    <3>1. CallOf.status # "idle" /\ CallOf' = [status |-> "idle", from |-> View, to |-> View]
      BY <1>1, <1>2, <2>1, <2>3
    <3>2. Atomic!End
      BY <1>4, <2>1, <3>1
    <3> QED
      BY <3>2 DEF Atomic!Next
  <2> QED
    BY <2>2, <2>3
<1>10. CASE UNCHANGED vars
  <2>1. View' = View /\ pc' = pc /\ op' = op /\ Target' = Target
    BY <1>10, SameView DEF vars, Target
  <2> QED
    BY <1>1, <1>2, <2>1
<1> QED
  BY <1>5, <1>6, <1>7, <1>8, <1>9, <1>10 DEF Next

(* A table is an atomic value: its initial states are initial states of    *)
(* AtomicTable, and every step is a step of AtomicTable or changes nothing *)
(* that a client can see.                                                  *)
THEOREM ImplementsAtomic ==
  ASSUME Confined
  PROVE  Spec /\ [][NoFailedUndo]_vars => Atomic!Init /\ [][Atomic!Next]_<<View, CallOf>>
<1>1. Inv /\ Init => Atomic!Init
  BY AtomicInit
<1>2. Inv /\ Inv' /\ [Next]_vars => [Atomic!Next]_<<View, CallOf>>
  BY AtomicStep
<1> QED
  BY <1>1, <1>2, Inductive, PTL DEF Spec

(* With at most one failing call the table needs no further hypothesis: it *)
(* is consistent, its reads are exact and it is an atomic value.           *)
THEOREM SoundWithOneFault ==
  ASSUME Confined, MaxFaults <= 1
  PROVE  Spec => /\ [](Consistent /\ ReadReturnsView)
                 /\ Atomic!Init /\ [][Atomic!Next]_<<View, CallOf>>
<1>1. Spec => [][NoFailedUndo]_vars
  BY OneFault, PTL
<1> QED
  BY <1>1, ConsistentHolds, ReadReturnsViewHolds, ImplementsAtomic, PTL
=============================================================================
