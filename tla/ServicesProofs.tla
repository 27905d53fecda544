-------------------------- MODULE ServicesProofs --------------------------
(***************************************************************************)
(* Proofs about the stores of local-services: files and uploads, vector    *)
(* stores and the administration API.  The three parts share no state.     *)
(***************************************************************************)
EXTENDS FileStore, VectorStores, Administration, FiniteSetTheorems,
        NaturalsInduction, SequenceTheorems, TLAPS

(***************************************************************************)
(* Files and uploads: what a row names is on disk with the bytes it was    *)
(* committed with, and an upload is settled once, for any number of        *)
(* callers, blobs, parts and faults.                                       *)
(***************************************************************************)
PartRecords == [blob : BlobIds, bytes : Nat]
Ops == {"idle", "file", "internal", "part", "complete", "remove", "purge"}
Calls ==
  [op : Ops,
   at : {"idle", "open", "copy", "commit", "discard", "unlink", "scan blobs", "scan tmp"},
   blob : 0..MaxBlobs, bytes : Nat, parts : Seq(PartRecords),
   todo : Seq({"blobs", "tmp"} \X BlobIds)]

FilesTyped ==
  /\ clock \in Nat /\ staged \in 0..MaxBlobs /\ assembled \in Nat
  /\ blobRow \in [BlobIds -> [state : {"none", "staging", "committed"}, at : Nat]]
  /\ content \in [BlobIds -> Seq(BlobIds)]
  /\ parts \subseteq PartRecords /\ IsFiniteSet(parts)
  /\ fileRows \subseteq [id : 0..MaxBlobs, blob : BlobIds, content : Seq(BlobIds), expires : Nat]
  /\ upload \in [status : {"none", "pending", "completed", "cancelled"}, expires : Nat]
  /\ call \in [Callers -> Calls]

(* Ids are drawn in order, and an id not yet drawn has neither row nor bytes. *)
FreshIds == \A b \in BlobIds : b > staged => blobRow[b].state = "none" /\ content[b] = <<>>

(* A caller writing a blob writes it alone, and no row owns it yet.  *)
Writing(c) == call[c].at \in {"open", "copy", "commit"}

WritersApart ==
  /\ \A c \in Callers : call[c].at = "discard" => call[c].blob \in BlobIds
  /\ \A c \in Callers : Writing(c) =>
       /\ call[c].op \in {"file", "internal", "part", "complete"}
       /\ call[c].blob \in 1..staged
       /\ blobRow[call[c].blob].state # "committed"
  /\ \A c, d \in Callers : Writing(c) /\ Writing(d) /\ call[c].blob = call[d].blob => c = d

(* What is streamed so far; an assembly has copied a prefix of its parts. *)
WrittenSoFar ==
  \A c \in Callers :
    LET b == call[c].blob
        ps == call[c].parts
    IN /\ call[c].at = "open" => content[b] = <<>>
       /\ call[c].at \in {"copy", "commit"} =>
            IF call[c].op = "complete"
            THEN /\ Len(content[b]) <= Len(ps)
                 /\ \A n \in 1..Len(content[b]) : content[b][n] = ps[n].blob
            ELSE content[b] = <<b>>
       /\ call[c].at = "commit" =>
            /\ blobRow[b].state = "staging" => b \in disk
            /\ call[c].op = "complete" => Len(content[b]) = Len(ps)

(* The parts an assembly reads are finished, whatever became of their rows. *)
SourcesFinished ==
  \A c \in Callers : Writing(c) /\ call[c].op = "complete" =>
    \A n \in 1..Len(call[c].parts) :
      LET b == call[c].parts[n].blob
      IN /\ b \in 1..staged /\ content[b] = <<b>>
         /\ \A d \in Callers : Writing(d) => call[d].blob # b

(* Only blobs without a row are unlinked, and a row never comes back. *)
UnlinksUnowned ==
  \A c \in Callers : call[c].at = "unlink" =>
    /\ call[c].todo # <<>>
    /\ \A n \in 1..Len(call[c].todo) :
         /\ call[c].todo[n][2] \in 1..staged
         /\ blobRow[call[c].todo[n][2]].state = "none"

(* Every committed row is owned once, and its bytes are there. *)
Owned ==
  /\ FilesReadable
  /\ \A p \in parts : content[p.blob] = <<p.blob>>
  /\ \A f, g \in fileRows : f.blob = g.blob => f = g
  /\ \A p, q \in parts : p.blob = q.blob => p = q
  /\ \A f \in fileRows, p \in parts : f.blob # p.blob

(* The inductive invariant of files.rs.                                    *)
FilesIInv ==
  /\ FilesTyped /\ FreshIds /\ WritersApart /\ WrittenSoFar /\ SourcesFinished
  /\ UnlinksUnowned /\ Owned /\ UploadOnce

First(s) == CHOOSE x \in s : TRUE

(* Finite sets of parts, by size. *)
UpTo(U, n) == {s \in SUBSET U : IsFiniteSet(s) /\ Cardinality(s) <= n}

(* g adds up the bytes of every set of at most n parts, in any order. *)
Adds(g, U, n) ==
  /\ g \in [UpTo(U, n) -> Nat] /\ g[{}] = 0
  /\ \A s \in UpTo(U, n) : \A p \in s : g[s] = p.bytes + g[s \ {p}]

LEMMA Removed ==
  ASSUME NEW s, IsFiniteSet(s), NEW p \in s
  PROVE  /\ IsFiniteSet(s \ {p}) /\ Cardinality(s) \in Nat /\ Cardinality(s \ {p}) \in Nat
         /\ Cardinality(s \ {p}) = Cardinality(s) - 1
BY FS_RemoveElement, FS_CardinalityType

(* Induction over the naturals, as the absence of a least counterexample.  *)
LEMMA Induction ==
  ASSUME NEW T \in SUBSET Nat, 0 \in T, \A n \in T : n + 1 \in T
  PROVE  T = Nat
<1> SUFFICES ASSUME Nat \ T # {} PROVE FALSE
  OBVIOUS
<1>1. PICK n \in Nat \ T : \A m \in Nat \ T : ~(<<m, n>> \in OpToRel(<, Nat))
  BY NatLessThanWellFounded, WFMin
<1>2. \A m \in Nat : m < n => m \in T
  BY <1>1 DEF OpToRel
<1>3. n # 0 /\ n - 1 \in Nat /\ n - 1 < n /\ (n - 1) + 1 = n
  OBVIOUS
<1> QED BY <1>2, <1>3

(* Such a function exists on the sets of at most n members, for every n.   *)
LEMMA SumsExist ==
  ASSUME NEW U, \A u \in U : u.bytes \in Nat
  PROVE  \A n \in Nat : \E g : Adds(g, U, n)
<1> DEFINE T == {n \in Nat : \E g : Adds(g, U, n)}
<1>1. 0 \in T
  <2> DEFINE g == [s \in UpTo(U, 0) |-> 0]
  <2>1. \A s \in UpTo(U, 0) : s = {}
    BY FS_EmptySet, FS_CardinalityType DEF UpTo
  <2>2. {} \in UpTo(U, 0)
    BY FS_EmptySet DEF UpTo
  <2>3. Adds(g, U, 0)
    BY <2>1, <2>2 DEF Adds
  <2> QED BY <2>3
<1>2. ASSUME NEW n \in T PROVE n + 1 \in T
  <2>0. n \in Nat /\ n + 1 \in Nat
    OBVIOUS
  <2> PICK g : Adds(g, U, n)
    OBVIOUS
  <2> DEFINE h == [s \in UpTo(U, n + 1) |-> IF s \in UpTo(U, n) THEN g[s]
                                            ELSE First(s).bytes + g[s \ {First(s)}]]
  <2>1. {} \in UpTo(U, n) /\ {} \in UpTo(U, n + 1)
    BY <2>0, FS_EmptySet DEF UpTo
  <2>2. ASSUME NEW s \in UpTo(U, n + 1), NEW p \in s PROVE s \ {p} \in UpTo(U, n)
    <3>1. IsFiniteSet(s) /\ Cardinality(s) <= n + 1 /\ s \ {p} \in SUBSET U
      BY DEF UpTo
    <3>2. /\ IsFiniteSet(s \ {p}) /\ Cardinality(s) \in Nat /\ Cardinality(s \ {p}) \in Nat
          /\ Cardinality(s \ {p}) = Cardinality(s) - 1
      BY <3>1, Removed
    <3>3. Cardinality(s \ {p}) <= n
      BY <2>0, <3>1, <3>2
    <3> QED BY <3>1, <3>2, <3>3 DEF UpTo
  <2>3. \A s \in UpTo(U, n + 1) : s # {} => First(s) \in s /\ First(s) \in U
    BY DEF First, UpTo
  <2>4. h \in [UpTo(U, n + 1) -> Nat]
    <3> SUFFICES ASSUME NEW s \in UpTo(U, n + 1), s \notin UpTo(U, n)
                 PROVE  First(s).bytes + g[s \ {First(s)}] \in Nat
      BY DEF Adds
    <3>1. First(s) \in s /\ First(s) \in U
      BY <2>1, <2>3
    <3>2. g[s \ {First(s)}] \in Nat /\ First(s).bytes \in Nat
      BY <2>2, <3>1 DEF Adds
    <3> QED BY <3>2
  <2>5. \A s \in UpTo(U, n) : s \in UpTo(U, n + 1) /\ h[s] = g[s]
    BY <2>0, FS_CardinalityType DEF UpTo
  <2>6. ASSUME NEW s \in UpTo(U, n + 1), NEW p \in s PROVE h[s] = p.bytes + h[s \ {p}]
    <3>1. s \ {p} \in UpTo(U, n) /\ h[s \ {p}] = g[s \ {p}]
      BY <2>2, <2>5
    <3>2. CASE s \in UpTo(U, n)
      BY <2>5, <3>1, <3>2 DEF Adds
    <3>3. CASE s \notin UpTo(U, n)
      <4> DEFINE x == First(s)
      <4>1. h[s] = x.bytes + g[s \ {x}] /\ x \in s /\ x \in U /\ s \ {x} \in UpTo(U, n) /\ p \in U
        BY <2>2, <2>3, <3>3 DEF UpTo
      <4>2. CASE x = p
        BY <3>1, <4>1, <4>2
      <4>3. CASE x # p
        <5> HIDE DEF x, h
        <5>1. p \in s \ {x} /\ x \in s \ {p} /\ (s \ {x}) \ {p} = (s \ {p}) \ {x}
          BY <4>1, <4>3
        <5>2. g[s \ {x}] = p.bytes + g[(s \ {x}) \ {p}]
          BY <4>1, <5>1 DEF Adds
        <5>3. g[s \ {p}] = x.bytes + g[(s \ {p}) \ {x}]
          BY <3>1, <5>1 DEF Adds
        <5>4. (s \ {p}) \ {x} \in UpTo(U, n)
          BY <2>0, <3>1, <5>1, Removed DEF UpTo
        <5>5. g[(s \ {p}) \ {x}] \in Nat /\ p.bytes \in Nat /\ x.bytes \in Nat
          BY <4>1, <5>4 DEF Adds
        <5>6. \A a, b, c \in Nat : a + (b + c) = b + (a + c)
          OBVIOUS
        <5>7. x.bytes + (p.bytes + g[(s \ {p}) \ {x}]) = p.bytes + (x.bytes + g[(s \ {p}) \ {x}])
          BY <5>5, <5>6
        <5>8. h[s] = x.bytes + (p.bytes + g[(s \ {p}) \ {x}])
          BY <4>1, <5>1, <5>2
        <5>9. h[s \ {p}] = x.bytes + g[(s \ {p}) \ {x}]
          BY <3>1, <5>3
        <5> QED BY <5>7, <5>8, <5>9
      <4> QED BY <4>2, <4>3
    <3> QED BY <3>2, <3>3
  <2>7. Adds(h, U, n + 1)
    <3>1. h[{}] = 0
      BY <2>1, <2>5 DEF Adds
    <3> HIDE DEF h
    <3> QED BY <2>4, <2>6, <3>1 DEF Adds
  <2> QED BY <2>7
<1>3. T = Nat
  <2> HIDE DEF T
  <2>1. T \in SUBSET Nat
    BY DEF T
  <2> QED BY <1>1, <1>2, <2>1, Induction
<1> QED BY <1>3

(* The recursion of SizeOf. *)
Recurses(f, S) ==
  f = [s \in SUBSET S |-> IF s = {} THEN 0 ELSE First(s).bytes + f[s \ {First(s)}]]

(* What the fold of the community modules stands for.                      *)
LEMMA SizeOfUnfolds ==
  ASSUME NEW S
  PROVE  SizeOf(S) = (CHOOSE f : Recurses(f, S))[S]
BY DEF SizeOf, MapThenSumSet, MapThenFoldSet, Recurses, First

(* SizeOf is the sum: the fold that computes it agrees with every function *)
(* that adds one member at a time, by induction on the number of members.  *)
LEMMA SizeIsSum ==
  ASSUME NEW U, \A u \in U : u.bytes \in Nat, NEW n \in Nat, NEW g, Adds(g, U, n),
         NEW S \in UpTo(U, n)
  PROVE  SizeOf(S) = g[S]
<1>0. /\ IsFiniteSet(S) /\ \A s \in SUBSET S : s \in UpTo(U, n)
  <2> SUFFICES ASSUME NEW s \in SUBSET S PROVE s \in UpTo(U, n)
    BY DEF UpTo
  <2>1. IsFiniteSet(S) /\ Cardinality(S) <= n /\ s \subseteq U
    BY DEF UpTo
  <2>2. IsFiniteSet(s) /\ Cardinality(s) <= Cardinality(S)
    BY <2>1, FS_Subset
  <2>3. Cardinality(s) \in Nat /\ Cardinality(S) \in Nat
    BY <2>1, <2>2, FS_CardinalityType
  <2> QED BY <2>1, <2>2, <2>3 DEF UpTo
<1>1. \E f : Recurses(f, S)
  <2> DEFINE f == [s \in SUBSET S |-> g[s]]
  <2>1. \A s \in SUBSET S : s # {} => First(s) \in s
    BY DEF First
  <2>2. \A s \in SUBSET S : f[s] = IF s = {} THEN 0 ELSE First(s).bytes + f[s \ {First(s)}]
    BY <1>0, <2>1 DEF Adds
  <2>3. Recurses(f, S)
    BY <2>2 DEF Recurses
  <2> QED BY <2>3
<1> DEFINE f == CHOOSE f : Recurses(f, S)
<1>2. Recurses(f, S)
  BY <1>1
<1> HIDE DEF f
<1> DEFINE T == {m \in Nat : \A s \in SUBSET S : Cardinality(s) = m => f[s] = g[s]}
<1>3. 0 \in T
  <2> SUFFICES ASSUME NEW s \in SUBSET S, Cardinality(s) = 0 PROVE f[s] = g[s]
    OBVIOUS
  <2>1. s = {}
    BY <1>0, FS_EmptySet, FS_Subset
  <2> QED BY <1>2, <2>1 DEF Recurses, Adds
<1>4. ASSUME NEW m \in T PROVE m + 1 \in T
  <2> SUFFICES ASSUME NEW s \in SUBSET S, Cardinality(s) = m + 1 PROVE f[s] = g[s]
    OBVIOUS
  <2>0. IsFiniteSet(s) /\ s \in UpTo(U, n)
    BY <1>0, FS_Subset
  <2>1. s # {}
    <3>1. Cardinality({}) = 0
      BY FS_EmptySet
    <3>2. m \in Nat
      OBVIOUS
    <3>3. m + 1 # 0
      BY <3>2, SMT
    <3> QED BY <3>1, <3>3, Zenon
  <2>2. First(s) \in s
    BY <2>1 DEF First
  <2>3. s \ {First(s)} \in SUBSET S /\ Cardinality(s \ {First(s)}) = m
    BY <2>0, <2>2, Removed
  <2>4. f[s \ {First(s)}] = g[s \ {First(s)}]
    BY <2>3
  <2>5. f[s] = First(s).bytes + f[s \ {First(s)}]
    BY <1>2, <2>1 DEF Recurses
  <2>6. g[s] = First(s).bytes + g[s \ {First(s)}]
    BY <2>0, <2>2 DEF Adds
  <2> QED BY <2>4, <2>5, <2>6
<1>5. T = Nat
  <2> HIDE DEF T
  <2>1. T \in SUBSET Nat
    BY DEF T
  <2> QED BY <1>3, <1>4, <2>1, Induction
<1>6. Cardinality(S) \in T
  BY <1>0, <1>5, FS_CardinalityType
<1> QED BY <1>6, SizeOfUnfolds DEF f

(* SizeOf is additive on finite sets of parts. *)
LEMMA SizeAdds ==
  ASSUME NEW S, IsFiniteSet(S), NEW p, p \notin S, \A u \in S \cup {p} : u.bytes \in Nat
  PROVE  /\ SizeOf(S) \in Nat /\ SizeOf({}) = 0
         /\ SizeOf(S \cup {p}) = SizeOf(S) + p.bytes
<1> DEFINE U == S \cup {p}
           n == Cardinality(U)
<1>1. IsFiniteSet(U) /\ n \in Nat
  BY FS_AddElement, FS_CardinalityType
<1>2. S \in UpTo(U, n) /\ U \in UpTo(U, n) /\ {} \in UpTo(U, n)
  BY <1>1, FS_Subset, FS_EmptySet, FS_CardinalityType DEF UpTo
<1>3. \A u \in U : u.bytes \in Nat
  OBVIOUS
<1> HIDE DEF n
<1>4. PICK g : Adds(g, U, n)
  BY <1>1, <1>3, SumsExist
<1>5. SizeOf(S) = g[S] /\ SizeOf(U) = g[U] /\ SizeOf({}) = g[{}]
  BY <1>1, <1>2, <1>3, <1>4, SizeIsSum
<1>6. g[U] = p.bytes + g[U \ {p}] /\ U \ {p} = S
  BY <1>2, <1>4 DEF Adds
<1>7. g[S] \in Nat /\ p.bytes \in Nat /\ g[{}] = 0
  BY <1>2, <1>4 DEF Adds
<1>8. \A a, b \in Nat : a + b = b + a
  OBVIOUS
<1>9. SizeOf(U) = g[S] + p.bytes
  BY <1>5, <1>6, <1>7, <1>8
<1> QED BY <1>5, <1>7, <1>9

LEMMA FilesParts ==
  ASSUME FilesIInv
  PROVE  /\ FilesTyped /\ FreshIds /\ WritersApart /\ WrittenSoFar /\ SourcesFinished
         /\ UnlinksUnowned /\ Owned /\ UploadOnce /\ FilesReadable
BY DEF FilesIInv, Owned

(* An upload without parts has no bytes.                                   *)
LEMMA SizeOfNone == SizeOf({}) = 0
<1> DEFINE p == [bytes |-> 0]
<1>1. p.bytes = 0
  OBVIOUS
<1> HIDE DEF p
<1>2. \A u \in {} \cup {p} : u.bytes \in Nat
  BY <1>1
<1>3. p \notin {} /\ IsFiniteSet({})
  BY FS_EmptySet
<1> QED BY <1>2, <1>3, SizeAdds

LEMMA IdleIsCall ==
  /\ IdleCall \in Calls /\ IdleCall.at = "idle" /\ IdleCall.op = "idle"
BY FileBoundsAssumption DEF IdleCall, Calls, Ops

LEMMA FilesInitial == FilesInit => FilesIInv
<1> SUFFICES ASSUME FilesInit PROVE FilesIInv
  OBVIOUS
<1> USE DEF FilesInit
<1>1. FilesTyped
  <2>1. staged \in 0..MaxBlobs
    BY FileBoundsAssumption
  <2>2. blobRow \in [BlobIds -> [state : {"none", "staging", "committed"}, at : Nat]]
    BY DEF NoRow
  <2>3. content \in [BlobIds -> Seq(BlobIds)]
    OBVIOUS
  <2>4. call \in [Callers -> Calls]
    BY IdleIsCall
  <2> QED BY <2>1, <2>2, <2>3, <2>4, FS_EmptySet DEF FilesTyped
<1>2. FreshIds
  BY DEF FreshIds, NoRow
<1>3. WritersApart /\ WrittenSoFar /\ SourcesFinished /\ UnlinksUnowned
  BY IdleIsCall DEF WritersApart, WrittenSoFar, SourcesFinished, UnlinksUnowned, Writing
<1>4. Owned
  BY DEF Owned, FilesReadable
<1>5. UploadOnce
  BY SizeOfNone, FileBoundsAssumption DEF UploadOnce
<1> QED BY <1>1, <1>2, <1>3, <1>4, <1>5 DEF FilesIInv

(* Unlinks names the blobs it was given and no other.                      *)
LEMMA UnlinksOf ==
  ASSUME NEW bs \in SUBSET BlobIds
  PROVE  /\ Unlinks(bs) \in Seq({"blobs", "tmp"} \X BlobIds)
         /\ \A n \in 1..Len(Unlinks(bs)) : Unlinks(bs)[n][2] \in bs
<1> DEFINE order == SetToSeq(bs)
           k == Cardinality(bs)
<1>1. IsFiniteSet(bs) /\ k \in Nat
  <2>1. IsFiniteSet(BlobIds)
    <3>1. 1 \in Int /\ MaxBlobs \in Int
      BY FileBoundsAssumption
    <3>2. IsFiniteSet(1..MaxBlobs)
      BY <3>1, FS_Interval
    <3> QED BY <3>2 DEF BlobIds
  <2>2. IsFiniteSet(bs)
    BY <2>1, FS_Subset
  <2> QED BY <2>2, FS_CardinalityType
<1>2. \E f \in [1..k -> bs] : IsInjective(f)
  BY <1>1, FS_CardinalityType DEF ExistsBijection, Bijection, Injection
<1>3. order \in [1..k -> bs]
  BY <1>2 DEF SetToSeq
<1> HIDE DEF order, k
<1>4. Len(order) = k
  BY <1>1, <1>3
<1> DEFINE u == [n \in 1..(2 * k) |-> IF n % 2 = 1 THEN <<"blobs", order[(n + 1) \div 2]>>
                                                   ELSE <<"tmp", order[n \div 2]>>]
<1>5. Unlinks(bs) = u
  BY <1>4 DEF Unlinks, order
<1>6. ASSUME NEW n \in 1..(2 * k) PROVE u[n] \in {"blobs", "tmp"} \X BlobIds /\ u[n][2] \in bs
  <2>1. CASE n % 2 = 1
    <3>1. (n + 1) \div 2 \in 1..k
      BY <1>1, <2>1
    <3>2. order[(n + 1) \div 2] \in bs
      BY <1>3, <3>1
    <3>3. u[n] = <<"blobs", order[(n + 1) \div 2]>>
      BY <2>1
    <3> QED BY <3>2, <3>3
  <2>2. CASE n % 2 # 1
    <3>1. n \div 2 \in 1..k
      BY <1>1, <2>2
    <3>2. order[n \div 2] \in bs
      BY <1>3, <3>1
    <3>3. u[n] = <<"tmp", order[n \div 2]>>
      BY <2>2
    <3> QED BY <3>2, <3>3
  <2> QED BY <2>1, <2>2
<1>7. 2 * k \in Nat
  BY <1>1
<1>8. u \in [1..(2 * k) -> {"blobs", "tmp"} \X BlobIds]
  BY <1>6
<1> HIDE DEF u
<1>9. u \in Seq({"blobs", "tmp"} \X BlobIds) /\ Len(u) = 2 * k
  <2> DEFINE m == 2 * k
             pairs == {"blobs", "tmp"} \X BlobIds
  <2>1. m \in Nat /\ u \in [1..m -> pairs]
    BY <1>7, <1>8
  <2> HIDE DEF m, pairs
  <2>2. u \in Seq(pairs) /\ Len(u) = m
    BY <2>1
  <2> QED BY <2>2 DEF m, pairs
<1> QED BY <1>5, <1>6, <1>9

LEMMA SourceFinished ==
  ASSUME SourcesFinished, NEW c \in Callers, Writing(c), call[c].op = "complete",
         NEW n \in 1..Len(call[c].parts)
  PROVE  /\ call[c].parts[n].blob \in 1..staged
         /\ content[call[c].parts[n].blob] = <<call[c].parts[n].blob>>
         /\ \A e \in Callers : Writing(e) => call[e].blob # call[c].parts[n].blob
BY Zenon DEF SourcesFinished

(* A part to be assembled is staged, whole, and not being written.         *)
SourceReady(b) ==
  b \in 1..staged /\ content[b] = <<b>> /\ \A d \in Callers : Writing(d) => call[d].blob # b

LEMMA SourcesReady ==
  ASSUME SourcesFinished, NEW c \in Callers, Writing(c), call[c].op = "complete"
  PROVE  \A n \in 1..Len(call[c].parts) : SourceReady(call[c].parts[n].blob)
BY DEF SourcesFinished, SourceReady

(* What the bookkeeping of one caller may do to the others: call r of c    *)
(* replaces its old one, and writes nothing.                               *)
Retires(c, r) ==
  /\ r \in Calls /\ r.at \notin {"open", "copy", "commit"}
  /\ r.at = "discard" => r.blob \in BlobIds
  /\ call' = [call EXCEPT ![c] = r]

LEMMA RetiredOthers ==
  ASSUME FilesTyped, NEW c \in Callers, NEW r, Retires(c, r)
  PROVE  /\ call' \in [Callers -> Calls] /\ call'[c] = r /\ ~Writing(c)'
         /\ r.at = "discard" => r.blob \in BlobIds
         /\ \A d \in Callers : d # c => call'[d] = call[d]
         /\ \A d \in Callers : Writing(d)' => d # c /\ Writing(d) /\ call'[d] = call[d]
BY DEF FilesTyped, Retires, Writing

(* Rows go, with the files and parts that owned them; bytes go only of     *)
(* blobs that have no row.                                                 *)
Releases(c, r, gone) ==
  /\ Retires(c, r) /\ gone \subseteq BlobIds
  /\ blobRow' \in [BlobIds -> [state : {"none", "staging", "committed"}, at : Nat]]
  /\ \A b \in BlobIds : blobRow'[b].state = IF b \in gone THEN "none" ELSE blobRow[b].state
  /\ r.at = "unlink" =>
       /\ r.todo # <<>>
       /\ \A n \in 1..Len(r.todo) : /\ r.todo[n][2] \in 1..staged
                                    /\ blobRow'[r.todo[n][2]].state = "none"
  /\ fileRows' \subseteq fileRows /\ parts' \subseteq parts
  /\ \A f \in fileRows' : f.blob \notin gone
  /\ \A p \in parts' : p.blob \notin gone
  /\ \A b \in disk : b \notin disk' => blobRow[b].state = "none"
  /\ UNCHANGED <<staged, content>> /\ UploadOnce' /\ clock' \in Nat /\ assembled' \in Nat
  /\ upload' \in [status : {"none", "pending", "completed", "cancelled"}, expires : Nat]

(* Whatever releases rows together with what owned them keeps the          *)
(* invariant, however the caller was interrupted.                          *)
LEMMA ReleaseKeeps ==
  ASSUME FilesIInv, NEW c \in Callers, NEW r, NEW gone, Releases(c, r, gone)
  PROVE  FilesIInv'
<1> USE DEF Releases
<1>0. /\ FilesTyped /\ FreshIds /\ WritersApart /\ WrittenSoFar /\ SourcesFinished
      /\ UnlinksUnowned /\ Owned /\ UploadOnce /\ FilesReadable
  BY FilesParts
<1>1. /\ call' \in [Callers -> Calls] /\ call'[c] = r /\ ~Writing(c)'
      /\ r.at = "discard" => r.blob \in BlobIds
      /\ \A d \in Callers : d # c => call'[d] = call[d]
      /\ \A d \in Callers : Writing(d)' => d # c /\ Writing(d) /\ call'[d] = call[d]
  BY <1>0, RetiredOthers
<1>2. FilesTyped'
  <2>1. IsFiniteSet(parts')
    BY <1>0, FS_Subset DEF FilesTyped
  <2> QED BY <1>0, <1>1, <2>1 DEF FilesTyped
<1>3. FreshIds'
  BY <1>0 DEF FreshIds
<1>3a. staged \in Nat /\ 1..staged \subseteq BlobIds
  BY <1>0, FileBoundsAssumption DEF FilesTyped, BlobIds
<1>4. WritersApart'
  <2>1. \A d \in Callers : call'[d].at = "discard" => call'[d].blob \in BlobIds
    BY <1>0, <1>1 DEF WritersApart
  <2>2. ASSUME NEW d \in Callers, Writing(d)'
        PROVE  /\ call'[d].op \in {"file", "internal", "part", "complete"}
               /\ call'[d].blob \in 1..staged
               /\ blobRow'[call'[d].blob].state # "committed"
    BY <1>0, <1>1, <1>3a, <2>2 DEF WritersApart
  <2>3. \A d, e \in Callers : Writing(d)' /\ Writing(e)' /\ call'[d].blob = call'[e].blob => d = e
    BY <1>0, <1>1 DEF WritersApart
  <2> QED BY <2>1, <2>2, <2>3 DEF WritersApart
<1>5. WrittenSoFar'
  <2> SUFFICES ASSUME NEW d \in Callers, call'[d].at \in {"open", "copy", "commit"}
               PROVE  /\ call'[d].at = "open" => content[call'[d].blob] = <<>>
                      /\ call'[d].at \in {"copy", "commit"} =>
                           IF call'[d].op = "complete"
                           THEN /\ Len(content[call'[d].blob]) <= Len(call'[d].parts)
                                /\ \A n \in 1..Len(content[call'[d].blob]) :
                                     content[call'[d].blob][n] = call'[d].parts[n].blob
                           ELSE content[call'[d].blob] = <<call'[d].blob>>
                      /\ call'[d].at = "commit" =>
                           /\ blobRow'[call'[d].blob].state = "staging" => call'[d].blob \in disk'
                           /\ call'[d].op = "complete" =>
                                Len(content[call'[d].blob]) = Len(call'[d].parts)
    BY DEF WrittenSoFar
  <2>1. call'[d] = call[d] /\ Writing(d)
    BY <1>1 DEF Writing
  <2>2. call[d].blob \in BlobIds
    BY <1>0, <1>3a, <2>1 DEF WritersApart
  <2>3. blobRow'[call[d].blob].state = "staging" => blobRow[call[d].blob].state = "staging"
    BY <2>2
  <2> QED BY <1>0, <2>1, <2>2, <2>3 DEF WrittenSoFar
<1>6. SourcesFinished'
  <2> SUFFICES ASSUME NEW d \in Callers, Writing(d)', call'[d].op = "complete",
                      NEW n \in 1..Len(call'[d].parts)
               PROVE  /\ call'[d].parts[n].blob \in 1..staged'
                      /\ content'[call'[d].parts[n].blob] = <<call'[d].parts[n].blob>>
                      /\ \A e \in Callers : Writing(e)' => call'[e].blob # call'[d].parts[n].blob
    BY ZenonT(30) DEF SourcesFinished, Writing
  <2>1. call'[d] = call[d] /\ Writing(d)
    BY <1>1
  <2>2. /\ call[d].parts[n].blob \in 1..staged
        /\ content[call[d].parts[n].blob] = <<call[d].parts[n].blob>>
        /\ \A e \in Callers : Writing(e) => call[e].blob # call[d].parts[n].blob
    <3>1. SourcesFinished /\ Writing(d) /\ call[d].op = "complete" /\ n \in 1..Len(call[d].parts)
      BY <1>0, <2>1
    <3>2. SourceReady(call[d].parts[n].blob)
      BY <3>1, SourcesReady
    <3> QED BY <3>2 DEF SourceReady
  <2> QED BY <1>1, <2>1, <2>2
<1>7. UnlinksUnowned'
  <2> SUFFICES ASSUME NEW d \in Callers, call'[d].at = "unlink"
               PROVE  /\ call'[d].todo # <<>>
                      /\ \A n \in 1..Len(call'[d].todo) :
                           /\ call'[d].todo[n][2] \in 1..staged
                           /\ blobRow'[call'[d].todo[n][2]].state = "none"
    BY DEF UnlinksUnowned
  <2>1. CASE d = c
    BY <1>1, <2>1
  <2>2. CASE d # c
    <3>1. call'[d] = call[d]
      BY <1>1, <2>2
    <3>2. /\ call[d].todo # <<>>
          /\ \A n \in 1..Len(call[d].todo) :
             /\ call[d].todo[n][2] \in 1..staged
             /\ blobRow[call[d].todo[n][2]].state = "none"
      BY <1>0, <3>1 DEF UnlinksUnowned
    <3>3. \A x \in 1..staged : blobRow[x].state = "none" => blobRow'[x].state = "none"
      BY <1>3a
    <3> QED BY <3>1, <3>2, <3>3, SMTT(30)
  <2> QED BY <2>1, <2>2
<1>8. Owned'
  <2>1. \A f \in fileRows' : f \in fileRows /\ f.blob \in BlobIds
    BY <1>0 DEF FilesTyped
  <2>2. \A p \in parts' : p \in parts /\ p.blob \in BlobIds
    BY <1>0 DEF FilesTyped, PartRecords
  <2>3. FilesReadable'
    BY <1>0, <2>1, <2>2 DEF FilesReadable
  <2> QED BY <1>0, <2>1, <2>2, <2>3 DEF Owned
<1> QED BY <1>2, <1>3, <1>4, <1>5, <1>6, <1>7, <1>8 DEF FilesIInv

LEMMA GoRetires ==
  ASSUME FilesTyped, WritersApart, NEW c \in Callers,
         NEW at \in {"discard", "scan tmp"}, FileGo(c, at), at = "discard" => Writing(c)
  PROVE  \E r : Retires(c, r) /\ r.at # "unlink"
<1> DEFINE r == [call[c] EXCEPT !.at = at]
<1>1. call[c] \in Calls
  BY DEF FilesTyped
<1>2. r \in Calls /\ r.at = at /\ r.blob = call[c].blob
  BY <1>1 DEF Calls
<1>2a. at = "discard" => call[c].blob \in BlobIds
  BY FileBoundsAssumption DEF WritersApart, BlobIds, FilesTyped
<1>3. call' = [call EXCEPT ![c] = r]
  BY DEF FileGo
<1> HIDE DEF r
<1> QED BY <1>2, <1>2a, <1>3 DEF Retires

LEMMA LeaveRetires ==
  ASSUME NEW c \in Callers, Leave(c)
  PROVE  \E r : Retires(c, r) /\ r.at # "unlink"
BY IdleIsCall DEF Leave, Retires

LEMMA UnlinkingRetires ==
  ASSUME NEW c \in Callers, NEW op \in Ops,
         NEW todo \in Seq({"blobs", "tmp"} \X BlobIds), Unlinking(c, op, todo)
  PROVE  \E r : Retires(c, r) /\ (r.at = "unlink" => todo # <<>> /\ r.todo = todo)
<1> DEFINE u == [IdleCall EXCEPT !.op = op, !.at = "unlink", !.todo = todo]
           s == [IdleCall EXCEPT !.op = op, !.at = "scan blobs"]
<1>1. u \in Calls /\ u.at = "unlink" /\ u.todo = todo
  BY IdleIsCall DEF Calls
<1>2. s \in Calls /\ s.at = "scan blobs"
  BY IdleIsCall DEF Calls
<1>3. call' = [call EXCEPT ![c] = IF todo # <<>> THEN u
                                  ELSE IF op = "purge" THEN s ELSE IdleCall]
  BY DEF Unlinking
<1> HIDE DEF u, s
<1>4. CASE todo # <<>>
  BY <1>1, <1>3, <1>4 DEF Retires
<1>5. CASE todo = <<>> /\ op = "purge"
  BY <1>2, <1>3, <1>5 DEF Retires
<1>6. CASE todo = <<>> /\ op # "purge"
  BY <1>3, <1>6, IdleIsCall DEF Retires
<1> QED BY <1>4, <1>5, <1>6

LEMMA DroppedRows ==
  ASSUME FilesTyped, NEW gone, blobRow' = DropRows(gone)
  PROVE  /\ blobRow' \in [BlobIds -> [state : {"none", "staging", "committed"}, at : Nat]]
         /\ \A b \in BlobIds : blobRow'[b].state = IF b \in gone THEN "none" ELSE blobRow[b].state
<1>1. NoRow \in [state : {"none", "staging", "committed"}, at : Nat] /\ NoRow.state = "none"
  BY DEF NoRow
<1> QED BY <1>1 DEF FilesTyped, DropRows

(* Retiring without touching a row. *)
LEMMA QuietKeeps ==
  ASSUME FilesIInv, NEW c \in Callers, NEW r, Retires(c, r), r.at # "unlink",
         UNCHANGED fileTables, UNCHANGED content, clock' \in Nat,
         \A b \in disk : b \notin disk' => blobRow[b].state = "none"
  PROVE  FilesIInv'
<1>1. FilesTyped /\ UploadOnce
  BY FilesParts
<1>2. UNCHANGED <<blobRow, staged, fileRows, upload, parts, assembled>>
  BY DEF fileTables
<1>3. UploadOnce'
  BY <1>1, <1>2 DEF UploadOnce
<1>4. /\ blobRow' \in [BlobIds -> [state : {"none", "staging", "committed"}, at : Nat]]
      /\ \A b \in BlobIds : blobRow'[b].state = IF b \in {} THEN "none" ELSE blobRow[b].state
      /\ assembled' \in Nat
      /\ upload' \in [status : {"none", "pending", "completed", "cancelled"}, expires : Nat]
  BY <1>1, <1>2 DEF FilesTyped
<1>5. Releases(c, r, {})
  BY <1>2, <1>3, <1>4 DEF Releases
<1> QED BY <1>5, ReleaseKeeps

LEMMA CopyFailsKeeps ==
  ASSUME FilesIInv, NEW c \in Callers, CopyFails(c)
  PROVE  FilesIInv'
<1>1. FilesTyped /\ WritersApart
  BY FilesParts
<1>2. PICK r : Retires(c, r) /\ r.at # "unlink"
  BY <1>1, GoRetires DEF CopyFails, Writing
<1> QED BY <1>1, <1>2, QuietKeeps DEF CopyFails, fileBounds, FilesTyped

LEMMA CommitRefusedKeeps ==
  ASSUME FilesIInv, NEW c \in Callers, CommitRefused(c)
  PROVE  FilesIInv'
<1>1. FilesTyped /\ WritersApart
  BY FilesParts
<1>2. PICK r : Retires(c, r) /\ r.at # "unlink"
  BY <1>1, GoRetires DEF CommitRefused, Writing
<1> QED BY <1>1, <1>2, QuietKeeps DEF CommitRefused, fileBytes, FilesTyped

LEMMA RemoveOrphansKeeps ==
  ASSUME FilesIInv, NEW c \in Callers, RemoveOrphans(c)
  PROVE  FilesIInv'
<1>1. FilesTyped /\ WritersApart
  BY FilesParts
<1>2. PICK r : Retires(c, r) /\ r.at # "unlink"
  BY <1>1, GoRetires, LeaveRetires DEF RemoveOrphans, Writing
<1>3. \A b \in disk : b \notin disk' => blobRow[b].state = "none"
  BY DEF RemoveOrphans, Writing
<1> QED BY <1>1, <1>2, <1>3, QuietKeeps DEF RemoveOrphans, fileBounds, FilesTyped

(* Rows released together with their owners, and then unlinked. *)
LEMMA ReleasedKeeps ==
  ASSUME FilesIInv, NEW c \in Callers, NEW gone \in SUBSET BlobIds,
         NEW op \in {"remove", "purge"}, Unlinking(c, op, Unlinks(gone)),
         \A b \in gone : blobRow[b].state # "none",
         blobRow' = DropRows(gone),
         fileRows' \subseteq fileRows, parts' \subseteq parts,
         \A f \in fileRows' : f.blob \notin gone,
         \A p \in parts' : p.blob \notin gone,
         UNCHANGED <<staged, disk, content, clock, assembled>>, UploadOnce',
         upload' \in [status : {"none", "pending", "completed", "cancelled"}, expires : Nat]
  PROVE  FilesIInv'
<1>1. FilesTyped /\ FreshIds
  BY FilesParts
<1>2. /\ Unlinks(gone) \in Seq({"blobs", "tmp"} \X BlobIds)
      /\ \A n \in 1..Len(Unlinks(gone)) : Unlinks(gone)[n][2] \in gone
  BY UnlinksOf
<1>3. PICK r : Retires(c, r) /\ (r.at = "unlink" => Unlinks(gone) # <<>> /\ r.todo = Unlinks(gone))
  BY <1>2, UnlinkingRetires DEF Ops
<1>4. /\ blobRow' \in [BlobIds -> [state : {"none", "staging", "committed"}, at : Nat]]
      /\ \A b \in BlobIds : blobRow'[b].state = IF b \in gone THEN "none" ELSE blobRow[b].state
  BY <1>1, DroppedRows
<1>5. ASSUME NEW b \in gone PROVE b \in 1..staged
  <2>1. b \in BlobIds /\ ~(b > staged) /\ staged \in Nat /\ MaxBlobs \in Nat
    BY <1>1, FileBoundsAssumption DEF FreshIds, FilesTyped
  <2> QED BY <2>1 DEF BlobIds
<1>6. r.at = "unlink" =>
           /\ r.todo # <<>>
           /\ \A n \in 1..Len(r.todo) : /\ r.todo[n][2] \in 1..staged
                                        /\ blobRow'[r.todo[n][2]].state = "none"
  BY <1>2, <1>3, <1>4, <1>5
<1>7. clock' \in Nat /\ assembled' \in Nat
  BY <1>1 DEF FilesTyped
<1>8. Releases(c, r, gone)
  BY <1>3, <1>4, <1>6, <1>7 DEF Releases
<1> QED BY <1>8, ReleaseKeeps

(* A blob is discarded only while its row is staging: a commit that        *)
(* reported an error and happened has made it another row.                 *)
LEMMA DiscardBlobKeeps ==
  ASSUME FilesIInv, NEW c \in Callers, DiscardBlob(c)
  PROVE  FilesIInv'
<1> DEFINE b == call[c].blob
<1>1. FilesTyped /\ Owned /\ UploadOnce /\ WritersApart
  BY FilesParts
<1>2. /\ UNCHANGED <<staged, fileRows, internal, upload, parts, assembled, disk, content, clock>>
      /\ UploadOnce'
  BY <1>1 DEF DiscardBlob, fileBytes, UploadOnce
<1>3. CASE /\ blobRow[b].state = "staging" /\ blobRow' = DropRows({b})
           /\ Unlinking(c, "remove", Unlinks({b}))
  <2>1. CASE b \in BlobIds
    <3>1. \A f \in fileRows : f.blob # b
      BY <1>1, <1>3 DEF Owned, FilesReadable
    <3>2. \A p \in parts : p.blob # b
      BY <1>1, <1>3 DEF Owned, FilesReadable
    <3>3. upload' \in [status : {"none", "pending", "completed", "cancelled"}, expires : Nat]
      BY <1>1, <1>2 DEF FilesTyped
    <3> HIDE DEF b
    <3> QED BY <1>2, <1>3, <2>1, <3>1, <3>2, <3>3, ReleasedKeeps
  <2>2. b \in BlobIds
    BY <1>1 DEF WritersApart, DiscardBlob
  <2> QED BY <2>1, <2>2
<1>4. CASE Leave(c) /\ UNCHANGED blobRow
  <2>1. PICK r : Retires(c, r) /\ r.at # "unlink"
    BY <1>4, LeaveRetires
  <2>2. UNCHANGED fileTables
    BY <1>2, <1>4 DEF fileTables
  <2> QED BY <1>1, <1>2, <2>1, <2>2, QuietKeeps DEF FilesTyped
<1> QED BY <1>3, <1>4 DEF DiscardBlob

LEMMA OwnersDiffer ==
  ASSUME FilesIInv
  PROVE  /\ \A f \in fileRows : f.blob \in BlobIds /\ blobRow[f.blob].state = "committed"
         /\ \A p \in parts : p.blob \in BlobIds /\ blobRow[p.blob].state = "committed"
         /\ PartBlobs \subseteq BlobIds
         /\ \A f, g \in fileRows : f.blob = g.blob => f = g
         /\ \A f \in fileRows, p \in parts : f.blob # p.blob
BY DEF FilesIInv, FilesTyped, Owned, FilesReadable, PartRecords, PartBlobs

LEMMA DeleteFileKeeps ==
  ASSUME FilesIInv, NEW c \in Callers, DeleteFile(c)
  PROVE  FilesIInv'
<1>1. FilesTyped /\ UploadOnce
  BY FilesParts
<1>2. PICK f \in fileRows :
        /\ fileRows' = fileRows \ {f}
        /\ blobRow' = DropRows({f.blob})
        /\ Unlinking(c, "remove", Unlinks({f.blob}))
  BY DEF DeleteFile
<1>3. UNCHANGED <<staged, upload, parts, assembled, disk, content, clock>>
  BY DEF DeleteFile, fileBytes, fileBounds
<1>4. UploadOnce' /\ upload' \in [status : {"none", "pending", "completed", "cancelled"}, expires : Nat]
  BY <1>1, <1>3 DEF UploadOnce, FilesTyped
<1> DEFINE gone == {f.blob}
<1>5. /\ gone \in SUBSET BlobIds /\ (\A b \in gone : blobRow[b].state # "none")
      /\ (\A g \in fileRows' : g.blob \notin gone) /\ (\A p \in parts' : p.blob \notin gone)
  BY <1>2, <1>3, OwnersDiffer
<1>6. fileRows' \subseteq fileRows /\ parts' \subseteq parts
  BY <1>2, <1>3
<1>7. blobRow' = DropRows(gone) /\ Unlinking(c, "remove", Unlinks(gone))
  BY <1>2
<1> HIDE DEF gone
<1> QED BY <1>3, <1>4, <1>5, <1>6, <1>7, ReleasedKeeps

(* Cancelling releases every part, and an assembly under way only finds    *)
(* its commit refused.                                                     *)
LEMMA CancelUploadKeeps ==
  ASSUME FilesIInv, NEW c \in Callers, CancelUpload(c)
  PROVE  FilesIInv'
<1>1. FilesTyped /\ UploadOnce
  BY FilesParts
<1>2. UNCHANGED <<staged, fileRows, assembled, disk, content, clock>> /\ parts' = {}
  BY DEF CancelUpload, fileBytes, fileBounds
<1>3. /\ upload' \in [status : {"none", "pending", "completed", "cancelled"}, expires : Nat]
      /\ upload'.status = "cancelled" /\ upload.status = "pending"
  BY <1>1 DEF CancelUpload, UploadOpen, FilesTyped
<1>4. UploadOnce'
  BY <1>1, <1>2, <1>3, SizeOfNone, FileBoundsAssumption DEF UploadOnce
<1>5. /\ PartBlobs \in SUBSET BlobIds /\ (\A b \in PartBlobs : blobRow[b].state # "none")
      /\ (\A g \in fileRows' : g.blob \notin PartBlobs) /\ (\A p \in parts' : p.blob \notin PartBlobs)
      /\ fileRows' \subseteq fileRows /\ parts' \subseteq parts
  BY <1>2, OwnersDiffer DEF PartBlobs
<1>6. blobRow' = DropRows(PartBlobs) /\ Unlinking(c, "remove", Unlinks(PartBlobs))
  BY DEF CancelUpload
<1> QED BY <1>2, <1>3, <1>4, <1>5, <1>6, ReleasedKeeps

(* The purge releases rows only: those of expired files, of the parts of   *)
(* an expired upload, and staging rows, which own nothing.                 *)
LEMMA PurgeKeeps ==
  ASSUME FilesIInv, NEW c \in Callers, PurgeFileStorage(c)
  PROVE  FilesIInv'
<1> DEFINE expired == {f \in fileRows : f.expires <= clock}
           dead    == IF upload.status = "pending" /\ upload.expires <= clock
                      THEN PartBlobs ELSE {}
           stale   == {b \in BlobIds : /\ blobRow[b].state = "staging"
                                /\ blobRow[b].at + StagingTtl <= clock}
           gone    == {f.blob : f \in expired} \cup dead \cup stale
<1>1. FilesTyped /\ UploadOnce
  BY FilesParts
<1>2. /\ fileRows' = fileRows \ expired /\ parts' = {p \in parts : p.blob \notin dead}
      /\ blobRow' = DropRows(gone) /\ Unlinking(c, "purge", Unlinks(gone))
  BY DEF PurgeFileStorage
<1>3. UNCHANGED <<staged, upload, assembled, disk, content, clock>>
  BY DEF PurgeFileStorage, fileBytes, fileBounds
<1>4. dead = PartBlobs \/ dead = {}
  OBVIOUS
<1>5. expired \subseteq fileRows /\ stale \subseteq BlobIds /\ (\A b \in stale : blobRow[b].state = "staging")
  OBVIOUS
<1>5a. gone = {f.blob : f \in expired} \cup dead \cup stale
  OBVIOUS
<1> HIDE DEF dead, expired, stale, gone
<1>6. parts' = {} \/ parts' = parts
  BY <1>2, <1>4 DEF PartBlobs
<1>7. UploadOnce'
  BY <1>1, <1>3, <1>6, SizeOfNone, FileBoundsAssumption DEF UploadOnce
<1>8. upload' \in [status : {"none", "pending", "completed", "cancelled"}, expires : Nat]
  BY <1>1, <1>3 DEF FilesTyped
<1>9. \A b \in gone : \/ \E f \in expired : b = f.blob
                      \/ b \in dead \/ b \in stale
  BY <1>5a
<1>9a. dead \subseteq PartBlobs /\ (\A b \in dead : \E p \in parts : b = p.blob)
  BY <1>4 DEF PartBlobs
<1>10. gone \in SUBSET BlobIds /\ (\A b \in gone : blobRow[b].state # "none")
  BY <1>5, <1>9, <1>9a, OwnersDiffer
<1>11. \A g \in fileRows' : g.blob \notin gone
  BY <1>2, <1>5, <1>9, <1>9a, OwnersDiffer
<1>12. \A p \in parts' : p.blob \notin gone
  BY <1>2, <1>5, <1>9, OwnersDiffer
<1>13. fileRows' \subseteq fileRows /\ parts' \subseteq parts
  BY <1>2
<1> QED BY <1>2, <1>3, <1>7, <1>8, <1>10, <1>11, <1>12, <1>13, ReleasedKeeps

(* Only bytes without a row go.                                            *)
LEMMA UnlinkBlobKeeps ==
  ASSUME FilesIInv, NEW c \in Callers, UnlinkBlob(c)
  PROVE  FilesIInv'
<1> DEFINE todo == call[c].todo
           b == Head(todo)[2]
<1>1. FilesTyped /\ UploadOnce /\ UnlinksUnowned
  BY FilesParts
<1>2. call[c] \in Calls /\ call[c].at = "unlink"
  BY <1>1 DEF FilesTyped, UnlinkBlob
<1>3. todo \in Seq({"blobs", "tmp"} \X BlobIds) /\ todo # <<>>
  BY <1>1, <1>2 DEF Calls, UnlinksUnowned
<1>4. /\ \A n \in 1..Len(todo) : todo[n][2] \in 1..staged /\ blobRow[todo[n][2]].state = "none"
  BY <1>1, <1>2 DEF UnlinksUnowned
<1>5. UNCHANGED <<blobRow, staged, fileRows, internal, upload, parts, assembled, content, clock>>
      /\ UNCHANGED fileTables
  BY DEF UnlinkBlob, fileTables
<1> HIDE DEF todo
<1>6. /\ Tail(todo) \in Seq({"blobs", "tmp"} \X BlobIds)
      /\ \A n \in 1..Len(Tail(todo)) : Tail(todo)[n] = todo[n + 1] /\ n + 1 \in 1..Len(todo)
      /\ Head(todo) = todo[1] /\ 1 \in 1..Len(todo)
  <2> DEFINE S == {"blobs", "tmp"} \X BlobIds
  <2> HIDE DEF S
  <2>1. todo \in Seq(S) /\ todo # <<>>
    BY <1>3 DEF S
  <2>2. PICK k \in Nat : Len(todo) = k /\ Len(Tail(todo)) = k - 1 /\ k > 0
    BY <2>1
  <2>3. Tail(todo) \in Seq(S) /\ \A n \in 1..Len(Tail(todo)) : Tail(todo)[n] = todo[n + 1]
    BY <2>1, HeadTailProperties
  <2>4. Head(todo) = todo[1]
    BY <2>1
  <2>5. 1 \in 1..Len(todo) /\ \A n \in 1..Len(Tail(todo)) : n + 1 \in 1..Len(todo)
    BY <2>2
  <2> QED BY <2>3, <2>4, <2>5 DEF S
<1>7. blobRow[b].state = "none"
  BY <1>4, <1>6
<1>8. \A x \in disk : x \notin disk' => blobRow[x].state = "none"
  BY <1>7 DEF UnlinkBlob, todo
<1>9. \A n \in 1..Len(Tail(todo)) :
        Tail(todo)[n][2] \in 1..staged /\ blobRow[Tail(todo)[n][2]].state = "none"
  BY <1>4, <1>6
<1>10. CASE Leave(c)
  <2>1. PICK r : Retires(c, r) /\ r.at # "unlink"
    BY <1>10, LeaveRetires
  <2> QED BY <1>1, <1>5, <1>8, <2>1, QuietKeeps DEF FilesTyped
<1>11. CASE Unlinking(c, call[c].op, Tail(todo))
  <2>1. PICK r : Retires(c, r) /\ (r.at = "unlink" => Tail(todo) # <<>> /\ r.todo = Tail(todo))
    <3>1. PICK op, t : op = call[c].op /\ t = Tail(todo)
      OBVIOUS
    <3>2. op \in Ops /\ t \in Seq({"blobs", "tmp"} \X BlobIds)
      BY <1>2, <1>6, <3>1 DEF Calls
    <3>3. Unlinking(c, op, t)
      BY <1>11, <3>1
    <3>4. \E r : Retires(c, r) /\ (r.at = "unlink" => t # <<>> /\ r.todo = t)
      BY <3>2, <3>3, UnlinkingRetires
    <3> QED BY <3>1, <3>4
  <2>2. UploadOnce'
    BY <1>1, <1>5 DEF UploadOnce
  <2>3. /\ blobRow' \in [BlobIds -> [state : {"none", "staging", "committed"}, at : Nat]]
        /\ \A x \in BlobIds : blobRow'[x].state = IF x \in {} THEN "none" ELSE blobRow[x].state
        /\ assembled' \in Nat /\ clock' \in Nat
        /\ upload' \in [status : {"none", "pending", "completed", "cancelled"}, expires : Nat]
    BY <1>1, <1>5 DEF FilesTyped
  <2>4. Releases(c, r, {})
    BY <1>5, <1>8, <1>9, <2>1, <2>2, <2>3 DEF Releases
  <2> QED BY <2>4, ReleaseKeeps
<1> QED BY <1>10, <1>11 DEF UnlinkBlob, todo

(* Nothing but the clock or the upload's own row moves. *)
LEMMA StandingKeeps ==
  ASSUME FilesIInv, UNCHANGED <<blobRow, staged, fileRows, parts, disk, content, call>>,
         clock' \in Nat, assembled' \in Nat, UploadOnce',
         upload' \in [status : {"none", "pending", "completed", "cancelled"}, expires : Nat]
  PROVE  FilesIInv'
<1>0. /\ FilesTyped /\ FreshIds /\ WritersApart /\ WrittenSoFar /\ SourcesFinished
      /\ UnlinksUnowned /\ Owned
  BY FilesParts
<1>1. FilesTyped'
  BY <1>0 DEF FilesTyped
<1>2. FreshIds' /\ UnlinksUnowned'
  BY <1>0 DEF FreshIds, UnlinksUnowned
<1>3. WritersApart' /\ WrittenSoFar'
  BY <1>0 DEF WritersApart, WrittenSoFar, Writing
<1>4. SourcesFinished'
  BY <1>0 DEF SourcesFinished, Writing
<1>5. Owned'
  BY <1>0 DEF Owned, FilesReadable
<1> QED BY <1>1, <1>2, <1>3, <1>4, <1>5 DEF FilesIInv

LEMMA FileTickKeeps == ASSUME FilesIInv, FileTick PROVE FilesIInv'
<1>1. FilesTyped /\ UploadOnce
  BY FilesParts
<1>2. UNCHANGED <<blobRow, staged, fileRows, parts, disk, content, call, upload, assembled>>
  BY DEF FileTick, fileTables, fileBytes
<1>3. clock' \in Nat /\ assembled' \in Nat /\ UploadOnce'
      /\ upload' \in [status : {"none", "pending", "completed", "cancelled"}, expires : Nat]
  BY <1>1, <1>2 DEF FileTick, FilesTyped, UploadOnce
<1> QED BY <1>2, <1>3, StandingKeeps

LEMMA CreateUploadKeeps ==
  ASSUME FilesIInv, NEW c \in Callers, CreateUpload(c)
  PROVE  FilesIInv'
<1>1. FilesTyped /\ UploadOnce
  BY FilesParts
<1>2. UNCHANGED <<blobRow, staged, fileRows, parts, disk, content, call, assembled, clock>>
  BY DEF CreateUpload, fileBounds, fileBytes
<1>3. clock + UploadTtl \in Nat
  BY <1>1, FileBoundsAssumption DEF FilesTyped
<1>4. /\ upload' \in [status : {"none", "pending", "completed", "cancelled"}, expires : Nat]
      /\ upload'.status = "pending" /\ upload.status = "none"
  BY <1>3 DEF CreateUpload
<1>5. clock' \in Nat /\ assembled' \in Nat /\ UploadOnce'
  BY <1>1, <1>2, <1>4 DEF FilesTyped, UploadOnce
<1> QED BY <1>2, <1>4, <1>5, StandingKeeps

LEMMA FileCrashKeeps == ASSUME FilesIInv, FileCrash PROVE FilesIInv'
<1>0. /\ FilesTyped /\ FreshIds /\ Owned /\ UploadOnce
  BY FilesParts
<1>1. /\ UNCHANGED <<blobRow, staged, fileRows, parts, disk, content, upload, assembled, clock>>
      /\ call' = [c \in Callers |-> IdleCall]
  BY DEF FileCrash, fileTables, fileBytes
<1>2. FilesTyped'
  BY <1>0, <1>1, IdleIsCall DEF FilesTyped
<1>3. \A c \in Callers : call'[c].at = "idle"
  BY <1>1, IdleIsCall
<1>4. WritersApart' /\ WrittenSoFar' /\ SourcesFinished' /\ UnlinksUnowned'
  BY <1>3 DEF WritersApart, WrittenSoFar, SourcesFinished, UnlinksUnowned, Writing
<1>5. FreshIds' /\ Owned' /\ UploadOnce'
  BY <1>0, <1>1 DEF FreshIds, Owned, FilesReadable, UploadOnce
<1> QED BY <1>2, <1>4, <1>5 DEF FilesIInv

GoesOn(c, r) ==
  Writing(c) /\ r.blob = call[c].blob /\ staged' = staged /\ blobRow' = blobRow

StartsNew(r) ==
  /\ staged + 1 \in BlobIds /\ r.blob = staged + 1 /\ staged' = staged + 1
  /\ blobRow' \in [BlobIds -> [state : {"none", "staging", "committed"}, at : Nat]]
  /\ \A b \in BlobIds : b # staged + 1 => blobRow'[b] = blobRow[b]
  /\ blobRow'[staged + 1].state = "staging"

(* A caller moves on with its own blob b.  The other callers, and what     *)
(* they know, are as they were: no other caller writes b, no assembly      *)
(* reads it and no row owns it.                                            *)
LEMMA OthersKeep ==
  ASSUME FilesIInv, NEW c \in Callers, NEW r \in Calls,
         call' = [call EXCEPT ![c] = r], r.at \in {"open", "copy", "commit"},
         GoesOn(c, r) \/ StartsNew(r),
         content' \in [BlobIds -> Seq(BlobIds)],
         \A b \in BlobIds : b # r.blob => content'[b] = content[b],
         disk \subseteq disk',
         UNCHANGED <<fileRows, parts, upload, assembled, clock>>,
         r.op \in {"file", "internal", "part", "complete"}
  PROVE  /\ FilesTyped' /\ FreshIds' /\ WritersApart' /\ UnlinksUnowned' /\ Owned' /\ UploadOnce'
         /\ \A d \in Callers : d # c => call'[d] = call[d]
         /\ call'[c] = r
         /\ \A d \in Callers : d # c /\ Writing(d) => call[d].blob # r.blob /\ call[d].blob \in 1..staged
         /\ \A d \in Callers, n \in Nat :
              Writing(d) /\ call[d].op = "complete" /\ n \in 1..Len(call[d].parts)
                => call[d].parts[n].blob # r.blob /\ call[d].parts[n].blob \in 1..staged
         /\ staged \in Nat /\ 1..staged \subseteq BlobIds /\ r.blob \in 1..(staged') /\ staged' \in Nat
<1>0. /\ FilesTyped /\ FreshIds /\ WritersApart /\ WrittenSoFar /\ SourcesFinished
      /\ UnlinksUnowned /\ Owned /\ FilesReadable /\ UploadOnce
  BY FilesParts
<1>1. staged \in Nat /\ 1..staged \subseteq BlobIds /\ MaxBlobs \in Nat
  BY <1>0, FileBoundsAssumption DEF FilesTyped, BlobIds
<1>2. staged' \in Nat /\ staged' >= staged /\ staged' \in 0..MaxBlobs /\ r.blob \in 1..(staged') /\ r.blob \in BlobIds
  <2>1. CASE GoesOn(c, r)
    BY <1>0, <1>1, <2>1 DEF WritersApart, FilesTyped, GoesOn
  <2>2. CASE StartsNew(r)
    BY <1>1, <2>2 DEF BlobIds, StartsNew
  <2> QED BY <2>1, <2>2
<1>3. /\ call' \in [Callers -> Calls] /\ call'[c] = r
      /\ \A d \in Callers : d # c => call'[d] = call[d]
  BY <1>0 DEF FilesTyped
<1>4. ASSUME NEW d \in Callers, d # c, Writing(d) PROVE call[d].blob # r.blob /\ call[d].blob \in 1..staged
  BY <1>0, <1>1, <1>4 DEF WritersApart, GoesOn, StartsNew
<1>5. ASSUME NEW d \in Callers, NEW n \in Nat, Writing(d), call[d].op = "complete",
             n \in 1..Len(call[d].parts)
      PROVE  call[d].parts[n].blob # r.blob /\ call[d].parts[n].blob \in 1..staged
  <2>1. /\ call[d].parts[n].blob \in 1..staged
        /\ \A e \in Callers : Writing(e) => call[e].blob # call[d].parts[n].blob
    BY <1>0, <1>5, SourceFinished
  <2> QED BY <1>1, <2>1 DEF GoesOn, StartsNew
<1>6. blobRow' \in [BlobIds -> [state : {"none", "staging", "committed"}, at : Nat]]
  BY <1>0 DEF FilesTyped, GoesOn, StartsNew
<1>7. FilesTyped'
  BY <1>0, <1>2, <1>3, <1>6 DEF FilesTyped
<1>8. \A b \in BlobIds : b # r.blob => blobRow'[b] = blobRow[b]
  BY DEF GoesOn, StartsNew
<1>9. blobRow'[r.blob].state # "committed" /\ blobRow[r.blob].state # "committed"
  <2>1. CASE GoesOn(c, r)
    BY <1>0, <2>1 DEF WritersApart, GoesOn
  <2>2. CASE StartsNew(r)
    <3>1. staged + 1 > staged
      BY <1>1
    <3> QED BY <1>0, <2>2, <3>1 DEF FreshIds, StartsNew
  <2> QED BY <2>1, <2>2
<1>10. FreshIds'
  <2> SUFFICES ASSUME NEW b \in BlobIds, b > staged'
               PROVE  blobRow'[b].state = "none" /\ content'[b] = <<>>
    BY DEF FreshIds
  <2>1. b > staged /\ b # r.blob
    BY <1>1, <1>2 DEF BlobIds
  <2> QED BY <1>0, <1>8, <2>1 DEF FreshIds
<1>11. WritersApart'
  <2>1. \A d \in Callers : call'[d].at = "discard" => call'[d].blob \in BlobIds
    BY <1>0, <1>3 DEF WritersApart
  <2>2. ASSUME NEW d \in Callers, Writing(d)'
        PROVE  /\ call'[d].op \in {"file", "internal", "part", "complete"}
               /\ call'[d].blob \in 1..(staged')
               /\ blobRow'[call'[d].blob].state # "committed"
    <3>1. CASE d = c
      BY <1>2, <1>3, <1>9, <3>1
    <3>2. CASE d # c
      <4>1. call'[d] = call[d] /\ Writing(d)
        BY <1>3, <2>2, <3>2 DEF Writing
      <4>2. call[d].blob # r.blob /\ call[d].blob \in 1..staged
        BY <1>4, <3>2, <4>1
      <4>3. call[d].blob \in 1..(staged') /\ call[d].blob \in BlobIds
        BY <1>1, <1>2, <4>2
      <4> QED BY <1>0, <1>8, <4>1, <4>2, <4>3 DEF WritersApart
    <3> QED BY <3>1, <3>2
  <2>3. ASSUME NEW d \in Callers, NEW e \in Callers, Writing(d)', Writing(e)',
               call'[d].blob = call'[e].blob
        PROVE  d = e
    <3>1. CASE d # c /\ e # c
      BY <1>0, <1>3, <2>3, <3>1 DEF WritersApart, Writing
    <3>2. CASE d = c /\ e # c
      BY <1>3, <1>4, <2>3, <3>2 DEF Writing
    <3>3. CASE d # c /\ e = c
      BY <1>3, <1>4, <2>3, <3>3 DEF Writing
    <3> QED BY <3>1, <3>2, <3>3
  <2> QED BY <2>1, <2>2, <2>3 DEF WritersApart
<1>12. UnlinksUnowned'
  <2> SUFFICES ASSUME NEW d \in Callers, call'[d].at = "unlink"
               PROVE  /\ call'[d].todo # <<>>
                      /\ \A n \in 1..Len(call'[d].todo) :
                           /\ call'[d].todo[n][2] \in 1..(staged')
                           /\ blobRow'[call'[d].todo[n][2]].state = "none"
    BY DEF UnlinksUnowned
  <2>1. d # c /\ call'[d] = call[d]
    BY <1>3
  <2>2. /\ call[d].todo # <<>>
        /\ \A n \in 1..Len(call[d].todo) :
             /\ call[d].todo[n][2] \in 1..staged
             /\ blobRow[call[d].todo[n][2]].state = "none"
    BY <1>0, <2>1 DEF UnlinksUnowned
  <2>3. \A b \in 1..staged : blobRow[b].state = "none" => blobRow'[b].state = "none"
    <3>1. CASE GoesOn(c, r)
      BY <3>1 DEF GoesOn
    <3>2. CASE StartsNew(r)
      <4>1. \A b \in 1..staged : b \in BlobIds /\ b # staged + 1
        BY <1>1
      <4> QED BY <3>2, <4>1 DEF StartsNew
    <3> QED BY <3>1, <3>2
  <2>4. 1..staged \subseteq 1..(staged')
    BY <1>1, <1>2
  <2> QED BY <2>1, <2>2, <2>3, <2>4
<1>13. Owned'
  <2>1. \A f \in fileRows : f.blob \in BlobIds /\ f.blob # r.blob
    BY <1>9, OwnersDiffer
  <2>2. \A p \in parts : p.blob \in BlobIds /\ p.blob # r.blob
    BY <1>9, OwnersDiffer
  <2>3. FilesReadable'
    BY <1>0, <1>8, <2>1, <2>2 DEF FilesReadable
  <2> QED BY <1>0, <2>2, <2>3 DEF Owned
<1>14. UploadOnce'
  BY <1>0 DEF UploadOnce
<1> QED BY <1>1, <1>2, <1>3, <1>4, <1>5, <1>7, <1>10, <1>11, <1>12, <1>13, <1>14

(* What is left to show once the others are as they were: the caller's own *)
(* bytes, and the bytes of the parts it reads.                             *)
OwnBytes(r) ==
  /\ r.at = "open" => content'[r.blob] = <<>>
  /\ r.at \in {"copy", "commit"} =>
       IF r.op = "complete"
       THEN /\ Len(content'[r.blob]) <= Len(r.parts)
            /\ \A n \in 1..Len(content'[r.blob]) : content'[r.blob][n] = r.parts[n].blob
       ELSE content'[r.blob] = <<r.blob>>
  /\ r.at = "commit" =>
       /\ blobRow'[r.blob].state = "staging" => r.blob \in disk'
       /\ r.op = "complete" => Len(content'[r.blob]) = Len(r.parts)
  /\ r.op = "complete" =>
       \A n \in 1..Len(r.parts) :
         /\ r.parts[n].blob \in 1..staged /\ r.parts[n].blob # r.blob
         /\ content[r.parts[n].blob] = <<r.parts[n].blob>>
         /\ \A d \in Callers : Writing(d) => call[d].blob # r.parts[n].blob

Moves(c, r) ==
  /\ r \in Calls /\ r.at \in {"open", "copy", "commit"}
  /\ r.op \in {"file", "internal", "part", "complete"}
  /\ call' = [call EXCEPT ![c] = r] /\ (GoesOn(c, r) \/ StartsNew(r))
  /\ content' \in [BlobIds -> Seq(BlobIds)]
  /\ \A b \in BlobIds : b # r.blob => content'[b] = content[b]
  /\ disk \subseteq disk' /\ OwnBytes(r)
  /\ UNCHANGED <<fileRows, parts, upload, assembled, clock>>

(* A writer that goes on, or begins, keeps the invariant when its own blob *)
(* is the only one it touches.                                             *)
LEMMA MoveKeeps ==
  ASSUME FilesIInv, NEW c \in Callers, NEW r, Moves(c, r)
  PROVE  FilesIInv'
<1>0. WrittenSoFar /\ SourcesFinished /\ WritersApart
  BY FilesParts
<1>1. /\ FilesTyped' /\ FreshIds' /\ WritersApart' /\ UnlinksUnowned' /\ Owned' /\ UploadOnce'
      /\ \A d \in Callers : d # c => call'[d] = call[d]
      /\ call'[c] = r
      /\ \A d \in Callers : d # c /\ Writing(d) => call[d].blob # r.blob /\ call[d].blob \in 1..staged
      /\ \A d \in Callers, n \in Nat :
              Writing(d) /\ call[d].op = "complete" /\ n \in 1..Len(call[d].parts)
                => call[d].parts[n].blob # r.blob /\ call[d].parts[n].blob \in 1..staged
      /\ staged \in Nat /\ 1..staged \subseteq BlobIds /\ r.blob \in 1..(staged') /\ staged' \in Nat
  BY OthersKeep DEF Moves
<1>2. \A b \in BlobIds : b # r.blob => content'[b] = content[b] /\ blobRow'[b] = blobRow[b]
  BY DEF Moves, GoesOn, StartsNew
<1>3. 1..staged \subseteq 1..(staged')
  BY <1>1 DEF Moves, GoesOn, StartsNew
<1>4. WrittenSoFar'
  <2> SUFFICES ASSUME NEW d \in Callers, call'[d].at \in {"open", "copy", "commit"}
               PROVE  /\ call'[d].at = "open" => content'[call'[d].blob] = <<>>
                      /\ call'[d].at \in {"copy", "commit"} =>
                           IF call'[d].op = "complete"
                           THEN /\ Len(content'[call'[d].blob]) <= Len(call'[d].parts)
                                /\ \A n \in 1..Len(content'[call'[d].blob]) :
                                     content'[call'[d].blob][n] = call'[d].parts[n].blob
                           ELSE content'[call'[d].blob] = <<call'[d].blob>>
                      /\ call'[d].at = "commit" =>
                           /\ blobRow'[call'[d].blob].state = "staging" => call'[d].blob \in disk'
                           /\ call'[d].op = "complete" =>
                                Len(content'[call'[d].blob]) = Len(call'[d].parts)
    BY DEF WrittenSoFar
  <2>1. CASE d = c
    BY <1>1, <2>1 DEF Moves, OwnBytes
  <2>2. CASE d # c
    <3>1. call'[d] = call[d] /\ Writing(d)
      BY <1>1, <2>2 DEF Writing
    <3>2. call[d].blob # r.blob /\ call[d].blob \in BlobIds
      BY <1>1, <2>2, <3>1
    <3>3. content'[call[d].blob] = content[call[d].blob] /\ blobRow'[call[d].blob] = blobRow[call[d].blob]
      BY <1>2, <3>2
    <3>4. disk \subseteq disk'
      BY DEF Moves
    <3>5. call[d].at \in {"open", "copy", "commit"}
      BY <3>1
    <3>6. /\ call[d].at = "open" => content[call[d].blob] = <<>>
          /\ call[d].at \in {"copy", "commit"} =>
               IF call[d].op = "complete"
               THEN /\ Len(content[call[d].blob]) <= Len(call[d].parts)
                    /\ \A n \in 1..Len(content[call[d].blob]) :
                         content[call[d].blob][n] = call[d].parts[n].blob
               ELSE content[call[d].blob] = <<call[d].blob>>
          /\ call[d].at = "commit" =>
               /\ blobRow[call[d].blob].state = "staging" => call[d].blob \in disk
               /\ call[d].op = "complete" => Len(content[call[d].blob]) = Len(call[d].parts)
      BY <1>0 DEF WrittenSoFar
    <3> QED BY <3>1, <3>3, <3>4, <3>6
  <2> QED BY <2>1, <2>2
<1>5. SourcesFinished'
  <2> SUFFICES ASSUME NEW d \in Callers, Writing(d)', call'[d].op = "complete",
                      NEW n \in 1..Len(call'[d].parts)
               PROVE  /\ call'[d].parts[n].blob \in 1..staged'
                      /\ content'[call'[d].parts[n].blob] = <<call'[d].parts[n].blob>>
                      /\ \A e \in Callers : Writing(e)' => call'[e].blob # call'[d].parts[n].blob
    BY Zenon DEF SourcesFinished, Writing
  <2> DEFINE b == call'[d].parts[n].blob
  <2>1. /\ b \in 1..staged /\ b # r.blob /\ content[b] = <<b>>
        /\ \A e \in Callers : Writing(e) => call[e].blob # b
    <3>1. CASE d = c
      <4>1. call'[d] = r
        BY <1>1, <3>1
      <4>2. OwnBytes(r)
        BY DEF Moves
      <4>3. r.op = "complete" /\ n \in 1..Len(r.parts)
        BY <4>1
      <4>4. /\ r.parts[n].blob \in 1..staged /\ r.parts[n].blob # r.blob
            /\ content[r.parts[n].blob] = <<r.parts[n].blob>>
            /\ \A e \in Callers : Writing(e) => call[e].blob # r.parts[n].blob
        BY <4>2, <4>3 DEF OwnBytes
      <4> QED BY <4>1, <4>4
    <3>2. CASE d # c
      <4>1. call'[d] = call[d] /\ Writing(d)
        BY <1>1, <3>2 DEF Writing
      <4>2. n \in Nat /\ n \in 1..Len(call[d].parts)
        BY <4>1
      <4>3. /\ call[d].parts[n].blob \in 1..staged
            /\ content[call[d].parts[n].blob] = <<call[d].parts[n].blob>>
            /\ \A e \in Callers : Writing(e) => call[e].blob # call[d].parts[n].blob
        BY <1>0, <4>1, <4>2, SourceFinished
      <4>4. call[d].parts[n].blob # r.blob
        BY <1>1, <4>1, <4>2
      <4> QED BY <4>1, <4>3, <4>4
    <3> QED BY <3>1, <3>2
  <2> HIDE DEF b
  <2>2. b \in 1..(staged') /\ content'[b] = <<b>>
    BY <1>1, <1>2, <1>3, <2>1
  <2>3. \A e \in Callers : Writing(e)' => call'[e].blob # b
    <3> SUFFICES ASSUME NEW e \in Callers, Writing(e)' PROVE call'[e].blob # b
      OBVIOUS
    <3>1. CASE e = c
      BY <1>1, <2>1, <3>1
    <3>2. CASE e # c
      BY <1>1, <2>1, <3>2 DEF Writing
    <3> QED BY <3>1, <3>2
  <2> QED BY <2>2, <2>3 DEF b
<1> QED BY <1>1, <1>4, <1>5 DEF FilesIInv

LEMMA StageKeeps ==
  ASSUME FilesIInv, NEW c \in Callers, NEW op \in {"file", "internal", "part", "complete"},
         NEW limit \in Nat, NEW ps \in Seq(parts), StageBlob(c, op, limit, ps)
  PROVE  FilesIInv'
<1>0. FilesTyped /\ FreshIds /\ WritersApart /\ Owned /\ FilesReadable
  BY FilesParts
<1> DEFINE r == [IdleCall EXCEPT !.op = op, !.at = "open", !.blob = staged + 1, !.bytes = limit,
                                 !.parts = ps]
<1>1. staged \in Nat /\ staged + 1 \in BlobIds /\ staged + 1 \in 0..MaxBlobs /\ 1..staged \subseteq BlobIds
  BY <1>0, FileBoundsAssumption DEF FilesTyped, BlobIds, StageBlob
<1>2. ps \in Seq(PartRecords)
  <2>1. parts \subseteq PartRecords
    BY <1>0 DEF FilesTyped
  <2> QED BY <2>1
<1>3. /\ r \in Calls /\ r.op = op /\ r.at = "open" /\ r.blob = staged + 1 /\ r.parts = ps
  <2>1. op \in Ops
    BY DEF Ops
  <2> QED BY <1>1, <1>2, <2>1, IdleIsCall DEF Calls
<1>4. /\ staged' = staged + 1 /\ call' = [call EXCEPT ![c] = r]
      /\ blobRow' = [blobRow EXCEPT ![staged + 1] = [state |-> "staging", at |-> clock]]
      /\ UNCHANGED <<fileRows, upload, parts, assembled, disk, content, clock>>
  BY DEF StageBlob, fileBytes, fileBounds
<1> HIDE DEF r
<1>5. StartsNew(r)
  <2>1. [state |-> "staging", at |-> clock] \in [state : {"none", "staging", "committed"}, at : Nat]
    BY <1>0 DEF FilesTyped
  <2>2. blobRow' \in [BlobIds -> [state : {"none", "staging", "committed"}, at : Nat]]
    BY <1>0, <1>1, <1>4, <2>1 DEF FilesTyped
  <2>3. blobRow'[staged + 1].state = "staging"
    BY <1>0, <1>1, <1>4 DEF FilesTyped
  <2> QED BY <1>0, <1>1, <1>3, <1>4, <2>2, <2>3 DEF StartsNew, FilesTyped
<1>6. content'[r.blob] = <<>>
  <2>1. staged + 1 > staged
    BY <1>1
  <2> QED BY <1>0, <1>1, <1>3, <1>4, <2>1 DEF FreshIds
<1>7. ASSUME NEW n \in 1..Len(r.parts)
      PROVE  /\ r.parts[n].blob \in 1..staged /\ r.parts[n].blob # r.blob
             /\ content[r.parts[n].blob] = <<r.parts[n].blob>>
             /\ \A d \in Callers : Writing(d) => call[d].blob # r.parts[n].blob
  <2>1. r.parts[n] \in parts
    BY <1>3, <1>7
  <2> DEFINE b == r.parts[n].blob
  <2>2. b \in BlobIds /\ blobRow[b].state = "committed" /\ content[b] = <<b>>
    BY <1>0, <2>1, OwnersDiffer DEF Owned
  <2>3. b \in 1..staged
    <3>1. ~(b > staged)
      BY <1>0, <2>2 DEF FreshIds
    <3> QED BY <1>1, <2>2, <3>1, FileBoundsAssumption, SMTT(30) DEF BlobIds
  <2>4. b # staged + 1
    BY <1>1, <2>3
  <2>5. \A d \in Callers : Writing(d) => call[d].blob # b
    BY <1>0, <2>2 DEF WritersApart
  <2> QED BY <1>3, <2>2, <2>3, <2>4, <2>5
<1>8. OwnBytes(r)
  BY <1>3, <1>6, <1>7 DEF OwnBytes
<1>9. content' \in [BlobIds -> Seq(BlobIds)]
  BY <1>0, <1>4 DEF FilesTyped
<1>10. Moves(c, r)
  BY <1>3, <1>4, <1>5, <1>8, <1>9 DEF Moves
<1> QED BY <1>10, MoveKeeps

LEMMA SizeIsNat ==
  ASSUME FilesTyped
  PROVE  SizeOf(parts) \in Nat /\ \A p \in parts : p.bytes \in Nat
<1>1. IsFiniteSet(parts) /\ \A u \in parts : u.bytes \in Nat
  BY DEF FilesTyped, PartRecords
<1> DEFINE n == Cardinality(parts)
<1>2. n \in Nat
  BY <1>1, FS_CardinalityType
<1> HIDE DEF n
<1>3. parts \in UpTo(parts, n)
  BY <1>1, <1>2 DEF UpTo, n
<1>4. PICK g : Adds(g, parts, n)
  BY <1>1, <1>2, SumsExist
<1>5. SizeOf(parts) = g[parts]
  BY <1>1, <1>2, <1>3, <1>4, SizeIsSum
<1> QED BY <1>1, <1>3, <1>4, <1>5 DEF Adds

LEMMA CreateKeeps ==
  ASSUME FilesIInv, NEW c \in Callers,
         CreateFile(c) \/ CreateInternalFile(c) \/ AddUploadPart(c) \/ CompleteUpload(c)
  PROVE  FilesIInv'
<1>0. FilesTyped /\ UploadOnce
  BY FilesParts
<1>1. <<>> \in Seq(parts) /\ 1 \in Nat
  OBVIOUS
<1>2. CASE CreateFile(c)
  BY <1>1, <1>2, StageKeeps DEF CreateFile
<1>3. CASE CreateInternalFile(c)
  BY <1>1, <1>3, StageKeeps DEF CreateInternalFile
<1>4. CASE AddUploadPart(c)
  <2> DEFINE remaining == Declared - SizeOf(parts)
             limit == Min({MaxPart, remaining})
  <2>1. remaining \in Nat /\ MaxPart \in Nat
    BY <1>0, <1>4, SizeIsNat, FileBoundsAssumption DEF UploadOnce
  <2>2. StageBlob(c, "part", limit, <<>>)
    BY <1>4 DEF AddUploadPart
  <2> HIDE DEF remaining
  <2>3. limit \in {MaxPart, remaining}
    BY <2>1 DEF Min
  <2>4. limit \in Nat
    BY <2>1, <2>3
  <2> HIDE DEF limit
  <2> QED BY <1>1, <2>2, <2>4, StageKeeps
<1>5. CASE CompleteUpload(c)
  <2>1. PICK n \in 1..Cardinality(parts) : \E ps \in [1..n -> parts] : StageBlob(c, "complete", Declared, ps)
    BY <1>5 DEF CompleteUpload
  <2>2. PICK ps \in [1..n -> parts] : StageBlob(c, "complete", Declared, ps)
    BY <2>1
  <2>3. n \in Nat /\ Declared \in Nat
    BY FileBoundsAssumption
  <2>4. ps \in Seq(parts)
    BY <2>3
  <2> QED BY <2>2, <2>3, <2>4, StageKeeps
<1> QED BY <1>2, <1>3, <1>4, <1>5

LEMMA CallFields ==
  ASSUME NEW r \in Calls
  PROVE  r.bytes \in Nat /\ r.parts \in Seq(PartRecords) /\ Len(r.parts) \in Nat
<1>1. r.bytes \in Nat /\ r.parts \in Seq(PartRecords)
  BY DEF Calls
<1> QED BY <1>1

(* What a writing caller knows. *)
LEMMA Knows ==
  ASSUME FilesIInv, NEW c \in Callers, Writing(c)
  PROVE  /\ call[c] \in Calls /\ call[c].blob \in 1..staged /\ call[c].blob \in BlobIds
         /\ call[c].op \in {"file", "internal", "part", "complete"}
         /\ blobRow[call[c].blob].state # "committed"
         /\ content \in [BlobIds -> Seq(BlobIds)]
         /\ call[c].op = "complete" =>
              \A n \in 1..Len(call[c].parts) :
                /\ call[c].parts[n].blob \in 1..staged /\ call[c].parts[n].blob # call[c].blob
                /\ content[call[c].parts[n].blob] = <<call[c].parts[n].blob>>
                /\ \A d \in Callers : Writing(d) => call[d].blob # call[c].parts[n].blob
<1>0. FilesTyped /\ WritersApart /\ SourcesFinished
  BY FilesParts
<1>1. call[c] \in Calls /\ content \in [BlobIds -> Seq(BlobIds)] /\ 1..staged \subseteq BlobIds
  BY <1>0, FileBoundsAssumption DEF FilesTyped, BlobIds
<1>2. /\ call[c].blob \in 1..staged /\ call[c].op \in {"file", "internal", "part", "complete"}
      /\ blobRow[call[c].blob].state # "committed"
  BY <1>0 DEF WritersApart
<1>3. ASSUME call[c].op = "complete", NEW n \in 1..Len(call[c].parts)
      PROVE  /\ call[c].parts[n].blob \in 1..staged /\ call[c].parts[n].blob # call[c].blob
             /\ content[call[c].parts[n].blob] = <<call[c].parts[n].blob>>
             /\ \A d \in Callers : Writing(d) => call[d].blob # call[c].parts[n].blob
  BY <1>0, <1>3, SourceFinished
<1> QED BY <1>1, <1>2, <1>3

LEMMA StreamBodyKeeps ==
  ASSUME FilesIInv, NEW c \in Callers, StreamBody(c)
  PROVE  FilesIInv'
<1> DEFINE b == call[c].blob
<1>0. WrittenSoFar /\ FilesTyped
  BY FilesParts
<1>1. call[c].at = "open" /\ Writing(c)
  BY DEF StreamBody, Writing
<1>2. /\ call[c] \in Calls /\ b \in 1..staged /\ b \in BlobIds
      /\ call[c].op \in {"file", "internal", "part", "complete"}
      /\ content \in [BlobIds -> Seq(BlobIds)]
      /\ call[c].op = "complete" =>
              \A n \in 1..Len(call[c].parts) :
                /\ call[c].parts[n].blob \in 1..staged /\ call[c].parts[n].blob # b
                /\ content[call[c].parts[n].blob] = <<call[c].parts[n].blob>>
                /\ \A d \in Callers : Writing(d) => call[d].blob # call[c].parts[n].blob
  BY <1>1, Knows
<1>3. content[b] = <<>>
  BY <1>0, <1>1 DEF WrittenSoFar
<1>4. UNCHANGED <<blobRow, staged, fileRows, upload, parts, assembled, disk, clock>>
  BY DEF StreamBody, fileTables, fileBounds
<1>5. CASE call[c].op = "complete"
  <2> DEFINE r == [call[c] EXCEPT !.at = "copy"]
  <2>1. call' = [call EXCEPT ![c] = r] /\ content' = content
    BY <1>5 DEF StreamBody, FileGo
  <2>2. r \in Calls /\ r.at = "copy" /\ r.blob = b /\ r.op = call[c].op /\ r.parts = call[c].parts
    BY <1>2 DEF Calls
  <2> HIDE DEF r
  <2>3. Len(r.parts) \in Nat /\ Len(content[b]) = 0
    BY <1>3, <2>2, CallFields
  <2>3a. Len(content'[r.blob]) <= Len(r.parts) /\ 1..Len(content'[r.blob]) = {}
    BY <2>1, <2>2, <2>3
  <2>4. OwnBytes(r)
    BY <1>2, <1>5, <2>1, <2>2, <2>3a DEF OwnBytes
  <2>5. GoesOn(c, r)
    BY <1>1, <1>4, <2>2 DEF GoesOn
  <2>6. Moves(c, r)
    BY <1>2, <1>4, <2>1, <2>2, <2>4, <2>5 DEF Moves
  <2> QED BY <2>6, MoveKeeps
<1>6. CASE call[c].op # "complete"
  <2>1. PICK n \in 1..call[c].bytes : call' = [call EXCEPT ![c].at = "copy", ![c].bytes = n]
    BY <1>6 DEF StreamBody
  <2> DEFINE r == [call[c] EXCEPT !.at = "copy", !.bytes = n]
  <2>2. n \in Nat
    <3>1. call[c].bytes \in Nat
      BY <1>2, CallFields
    <3> QED BY <3>1
  <2>3. r \in Calls /\ r.at = "copy" /\ r.blob = b /\ r.op = call[c].op
    BY <1>2, <2>2 DEF Calls
  <2>4. call' = [call EXCEPT ![c] = r]
    BY <1>0, <2>1 DEF FilesTyped
  <2> HIDE DEF r
  <2>5. content' = [content EXCEPT ![b] = <<b>>]
    BY <1>6 DEF StreamBody
  <2>6. /\ content' \in [BlobIds -> Seq(BlobIds)] /\ content'[b] = <<b>>
        /\ \A x \in BlobIds : x # b => content'[x] = content[x]
    BY <1>2, <2>5
  <2>7. OwnBytes(r)
    BY <1>6, <2>3, <2>6 DEF OwnBytes
  <2>8. GoesOn(c, r)
    BY <1>1, <1>4, <2>3 DEF GoesOn
  <2>9. Moves(c, r)
    BY <1>2, <1>4, <2>3, <2>4, <2>6, <2>7, <2>8 DEF Moves
  <2> QED BY <2>9, MoveKeeps
<1> QED BY <1>5, <1>6

(* The next part is copied whole and in its place: its bytes are finished, *)
(* and stay so even when its row has gone meanwhile.                       *)
LEMMA CopyPartKeeps ==
  ASSUME FilesIInv, NEW c \in Callers, CopyPart(c)
  PROVE  FilesIInv'
<1> DEFINE b == call[c].blob
           ps == call[c].parts
           m == Len(content[b])
           n == m + 1
           r == call[c]
<1>0. WrittenSoFar /\ FilesTyped
  BY FilesParts
<1>1. /\ call[c].at = "copy" /\ Writing(c) /\ call[c].op = "complete" /\ n <= Len(ps)
      /\ content' = [content EXCEPT ![b] = @ \o content[ps[n].blob]]
      /\ UNCHANGED <<blobRow, staged, fileRows, upload, parts, assembled, disk, clock, call>>
  BY DEF CopyPart, Writing, fileTables, fileBounds
<1>2. /\ r \in Calls /\ b \in 1..staged /\ b \in BlobIds
      /\ content \in [BlobIds -> Seq(BlobIds)]
      /\ \A k \in 1..Len(ps) :
                /\ ps[k].blob \in 1..staged /\ ps[k].blob # b
                /\ content[ps[k].blob] = <<ps[k].blob>>
                /\ \A d \in Callers : Writing(d) => call[d].blob # ps[k].blob
  BY <1>1, Knows
<1>3. Len(content[b]) <= Len(ps) /\ \A k \in 1..Len(content[b]) : content[b][k] = ps[k].blob
  BY <1>0, <1>1 DEF WrittenSoFar
<1>4. m \in Nat /\ n \in 1..Len(ps) /\ Len(ps) \in Nat /\ ps[n].blob \in BlobIds /\ content[b] \in Seq(BlobIds)
  <2>1. m \in Nat /\ content[b] \in Seq(BlobIds)
    BY <1>2
  <2>2. Len(ps) \in Nat /\ ps \in Seq(PartRecords)
    BY <1>2, CallFields
  <2>3. n \in 1..Len(ps)
    <3>1. PICK k \in Nat : k = Len(ps)
      BY <2>2
    <3>2. PICK j \in Nat : j = m
      BY <2>1
    <3>3. j + 1 <= k
      BY <1>1, <3>1, <3>2
    <3>4. j + 1 \in 1..k
      BY <3>3
    <3> QED BY <3>1, <3>2, <3>4
  <2>4. ps[n] \in PartRecords
    BY <2>2, <2>3
  <2> QED BY <2>1, <2>2, <2>3, <2>4 DEF PartRecords
<1> DEFINE new == content[b] \o <<ps[n].blob>>
<1>5. content' = [content EXCEPT ![b] = new]
  BY <1>1, <1>2, <1>4
<1>6. new \in Seq(BlobIds) /\ Len(new) = m + 1 /\ \A k \in 1..(m + 1) : new[k] = ps[k].blob
  <2> DEFINE x == ps[n].blob
             old == content[b]
  <2>1. old \in Seq(BlobIds) /\ x \in BlobIds /\ Len(old) = m
        /\ \A k \in 1..m : old[k] = ps[k].blob
    BY <1>3, <1>4
  <2>2. x = ps[m + 1].blob
    OBVIOUS
  <2> HIDE DEF x, old, m, ps
  <2>3. /\ old \o <<x>> \in Seq(BlobIds) /\ Len(old \o <<x>>) = m + 1
        /\ \A k \in 1..(m + 1) : (old \o <<x>>)[k] = IF k <= m THEN old[k] ELSE x
    BY <1>4, <2>1
  <2>4. \A k \in 1..(m + 1) : (old \o <<x>>)[k] = ps[k].blob
    <3> SUFFICES ASSUME NEW k \in 1..(m + 1) PROVE (old \o <<x>>)[k] = ps[k].blob
      OBVIOUS
    <3>1. CASE k <= m
      BY <1>4, <2>1, <2>3, <3>1
    <3>2. CASE ~(k <= m)
      <4>1. k = m + 1
        BY <1>4, <3>2
      <4> QED BY <2>2, <2>3, <3>2, <4>1
    <3> QED BY <3>1, <3>2
  <2> QED BY <2>3, <2>4 DEF x, old
<1> HIDE DEF new, ps, m, r, b
<1>7. /\ content' \in [BlobIds -> Seq(BlobIds)] /\ content'[b] = new
      /\ \A x \in BlobIds : x # b => content'[x] = content[x]
  BY <1>2, <1>5, <1>6
<1>8. call' = [call EXCEPT ![c] = r] /\ r.at = "copy" /\ r.op = "complete" /\ r.parts = ps /\ r.blob = b
  BY <1>0, <1>1 DEF FilesTyped, r, ps, b
<1>9. OwnBytes(r)
  <2>1. Len(content'[r.blob]) <= Len(r.parts)
    BY <1>1, <1>4, <1>6, <1>7, <1>8
  <2>2. \A k \in 1..Len(content'[r.blob]) : content'[r.blob][k] = r.parts[k].blob
    BY <1>6, <1>7, <1>8
  <2> QED BY <1>2, <1>8, <2>1, <2>2 DEF OwnBytes
<1>10. GoesOn(c, r)
  BY <1>1, <1>8 DEF GoesOn, b
<1>11. Moves(c, r)
  BY <1>1, <1>2, <1>7, <1>8, <1>9, <1>10 DEF Moves
<1> QED BY <1>11, MoveKeeps

LEMMA RenameBlobKeeps ==
  ASSUME FilesIInv, NEW c \in Callers, RenameBlob(c)
  PROVE  FilesIInv'
<1> DEFINE b == call[c].blob
<1>0. WrittenSoFar /\ FilesTyped /\ WritersApart
  BY FilesParts
<1>1. /\ call[c].at = "copy" /\ Writing(c) /\ disk' = disk \cup {b}
      /\ Len(content[b]) = IF call[c].op = "complete" THEN Len(call[c].parts) ELSE 1
      /\ UNCHANGED <<blobRow, staged, fileRows, upload, parts, assembled, content, clock>>
      /\ UNCHANGED fileTables
  BY DEF RenameBlob, Writing, fileTables, fileBounds
<1>2. CASE FileGo(c, "discard")
  <2>1. PICK r : Retires(c, r) /\ r.at # "unlink"
    BY <1>0, <1>1, <1>2, GoRetires
  <2> QED BY <1>0, <1>1, <2>1, QuietKeeps DEF FilesTyped
<1>3. CASE FileGo(c, "commit")
  <2>1. /\ call[c] \in Calls /\ b \in 1..staged /\ b \in BlobIds
        /\ call[c].op \in {"file", "internal", "part", "complete"}
        /\ content \in [BlobIds -> Seq(BlobIds)]
        /\ call[c].op = "complete" =>
              \A n \in 1..Len(call[c].parts) :
                /\ call[c].parts[n].blob \in 1..staged /\ call[c].parts[n].blob # b
                /\ content[call[c].parts[n].blob] = <<call[c].parts[n].blob>>
                /\ \A d \in Callers : Writing(d) => call[d].blob # call[c].parts[n].blob
    BY <1>1, Knows
  <2>2. IF call[c].op = "complete"
        THEN /\ Len(content[b]) <= Len(call[c].parts)
             /\ \A n \in 1..Len(content[b]) : content[b][n] = call[c].parts[n].blob
        ELSE content[b] = <<b>>
    BY <1>0, <1>1 DEF WrittenSoFar
  <2> DEFINE r == [call[c] EXCEPT !.at = "commit"]
  <2>3. r \in Calls /\ r.at = "commit" /\ r.blob = b /\ r.op = call[c].op /\ r.parts = call[c].parts
    BY <2>1 DEF Calls
  <2>4. call' = [call EXCEPT ![c] = r]
    BY <1>3 DEF FileGo
  <2> HIDE DEF r
  <2>5. OwnBytes(r)
    BY <1>1, <2>1, <2>2, <2>3 DEF OwnBytes
  <2>6. GoesOn(c, r)
    BY <1>1, <2>3 DEF GoesOn
  <2>7. Moves(c, r)
    BY <1>1, <2>1, <2>3, <2>4, <2>5, <2>6 DEF Moves
  <2> QED BY <2>7, MoveKeeps
<1> QED BY <1>2, <1>3 DEF RenameBlob

(* The commit transaction: the caller's row becomes a committed one and    *)
(* the rows of gone, parts all, are released.                              *)
Commits(c, r, gone) ==
  /\ Retires(c, r) /\ call[c].at = "commit" /\ blobRow[call[c].blob].state = "staging"
  /\ gone \subseteq PartBlobs
  /\ blobRow' \in [BlobIds -> [state : {"none", "staging", "committed"}, at : Nat]]
  /\ \A b \in BlobIds : blobRow'[b].state = IF b = call[c].blob THEN "committed"
                                            ELSE IF b \in gone THEN "none" ELSE blobRow[b].state
  /\ r.at = "unlink" =>
       /\ r.todo # <<>>
       /\ \A n \in 1..Len(r.todo) : r.todo[n][2] \in gone
  /\ UNCHANGED <<staged, content, disk, clock>> /\ UploadOnce' /\ assembled' \in Nat
  /\ upload' \in [status : {"none", "pending", "completed", "cancelled"}, expires : Nat]

(* Who owns the new committed blob: a new file, when the parts stay or all *)
(* go, or a new part.                                                      *)
NewOwner(b, gone) ==
  \/ \E f \in [id : 0..MaxBlobs, blob : BlobIds, content : Seq(BlobIds), expires : Nat] :
       /\ f.blob = b /\ f.content = content[b] /\ fileRows' = fileRows \cup {f}
       /\ (gone = {} /\ parts' = parts) \/ parts' = {}
  \/ \E p \in PartRecords :
       /\ p.blob = b /\ content[b] = <<b>> /\ parts' = parts \cup {p}
       /\ gone = {} /\ fileRows' = fileRows

(* The commit transaction keeps the invariant: the blob it commits had one *)
(* writer, this one, and gets one owner.                                   *)
LEMMA CommitKeeps ==
  ASSUME FilesIInv, NEW c \in Callers, NEW r, NEW gone, Commits(c, r, gone),
         NewOwner(call[c].blob, gone)
  PROVE  FilesIInv'
<1> DEFINE b == call[c].blob
<1>0. /\ FilesTyped /\ FreshIds /\ WritersApart /\ WrittenSoFar /\ SourcesFinished
      /\ UnlinksUnowned /\ Owned /\ UploadOnce /\ FilesReadable
  BY FilesParts
<1>1. /\ call' \in [Callers -> Calls] /\ call'[c] = r /\ ~Writing(c)'
      /\ r.at = "discard" => r.blob \in BlobIds
      /\ \A d \in Callers : d # c => call'[d] = call[d]
      /\ \A d \in Callers : Writing(d)' => d # c /\ Writing(d) /\ call'[d] = call[d]
  BY <1>0, RetiredOthers DEF Commits
<1>2. Writing(c) /\ b \in 1..staged /\ b \in BlobIds /\ blobRow[b].state = "staging"
      /\ b \in disk
  <2>1. Writing(c) /\ call[c].at = "commit" /\ blobRow[b].state = "staging"
    BY DEF Commits, Writing
  <2>2. b \in disk
    BY <1>0, <2>1 DEF WrittenSoFar
  <2> QED BY <2>1, <2>2, Knows
<1>3. gone \subseteq BlobIds /\ b \notin gone /\ (\A x \in gone : blobRow[x].state = "committed")
  BY <1>2, OwnersDiffer DEF Commits, PartBlobs
<1>4. staged \in Nat /\ 1..staged \subseteq BlobIds
  BY <1>0, FileBoundsAssumption DEF FilesTyped, BlobIds
<1>5. /\ blobRow' \in [BlobIds -> [state : {"none", "staging", "committed"}, at : Nat]]
      /\ blobRow'[b].state = "committed"
      /\ \A x \in gone : blobRow'[x].state = "none"
      /\ \A x \in BlobIds : x # b /\ x \notin gone => blobRow'[x].state = blobRow[x].state
      /\ UNCHANGED <<staged, content, disk, clock>>
  BY <1>2, <1>3 DEF Commits
<1> HIDE DEF b
<1>6. \A f \in fileRows : f.blob \in BlobIds /\ f.blob # b /\ f.blob \notin gone
  BY <1>2, OwnersDiffer DEF Commits, PartBlobs
<1>7. \A p \in parts : p.blob \in BlobIds /\ p.blob # b
  BY <1>2, OwnersDiffer
<1>8. fileRows' \subseteq [id : 0..MaxBlobs, blob : BlobIds, content : Seq(BlobIds), expires : Nat]
      /\ parts' \subseteq PartRecords /\ IsFiniteSet(parts') /\ Owned'
  <2>0. NewOwner(b, gone)
    BY DEF b
  <2>1. ASSUME NEW f \in [id : 0..MaxBlobs, blob : BlobIds, content : Seq(BlobIds), expires : Nat],
               f.blob = b, f.content = content[b], fileRows' = fileRows \cup {f},
               (gone = {} /\ parts' = parts) \/ parts' = {}
        PROVE  /\ fileRows' \subseteq [id : 0..MaxBlobs, blob : BlobIds, content : Seq(BlobIds), expires : Nat]
               /\ parts' \subseteq PartRecords /\ IsFiniteSet(parts') /\ Owned'
    <3>1. /\ fileRows' \subseteq [id : 0..MaxBlobs, blob : BlobIds, content : Seq(BlobIds), expires : Nat]
          /\ parts' \subseteq PartRecords
      BY <1>0, <2>1 DEF FilesTyped
    <3>1a. IsFiniteSet(parts') /\ parts' \subseteq parts
      BY <1>0, <2>1, FS_EmptySet DEF FilesTyped
    <3>2. \A p \in parts' : p \in parts /\ gone = {}
      BY <2>1
    <3>3. \A g \in fileRows' : g = f \/ g \in fileRows
      BY <2>1
    <3>4. FilesReadable'
      <4>1. ASSUME NEW g \in fileRows'
            PROVE  blobRow'[g.blob].state = "committed" /\ g.blob \in disk' /\ content'[g.blob] = g.content
        <5>1. CASE g = f
          BY <1>2, <1>5, <2>1, <5>1
        <5>2. CASE g \in fileRows
          BY <1>0, <1>5, <1>6, <5>2 DEF FilesReadable
        <5> QED BY <3>3, <5>1, <5>2
      <4>2. \A p \in parts' : blobRow'[p.blob].state = "committed" /\ p.blob \in disk'
        BY <1>0, <1>5, <1>7, <3>2 DEF FilesReadable
      <4> QED BY <4>1, <4>2 DEF FilesReadable
    <3>5. \A p \in parts' : content'[p.blob] = <<p.blob>>
      BY <1>0, <1>5, <3>2 DEF Owned
    <3>6. \A g, h \in fileRows' : g.blob = h.blob => g = h
      BY <1>0, <1>6, <2>1, <3>3 DEF Owned
    <3>7. \A p, q \in parts' : p.blob = q.blob => p = q
      BY <1>0, <3>2 DEF Owned
    <3>8. \A g \in fileRows', p \in parts' : g.blob # p.blob
      BY <1>0, <1>7, <2>1, <3>2, <3>3 DEF Owned
    <3> QED BY <3>1, <3>1a, <3>4, <3>5, <3>6, <3>7, <3>8 DEF Owned
  <2>2. ASSUME NEW p \in PartRecords, p.blob = b, content[b] = <<b>>, parts' = parts \cup {p},
               gone = {}, fileRows' = fileRows
        PROVE  /\ fileRows' \subseteq [id : 0..MaxBlobs, blob : BlobIds, content : Seq(BlobIds), expires : Nat]
               /\ parts' \subseteq PartRecords /\ IsFiniteSet(parts') /\ Owned'
    <3>1. /\ fileRows' \subseteq [id : 0..MaxBlobs, blob : BlobIds, content : Seq(BlobIds), expires : Nat]
          /\ parts' \subseteq PartRecords
      BY <1>0, <2>2 DEF FilesTyped
    <3>1a. IsFiniteSet(parts')
      BY <1>0, <2>2, FS_AddElement DEF FilesTyped
    <3>2. \A q \in parts' : q = p \/ q \in parts
      BY <2>2
    <3>3. FilesReadable'
      <4>1. \A g \in fileRows' : blobRow'[g.blob].state = "committed" /\ g.blob \in disk'
                                 /\ content'[g.blob] = g.content
        BY <1>0, <1>5, <1>6, <2>2 DEF FilesReadable
      <4>2. ASSUME NEW q \in parts' PROVE blobRow'[q.blob].state = "committed" /\ q.blob \in disk'
        <5>1. CASE q = p
          BY <1>2, <1>5, <2>2, <5>1
        <5>2. CASE q \in parts
          BY <1>0, <1>5, <1>7, <2>2, <5>2 DEF FilesReadable
        <5> QED BY <3>2, <5>1, <5>2
      <4> QED BY <4>1, <4>2 DEF FilesReadable
    <3>4. \A q \in parts' : content'[q.blob] = <<q.blob>>
      BY <1>0, <1>5, <2>2, <3>2 DEF Owned
    <3>5. \A g, h \in fileRows' : g.blob = h.blob => g = h
      BY <1>0, <2>2 DEF Owned
    <3>6. \A q, s \in parts' : q.blob = s.blob => q = s
      BY <1>0, <1>7, <2>2, <3>2 DEF Owned
    <3>7. \A g \in fileRows', q \in parts' : g.blob # q.blob
      BY <1>0, <1>6, <2>2, <3>2 DEF Owned
    <3> QED BY <3>1, <3>1a, <3>3, <3>4, <3>5, <3>6, <3>7 DEF Owned
  <2> QED BY <2>0, <2>1, <2>2 DEF NewOwner
<1>9. FilesTyped'
  BY <1>0, <1>1, <1>5, <1>8 DEF FilesTyped, Commits
<1>10. FreshIds'
  <2> SUFFICES ASSUME NEW x \in BlobIds, x > staged' PROVE blobRow'[x].state = "none" /\ content'[x] = <<>>
    BY DEF FreshIds
  <2>1. x > staged /\ x # b
    BY <1>2, <1>4, <1>5 DEF BlobIds
  <2> QED BY <1>0, <1>5, <2>1 DEF FreshIds
<1>11. ASSUME NEW d \in Callers, Writing(d)'
       PROVE  /\ d # c /\ Writing(d) /\ call'[d] = call[d] /\ call[d].blob # b
              /\ call[d].blob \in BlobIds /\ call[d].blob \in 1..staged
              /\ blobRow'[call[d].blob].state # "committed"
              /\ (blobRow'[call[d].blob].state = "staging" => blobRow[call[d].blob].state = "staging")
              /\ call[d].op \in {"file", "internal", "part", "complete"}
  <2>1. d # c /\ Writing(d) /\ call'[d] = call[d]
    BY <1>1, <1>11
  <2>2. call[d].blob # b /\ call[d].blob \in 1..staged /\ blobRow[call[d].blob].state # "committed"
        /\ call[d].op \in {"file", "internal", "part", "complete"}
    BY <1>0, <1>2, <2>1 DEF WritersApart, b
  <2>3. call[d].blob \in BlobIds
    BY <1>4, <2>2
  <2> QED BY <1>5, <2>1, <2>2, <2>3
<1>12. WritersApart'
  <2>1. \A d \in Callers : call'[d].at = "discard" => call'[d].blob \in BlobIds
    BY <1>0, <1>1 DEF WritersApart
  <2>2. ASSUME NEW d \in Callers, Writing(d)'
        PROVE  /\ call'[d].op \in {"file", "internal", "part", "complete"}
               /\ call'[d].blob \in 1..(staged')
               /\ blobRow'[call'[d].blob].state # "committed"
    BY <1>5, <1>11, <2>2
  <2>3. \A d, e \in Callers : Writing(d)' /\ Writing(e)' /\ call'[d].blob = call'[e].blob => d = e
    BY <1>0, <1>1 DEF WritersApart
  <2> QED BY <2>1, <2>2, <2>3 DEF WritersApart
<1>13. WrittenSoFar'
  <2> SUFFICES ASSUME NEW d \in Callers, call'[d].at \in {"open", "copy", "commit"}
               PROVE  /\ call'[d].at = "open" => content'[call'[d].blob] = <<>>
                      /\ call'[d].at \in {"copy", "commit"} =>
                           IF call'[d].op = "complete"
                           THEN /\ Len(content'[call'[d].blob]) <= Len(call'[d].parts)
                                /\ \A n \in 1..Len(content'[call'[d].blob]) :
                                     content'[call'[d].blob][n] = call'[d].parts[n].blob
                           ELSE content'[call'[d].blob] = <<call'[d].blob>>
                      /\ call'[d].at = "commit" =>
                           /\ blobRow'[call'[d].blob].state = "staging" => call'[d].blob \in disk'
                           /\ call'[d].op = "complete" =>
                                Len(content'[call'[d].blob]) = Len(call'[d].parts)
    BY DEF WrittenSoFar
  <2>1. Writing(d)'
    BY DEF Writing
  <2>2. /\ call'[d] = call[d]
        /\ (blobRow'[call[d].blob].state = "staging" => blobRow[call[d].blob].state = "staging")
    BY <1>11, <2>1
  <2>3. /\ call[d].at = "open" => content[call[d].blob] = <<>>
        /\ call[d].at \in {"copy", "commit"} =>
             IF call[d].op = "complete"
             THEN /\ Len(content[call[d].blob]) <= Len(call[d].parts)
                  /\ \A n \in 1..Len(content[call[d].blob]) :
                       content[call[d].blob][n] = call[d].parts[n].blob
             ELSE content[call[d].blob] = <<call[d].blob>>
        /\ call[d].at = "commit" =>
             /\ blobRow[call[d].blob].state = "staging" => call[d].blob \in disk
             /\ call[d].op = "complete" => Len(content[call[d].blob]) = Len(call[d].parts)
    BY <1>0 DEF WrittenSoFar
  <2> QED BY <1>5, <2>2, <2>3
<1>14. SourcesFinished'
  <2> SUFFICES ASSUME NEW d \in Callers, Writing(d)', call'[d].op = "complete",
                      NEW n \in 1..Len(call'[d].parts)
               PROVE  /\ call'[d].parts[n].blob \in 1..staged'
                      /\ content'[call'[d].parts[n].blob] = <<call'[d].parts[n].blob>>
                      /\ \A e \in Callers : Writing(e)' => call'[e].blob # call'[d].parts[n].blob
    BY Zenon DEF SourcesFinished, Writing
  <2>1. call'[d] = call[d] /\ Writing(d)
    BY <1>1
  <2>2. /\ call[d].parts[n].blob \in 1..staged
        /\ content[call[d].parts[n].blob] = <<call[d].parts[n].blob>>
        /\ \A e \in Callers : Writing(e) => call[e].blob # call[d].parts[n].blob
    BY <1>0, <2>1, SourceFinished
  <2> QED BY <1>1, <1>5, <2>1, <2>2
<1>15. UnlinksUnowned'
  <2> SUFFICES ASSUME NEW d \in Callers, call'[d].at = "unlink"
               PROVE  /\ call'[d].todo # <<>>
                      /\ \A n \in 1..Len(call'[d].todo) :
                           /\ call'[d].todo[n][2] \in 1..(staged')
                           /\ blobRow'[call'[d].todo[n][2]].state = "none"
    BY DEF UnlinksUnowned
  <2>1. CASE d = c
    <3>1. r.todo # <<>> /\ \A n \in 1..Len(r.todo) : r.todo[n][2] \in gone
      BY <1>1, <2>1 DEF Commits
    <3>2. \A x \in gone : x \in 1..staged
      <4> SUFFICES ASSUME NEW x \in gone PROVE x \in 1..staged
        OBVIOUS
      <4>1. x \in BlobIds /\ ~(x > staged)
        BY <1>0, <1>3 DEF FreshIds
      <4> QED BY <1>4, <4>1, FileBoundsAssumption DEF BlobIds
    <3> QED BY <1>1, <1>5, <2>1, <3>1, <3>2
  <2>2. CASE d # c
    <3>1. call'[d] = call[d]
      BY <1>1, <2>2
    <3>2. /\ call[d].todo # <<>>
          /\ \A n \in 1..Len(call[d].todo) :
             /\ call[d].todo[n][2] \in 1..staged
             /\ blobRow[call[d].todo[n][2]].state = "none"
      BY <1>0, <3>1 DEF UnlinksUnowned
    <3>3. \A x \in 1..staged : blobRow[x].state = "none" => blobRow'[x].state = "none"
      BY <1>2, <1>4, <1>5
    <3> QED BY <1>5, <3>1, <3>2, <3>3
  <2> QED BY <2>1, <2>2
<1> QED BY <1>8, <1>9, <1>10, <1>12, <1>13, <1>14, <1>15 DEF FilesIInv, Commits

(* Whatever the commit reports, the caller stops writing: it unlinks what  *)
(* was released, or goes on to discard its blob.                           *)
LEMMA ReportRetires ==
  ASSUME FilesIInv, NEW c \in Callers, Writing(c), NEW gone \in SUBSET BlobIds,
         Reported(c, gone)
  PROVE  \E r : /\ Retires(c, r)
                /\ r.at = "unlink" =>
                     /\ r.todo # <<>>
                     /\ \A n \in 1..Len(r.todo) : r.todo[n][2] \in gone
<1>1. FilesTyped /\ WritersApart
  BY FilesParts
<1>2. CASE Unlinking(c, "remove", Unlinks(gone))
  <2>1. /\ Unlinks(gone) \in Seq({"blobs", "tmp"} \X BlobIds)
        /\ \A n \in 1..Len(Unlinks(gone)) : Unlinks(gone)[n][2] \in gone
    BY UnlinksOf
  <2>2. PICK r : Retires(c, r) /\ (r.at = "unlink" => Unlinks(gone) # <<>> /\ r.todo = Unlinks(gone))
    BY <1>2, <2>1, UnlinkingRetires DEF Ops
  <2> QED BY <2>1, <2>2
<1>3. CASE FileGo(c, "discard")
  <2>1. PICK r : Retires(c, r) /\ r.at # "unlink"
    BY <1>1, <1>3, GoRetires
  <2> QED BY <2>1
<1> QED BY <1>2, <1>3 DEF Reported

(* commit_blob on the rows that are left when those of gone are released.  *)
LEMMA CommittedRows ==
  ASSUME FilesTyped, NEW b \in BlobIds, NEW gone, b \notin gone, NEW rows,
         rows \in [BlobIds -> [state : {"none", "staging", "committed"}, at : Nat]],
         \A x \in BlobIds : rows[x].state = IF x \in gone THEN "none" ELSE blobRow[x].state,
         blobRow' = [rows EXCEPT ![b].state = "committed"]
  PROVE  /\ blobRow' \in [BlobIds -> [state : {"none", "staging", "committed"}, at : Nat]]
         /\ \A x \in BlobIds : blobRow'[x].state = IF x = b THEN "committed"
                                                   ELSE IF x \in gone THEN "none" ELSE blobRow[x].state
<1> DEFINE row == [rows[b] EXCEPT !.state = "committed"]
<1>1. row \in [state : {"none", "staging", "committed"}, at : Nat] /\ row.state = "committed"
  OBVIOUS
<1>2. blobRow' = [rows EXCEPT ![b] = row]
  OBVIOUS
<1> HIDE DEF row
<1> QED BY <1>1, <1>2

LEMMA InsertOwns ==
  ASSUME FilesIInv, NEW c \in Callers, Writing(c), NEW id \in 0..MaxBlobs,
         NEW source, source = content[call[c].blob],
         NEW expiries \in SUBSET {clock + FileTtl, NoExpiry},
         InsertFile(c, id, source, expiries), NEW gone,
         (gone = {} /\ parts' = parts) \/ parts' = {}
  PROVE  NewOwner(call[c].blob, gone)
<1> DEFINE b == call[c].blob
<1>1. PICK e \in expiries : fileRows' = fileRows \cup {[id |-> id, blob |-> b, content |-> source, expires |-> e]}
  BY DEF InsertFile
<1>2. b \in BlobIds
  BY Knows
<1>3. clock \in Nat /\ content[b] \in Seq(BlobIds)
  BY <1>2, FilesParts DEF FilesTyped
<1>4. e \in Nat
  BY <1>1, <1>3, FileBoundsAssumption DEF NoExpiry
<1> DEFINE f == [id |-> id, blob |-> b, content |-> source, expires |-> e]
<1> HIDE DEF b
<1>5. /\ f \in [id : 0..MaxBlobs, blob : BlobIds, content : Seq(BlobIds), expires : Nat]
      /\ f.blob = b /\ f.content = source
  BY <1>2, <1>3, <1>4 DEF b
<1>6. fileRows' = fileRows \cup {f}
  BY <1>1
<1>7. source = content[b]
  BY DEF b
<1> HIDE DEF f
<1> QED BY <1>5, <1>6, <1>7 DEF NewOwner, b

LEMMA AtCommit ==
  ASSUME FilesIInv, NEW c \in Callers, NEW rows, CommitBlob(c, rows)
  PROVE  /\ Writing(c) /\ call[c].at = "commit" /\ blobRow[call[c].blob].state = "staging"
         /\ call[c] \in Calls /\ call[c].blob \in BlobIds /\ call[c].bytes \in Nat
         /\ blobRow' = [rows EXCEPT ![call[c].blob].state = "committed"]
         /\ call[c].op # "complete" => content[call[c].blob] = <<call[c].blob>>
<1>1. Writing(c) /\ call[c].at = "commit"
  BY DEF CommitBlob, Writing
<1>2. call[c].op # "complete" => content[call[c].blob] = <<call[c].blob>>
  BY <1>1, FilesParts DEF WrittenSoFar
<1>3. call[c] \in Calls /\ call[c].blob \in BlobIds
  BY <1>1, Knows
<1>4. call[c].bytes \in Nat
  BY <1>3, CallFields
<1> QED BY <1>1, <1>2, <1>3, <1>4 DEF CommitBlob

(* A commit that releases no row.                                          *)
LEMMA PlainCommit ==
  ASSUME FilesIInv, NEW c \in Callers, CommitBlob(c, blobRow), Reported(c, {}),
         UNCHANGED <<staged, content, disk, clock, assembled, upload>>, UploadOnce',
         NewOwner(call[c].blob, {})
  PROVE  FilesIInv'
<1>1. FilesTyped
  BY FilesParts
<1>2. /\ Writing(c) /\ call[c].at = "commit" /\ blobRow[call[c].blob].state = "staging"
      /\ call[c].blob \in BlobIds
      /\ blobRow' = [blobRow EXCEPT ![call[c].blob].state = "committed"]
  BY AtCommit
<1>3. PICK r : /\ Retires(c, r)
               /\ r.at = "unlink" => /\ r.todo # <<>>
                                     /\ \A n \in 1..Len(r.todo) : r.todo[n][2] \in {}
  BY <1>2, ReportRetires
<1>4. /\ blobRow \in [BlobIds -> [state : {"none", "staging", "committed"}, at : Nat]]
      /\ assembled \in Nat
      /\ upload \in [status : {"none", "pending", "completed", "cancelled"}, expires : Nat]
  BY <1>1 DEF FilesTyped
<1>5. /\ blobRow' \in [BlobIds -> [state : {"none", "staging", "committed"}, at : Nat]]
      /\ \A x \in BlobIds : blobRow'[x].state = IF x = call[c].blob THEN "committed"
                                                ELSE IF x \in {} THEN "none" ELSE blobRow[x].state
  BY <1>1, <1>2, <1>4, CommittedRows
<1>6. Commits(c, r, {})
  BY <1>2, <1>3, <1>4, <1>5 DEF Commits
<1> QED BY <1>6, CommitKeeps

LEMMA CommitNewFileKeeps ==
  ASSUME FilesIInv, NEW c \in Callers, CommitNewFile(c)
  PROVE  FilesIInv'
<1>1. CommitBlob(c, blobRow) /\ Reported(c, {}) /\ call[c].op = "file"
  BY DEF CommitNewFile
<1>2. UNCHANGED <<staged, content, disk, clock, assembled, upload, parts>>
  BY DEF CommitNewFile, fileBytes
<1>3. UploadOnce'
  BY <1>2, FilesParts DEF UploadOnce
<1>4. Writing(c) /\ call[c].blob \in BlobIds /\ content[call[c].blob] = <<call[c].blob>>
  BY <1>1, AtCommit
<1>5. call[c].blob \in 0..MaxBlobs
  BY <1>4, FileBoundsAssumption DEF BlobIds
<1>6. InsertFile(c, call[c].blob, <<call[c].blob>>, {clock + FileTtl, NoExpiry})
  BY DEF CommitNewFile
<1>7. NewOwner(call[c].blob, {})
  BY <1>2, <1>4, <1>5, <1>6, InsertOwns
<1> QED BY <1>1, <1>2, <1>3, <1>7, PlainCommit

LEMMA CommitInternalFileKeeps ==
  ASSUME FilesIInv, NEW c \in Callers, CommitInternalFile(c) PROVE FilesIInv'
<1>1. CommitBlob(c, blobRow) /\ Reported(c, {}) /\ call[c].op = "internal"
  BY DEF CommitInternalFile
<1>2. UNCHANGED <<staged, content, disk, clock, assembled, upload, parts>>
  BY DEF CommitInternalFile, fileBytes
<1>3. UploadOnce'
  BY <1>2, FilesParts DEF UploadOnce
<1>4. Writing(c) /\ call[c].blob \in BlobIds /\ content[call[c].blob] = <<call[c].blob>>
  BY <1>1, AtCommit
<1>5. Reserved \in 0..MaxBlobs
  BY FileBoundsAssumption DEF Reserved
<1>6. InsertFile(c, Reserved, <<call[c].blob>>, {clock + FileTtl})
  BY DEF CommitInternalFile
<1>6a. {clock + FileTtl} \in SUBSET {clock + FileTtl, NoExpiry}
  OBVIOUS
<1>7. NewOwner(call[c].blob, {})
  BY <1>2, <1>4, <1>5, <1>6, <1>6a, InsertOwns
<1> QED BY <1>1, <1>2, <1>3, <1>7, PlainCommit

(* The declared bytes are checked again inside the transaction, and the    *)
(* part is a new one, so the sum grows by exactly its bytes.               *)
LEMMA CommitNewPartKeeps ==
  ASSUME FilesIInv, NEW c \in Callers, CommitNewPart(c)
  PROVE  FilesIInv'
<1> DEFINE b == call[c].blob
           n == call[c].bytes
           p == [blob |-> b, bytes |-> n]
<1>0. FilesTyped /\ UploadOnce
  BY FilesParts
<1>1. CommitBlob(c, blobRow) /\ Reported(c, {}) /\ call[c].op = "part"
      /\ SizeOf(parts) + n <= Declared /\ parts' = parts \cup {p}
  BY DEF CommitNewPart
<1>2. UNCHANGED <<staged, content, disk, clock, assembled, upload, fileRows>>
  BY DEF CommitNewPart, fileBytes
<1>3. Writing(c) /\ b \in BlobIds /\ content[b] = <<b>> /\ n \in Nat /\ blobRow[b].state = "staging"
  BY <1>1, AtCommit
<1> HIDE DEF b, n
<1>4. p \in PartRecords /\ p.blob = b /\ p.bytes = n
  BY <1>3 DEF PartRecords
<1> HIDE DEF p
<1>5. p \notin parts
  BY <1>3, <1>4, OwnersDiffer
<1>6. IsFiniteSet(parts) /\ \A u \in parts \cup {p} : u.bytes \in Nat
  BY <1>0, <1>3, <1>4, SizeIsNat DEF FilesTyped
<1>7. SizeOf(parts') = SizeOf(parts) + n
  BY <1>1, <1>4, <1>5, <1>6, SizeAdds
<1>8. UploadOnce'
  BY <1>0, <1>1, <1>2, <1>7 DEF UploadOnce
<1>9. NewOwner(b, {})
  BY <1>1, <1>2, <1>3, <1>4 DEF NewOwner
<1> QED BY <1>1, <1>2, <1>8, <1>9, PlainCommit DEF b

(* The assembly holds the parts asked for in their order, and the upload   *)
(* was pending, so no file had been made of it.                            *)
LEMMA CommitCompletionKeeps ==
  ASSUME FilesIInv, NEW c \in Callers, CommitCompletion(c) PROVE FilesIInv'
<1> DEFINE b == call[c].blob
           ps == call[c].parts
<1>0. FilesTyped /\ UploadOnce /\ WrittenSoFar
  BY FilesParts
<1>1. /\ CommitBlob(c, DropRows(PartBlobs)) /\ Reported(c, PartBlobs) /\ call[c].op = "complete"
      /\ InsertFile(c, b, [n \in DOMAIN ps |-> ps[n].blob], {clock + FileTtl, NoExpiry})
      /\ upload' = [upload EXCEPT !.status = "completed"] /\ upload.status = "pending"
      /\ assembled' = assembled + 1 /\ parts' = {}
  BY DEF CommitCompletion, UploadOpen
<1>2. UNCHANGED <<staged, content, disk, clock>>
  BY DEF CommitCompletion, fileBytes
<1>3. /\ Writing(c) /\ call[c].at = "commit" /\ b \in BlobIds /\ call[c] \in Calls
      /\ blobRow[b].state = "staging"
      /\ blobRow' = [DropRows(PartBlobs) EXCEPT ![b].state = "committed"]
  BY <1>1, AtCommit
<1>4. ps \in Seq(PartRecords) /\ content[b] \in Seq(BlobIds)
  BY <1>0, <1>3, CallFields DEF FilesTyped
<1>5. /\ Len(content[b]) = Len(ps)
      /\ \A n \in 1..Len(content[b]) : content[b][n] = ps[n].blob
  BY <1>0, <1>1, <1>3 DEF WrittenSoFar
<1>6. [n \in DOMAIN ps |-> ps[n].blob] = content[b]
  <2> DEFINE s == content[b]
             qs == ps
  <2>1. qs \in Seq(PartRecords) /\ s \in Seq(BlobIds) /\ Len(s) = Len(qs)
        /\ \A n \in 1..Len(s) : s[n] = qs[n].blob
    BY <1>4, <1>5
  <2> HIDE DEF s, qs
  <2>2. DOMAIN qs = 1..Len(s)
    BY <2>1
  <2>3. s = [n \in 1..Len(s) |-> s[n]]
    BY <2>1
  <2>4. [n \in DOMAIN qs |-> qs[n].blob] = s
    BY <2>1, <2>2, <2>3
  <2> QED BY <2>4 DEF s, qs
<1>7. b \in 0..MaxBlobs
  BY <1>3, FileBoundsAssumption DEF BlobIds
<1>8. PartBlobs \in SUBSET BlobIds /\ b \notin PartBlobs
  BY <1>3, OwnersDiffer DEF PartBlobs
<1>9. NewOwner(b, PartBlobs)
  BY <1>1, <1>3, <1>6, <1>7, InsertOwns
<1>10. /\ upload' \in [status : {"none", "pending", "completed", "cancelled"}, expires : Nat]
       /\ upload'.status = "completed" /\ assembled' = 1
  BY <1>0, <1>1 DEF FilesTyped, UploadOnce
<1>11. UploadOnce'
  BY <1>1, <1>10, SizeOfNone, FileBoundsAssumption DEF UploadOnce
<1>12. PICK r : /\ Retires(c, r)
                /\ r.at = "unlink" => /\ r.todo # <<>>
                                      /\ \A n \in 1..Len(r.todo) : r.todo[n][2] \in PartBlobs
  BY <1>1, <1>3, <1>8, ReportRetires
<1>13. /\ DropRows(PartBlobs) \in [BlobIds -> [state : {"none", "staging", "committed"}, at : Nat]]
       /\ \A x \in BlobIds : DropRows(PartBlobs)[x].state = IF x \in PartBlobs THEN "none"
                                                            ELSE blobRow[x].state
  <2>1. NoRow \in [state : {"none", "staging", "committed"}, at : Nat] /\ NoRow.state = "none"
    BY DEF NoRow
  <2> QED BY <1>0, <2>1 DEF FilesTyped, DropRows
<1>14. /\ blobRow' \in [BlobIds -> [state : {"none", "staging", "committed"}, at : Nat]]
       /\ \A x \in BlobIds : blobRow'[x].state = IF x = b THEN "committed"
                                                 ELSE IF x \in PartBlobs THEN "none" ELSE blobRow[x].state
  BY <1>0, <1>3, <1>8, <1>13, CommittedRows
<1>15. Commits(c, r, PartBlobs)
  BY <1>2, <1>3, <1>10, <1>11, <1>12, <1>14 DEF Commits
<1> QED BY <1>9, <1>15, CommitKeeps

LEMMA FilesStep == FilesIInv /\ [FilesNext]_filesVars => FilesIInv'
<1> SUFFICES ASSUME FilesIInv, [FilesNext]_filesVars PROVE FilesIInv'
  OBVIOUS
<1>1. CASE UNCHANGED filesVars
  <2>1. UNCHANGED <<blobRow, staged, fileRows, parts, disk, content, call, upload, assembled, clock>>
    BY <1>1 DEF filesVars, fileTables, fileBytes, fileBounds
  <2>2. FilesTyped /\ UploadOnce
    BY FilesParts
  <2>3. UploadOnce'
    BY <2>1, <2>2 DEF UploadOnce
  <2> QED BY <2>1, <2>2, <2>3, StandingKeeps DEF FilesTyped
<1>2. ASSUME NEW c \in Callers,
             \/ CreateFile(c) \/ CreateInternalFile(c) \/ CreateUpload(c)
             \/ AddUploadPart(c) \/ CompleteUpload(c)
             \/ StreamBody(c) \/ CopyPart(c) \/ CopyFails(c) \/ RenameBlob(c)
             \/ CommitNewFile(c) \/ CommitInternalFile(c) \/ CommitNewPart(c)
             \/ CommitCompletion(c) \/ CommitRefused(c) \/ DiscardBlob(c)
             \/ DeleteFile(c) \/ CancelUpload(c) \/ PurgeFileStorage(c)
             \/ UnlinkBlob(c) \/ RemoveOrphans(c)
      PROVE  FilesIInv'
  BY <1>2, CreateKeeps, CreateUploadKeeps, StreamBodyKeeps, CopyPartKeeps,
     CopyFailsKeeps,
     RenameBlobKeeps, CommitNewFileKeeps, CommitInternalFileKeeps, CommitNewPartKeeps,
     CommitCompletionKeeps, CommitRefusedKeeps, DiscardBlobKeeps, DeleteFileKeeps,
     CancelUploadKeeps, PurgeKeeps, UnlinkBlobKeeps, RemoveOrphansKeeps
<1> QED BY <1>1, <1>2, FileTickKeeps, FileCrashKeeps DEF FilesNext

(* The bookkeeping of files.rs, for any number of callers, blobs and       *)
(* faults: ids are drawn once, a blob being written has one writer and no  *)
(* owner, an assembly holds a prefix of the parts it was asked for, only   *)
(* blobs whose row is gone are unlinked, and every row that owns a blob    *)
(* owns it alone.  This is the inductive invariant FilesSound rests on.    *)
THEOREM FilesCorrect == FilesSpec => []FilesIInv
BY FilesInitial, FilesStep, PTL DEF FilesSpec

(* files.rs never names bytes it does not hold and settles an upload once: *)
(* the blob of every file and part row is in blobs/ with the bytes it was  *)
(* committed with, an upload becomes at most one file, and its parts never *)
(* exceed what it declared, whatever purge, cancellation, crash or failed  *)
(* commit runs beside them.                                                *)
THEOREM FilesSound == FilesSpec => []FilesInv
<1>1. FilesIInv => FilesInv
  BY DEF FilesIInv, Owned, FilesInv
<1> QED BY <1>1, FilesCorrect, PTL

(***************************************************************************)
(* Vector stores: the index invariant, and that a search finds every file  *)
(* that stays completed, for any number of files, attachments, failures,   *)
(* crashes and losses of the index.                                        *)
(***************************************************************************)
(* Any document or vector that is not a completed file's is listed, and    *)
(* what is listed is not a completed file: so collecting the outbox takes  *)
(* nothing that is searched.                                               *)
ListedOrCompleted ==
  /\ outbox \cap Rows("completed") = {}
  /\ docs \subseteq Rows("completed") \cup outbox
  /\ uncommitted \subseteq outbox
  /\ \A a \in Attachments :
       /\ attached[a].status = "completed" => vectors[a] = attached[a].space
       /\ attached[a].status = "in_progress" => vectors[a] = 0
       /\ vectors[a] # 0 => a \in Rows("completed") \cup outbox

(* What the indexer has read or written so far, by the step it is at.      *)
IndexerKnows ==
  /\ indexer.at \in {"check", "rebuild", "repair"} => indexer.opening
  /\ indexer.opening => indexer.at \in {"garbage", "drop", "clear", "check", "rebuild", "repair"}
  /\ indexer.at \in {"drop", "clear", "write", "confirm"} => indexer.batch \subseteq outbox
  /\ indexer.at = "clear" => docs \cap indexer.batch = {}
  /\ indexer.at \in {"clear", "confirm"} => uncommitted = {}
  /\ indexer.at \in {"drop", "clear"} =>
       \A a \in indexer.batch : attached[a].status # "completed"
  /\ indexer.at = "confirm" => indexer.batch \subseteq docs
  /\ indexer.at = "rebuild" => /\ Rows("completed") \subseteq indexer.rows
                               /\ indexer.rows \subseteq Rows("completed") \cup outbox

(* While it serves, and while it repairs its garbage after opening, the    *)
(* index has a document for every completed file.                          *)
Searchable == Serving \/ indexer.at = "repair" => Rows("completed") \subseteq docs

(* Attachments are numbered as they are made.                              *)
NumberedInOrder ==
  \A a \in Attachments : a > lastAttached => attached[a].status = "none" /\ vectors[a] = 0

(* A search admitted files that were completed, and a file that left that  *)
(* state never returns to it.                                              *)
SearchKnows ==
  /\ searching.at # "idle" => Serving
  /\ searching.at \in {"rank", "answer"} =>
       \A a \in searching.admitted :
         /\ a <= lastAttached
         /\ attached[a].status \in {"completed", "none"}
  /\ searching.embedded \subseteq searching.admitted
  /\ SearchFindsAll

Statuses == {"none", "in_progress", "completed", "failed", "cancelled"}

Places ==
  {"wait", "garbage", "drop", "clear", "pending", "fail", "list", "write", "confirm",
   "embed", "vectors", "check", "rebuild", "repair", "down"}

IndexerStates ==
  [at : Places, opening : BOOLEAN, batch : SUBSET Attachments,
   ok : SUBSET Attachments, rows : SUBSET Attachments]

VectorsTyped ==
  /\ attached \in [Attachments -> [source : Sources \cup {"none"}, status : Statuses,
                                   batch : BOOLEAN, space : Nat]]
  /\ lastAttached \in Nat
  /\ outbox \subseteq Attachments /\ vectors \in [Attachments -> Nat]
  /\ docs \subseteq Attachments /\ uncommitted \subseteq Attachments
  /\ indexer \in IndexerStates
  /\ embedder \in Nat
  /\ searching \in [at : {"idle", "snapshot", "rank", "answer"}, model : Nat,
                    admitted : SUBSET Attachments, embedded : SUBSET Attachments,
                    hits : SUBSET Attachments]

(* The inductive invariant.                                                *)
VectorsInv ==
  /\ VectorsTyped /\ ListedOrCompleted /\ IndexerKnows /\ Searchable
  /\ NumberedInOrder /\ SearchKnows

LEMMA VectorsInitial == VectorsInit => VectorsInv
<1> SUFFICES ASSUME VectorsInit PROVE VectorsInv
  OBVIOUS
<1> USE DEF VectorsInit, NoAttachment, IdleIndexer, IdleSearch, Rows
<1>1. VectorsTyped
  BY DEF VectorsTyped, Statuses, IndexerStates, Places
<1>2. ListedOrCompleted /\ NumberedInOrder
  BY <1>1 DEF ListedOrCompleted, NumberedInOrder
<1>3. IndexerKnows /\ Searchable /\ SearchKnows
  BY DEF IndexerKnows, Searchable, SearchKnows, SearchFindsAll
<1> QED BY <1>1, <1>2, <1>3 DEF VectorsInv

(* Rows that go are listed: what is said of completed files and the outbox *)
(* stays true, whoever removes them and whatever the indexer is doing.     *)
LEMMA DetachKeeps ==
  ASSUME VectorsInv, NEW gone \in SUBSET Attachments, Detach(gone),
         UNCHANGED <<lastAttached, vectors, vectorIndex, indexer, embedder, searching>>
  PROVE  VectorsInv'
<1> USE DEF Detach, WithoutRows, NoAttachment, vectorIndex, Rows
<1>0. VectorsTyped /\ ListedOrCompleted /\ IndexerKnows /\ Searchable /\ NumberedInOrder /\ SearchKnows
  BY DEF VectorsInv
<1>1. VectorsTyped'
  BY <1>0 DEF VectorsTyped, Statuses
<1>2. \A a \in Attachments : attached'[a] = IF a \in gone THEN NoAttachment ELSE attached[a]
  BY <1>0 DEF VectorsTyped
<1>3. Rows("completed")' = Rows("completed") \ gone
  BY <1>0, <1>2
<1>4. ListedOrCompleted'
  BY <1>0, <1>2, <1>3 DEF ListedOrCompleted, VectorsTyped
<1>5. IndexerKnows'
  BY <1>0, <1>2, <1>3 DEF IndexerKnows, VectorsTyped
<1>6. Searchable' /\ NumberedInOrder'
  BY <1>0, <1>2, <1>3 DEF Searchable, Serving, NumberedInOrder, VectorsTyped
<1>7. SearchKnows'
  BY <1>0, <1>2, <1>3 DEF SearchKnows, SearchFindsAll, Serving, VectorsTyped
<1> QED BY <1>1, <1>4, <1>5, <1>6, <1>7 DEF VectorsInv

LEMMA OfSourceAttached == \A f : OfSource(f) \subseteq Attachments
BY DEF OfSource, Present

LEMMA AttachKeeps == ASSUME VectorsInv, Attach PROVE VectorsInv'
<1>0. VectorsTyped /\ ListedOrCompleted /\ IndexerKnows /\ Searchable /\ NumberedInOrder /\ SearchKnows
  BY DEF VectorsInv
<1> PICK f \in Sources, inBatch \in BOOLEAN :
       /\ outbox' = outbox \cup OfSource(f)
       /\ attached' = [WithoutRows(OfSource(f)) EXCEPT ![lastAttached + 1] =
             [source |-> f, status |-> "in_progress", batch |-> inBatch, space |-> 0]]
  BY DEF Attach
<1> DEFINE new == lastAttached + 1
           gone == OfSource(f)
<1>1. new \in Attachments /\ gone \in SUBSET Attachments /\ new \in Nat /\ lastAttached \in Nat
  BY <1>0, OfSourceAttached, VectorBoundsAssumption DEF Attach, Attachments,
     VectorsTyped
<1>2. gone \subseteq outbox'
  OBVIOUS
<1>3. attached' \in [Attachments -> [source : Sources \cup {"none"}, status : Statuses,
                                   batch : BOOLEAN, space : Nat]]
  BY <1>0, <1>1 DEF VectorsTyped, Statuses, WithoutRows, NoAttachment
<1>4. /\ attached'[new].status = "in_progress"
      /\ \A a \in gone : a # new => attached'[a].status = "none"
      /\ \A a \in Attachments : a # new /\ a \notin gone => attached'[a] = attached[a]
  BY <1>1 DEF WithoutRows, NoAttachment
<1>4a. outbox' = outbox \cup gone /\ lastAttached' = new
       /\ UNCHANGED <<vectors, docs, uncommitted, indexer, embedder, searching>>
  BY DEF Attach, vectorIndex, vectorThread
<1> HIDE DEF new, gone
<1>5. Rows("completed")' = Rows("completed") \ gone
  <2>1. attached[new].status = "none"
    BY <1>0, <1>1 DEF NumberedInOrder, new
  <2> QED BY <1>1, <1>4, <2>1 DEF Rows
<1>6. VectorsTyped'
  BY <1>0, <1>1, <1>3, <1>4a DEF VectorsTyped
<1>6a. vectors[new] = 0 /\ attached[new].status = "none"
  BY <1>0, <1>1 DEF NumberedInOrder, new
<1>7. ListedOrCompleted'
  <2>1. outbox' \cap Rows("completed")' = {} /\ docs' \subseteq Rows("completed")' \cup outbox'
        /\ uncommitted' \subseteq outbox'
    BY <1>0, <1>1, <1>4a, <1>5 DEF ListedOrCompleted
  <2>2. ASSUME NEW a \in Attachments
        PROVE  /\ attached'[a].status = "completed" => vectors'[a] = attached'[a].space
               /\ attached'[a].status = "in_progress" => vectors'[a] = 0
               /\ vectors'[a] # 0 => a \in Rows("completed")' \cup outbox'
    BY <1>0, <1>1, <1>4, <1>4a, <1>5, <1>6a DEF ListedOrCompleted
  <2> QED BY <2>1, <2>2 DEF ListedOrCompleted, Rows
<1>8. IndexerKnows'
  BY <1>0, <1>1, <1>4, <1>4a, <1>5 DEF IndexerKnows, VectorsTyped
<1>9. Searchable'
  BY <1>0, <1>4a, <1>5 DEF Searchable, Serving
<1>10. NumberedInOrder'
  <2>1. ASSUME NEW a \in Attachments, a > new PROVE attached'[a].status = "none" /\ vectors'[a] = 0
    <3>1. a > lastAttached /\ a # new
      BY <1>1, <2>1 DEF new, Attachments
    <3> QED BY <1>0, <1>4, <1>4a, <3>1 DEF NumberedInOrder
  <2> QED BY <1>4a, <2>1 DEF NumberedInOrder
<1>11. SearchKnows'
  <2>1. ASSUME searching.at \in {"rank", "answer"}, NEW a \in searching.admitted
        PROVE  a <= new /\ attached'[a].status \in {"completed", "none"}
    <3>1. a \in Attachments /\ a <= lastAttached /\ attached[a].status \in {"completed", "none"}
      BY <1>0, <2>1 DEF SearchKnows, VectorsTyped
    <3>2. a # new /\ a <= new
      BY <1>1, <3>1 DEF new, Attachments
    <3> QED BY <1>4, <3>1, <3>2
  <2>2. SearchFindsAll'
    BY <1>0, <1>4a, <1>5 DEF SearchKnows, SearchFindsAll
  <2> QED BY <1>0, <1>4a, <2>1, <2>2 DEF SearchKnows, Serving
<1> QED BY <1>6, <1>7, <1>8, <1>9, <1>10, <1>11 DEF VectorsInv

(* A file in progress is given up: it was not completed, so no document    *)
(* has to go with it.                                                      *)
LEMMA GiveUpKeeps ==
  ASSUME VectorsInv, NEW some \in SUBSET Rows("in_progress"), NEW status \in {"failed", "cancelled"},
         attached' = [a \in Attachments |->
           IF a \in some THEN [attached[a] EXCEPT !.status = status] ELSE attached[a]],
         UNCHANGED <<lastAttached, outbox, vectors, docs, uncommitted, searching>>
  PROVE  /\ (indexer' \in IndexerStates /\ embedder' \in Nat) => VectorsTyped'
         /\ Rows("completed")' = Rows("completed")
         /\ \A a \in Attachments : attached[a].status # "completed" => attached'[a].status # "completed"
         /\ ListedOrCompleted' /\ NumberedInOrder'
         /\ (Serving => Serving') => SearchKnows'
<1>0. VectorsTyped /\ ListedOrCompleted /\ NumberedInOrder /\ SearchKnows
  BY DEF VectorsInv
<1>1. attached' \in [Attachments -> [source : Sources \cup {"none"}, status : Statuses,
                                   batch : BOOLEAN, space : Nat]]
  BY <1>0 DEF VectorsTyped, Statuses
<1>2. \A a \in Attachments : a \notin some => attached'[a] = attached[a]
  OBVIOUS
<1>3. \A a \in some : /\ a \in Attachments /\ attached[a].status = "in_progress"
                      /\ attached'[a].status = status
  BY <1>0 DEF VectorsTyped, Rows
<1>4. Rows("completed")' = Rows("completed")
  BY <1>2, <1>3 DEF Rows
<1>5. (indexer' \in IndexerStates /\ embedder' \in Nat) => VectorsTyped'
  BY <1>0, <1>1 DEF VectorsTyped
<1>6. ListedOrCompleted'
  BY <1>0, <1>2, <1>3, <1>4 DEF ListedOrCompleted
<1>7. NumberedInOrder'
  BY <1>0, <1>2, <1>3, <1>4 DEF NumberedInOrder
<1>8. (Serving => Serving') => SearchKnows'
  <2>1. ASSUME searching.at \in {"rank", "answer"}, NEW a \in searching.admitted
        PROVE  a <= lastAttached /\ attached'[a].status \in {"completed", "none"}
    BY <1>0, <1>2, <1>3, <2>1 DEF SearchKnows, VectorsTyped
  <2>2. SearchFindsAll'
    BY <1>0, <1>4 DEF SearchKnows, SearchFindsAll
  <2> QED BY <1>0, <2>1, <2>2 DEF SearchKnows
<1> QED BY <1>2, <1>3, <1>4, <1>5, <1>6, <1>7, <1>8

LEMMA CancelKeeps ==
  ASSUME VectorsInv, CancelVectorStoreFileBatch
  PROVE  VectorsInv'
<1> DEFINE open == {a \in Rows("in_progress") : attached[a].batch}
<1>0. VectorsTyped /\ IndexerKnows /\ Searchable
  BY DEF VectorsInv
<1>1. attached' = [a \in Attachments |->
          IF a \in open THEN [attached[a] EXCEPT !.status = "cancelled"] ELSE attached[a]]
  BY DEF CancelVectorStoreFileBatch
<1>2. open \subseteq Rows("in_progress")
  OBVIOUS
<1>3. UNCHANGED <<lastAttached, outbox, vectors, docs, uncommitted, searching, indexer, embedder>>
  BY DEF CancelVectorStoreFileBatch, vectorIndex, vectorThread
<1> HIDE DEF open
<1>4. /\ VectorsTyped' /\ ListedOrCompleted' /\ NumberedInOrder' /\ SearchKnows'
      /\ Rows("completed")' = Rows("completed")
      /\ \A a \in Attachments : attached[a].status # "completed" => attached'[a].status # "completed"
  BY <1>0, <1>1, <1>2, <1>3, GiveUpKeeps DEF VectorsTyped, Serving
<1>5. IndexerKnows' /\ Searchable'
  BY <1>0, <1>3, <1>4 DEF IndexerKnows, Searchable, Serving, VectorsTyped
<1> QED BY <1>4, <1>5 DEF VectorsInv

(* A step that leaves rows and index alone keeps what is said of them.     *)
LEMMA RowsStay ==
  ASSUME VectorsInv, UNCHANGED <<attached, lastAttached, outbox, vectors>>
  PROVE  /\ Rows("completed")' = Rows("completed") /\ Rows("in_progress")' = Rows("in_progress")
         /\ NumberedInOrder'
         /\ (Serving => Serving') /\ UNCHANGED searching => SearchKnows'
         /\ UNCHANGED <<docs, uncommitted>> => ListedOrCompleted'
BY DEF VectorsInv, Rows, NumberedInOrder, SearchKnows, SearchFindsAll, ListedOrCompleted

LEMMA UntouchedKeeps ==
  ASSUME VectorsInv,
         UNCHANGED <<attached, lastAttached, outbox, vectors, vectorIndex, indexer, searching>>,
         embedder' \in Nat
  PROVE  VectorsInv'
<1> USE DEF vectorIndex
<1>1. VectorsTyped /\ IndexerKnows /\ Searchable
  BY DEF VectorsInv
<1>2. Rows("completed")' = Rows("completed") /\ NumberedInOrder' /\ ListedOrCompleted' /\ SearchKnows'
  BY RowsStay DEF Serving
<1>3. VectorsTyped'
  BY <1>1 DEF VectorsTyped
<1>4. IndexerKnows' /\ Searchable'
  BY <1>1, <1>2 DEF IndexerKnows, Searchable, Serving
<1> QED BY <1>2, <1>3, <1>4 DEF VectorsInv

LEMMA RequestKeeps ==
  ASSUME VectorsInv,
         \/ Attach \/ DeleteVectorStoreFile \/ DeleteVectorStore \/ UpdateVectorStore
         \/ CancelVectorStoreFileBatch \/ DeleteSource \/ NotifyIndexer \/ DropHandler
         \/ SetEmbedder \/ ExpireVectorThings
  PROVE  VectorsInv'
<1> USE DEF vectorThread
<1>0. embedder \in Nat
  BY DEF VectorsInv, VectorsTyped
<1>1. CASE Attach
  BY <1>1, AttachKeeps
<1>2. CASE DeleteVectorStoreFile
  <2> PICK a \in Present : Detach({a})
    BY <1>2 DEF DeleteVectorStoreFile
  <2> QED BY <1>2, DetachKeeps DEF DeleteVectorStoreFile, Present
<1>3. CASE DeleteVectorStore
  <2>1. Present \in SUBSET Attachments
    BY DEF Present
  <2> QED BY <1>3, <2>1, DetachKeeps DEF DeleteVectorStore
<1>4. CASE UpdateVectorStore
  BY <1>0, <1>4, UntouchedKeeps DEF UpdateVectorStore
<1>5. CASE CancelVectorStoreFileBatch
  BY <1>5, CancelKeeps
<1>6. CASE DeleteSource
  <2> PICK f \in Sources : Detach(OfSource(f))
    BY <1>6 DEF DeleteSource
  <2> QED BY <1>6, OfSourceAttached, DetachKeeps DEF DeleteSource
<1>7. CASE NotifyIndexer
  BY <1>0, <1>7, UntouchedKeeps DEF NotifyIndexer, vectorRows
<1>8. CASE DropHandler
  BY <1>0, <1>8, UntouchedKeeps DEF DropHandler, vectorRows
<1>9. CASE SetEmbedder
  <2>1. embedder' \in Nat
    BY <1>9, VectorBoundsAssumption DEF SetEmbedder
  <2> QED BY <1>9, <2>1, UntouchedKeeps DEF SetEmbedder, vectorRows
<1>10. CASE ExpireVectorThings
  BY <1>0, <1>10, UntouchedKeeps DEF ExpireVectorThings
<1> QED BY <1>1, <1>2, <1>3, <1>4, <1>5, <1>6, <1>7, <1>8, <1>9, <1>10

(***************************************************************************)
(* The indexer's steps.                                                    *)
(***************************************************************************)
LEMMA BatchingMoves ==
  ASSUME VectorsTyped, NEW at \in Places, NEW b \in SUBSET Attachments,
         NEW k \in SUBSET Attachments, Batching(at, b, k)
  PROVE  /\ indexer' \in IndexerStates
         /\ indexer'.at = at /\ indexer'.batch = b /\ indexer'.ok = k
         /\ indexer'.opening = indexer.opening /\ indexer'.rows = indexer.rows
BY DEF VectorsTyped, IndexerStates, Batching

LEMMA IndexerMoves ==
  ASSUME VectorsTyped, NEW at \in Places, IndexerTo(at)
  PROVE  /\ indexer' \in IndexerStates
         /\ indexer'.at = at /\ indexer'.batch = indexer.batch /\ indexer'.ok = indexer.ok
         /\ indexer'.opening = indexer.opening /\ indexer'.rows = indexer.rows
BY DEF VectorsTyped, IndexerStates, IndexerTo

(* A phase that ends, by an error or at its end, leaves the indexer with   *)
(* nothing in hand; only an opening that fails stops the index.            *)
LEMMA IdleMoves ==
  ASSUME NEW at \in Places, indexer' = [IdleIndexer EXCEPT !.at = at]
  PROVE  /\ indexer' \in IndexerStates
         /\ indexer'.at = at /\ indexer'.batch = {} /\ indexer'.opening = FALSE
BY DEF IndexerStates, IdleIndexer

LEMMA FailureMoves ==
  ASSUME VectorsTyped, NEW then \in {"pending", "embed", "down"}, PhaseFails(then),
         indexer.at # "down", indexer.opening \/ then # "down"
  PROVE  /\ indexer' \in IndexerStates /\ indexer'.at \in {"pending", "embed", "down"}
         /\ indexer'.batch = {} /\ indexer'.opening = FALSE
         /\ (Serving <=> Serving')
<1>1. CASE indexer.opening
  <2>1. indexer' = [IdleIndexer EXCEPT !.at = "down"]
    BY <1>1 DEF PhaseFails
  <2>2. "down" \in Places
    BY DEF Places
  <2> QED BY <1>1, <2>1, <2>2, IdleMoves DEF Serving
<1>2. CASE ~indexer.opening
  <2>1. indexer' = [IdleIndexer EXCEPT !.at = then]
    BY <1>2 DEF PhaseFails
  <2>2. then \in Places
    BY DEF Places
  <2>3. indexer' \in IndexerStates /\ indexer'.at = then /\ indexer'.batch = {}
        /\ indexer'.opening = FALSE
    BY <2>1, <2>2, IdleMoves
  <2> QED BY <1>2, <2>3 DEF Serving
<1> QED BY <1>1, <1>2

(* A step that leaves the rows, and ends at a place where nothing is known *)
(* of the batch.                                                           *)
LEMMA FreshKeeps ==
  ASSUME VectorsInv, UNCHANGED <<attached, lastAttached, outbox, vectors, docs, embedder, searching>>,
         uncommitted' \subseteq outbox,
         indexer' \in IndexerStates, indexer'.at \notin {"drop", "clear", "write", "confirm",
                                                     "check", "rebuild", "repair"},
         indexer'.opening => indexer'.at \in {"garbage"},
         Serving <=> Serving'
  PROVE  VectorsInv'
<1>0. VectorsTyped /\ ListedOrCompleted /\ IndexerKnows /\ Searchable
  BY DEF VectorsInv
<1>1. Rows("completed")' = Rows("completed") /\ NumberedInOrder' /\ SearchKnows'
  BY RowsStay
<1>2. VectorsTyped'
  BY <1>0 DEF VectorsTyped
<1>3. ListedOrCompleted'
  BY <1>0, <1>1 DEF ListedOrCompleted
<1>4. IndexerKnows' /\ Searchable'
  BY <1>0, <1>1 DEF IndexerKnows, Searchable
<1> QED BY <1>1, <1>2, <1>3, <1>4 DEF VectorsInv

LEMMA FailureKeeps ==
  ASSUME VectorsInv, NEW then \in {"pending", "embed", "down"}, PhaseFails(then),
         indexer.at # "down", indexer.opening \/ then # "down",
         UNCHANGED <<attached, lastAttached, outbox, vectors, docs, embedder, searching>>,
         uncommitted' \subseteq outbox
  PROVE  VectorsInv'
<1>1. VectorsTyped
  BY DEF VectorsInv
<1> QED BY <1>1, FailureMoves, FreshKeeps

LEMMA TakeNotificationKeeps ==
  ASSUME VectorsInv, TakeNotification
  PROVE  VectorsInv'
<1>0. VectorsTyped /\ IndexerKnows /\ ListedOrCompleted
  BY DEF VectorsInv
<1>1. IndexerTo("garbage") /\ indexer.at = "wait" /\ "garbage" \in Places
  BY DEF TakeNotification, IndexerAt, Places
<1>2. indexer' \in IndexerStates /\ indexer'.at = "garbage" /\ indexer'.opening = indexer.opening
  BY <1>0, <1>1, IndexerMoves
<1>3. Serving <=> Serving'
  BY <1>1, <1>2 DEF Serving
<1>4. UNCHANGED <<attached, lastAttached, outbox, vectors, docs, embedder, searching, uncommitted>>
  BY DEF TakeNotification, vectorRows, vectorIndex
<1> QED BY <1>0, <1>2, <1>3, <1>4, FreshKeeps DEF ListedOrCompleted

LEMMA PurgeTimerKeeps == ASSUME VectorsInv, PurgeTimer PROVE VectorsInv'
<1> DEFINE gone == UNION {OfSource(f) : f \in {g \in Sources : sourceState[g] = "expired"}}
<1>0. VectorsTyped /\ ListedOrCompleted /\ IndexerKnows /\ Searchable /\ NumberedInOrder /\ SearchKnows
  BY DEF VectorsInv
<1>1. IndexerTo("garbage") /\ indexer.at = "wait" /\ "garbage" \in Places
  BY DEF PurgeTimer, IndexerAt, Places
<1>2. indexer' \in IndexerStates /\ indexer'.at = "garbage" /\ indexer'.opening = indexer.opening
  BY <1>0, <1>1, IndexerMoves
<1>3. Serving <=> Serving'
  BY <1>1, <1>2 DEF Serving
<1>4. UNCHANGED <<lastAttached, vectors, docs, uncommitted, embedder, searching>>
  BY DEF PurgeTimer, vectorIndex
<1>5. gone \in SUBSET Attachments
  BY OfSourceAttached
<1>6. CASE UNCHANGED <<attached, outbox>>
  BY <1>0, <1>2, <1>3, <1>4, <1>6, FreshKeeps DEF ListedOrCompleted
<1>7. CASE Detach(gone)
  <2> HIDE DEF gone
  <2>1. \A a \in Attachments : attached'[a] = IF a \in gone THEN NoAttachment ELSE attached[a]
    BY <1>7 DEF Detach, WithoutRows
  <2>2. Rows("completed")' = Rows("completed") \ gone
    BY <2>1 DEF Rows, NoAttachment
  <2>3. attached' \in [Attachments -> [source : Sources \cup {"none"}, status : Statuses,
                                   batch : BOOLEAN, space : Nat]]
    BY <1>0, <1>7 DEF VectorsTyped, Statuses, Detach, WithoutRows, NoAttachment
  <2>4. outbox' = outbox \cup gone
    BY <1>7 DEF Detach
  <2>5. VectorsTyped'
    BY <1>0, <1>2, <1>4, <1>5, <2>3, <2>4 DEF VectorsTyped
  <2>6. ListedOrCompleted'
    BY <1>0, <1>4, <1>5, <2>1, <2>2, <2>4 DEF ListedOrCompleted, NoAttachment
  <2>7. IndexerKnows' /\ Searchable'
    BY <1>0, <1>1, <1>2, <1>3, <1>4, <2>2 DEF IndexerKnows, Searchable
  <2>8. NumberedInOrder'
    BY <1>0, <1>4, <2>1 DEF NumberedInOrder, NoAttachment
  <2>9. SearchKnows'
    BY <1>0, <1>3, <1>4, <2>1, <2>2 DEF SearchKnows, SearchFindsAll, NoAttachment,
       VectorsTyped
  <2> QED BY <2>5, <2>6, <2>7, <2>8, <2>9 DEF VectorsInv
<1> QED BY <1>6, <1>7 DEF PurgeTimer

LEMMA ReadGarbageKeeps == ASSUME VectorsInv, ReadGarbage PROVE VectorsInv'
<1>0. VectorsTyped /\ ListedOrCompleted /\ IndexerKnows /\ Searchable
  BY DEF VectorsInv
<1>1. UNCHANGED <<attached, lastAttached, outbox, vectors, docs, embedder, searching, uncommitted>>
  BY DEF ReadGarbage, vectorRows, vectorIndex
<1>2. indexer.at = "garbage"
  BY DEF ReadGarbage, IndexerAt
<1>3. CASE PhaseFails("pending")
  BY <1>0, <1>1, <1>2, <1>3, FailureKeeps DEF ListedOrCompleted
<1>4. CASE outbox # {} /\ Batching("drop", outbox, {})
  <2>1. outbox \in SUBSET Attachments /\ {} \in SUBSET Attachments /\ "drop" \in Places
    BY <1>0 DEF VectorsTyped, Places
  <2>2. /\ indexer' \in IndexerStates /\ indexer'.at = "drop" /\ indexer'.batch = outbox
        /\ indexer'.opening = indexer.opening
    BY <1>0, <1>4, <2>1, BatchingMoves
  <2>3. Serving <=> Serving'
    BY <1>2, <2>2 DEF Serving
  <2>4. Rows("completed")' = Rows("completed") /\ NumberedInOrder' /\ SearchKnows' /\ ListedOrCompleted'
    BY <1>1, <2>3, RowsStay
  <2>5. VectorsTyped'
    BY <1>0, <1>1, <2>2 DEF VectorsTyped
  <2>6. \A a \in outbox : attached[a].status # "completed"
    BY <1>0 DEF ListedOrCompleted, VectorsTyped, Rows
  <2>7. IndexerKnows' /\ Searchable'
    BY <1>0, <1>1, <1>2, <2>2, <2>3, <2>4, <2>6 DEF IndexerKnows, Searchable
  <2> QED BY <2>4, <2>5, <2>7 DEF VectorsInv
<1>5. CASE outbox = {} /\ ~indexer.opening /\ Batching("pending", {}, {})
  <2>1. {} \in SUBSET Attachments /\ "pending" \in Places
    BY DEF Places
  <2>2. indexer' \in IndexerStates /\ indexer'.at = "pending" /\ indexer'.opening = indexer.opening
    BY <1>0, <1>5, <2>1, BatchingMoves
  <2>3. Serving <=> Serving'
    BY <1>2, <2>2 DEF Serving
  <2> QED BY <1>0, <1>1, <1>5, <2>2, <2>3, FreshKeeps DEF ListedOrCompleted
<1>6. CASE outbox = {} /\ indexer.opening /\ Batching("check", {}, {})
  <2>1. {} \in SUBSET Attachments /\ "check" \in Places
    BY DEF Places
  <2>2. indexer' \in IndexerStates /\ indexer'.at = "check" /\ indexer'.opening = indexer.opening
    BY <1>0, <1>6, <2>1, BatchingMoves
  <2>3. Serving <=> Serving'
    BY <1>2, <2>2 DEF Serving
  <2>4. Rows("completed")' = Rows("completed") /\ NumberedInOrder' /\ SearchKnows' /\ ListedOrCompleted'
    BY <1>1, <2>3, RowsStay
  <2>5. VectorsTyped'
    BY <1>0, <1>1, <2>2 DEF VectorsTyped
  <2>7. IndexerKnows' /\ Searchable'
    BY <1>0, <1>1, <1>2, <1>6, <2>2, <2>3, <2>4 DEF IndexerKnows, Searchable
  <2> QED BY <2>4, <2>5, <2>7 DEF VectorsInv
<1> QED BY <1>3, <1>4, <1>5, <1>6 DEF ReadGarbage

LEMMA DropDocumentsKeeps == ASSUME VectorsInv, DropDocuments PROVE VectorsInv'
<1>0. VectorsTyped /\ ListedOrCompleted /\ IndexerKnows /\ Searchable
  BY DEF VectorsInv
<1>1. UNCHANGED <<attached, lastAttached, outbox, vectors, embedder, searching>>
  BY DEF DropDocuments, vectorRows
<1>2. indexer.at = "drop"
  BY DEF DropDocuments, IndexerAt
<1>3. CASE PhaseFails("pending") /\ UNCHANGED vectorIndex
  BY <1>0, <1>1, <1>2, <1>3, FailureKeeps DEF ListedOrCompleted, vectorIndex
<1>4. CASE /\ docs' = (docs \cup uncommitted) \ indexer.batch /\ uncommitted' = {}
           /\ IndexerTo("clear")
  <2>1. "clear" \in Places
    BY DEF Places
  <2>2. /\ indexer' \in IndexerStates /\ indexer'.at = "clear" /\ indexer'.batch = indexer.batch
        /\ indexer'.opening = indexer.opening
    BY <1>0, <1>4, <2>1, IndexerMoves
  <2>3. Serving <=> Serving'
    BY <1>2, <2>2 DEF Serving
  <2>4. Rows("completed")' = Rows("completed") /\ NumberedInOrder' /\ SearchKnows'
    BY <1>1, <2>3, RowsStay
  <2>5. VectorsTyped'
    BY <1>0, <1>1, <1>4, <2>2 DEF VectorsTyped
  <2>6. ListedOrCompleted'
    BY <1>0, <1>1, <1>4, <2>4 DEF ListedOrCompleted
  <2>7. indexer.batch \cap Rows("completed") = {}
    BY <1>0, <1>2 DEF IndexerKnows, Rows
  <2>8. IndexerKnows'
    BY <1>0, <1>1, <1>2, <1>4, <2>2, <2>3, <2>4 DEF IndexerKnows
  <2>9. Searchable'
    BY <1>0, <1>1, <1>2, <1>4, <2>2, <2>3, <2>4, <2>7 DEF Searchable
  <2> QED BY <2>4, <2>5, <2>6, <2>8, <2>9 DEF VectorsInv
<1> QED BY <1>3, <1>4 DEF DropDocuments

(* The outbox entry goes only after its document was dropped by a          *)
(* committed change of the index.                                          *)
LEMMA ClearOutboxKeeps == ASSUME VectorsInv, ClearOutbox PROVE VectorsInv'
<1>0. VectorsTyped /\ ListedOrCompleted /\ IndexerKnows /\ Searchable /\ NumberedInOrder /\ SearchKnows
  BY DEF VectorsInv
<1>1. UNCHANGED <<attached, lastAttached, docs, uncommitted, embedder, searching>>
  BY DEF ClearOutbox, vectorIndex
<1>2. indexer.at = "clear"
  BY DEF ClearOutbox, IndexerAt
<1>3. CASE PhaseFails("pending") /\ UNCHANGED <<vectors, outbox>>
  BY <1>0, <1>1, <1>2, <1>3, FailureKeeps DEF ListedOrCompleted
<1>4. CASE /\ vectors' = [a \in Attachments |-> IF a \in indexer.batch THEN 0 ELSE vectors[a]]
           /\ outbox' = outbox \ indexer.batch
           /\ Batching("garbage", {}, {})
  <2>1. "garbage" \in Places /\ {} \in SUBSET Attachments
    BY DEF Places
  <2>2. /\ indexer' \in IndexerStates /\ indexer'.at = "garbage" /\ indexer'.opening = indexer.opening
    BY <1>0, <1>4, <2>1, BatchingMoves
  <2>3. Serving <=> Serving'
    BY <1>2, <2>2 DEF Serving
  <2>4. Rows("completed")' = Rows("completed")
    BY <1>1 DEF Rows
  <2>5. VectorsTyped'
    BY <1>0, <1>1, <1>4, <2>2 DEF VectorsTyped
  <2>6. /\ indexer.batch \cap Rows("completed") = {} /\ docs \cap indexer.batch = {}
        /\ uncommitted = {}
    BY <1>0, <1>2 DEF IndexerKnows, Rows
  <2>7. ListedOrCompleted'
    BY <1>0, <1>1, <1>4, <2>4, <2>6 DEF ListedOrCompleted, Rows
  <2>8. IndexerKnows' /\ Searchable'
    BY <1>0, <1>1, <1>2, <2>2, <2>3, <2>4 DEF IndexerKnows, Searchable
  <2>9. NumberedInOrder'
    BY <1>0, <1>1, <1>4 DEF NumberedInOrder
  <2>10. SearchKnows'
    BY <1>0, <1>1, <2>3, <2>4 DEF SearchKnows, SearchFindsAll
  <2> QED BY <2>5, <2>7, <2>8, <2>9, <2>10 DEF VectorsInv
<1> QED BY <1>3, <1>4 DEF ClearOutbox

LEMMA ParseSourcesKeeps == ASSUME VectorsInv, ParseSources PROVE VectorsInv'
<1>0. VectorsTyped /\ ListedOrCompleted /\ IndexerKnows /\ Searchable
  BY DEF VectorsInv
<1>1. UNCHANGED <<attached, lastAttached, outbox, vectors, docs, embedder, searching, uncommitted>>
  BY DEF ParseSources, vectorRows, vectorIndex
<1>2. indexer.at = "pending" /\ ~indexer.opening
  BY <1>0 DEF ParseSources, IndexerAt, IndexerKnows
<1>3. CASE PhaseFails("embed")
  BY <1>0, <1>1, <1>2, <1>3, FailureKeeps DEF ListedOrCompleted
<1>4. ASSUME NEW at \in {"embed", "fail"}, NEW b \in SUBSET Attachments, NEW k \in SUBSET Attachments,
             Batching(at, b, k)
      PROVE  VectorsInv'
  <2>1. at \in Places
    BY DEF Places
  <2>2. indexer' \in IndexerStates /\ indexer'.at = at /\ indexer'.opening = indexer.opening
    BY <1>0, <1>4, <2>1, BatchingMoves
  <2>3. Serving <=> Serving'
    BY <1>2, <2>2 DEF Serving
  <2> QED BY <1>0, <1>1, <1>2, <2>2, <2>3, FreshKeeps DEF ListedOrCompleted
<1> DEFINE pending == Oldest(Rows("in_progress"), IndexBatchFiles)
<1>5. pending \subseteq Attachments
  BY DEF Oldest, Rows
<1>6. CASE Batching("embed", {}, {})
  BY <1>4, <1>6
<1>7. CASE \E n \in 1..Cardinality(pending) :
              \E ok \in SUBSET {a \in Oldest(pending, n) : sourceState[attached[a].source] = "live"} :
                Batching("fail", Oldest(pending, n), ok)
  <2> HIDE DEF pending
  <2> PICK n \in 1..Cardinality(pending) :
           \E ok \in SUBSET {a \in Oldest(pending, n) : sourceState[attached[a].source] = "live"} :
                Batching("fail", Oldest(pending, n), ok)
    BY <1>7
  <2> PICK ok \in SUBSET {a \in Oldest(pending, n) : sourceState[attached[a].source] = "live"} :
                Batching("fail", Oldest(pending, n), ok)
    OBVIOUS
  <2>1. Oldest(pending, n) \in SUBSET Attachments
    BY <1>5 DEF Oldest
  <2>2. ok \in SUBSET Attachments
    BY <2>1
  <2> QED BY <1>4, <2>1, <2>2
<1> QED BY <1>3, <1>6, <1>7 DEF ParseSources

LEMMA FailUnparsedKeeps == ASSUME VectorsInv, FailUnparsed PROVE VectorsInv'
<1> DEFINE bad == (indexer.batch \ indexer.ok) \cap Rows("in_progress")
<1>0. VectorsTyped /\ ListedOrCompleted /\ IndexerKnows /\ Searchable
  BY DEF VectorsInv
<1>1. UNCHANGED <<lastAttached, outbox, vectors, docs, uncommitted, embedder, searching>>
  BY DEF FailUnparsed, vectorIndex
<1>2. indexer.at = "fail" /\ ~indexer.opening
  BY <1>0 DEF FailUnparsed, IndexerAt, IndexerKnows
<1>3. CASE PhaseFails("embed") /\ UNCHANGED attached
  BY <1>0, <1>1, <1>2, <1>3, FailureKeeps DEF ListedOrCompleted
<1>4. CASE /\ attached' = [a \in Attachments |->
                IF a \in bad THEN [attached[a] EXCEPT !.status = "failed"] ELSE attached[a]]
           /\ \E good \in SUBSET indexer.ok :
                indexer' = [indexer EXCEPT !.at = IF indexer.ok = {} THEN "pending" ELSE "list",
                                              !.batch = indexer.ok,
                                              !.ok = good]
  <2> PICK good \in SUBSET indexer.ok :
                indexer' = [indexer EXCEPT !.at = IF indexer.ok = {} THEN "pending" ELSE "list",
                                              !.batch = indexer.ok,
                                              !.ok = good]
    BY <1>4
  <2>1. /\ indexer' \in IndexerStates /\ indexer'.at \in {"pending", "list"}
        /\ indexer'.opening = indexer.opening
    BY <1>0 DEF VectorsTyped, IndexerStates, Places
  <2>2. Serving /\ Serving'
    BY <1>2, <2>1 DEF Serving
  <2>3. bad \subseteq Rows("in_progress")
    OBVIOUS
  <2> HIDE DEF bad
  <2>4. /\ VectorsTyped' /\ ListedOrCompleted' /\ NumberedInOrder' /\ SearchKnows'
        /\ Rows("completed")' = Rows("completed")
    BY <1>0, <1>1, <1>4, <2>1, <2>2, <2>3, GiveUpKeeps DEF VectorsTyped
  <2>5. IndexerKnows' /\ Searchable'
    BY <1>0, <1>1, <1>2, <2>1, <2>2, <2>4 DEF IndexerKnows, Searchable
  <2> QED BY <2>4, <2>5 DEF VectorsInv
<1> QED BY <1>3, <1>4 DEF FailUnparsed

LEMMA ListAttemptKeeps == ASSUME VectorsInv, ListAttempt PROVE VectorsInv'
<1> DEFINE still == indexer.batch \cap Rows("in_progress")
<1>0. VectorsTyped /\ ListedOrCompleted /\ IndexerKnows /\ Searchable /\ NumberedInOrder /\ SearchKnows
  BY DEF VectorsInv
<1>1. UNCHANGED <<attached, lastAttached, vectors, docs, uncommitted, embedder, searching>>
  BY DEF ListAttempt, vectorIndex
<1>2. indexer.at = "list" /\ ~indexer.opening
  BY <1>0 DEF ListAttempt, IndexerAt, IndexerKnows
<1>3. CASE PhaseFails("embed") /\ UNCHANGED outbox
  BY <1>0, <1>1, <1>2, <1>3, FailureKeeps DEF ListedOrCompleted
<1>4. CASE /\ outbox' = outbox \cup still
           /\ IF still = {} THEN Batching("pending", {}, {})
              ELSE Batching("write", still, indexer.ok \cap still)
  <2>1. /\ still \in SUBSET Attachments /\ still \cap Rows("completed") = {}
        /\ {} \in SUBSET Attachments /\ {"pending", "write"} \subseteq Places
    BY DEF Rows, Places
  <2> HIDE DEF still
  <2>1a. indexer.ok \cap still \in SUBSET Attachments
    BY <2>1
  <2>2. /\ indexer' \in IndexerStates /\ indexer'.at \in {"pending", "write"}
        /\ indexer'.batch \subseteq still /\ indexer'.opening = indexer.opening
    BY <1>0, <1>4, <2>1, <2>1a, BatchingMoves
  <2>3. Serving /\ Serving'
    BY <1>2, <2>2 DEF Serving
  <2>4. Rows("completed")' = Rows("completed")
    BY <1>1 DEF Rows
  <2>5. VectorsTyped'
    BY <1>0, <1>1, <1>4, <2>1, <2>2 DEF VectorsTyped
  <2>6. ListedOrCompleted'
    BY <1>0, <1>1, <1>4, <2>1, <2>4 DEF ListedOrCompleted
  <2>7. IndexerKnows' /\ Searchable'
    BY <1>0, <1>1, <1>2, <1>4, <2>2, <2>3, <2>4 DEF IndexerKnows, Searchable
  <2>8. NumberedInOrder' /\ SearchKnows'
    BY <1>0, <1>1, <2>3, <2>4 DEF NumberedInOrder, SearchKnows, SearchFindsAll
  <2> QED BY <2>5, <2>6, <2>7, <2>8 DEF VectorsInv
<1> QED BY <1>3, <1>4 DEF ListAttempt

(* Documents are written only for attachments already listed as garbage,   *)
(* so a crash before the confirmation leaves nothing unlisted.             *)
LEMMA WriteDocumentsKeeps == ASSUME VectorsInv, WriteDocuments PROVE VectorsInv'
<1>0. VectorsTyped /\ ListedOrCompleted /\ IndexerKnows /\ Searchable
  BY DEF VectorsInv
<1>1. UNCHANGED <<attached, lastAttached, outbox, vectors, embedder, searching>>
  BY DEF WriteDocuments, vectorRows
<1>2. indexer.at = "write" /\ ~indexer.opening /\ indexer.batch \subseteq outbox
  BY <1>0 DEF WriteDocuments, IndexerAt, IndexerKnows
<1>3. CASE PhaseFails("embed") /\ uncommitted' = uncommitted \cup indexer.batch /\ UNCHANGED docs
  <2>1. uncommitted' \subseteq outbox
    BY <1>0, <1>2, <1>3 DEF ListedOrCompleted
  <2> QED BY <1>0, <1>1, <1>2, <1>3, <2>1, FailureKeeps
<1>4. CASE /\ docs' = docs \cup uncommitted \cup indexer.batch /\ uncommitted' = {}
           /\ IndexerTo("confirm")
  <2>1. "confirm" \in Places
    BY DEF Places
  <2>2. /\ indexer' \in IndexerStates /\ indexer'.at = "confirm" /\ indexer'.batch = indexer.batch
        /\ indexer'.opening = indexer.opening
    BY <1>0, <1>4, <2>1, IndexerMoves
  <2>3. Serving /\ Serving'
    BY <1>2, <2>2 DEF Serving
  <2>4. Rows("completed")' = Rows("completed") /\ NumberedInOrder' /\ SearchKnows'
    BY <1>1, <2>3, RowsStay
  <2>5. VectorsTyped'
    BY <1>0, <1>1, <1>2, <1>4, <2>2 DEF VectorsTyped
  <2>6. ListedOrCompleted'
    BY <1>0, <1>1, <1>2, <1>4, <2>4 DEF ListedOrCompleted
  <2>7. IndexerKnows' /\ Searchable'
    BY <1>0, <1>1, <1>2, <1>4, <2>2, <2>3, <2>4 DEF IndexerKnows, Searchable
  <2> QED BY <2>4, <2>5, <2>6, <2>7 DEF VectorsInv
<1> QED BY <1>3, <1>4 DEF WriteDocuments

(* The one step that completes files: their documents are committed, they  *)
(* leave the outbox with it, and no search has admitted them before.       *)
LEMMA ConfirmFilesKeeps == ASSUME VectorsInv, ConfirmFiles PROVE VectorsInv'
<1> DEFINE done == indexer.batch \cap Rows("in_progress")
<1>0. VectorsTyped /\ ListedOrCompleted /\ IndexerKnows /\ Searchable /\ NumberedInOrder /\ SearchKnows
  BY DEF VectorsInv
<1>1. UNCHANGED <<lastAttached, docs, uncommitted, embedder, searching>>
  BY DEF ConfirmFiles, vectorIndex
<1>2. /\ indexer.at = "confirm" /\ ~indexer.opening /\ indexer.batch \subseteq outbox
      /\ indexer.batch \subseteq docs /\ uncommitted = {}
  BY <1>0 DEF ConfirmFiles, IndexerAt, IndexerKnows
<1>3. CASE PhaseFails("embed") /\ UNCHANGED <<attached, vectors, outbox>>
  BY <1>0, <1>1, <1>2, <1>3, FailureKeeps DEF ListedOrCompleted
<1>4. CASE /\ attached' = [a \in Attachments |->
                IF a \in done
                THEN [attached[a] EXCEPT !.status = "completed",
                                         !.space = IF a \in indexer.ok THEN embedder ELSE 0]
                ELSE attached[a]]
           /\ vectors' = [a \in Attachments |->
                IF a \in done \cap indexer.ok THEN embedder ELSE vectors[a]]
           /\ outbox' = outbox \ done
           /\ Batching("pending", {}, {})
  <2>1. \A a \in done : a \in Attachments /\ attached[a].status = "in_progress"
    BY DEF Rows
  <2>2. done \subseteq docs /\ done \subseteq outbox
    BY <1>2
  <2> HIDE DEF done
  <2> DEFINE Row == [source : Sources \cup {"none"}, status : Statuses, batch : BOOLEAN,
                     space : Nat]
  <2>3. attached' \in [Attachments -> Row]
    <3>1. attached \in [Attachments -> Row] /\ embedder \in Nat
      BY <1>0 DEF VectorsTyped
    <3>2. ASSUME NEW o \in Row, NEW n \in Nat
          PROVE  [o EXCEPT !.status = "completed", !.space = n] \in Row
      BY DEF Statuses
    <3> HIDE DEF Row
    <3>3. ASSUME NEW a \in Attachments PROVE attached'[a] \in Row
      <4>1. CASE a \in done
        <5> DEFINE n == IF a \in indexer.ok THEN embedder ELSE 0
        <5>1. attached'[a] = [attached[a] EXCEPT !.status = "completed", !.space = n]
          BY <1>4, <4>1
        <5>2. n \in Nat /\ attached[a] \in Row
          BY <3>1
        <5> HIDE DEF n
        <5> QED BY <3>2, <5>1, <5>2
      <4>2. CASE a \notin done
        BY <1>4, <3>1, <4>2
      <4> QED BY <4>1, <4>2
    <3> QED BY <1>4, <3>3
  <2>4. \A a \in done : /\ attached'[a].status = "completed"
                        /\ attached'[a].space = IF a \in indexer.ok THEN embedder ELSE 0
    BY <1>0, <1>4, <2>1 DEF VectorsTyped
  <2>5. \A a \in Attachments : a \notin done => attached'[a] = attached[a]
    BY <1>4
  <2>6. \A a \in Attachments : vectors'[a] = IF a \in done \cap indexer.ok THEN embedder ELSE vectors[a]
    BY <1>4
  <2>7. {} \in SUBSET Attachments /\ "pending" \in Places
    BY DEF Places
  <2>8. indexer' \in IndexerStates /\ indexer'.at = "pending" /\ indexer'.opening = indexer.opening
    BY <1>0, <1>4, <2>7, BatchingMoves
  <2>9. Serving /\ Serving'
    BY <1>2, <2>8 DEF Serving
  <2>10. Rows("completed")' = Rows("completed") \cup done
    BY <2>1, <2>4, <2>5 DEF Rows
  <2>11. VectorsTyped'
    <3>1. vectors' \in [Attachments -> Nat]
      BY <1>0, <1>4 DEF VectorsTyped
    <3> QED BY <1>0, <1>1, <1>4, <2>3, <2>8, <3>1 DEF VectorsTyped
  <2>12. ListedOrCompleted'
    <3>1. outbox' \cap Rows("completed")' = {} /\ docs' \subseteq Rows("completed")' \cup outbox'
          /\ uncommitted' \subseteq outbox'
      BY <1>0, <1>1, <1>2, <1>4, <2>10 DEF ListedOrCompleted
    <3>2. ASSUME NEW a \in Attachments
          PROVE  /\ attached'[a].status = "completed" => vectors'[a] = attached'[a].space
                 /\ attached'[a].status = "in_progress" => vectors'[a] = 0
                 /\ vectors'[a] # 0 => a \in Rows("completed")' \cup outbox'
      <4>1. CASE a \in done
        BY <1>0, <2>1, <2>4, <2>6, <2>10, <4>1 DEF ListedOrCompleted
      <4>2. CASE a \notin done
        BY <1>0, <1>4, <2>5, <2>6, <2>10, <4>2 DEF ListedOrCompleted
      <4> QED BY <4>1, <4>2
    <3> QED BY <3>1, <3>2 DEF ListedOrCompleted
  <2>13. IndexerKnows'
    BY <1>0, <1>2, <2>8 DEF IndexerKnows
  <2>14. Searchable'
    BY <1>0, <1>1, <2>2, <2>9, <2>10 DEF Searchable
  <2>15. NumberedInOrder'
    BY <1>0, <1>1, <2>1, <2>5, <2>6 DEF NumberedInOrder
  <2>16. SearchKnows'
    <3>1. ASSUME searching.at \in {"rank", "answer"}, NEW a \in searching.admitted
          PROVE  a <= lastAttached /\ a \notin done /\ attached'[a].status \in {"completed", "none"}
      BY <1>0, <2>1, <2>5, <3>1 DEF SearchKnows, VectorsTyped
    <3>2. SearchFindsAll'
      BY <1>0, <1>1, <2>10, <3>1 DEF SearchKnows, SearchFindsAll
    <3> QED BY <1>0, <1>1, <2>9, <3>1, <3>2 DEF SearchKnows
  <2> QED BY <2>11, <2>12, <2>13, <2>14, <2>15, <2>16 DEF VectorsInv
<1> QED BY <1>3, <1>4 DEF ConfirmFiles

LEMMA EmbedFilesKeeps == ASSUME VectorsInv, EmbedFiles PROVE VectorsInv'
<1>0. VectorsTyped /\ ListedOrCompleted /\ IndexerKnows /\ Searchable
  BY DEF VectorsInv
<1>1. UNCHANGED <<attached, lastAttached, outbox, vectors, docs, embedder, searching, uncommitted>>
  BY DEF EmbedFiles, vectorRows, vectorIndex
<1>2. indexer.at = "embed" /\ ~indexer.opening
  BY <1>0 DEF EmbedFiles, IndexerAt, IndexerKnows
<1>3. \/ indexer' = IdleIndexer
      \/ \E good \in SUBSET Attachments : Batching("vectors", good, {})
  <2> DEFINE lacking == {a \in Rows("completed") : attached[a].space # embedder}
             fresh   == lacking \ embedFailed
             queue   == Oldest(IF fresh # {} THEN fresh ELSE lacking, IndexBatchFiles)
             batch == {a \in queue : \A b \in queue : b < a => attached[b].source \notin Large}
             able  == {a \in batch : attached[a].source \notin Unembeddable}
  <2>1. able \subseteq Attachments
    BY DEF Oldest, Rows
  <2> HIDE DEF able
  <2>2. \/ indexer' = IdleIndexer
        \/ \E good \in SUBSET able : \/ indexer' = IdleIndexer
                                     \/ Batching("vectors", good, {})
    BY DEF EmbedFiles, able
  <2> QED BY <2>1, <2>2
<1>4. /\ indexer' \in IndexerStates /\ indexer'.at \in {"wait", "vectors"}
      /\ indexer'.opening = FALSE
  <2>1. {"wait", "vectors"} \subseteq Places /\ {} \in SUBSET Attachments
    BY DEF Places
  <2>2. CASE indexer' = IdleIndexer
    BY <2>1, <2>2 DEF IdleIndexer, IndexerStates
  <2>3. CASE \E good \in SUBSET Attachments : Batching("vectors", good, {})
    BY <1>0, <1>2, <2>1, <2>3, BatchingMoves
  <2> QED BY <1>3, <2>2, <2>3
<1>5. Serving <=> Serving'
  BY <1>2, <1>4 DEF Serving
<1> QED BY <1>0, <1>1, <1>4, <1>5, FreshKeeps DEF ListedOrCompleted

LEMMA StoreVectorsKeeps == ASSUME VectorsInv, StoreVectors PROVE VectorsInv'
<1> DEFINE still == {a \in indexer.batch \cap Rows("completed") : attached[a].space # embedder}
<1>0. VectorsTyped /\ ListedOrCompleted /\ IndexerKnows /\ Searchable /\ NumberedInOrder /\ SearchKnows
  BY DEF VectorsInv
<1>1. UNCHANGED <<lastAttached, outbox, docs, uncommitted, embedder, searching>>
  BY DEF StoreVectors, vectorIndex
<1>2. indexer.at = "vectors" /\ ~indexer.opening
  BY <1>0 DEF StoreVectors, IndexerAt, IndexerKnows
<1>2a. {"wait", "embed"} \subseteq Places /\ {} \in SUBSET Attachments
  BY DEF Places
<1>3. CASE indexer' = IdleIndexer /\ UNCHANGED <<vectors, attached>>
  <2>1. indexer' \in IndexerStates /\ indexer'.at = "wait" /\ indexer'.opening = FALSE
    BY <1>3, <1>2a DEF IdleIndexer, IndexerStates
  <2>2. Serving <=> Serving'
    BY <1>2, <2>1 DEF Serving
  <2> QED BY <1>0, <1>1, <1>3, <2>1, <2>2, FreshKeeps DEF ListedOrCompleted
<1>4. CASE /\ vectors' = [a \in Attachments |-> IF a \in still THEN embedder ELSE vectors[a]]
           /\ attached' = [a \in Attachments |->
                IF a \in still THEN [attached[a] EXCEPT !.space = embedder] ELSE attached[a]]
           /\ Batching("embed", {}, {})
  <2>1. \A a \in still : a \in Attachments /\ attached[a].status = "completed"
    BY DEF Rows
  <2> HIDE DEF still
  <2>2. attached' \in [Attachments -> [source : Sources \cup {"none"}, status : Statuses,
                                   batch : BOOLEAN, space : Nat]]
    BY <1>0, <1>4, SMTT(30) DEF VectorsTyped, Statuses
  <2>3. \A a \in Attachments : attached'[a].status = attached[a].status
    BY <1>0, <1>4 DEF VectorsTyped
  <2>4. \A a \in still : attached'[a].space = embedder /\ vectors'[a] = embedder
    BY <1>0, <1>4, <2>1 DEF VectorsTyped
  <2>5. \A a \in Attachments : a \notin still => attached'[a] = attached[a] /\ vectors'[a] = vectors[a]
    BY <1>4
  <2>6. indexer' \in IndexerStates /\ indexer'.at = "embed" /\ indexer'.opening = indexer.opening
    BY <1>0, <1>4, <1>2a, BatchingMoves
  <2>7. Serving /\ Serving'
    BY <1>2, <2>6 DEF Serving
  <2>8. Rows("completed")' = Rows("completed")
    BY <2>3 DEF Rows
  <2>9. VectorsTyped'
    <3>1. vectors' \in [Attachments -> Nat]
      BY <1>0, <1>4 DEF VectorsTyped
    <3> QED BY <1>0, <1>1, <2>2, <2>6, <3>1 DEF VectorsTyped
  <2>10. ListedOrCompleted'
    <3>1. ASSUME NEW a \in Attachments
          PROVE  /\ attached'[a].status = "completed" => vectors'[a] = attached'[a].space
                 /\ attached'[a].status = "in_progress" => vectors'[a] = 0
                 /\ vectors'[a] # 0 => a \in Rows("completed")' \cup outbox'
      <4>1. CASE a \in still
        BY <2>1, <2>3, <2>4, <2>8, <4>1 DEF Rows
      <4>2. CASE a \notin still
        BY <1>0, <1>1, <2>5, <2>8, <4>2 DEF ListedOrCompleted
      <4> QED BY <4>1, <4>2
    <3> QED BY <1>0, <1>1, <2>8, <3>1 DEF ListedOrCompleted
  <2>11. IndexerKnows' /\ Searchable'
    BY <1>0, <1>1, <1>2, <2>6, <2>7, <2>8 DEF IndexerKnows, Searchable
  <2>12. NumberedInOrder'
    BY <1>0, <1>1, <2>1, <2>3, <2>5 DEF NumberedInOrder
  <2>13. SearchKnows'
    BY <1>0, <1>1, <2>3, <2>7, <2>8 DEF SearchKnows, SearchFindsAll, VectorsTyped
  <2> QED BY <2>9, <2>10, <2>11, <2>12, <2>13 DEF VectorsInv
<1> QED BY <1>3, <1>4 DEF StoreVectors

(* CheckIndex compares numbers only: documents that are no garbage are     *)
(* completed files, so with as many of them every completed file has one.  *)
LEMMA CountsAgree ==
  ASSUME VectorsInv, Cardinality(docs) = Cardinality(docs \cap outbox) + Cardinality(Rows("completed"))
  PROVE  Rows("completed") \subseteq docs
<1>1. docs \subseteq Attachments /\ Rows("completed") \subseteq Attachments
      /\ docs \subseteq Rows("completed") \cup outbox /\ outbox \cap Rows("completed") = {}
  BY DEF VectorsInv, VectorsTyped, ListedOrCompleted, Rows
<1>2. IsFiniteSet(Attachments)
  <2>1. 1 \in Int /\ MaxAttached \in Int
    BY VectorBoundsAssumption
  <2>2. IsFiniteSet(1..MaxAttached)
    BY <2>1, FS_Interval
  <2> QED BY <2>2 DEF Attachments
<1>3. IsFiniteSet(docs) /\ IsFiniteSet(Rows("completed"))
  BY <1>1, <1>2, FS_Subset
<1>4. /\ Cardinality(docs \ outbox) = Cardinality(docs) - Cardinality(docs \cap outbox)
      /\ IsFiniteSet(docs \ outbox)
  BY <1>3, FS_Difference
<1>5. docs \cap outbox \subseteq docs
  OBVIOUS
<1>6. /\ Cardinality(docs) \in Nat /\ Cardinality(docs \cap outbox) \in Nat
      /\ Cardinality(Rows("completed")) \in Nat
  BY <1>3, <1>5, FS_Subset, FS_CardinalityType
<1>7. Cardinality(docs \ outbox) = Cardinality(Rows("completed"))
  BY <1>4, <1>6
<1>8. docs \ outbox \subseteq Rows("completed")
  BY <1>1
<1>9. docs \ outbox = Rows("completed")
  BY <1>3, <1>7, <1>8, FS_Subset
<1> QED BY <1>9

LEMMA OpenIndexKeeps == ASSUME VectorsInv, OpenIndex PROVE VectorsInv'
<1>0. VectorsTyped /\ ListedOrCompleted
  BY DEF VectorsInv
<1>1. UNCHANGED <<attached, lastAttached, outbox, vectors, docs, embedder, searching>> /\ uncommitted' = {}
  BY DEF OpenIndex, vectorRows
<1>2. indexer' = [IdleIndexer EXCEPT !.at = "garbage", !.opening = TRUE] /\ indexer.at = "down"
  BY DEF OpenIndex
<1>3. indexer' \in IndexerStates /\ indexer'.at = "garbage" /\ indexer'.opening = TRUE
  BY <1>2 DEF IndexerStates, IdleIndexer, Places
<1>4. Serving <=> Serving'
  BY <1>2, <1>3 DEF Serving
<1> QED BY <1>1, <1>3, <1>4, FreshKeeps

LEMMA CheckIndexKeeps == ASSUME VectorsInv, CheckIndex PROVE VectorsInv'
<1>0. VectorsTyped /\ ListedOrCompleted /\ IndexerKnows /\ Searchable
  BY DEF VectorsInv
<1>1. UNCHANGED <<attached, lastAttached, outbox, vectors, docs, uncommitted, embedder, searching>>
  BY DEF CheckIndex, vectorRows, vectorIndex
<1>2. indexer.at = "check" /\ indexer.opening
  BY <1>0 DEF CheckIndex, IndexerAt, IndexerKnows
<1>3. CASE PhaseFails("down")
  BY <1>0, <1>1, <1>2, <1>3, FailureKeeps DEF ListedOrCompleted
<1>4. CASE /\ Cardinality(docs) = Cardinality(docs \cap outbox) + Cardinality(Rows("completed"))
           /\ indexer' = [indexer EXCEPT !.at = "repair"]
  <2>1. indexer' \in IndexerStates /\ indexer'.at = "repair" /\ indexer'.opening = TRUE
    BY <1>0, <1>2, <1>4 DEF VectorsTyped, IndexerStates, Places
  <2>2. ~Serving /\ ~Serving'
    BY <1>2, <2>1 DEF Serving
  <2>3. Rows("completed")' = Rows("completed") /\ NumberedInOrder' /\ SearchKnows' /\ ListedOrCompleted'
    BY <1>1, <2>2, RowsStay
  <2>4. VectorsTyped'
    BY <1>0, <1>1, <2>1 DEF VectorsTyped
  <2>5. IndexerKnows'
    BY <1>0, <2>1 DEF IndexerKnows
  <2>6. Searchable'
    BY <1>1, <1>4, <2>3, CountsAgree DEF Searchable
  <2> QED BY <2>3, <2>4, <2>5, <2>6 DEF VectorsInv
<1>5. CASE indexer' = [indexer EXCEPT !.at = "rebuild", !.rows = Rows("completed")]
  <2>0. Rows("completed") \in SUBSET Attachments
    BY DEF Rows
  <2>1. /\ indexer' \in IndexerStates /\ indexer'.at = "rebuild" /\ indexer'.opening = TRUE
        /\ indexer'.rows = Rows("completed")
    BY <1>0, <1>2, <1>5, <2>0 DEF VectorsTyped, IndexerStates, Places
  <2>2. ~Serving /\ ~Serving'
    BY <1>2, <2>1 DEF Serving
  <2>3. Rows("completed")' = Rows("completed") /\ NumberedInOrder' /\ SearchKnows' /\ ListedOrCompleted'
    BY <1>1, <2>2, RowsStay
  <2>4. VectorsTyped'
    BY <1>0, <1>1, <2>1 DEF VectorsTyped
  <2>5. IndexerKnows' /\ Searchable'
    BY <1>0, <2>1, <2>2, <2>3 DEF IndexerKnows, Searchable
  <2> QED BY <2>3, <2>4, <2>5 DEF VectorsInv
<1> QED BY <1>3, <1>4, <1>5 DEF CheckIndex

(* A rebuild reads the completed files first; one that completes or leaves *)
(* during it is listed by the request that changed it.                     *)
LEMMA RebuildKeeps == ASSUME VectorsInv, Rebuild PROVE VectorsInv'
<1>0. VectorsTyped /\ ListedOrCompleted /\ IndexerKnows /\ Searchable
  BY DEF VectorsInv
<1>1. UNCHANGED <<attached, lastAttached, outbox, vectors, uncommitted, embedder, searching>>
  BY DEF Rebuild, vectorRows
<1>2. /\ indexer.at = "rebuild" /\ indexer.opening
      /\ Rows("completed") \subseteq indexer.rows
      /\ indexer.rows \subseteq Rows("completed") \cup outbox
  BY <1>0 DEF Rebuild, IndexerAt, IndexerKnows
<1>3. CASE PhaseFails("down") /\ UNCHANGED docs
  BY <1>0, <1>1, <1>2, <1>3, FailureKeeps DEF ListedOrCompleted
<1>4. CASE docs' = indexer.rows /\ IndexerTo("repair")
  <2>0. "repair" \in Places
    BY DEF Places
  <2>1. indexer' \in IndexerStates /\ indexer'.at = "repair" /\ indexer'.opening = indexer.opening
    BY <1>0, <1>4, <2>0, IndexerMoves
  <2>2. ~Serving /\ ~Serving'
    BY <1>2, <2>1 DEF Serving
  <2>3. Rows("completed")' = Rows("completed") /\ NumberedInOrder' /\ SearchKnows'
    BY <1>1, <2>2, RowsStay
  <2>4. VectorsTyped'
    BY <1>0, <1>1, <1>4, <2>1 DEF VectorsTyped, IndexerStates
  <2>5. ListedOrCompleted'
    BY <1>0, <1>1, <1>2, <1>4, <2>3 DEF ListedOrCompleted
  <2>6. IndexerKnows' /\ Searchable'
    BY <1>0, <1>2, <1>4, <2>1, <2>2, <2>3 DEF IndexerKnows, Searchable
  <2> QED BY <2>3, <2>4, <2>5, <2>6 DEF VectorsInv
<1> QED BY <1>3, <1>4 DEF Rebuild

(* Repair finds nothing to mend: rows and vectors were kept in step.       *)
LEMMA RepairVectorsKeeps == ASSUME VectorsInv, RepairVectors PROVE VectorsInv'
<1> DEFINE held == {a \in Rows("completed") : attached[a].space # 0}
           bad  == {a \in held : vectors[a] = 0}
<1>0. VectorsTyped /\ ListedOrCompleted /\ IndexerKnows /\ Searchable /\ NumberedInOrder /\ SearchKnows
  BY DEF VectorsInv
<1>1. UNCHANGED <<lastAttached, outbox, docs, uncommitted, embedder, searching>>
  BY DEF RepairVectors, vectorIndex
<1>2. indexer.at = "repair" /\ indexer.opening /\ indexer' = IdleIndexer
  BY <1>0 DEF RepairVectors, IndexerAt, IndexerKnows
<1>3. bad = {}
  BY <1>0 DEF ListedOrCompleted, Rows
<1>4. attached' = attached
  <2>1. attached' = [a \in Attachments |->
          IF a \in bad THEN [attached[a] EXCEPT !.space = 0] ELSE attached[a]]
    BY DEF RepairVectors
  <2> HIDE DEF bad
  <2> QED BY <1>0, <1>3, <2>1 DEF VectorsTyped
<1>5. vectors' = vectors
  <2>1. vectors' = [a \in Attachments |-> IF a \in outbox \cup held THEN vectors[a] ELSE 0]
    BY DEF RepairVectors
  <2>2. \A a \in Attachments : a \notin outbox \cup held => vectors[a] = 0
    BY <1>0 DEF ListedOrCompleted, Rows
  <2> HIDE DEF held
  <2> QED BY <1>0, <2>1, <2>2 DEF VectorsTyped
<1>6. indexer' \in IndexerStates /\ indexer'.at = "wait" /\ indexer'.opening = FALSE
  BY <1>2 DEF IdleIndexer, IndexerStates, Places
<1>7. Rows("completed")' = Rows("completed") /\ NumberedInOrder' /\ SearchKnows' /\ ListedOrCompleted'
  BY <1>1, <1>2, <1>4, <1>5, RowsStay DEF Serving
<1>8. VectorsTyped'
  BY <1>0, <1>1, <1>4, <1>5, <1>6 DEF VectorsTyped
<1>9. IndexerKnows' /\ Searchable'
  BY <1>0, <1>1, <1>2, <1>6, <1>7 DEF IndexerKnows, Searchable
<1> QED BY <1>7, <1>8, <1>9 DEF VectorsInv

LEMMA IndexerStepKeeps == ASSUME VectorsInv, IndexerStep PROVE VectorsInv'
BY TakeNotificationKeeps, PurgeTimerKeeps, ReadGarbageKeeps, DropDocumentsKeeps,
   ClearOutboxKeeps, ParseSourcesKeeps, FailUnparsedKeeps, ListAttemptKeeps,
   WriteDocumentsKeeps, ConfirmFilesKeeps, EmbedFilesKeeps, StoreVectorsKeeps,
   OpenIndexKeeps, CheckIndexKeeps, RebuildKeeps, RepairVectorsKeeps DEF IndexerStep

(***************************************************************************)
(* Crashes and losses, and searches.                                       *)
(***************************************************************************)
LEMMA IdleSearchKnows ==
  /\ IdleSearch.at = "idle" /\ IdleSearch.admitted = {} /\ IdleSearch.embedded = {}
  /\ IdleSearch \in [at : {"idle", "snapshot", "rank", "answer"}, model : Nat,
                    admitted : SUBSET Attachments, embedded : SUBSET Attachments,
                    hits : SUBSET Attachments]
BY DEF IdleSearch

(* A crash loses what the writer had not committed, and a lost index is    *)
(* found when it is opened again.                                          *)
LEMMA DownKeeps ==
  ASSUME VectorsInv, CrashVectors \/ LoseIndex
  PROVE  VectorsInv'
<1>0. VectorsTyped /\ ListedOrCompleted /\ IndexerKnows /\ Searchable /\ SearchKnows
  BY DEF VectorsInv
<1>1. UNCHANGED <<attached, lastAttached, outbox, vectors>> /\ docs' \subseteq docs
      /\ uncommitted' \subseteq outbox
  BY <1>0 DEF CrashVectors, LoseIndex, vectorRows, ListedOrCompleted
<1>2. indexer' \in IndexerStates /\ indexer'.at = "down" /\ indexer'.opening = FALSE
  <2>1. CASE CrashVectors
    BY <2>1 DEF CrashVectors, IdleIndexer, IndexerStates, Places
  <2>2. CASE LoseIndex
    BY <1>0, <2>2 DEF LoseIndex, vectorThread, VectorsTyped, IndexerKnows, IndexerStates
  <2> QED BY <2>1, <2>2
<1>3. searching'.at = "idle" /\ searching'.embedded \subseteq searching'.admitted
      /\ searching' \in [at : {"idle", "snapshot", "rank", "answer"}, model : Nat,
                    admitted : SUBSET Attachments, embedded : SUBSET Attachments,
                    hits : SUBSET Attachments]
      /\ embedder' \in Nat
  <2>1. CASE CrashVectors
    BY <2>1, IdleSearchKnows DEF CrashVectors
  <2>2. CASE LoseIndex
    BY <1>0, <2>2 DEF LoseIndex, Serving, SearchKnows, VectorsTyped, vectorThread
  <2> QED BY <2>1, <2>2
<1>4. Rows("completed")' = Rows("completed") /\ NumberedInOrder'
  BY <1>1, RowsStay
<1>5. VectorsTyped'
  BY <1>0, <1>1, <1>2, <1>3 DEF VectorsTyped
<1>6. ListedOrCompleted'
  BY <1>0, <1>1, <1>4 DEF ListedOrCompleted
<1>7. IndexerKnows' /\ Searchable' /\ SearchKnows'
  BY <1>2, <1>3 DEF IndexerKnows, Searchable, Serving, SearchKnows, SearchFindsAll
<1> QED BY <1>4, <1>5, <1>6, <1>7 DEF VectorsInv

(* A search over the steps of every other actor.                           *)
LEMMA SearchKeeps ==
  ASSUME VectorsInv, \/ SearchEmbed \/ SearchSnapshot \/ SearchRank \/ SearchAnswer
  PROVE  VectorsInv'
<1> DEFINE Searches == [at : {"idle", "snapshot", "rank", "answer"}, model : Nat,
                    admitted : SUBSET Attachments, embedded : SUBSET Attachments,
                    hits : SUBSET Attachments]
<1>0. VectorsTyped /\ ListedOrCompleted /\ IndexerKnows /\ Searchable /\ NumberedInOrder /\ SearchKnows
  BY DEF VectorsInv
<1>1. UNCHANGED <<attached, lastAttached, outbox, vectors, docs, uncommitted, indexer, embedder>>
  BY DEF SearchEmbed, SearchSnapshot, SearchRank, SearchAnswer, vectorRows,
     vectorIndex, vectorThread
<1>2. Rows("completed")' = Rows("completed") /\ NumberedInOrder' /\ ListedOrCompleted'
      /\ (Serving <=> Serving')
  BY <1>1, RowsStay DEF Serving
<1>3. IndexerKnows' /\ Searchable'
  BY <1>0, <1>1, <1>2 DEF IndexerKnows, Searchable
<1>4. searching' \in Searches /\ SearchKnows'
  <2>1. CASE SearchEmbed
    <3> PICK model \in {0, embedder} :
          searching' = [IdleSearch EXCEPT !.at = "snapshot", !.model = model]
      BY <2>1 DEF SearchEmbed
    <3>1. model \in Nat /\ Serving
      BY <1>0, <2>1 DEF VectorsTyped, SearchEmbed
    <3>2. searching' \in Searches /\ searching'.at = "snapshot" /\ searching'.embedded = {}
      BY <3>1 DEF IdleSearch
    <3> QED BY <1>2, <3>1, <3>2 DEF SearchKnows, SearchFindsAll
  <2>2. CASE SearchSnapshot /\ storeState # "live"
    <3>1. searching' = IdleSearch
      BY <2>2 DEF SearchSnapshot
    <3> QED BY <3>1, IdleSearchKnows DEF SearchKnows, SearchFindsAll
  <2>3. CASE SearchSnapshot /\ storeState = "live"
    <3> DEFINE files == {a \in Rows("completed") : sourceState[attached[a].source] = "live"}
               some == IF searching.model = 0 THEN {}
                       ELSE {a \in files : attached[a].space = searching.model /\ vectors[a] # 0}
    <3>1. searching' = [searching EXCEPT !.at = "rank", !.admitted = files, !.embedded = some]
          /\ searching.at = "snapshot"
      BY <2>3 DEF SearchSnapshot
    <3>2. files \subseteq Rows("completed") /\ some \subseteq files /\ files \subseteq Attachments
          /\ some \subseteq Attachments
      BY DEF Rows
    <3> HIDE DEF files, some
    <3>3. searching' \in Searches /\ searching'.at = "rank" /\ searching'.admitted = files
          /\ searching'.embedded = some
      BY <1>0, <3>1, <3>2 DEF VectorsTyped
    <3>4. \A a \in files : a <= lastAttached /\ attached[a].status = "completed"
      <4> SUFFICES ASSUME NEW a \in files PROVE a <= lastAttached /\ attached[a].status = "completed"
        OBVIOUS
      <4>1. a \in Attachments /\ attached[a].status = "completed"
        BY <3>2 DEF Rows
      <4>2. ~(a > lastAttached)
        BY <1>0, <4>1 DEF NumberedInOrder
      <4>3. a \in Nat /\ lastAttached \in Nat
        BY <1>0, <4>1, VectorBoundsAssumption DEF Attachments, VectorsTyped
      <4> QED BY <4>1, <4>2, <4>3
    <3>5. Serving
      BY <1>0, <3>1 DEF SearchKnows
    <3> QED BY <1>1, <1>2, <3>2, <3>3, <3>4, <3>5 DEF SearchKnows, SearchFindsAll
  <2>4. CASE SearchRank
    <3> DEFINE lexical == searching.admitted \cap docs
               dense   == searching.embedded
               all     == searching.model # 0 /\ searching.admitted \subseteq dense
               found   == IF all THEN dense ELSE lexical \cup dense
    <3>1. searching' = [searching EXCEPT !.at = "answer", !.hits = found] /\ searching.at = "rank"
      BY <2>4 DEF SearchRank
    <3>2. Serving /\ dense \subseteq searching.admitted
      BY <1>0, <3>1 DEF SearchKnows
    <3>3. found \subseteq searching.admitted /\ searching.admitted \cap Rows("completed") \subseteq found
      BY <1>0, <3>2 DEF Searchable
    <3> HIDE DEF found
    <3>4. searching' \in Searches /\ searching'.at = "answer" /\ searching'.hits = found
          /\ searching'.admitted = searching.admitted /\ searching'.embedded = searching.embedded
      BY <1>0, <3>1, <3>3 DEF VectorsTyped
    <3> QED BY <1>0, <1>1, <1>2, <3>1, <3>2, <3>3, <3>4 DEF SearchKnows, SearchFindsAll
  <2>5. CASE SearchAnswer
    <3>1. searching' = IdleSearch
      BY <2>5 DEF SearchAnswer
    <3> QED BY <3>1, IdleSearchKnows DEF SearchKnows, SearchFindsAll
  <2> QED BY <2>1, <2>2, <2>3, <2>4, <2>5
<1>5. VectorsTyped'
  BY <1>0, <1>1, <1>4 DEF VectorsTyped
<1> QED BY <1>2, <1>3, <1>4, <1>5 DEF VectorsInv

LEMMA VectorsStep == VectorsInv /\ [VectorsNext]_vectorVars => VectorsInv'
<1> SUFFICES ASSUME VectorsInv, [VectorsNext]_vectorVars PROVE VectorsInv'
  OBVIOUS
<1>1. CASE UNCHANGED vectorVars
  <2>1. embedder \in Nat
    BY DEF VectorsInv, VectorsTyped
  <2> QED BY <1>1, <2>1, UntouchedKeeps DEF vectorVars, vectorRows, vectorIndex,
     vectorThread
<1>2. CASE VectorsNext
  BY <1>2, RequestKeeps, IndexerStepKeeps, DownKeeps, SearchKeeps DEF VectorsNext
<1> QED BY <1>1, <1>2

(* The bookkeeping of vector_stores.rs and its indexer thread, for any     *)
(* number of files, attachments, failures, crashes and losses of the       *)
(* index: what is in the index or the vector table belongs to a completed  *)
(* file or is listed as garbage, the indexer at each of its steps still    *)
(* knows what it read, and a file that left the completed state never      *)
(* returns to it.                                                          *)
THEOREM VectorsCorrect == VectorsSpec => []VectorsInv
BY VectorsInitial, VectorsStep, PTL DEF VectorsSpec

(* While the index serves, it has a document for every completed file and  *)
(* the vectors its row names, and whatever else it holds is listed in      *)
(* vector_store_index_garbage: no order of attaching, deleting,            *)
(* cancelling, failing, crashing and rebuilding hides a file or strands    *)
(* its bytes.                                                              *)
THEOREM IndexIsSound == VectorsSpec => []IndexInvariant
<1>1. VectorsInv => IndexInvariant
  BY DEF VectorsInv, ListedOrCompleted, Searchable, IndexInvariant, Rows
<1> QED BY <1>1, VectorsCorrect, PTL

(* A search that reads the database and the index at different moments     *)
(* misses no file that stays completed and shows none that was not         *)
(* completed when it looked.                                               *)
THEOREM SearchIsComplete == VectorsSpec => []SearchFindsAll
<1>1. VectorsInv => SearchFindsAll
  BY DEF VectorsInv, SearchKnows
<1> QED BY <1>1, VectorsCorrect, PTL

(***************************************************************************)
(* Administration: the audit log accounts for every row, and a project key *)
(* admits a request only while its account exists.                         *)
(***************************************************************************)
TablesTyped ==
  /\ auth \in BOOLEAN
  /\ adminKey \in [AdminKeys -> [state: RowStates, expires: Nat]]
  /\ project \in [Projects -> {"new", "active", "archived"}]
  /\ account \in [Accounts -> [state: RowStates, project: Projects \cup {"none"}]]
  /\ projectKey \in [ProjectKeys ->
        [state: RowStates, project: Projects \cup {"none"},
         account: Accounts \cup {"none"}, expires: Nat]]

Tables == TablesTyped /\ KeysHaveAccounts /\ AuditReplays

LEMMA ExpiryIsNat == ASSUME NEW e \in 0..Never PROVE e \in Nat
BY AdminAssumption DEF Never

LEMMA EntriesDiffer ==
  \A kind1, kind2, id1, id2 :
    Entry(kind1, id1) = Entry(kind2, id2) <=> kind1 = kind2 /\ id1 = id2
BY DEF Entry

LEMMA CreateAdminKeyKeeps ==
  ASSUME Tables, NEW k \in AdminKeys, CreateAdminKey(k)
  PROVE  Tables'
<1> USE DEF Tables
<1>1. TablesTyped'
  BY ExpiryIsNat DEF TablesTyped, RowStates, CreateAdminKey
<1>2. KeysHaveAccounts'
  BY DEF TablesTyped, KeysHaveAccounts, HasAccount, CreateAdminKey
<1>3. AuditReplays'
  BY AdminAssumption, EntriesDiffer DEF TablesTyped, RowStates, AuditReplays,
     AsLogged, Logged, Audited, CreateAdminKey
<1> QED BY <1>1, <1>2, <1>3

LEMMA DeleteAdminKeyKeeps ==
  ASSUME Tables, NEW k \in AdminKeys, DeleteAdminKey(k)
  PROVE  Tables'
<1> USE DEF Tables
<1>1. TablesTyped'
  BY ExpiryIsNat DEF TablesTyped, RowStates, DeleteAdminKey
<1>2. KeysHaveAccounts'
  BY DEF TablesTyped, KeysHaveAccounts, HasAccount, DeleteAdminKey
<1>3. AuditReplays'
  BY AdminAssumption, EntriesDiffer DEF TablesTyped, RowStates, AuditReplays,
     AsLogged, Logged, Audited, DeleteAdminKey
<1> QED BY <1>1, <1>2, <1>3

LEMMA CreateProjectKeeps ==
  ASSUME Tables, NEW p \in Projects, CreateProject(p)
  PROVE  Tables'
<1> USE DEF Tables
<1>1. TablesTyped'
  BY ExpiryIsNat DEF TablesTyped, RowStates, CreateProject
<1>2. KeysHaveAccounts'
  BY DEF TablesTyped, KeysHaveAccounts, HasAccount, CreateProject
<1>3. AuditReplays'
  BY AdminAssumption, EntriesDiffer DEF TablesTyped, RowStates, AuditReplays,
     AsLogged, Logged, Audited, CreateProject
<1> QED BY <1>1, <1>2, <1>3

LEMMA ModifyProjectKeeps ==
  ASSUME Tables, NEW p \in Projects, ModifyProject(p)
  PROVE  Tables'
<1> USE DEF Tables
<1>1. TablesTyped'
  BY ExpiryIsNat DEF TablesTyped, RowStates, ModifyProject
<1>2. KeysHaveAccounts'
  BY DEF TablesTyped, KeysHaveAccounts, HasAccount, ModifyProject
<1>3. AuditReplays'
  BY AdminAssumption, EntriesDiffer DEF TablesTyped, RowStates, AuditReplays,
     AsLogged, Logged, Audited, ModifyProject
<1> QED BY <1>1, <1>2, <1>3

LEMMA ArchiveProjectKeeps ==
  ASSUME Tables, NEW p \in Projects, ArchiveProject(p)
  PROVE  Tables'
<1> USE DEF Tables
<1>1. TablesTyped'
  BY ExpiryIsNat DEF TablesTyped, RowStates, ArchiveProject
<1>2. KeysHaveAccounts'
  BY DEF TablesTyped, KeysHaveAccounts, HasAccount, ArchiveProject
<1>3. AuditReplays'
  BY AdminAssumption, EntriesDiffer DEF TablesTyped, RowStates, AuditReplays,
     AsLogged, Logged, Audited, ArchiveProject
<1> QED BY <1>1, <1>2, <1>3

LEMMA CreateServiceAccountKeeps ==
  ASSUME Tables, NEW p \in Projects, NEW a \in Accounts, CreateServiceAccount(p, a)
  PROVE  Tables'
<1> USE DEF Tables
<1>0. /\ account' \in [Accounts -> [state: RowStates, project: Projects \cup {"none"}]]
      /\ HasAccount(p, a)' /\ account[a].state = "new"
      /\ \A b \in Accounts : b # a => account'[b] = account[b]
  BY DEF TablesTyped, RowStates, HasAccount, CreateServiceAccount
<1>1. TablesTyped'
  <2>1. projectKey' = projectKey \/ \E k \in ProjectKeys : InsertProjectKey(p, a, k)
    BY DEF CreateServiceAccount
  <2>2. projectKey' \in [ProjectKeys ->
          [state: RowStates, project: Projects \cup {"none"},
           account: Accounts \cup {"none"}, expires: Nat]]
    BY <2>1, ExpiryIsNat DEF TablesTyped, RowStates, InsertProjectKey
  <2> QED BY <1>0, <2>2 DEF TablesTyped, CreateServiceAccount
<1>2. KeysHaveAccounts'
  <2>1. ASSUME NEW k \in ProjectKeys, projectKey'[k] = projectKey[k],
               projectKey[k].state = "live"
        PROVE  projectKey[k].account # a
    <3>1. account[projectKey[k].account].state = "live"
      <4>1. HasAccount(projectKey[k].project, projectKey[k].account)
        BY <2>1 DEF KeysHaveAccounts
      <4> QED BY <4>1 DEF HasAccount
    <3> QED BY <1>0, <3>1
  <2>2. CASE UNCHANGED projectKey
    BY <1>0, <2>1, <2>2 DEF KeysHaveAccounts, HasAccount, CreateServiceAccount
  <2>3. ASSUME NEW k \in ProjectKeys, InsertProjectKey(p, a, k) PROVE KeysHaveAccounts'
    <3>1. /\ projectKey'[k].project = p /\ projectKey'[k].account = a
          /\ \A j \in ProjectKeys : j # k => projectKey'[j] = projectKey[j]
      BY <2>3 DEF InsertProjectKey, TablesTyped
    <3> QED BY <1>0, <2>1, <3>1
               DEF KeysHaveAccounts, HasAccount, CreateServiceAccount, ActiveProject
  <2> QED BY <2>2, <2>3 DEF CreateServiceAccount
<1>3. AuditReplays'
  BY AdminAssumption, EntriesDiffer
     DEF TablesTyped, RowStates, AuditReplays, AsLogged, Logged, Audited,
         CreateServiceAccount, InsertProjectKey, ActiveProject
<1> QED BY <1>1, <1>2, <1>3

LEMMA UpdateServiceAccountKeeps ==
  ASSUME Tables, NEW p \in Projects, NEW a \in Accounts, UpdateServiceAccount(p, a)
  PROVE  Tables'
<1> USE DEF Tables
<1>1. TablesTyped'
  BY ExpiryIsNat DEF TablesTyped, RowStates, UpdateServiceAccount
<1>2. KeysHaveAccounts'
  BY DEF TablesTyped, KeysHaveAccounts, HasAccount, UpdateServiceAccount
<1>3. AuditReplays'
  BY AdminAssumption, EntriesDiffer DEF TablesTyped, RowStates, AuditReplays,
     AsLogged, Logged, Audited, UpdateServiceAccount
<1> QED BY <1>1, <1>2, <1>3

LEMMA CreateServiceAccountKeyKeeps ==
  ASSUME Tables, NEW p \in Projects, NEW a \in Accounts, CreateServiceAccountKey(p, a)
  PROVE  Tables'
<1> USE DEF Tables
<1>1. TablesTyped'
  BY ExpiryIsNat DEF TablesTyped, RowStates, CreateServiceAccountKey,
     InsertProjectKey, ActiveProject
<1>2. KeysHaveAccounts'
  BY DEF TablesTyped, KeysHaveAccounts, HasAccount, CreateServiceAccountKey,
     InsertProjectKey, ActiveProject
<1>3. AuditReplays'
  BY AdminAssumption, EntriesDiffer DEF TablesTyped, RowStates, AuditReplays,
     AsLogged, Logged, Audited, CreateServiceAccountKey, InsertProjectKey,
     ActiveProject
<1> QED BY <1>1, <1>2, <1>3

LEMMA DeleteServiceAccountKeeps ==
  ASSUME Tables, NEW p \in Projects, NEW a \in Accounts, DeleteServiceAccount(p, a)
  PROVE  Tables'
<1> USE DEF Tables
<1>1. TablesTyped'
  BY DEF TablesTyped, RowStates, DeleteServiceAccount, KeysOf
<1>2. KeysHaveAccounts'
  BY DEF TablesTyped, KeysHaveAccounts, HasAccount, DeleteServiceAccount, KeysOf
<1>3. AuditReplays'
  <2>1. /\ auditLog \subseteq auditLog'
        /\ \A k \in KeysOf(a) : Entry("api_key.deleted", k) \in auditLog'
        /\ Entry("service_account.deleted", a) \in auditLog'
        /\ \A e \in auditLog' : \/ e \in auditLog
                                \/ \E k \in KeysOf(a) : e = Entry("api_key.deleted", k)
                                \/ e = Entry("service_account.deleted", a)
    BY DEF DeleteServiceAccount, Audited
  <2>2. /\ \A k \in ProjectKeys : projectKey'[k].state =
             IF k \in KeysOf(a) THEN "gone" ELSE projectKey[k].state
        /\ \A b \in Accounts : account'[b].state = IF b = a THEN "gone" ELSE account[b].state
        /\ account[a].state = "live"
        /\ \A k \in KeysOf(a) : k \in ProjectKeys /\ projectKey[k].state = "live"
        /\ UNCHANGED <<adminKey, project>>
    BY DEF TablesTyped, DeleteServiceAccount, HasAccount, KeysOf
  <2>3. \A k \in AdminKeys :
          AsLogged(adminKey[k].state, k, "api_key.created", "api_key.deleted")'
    BY <2>1, <2>2, AdminAssumption, EntriesDiffer DEF AuditReplays, AsLogged, Logged
  <2>4. \A k \in ProjectKeys :
          AsLogged(projectKey[k].state, k, "api_key.created", "api_key.deleted")'
    BY <2>1, <2>2, EntriesDiffer DEF AuditReplays, AsLogged, Logged
  <2>5. \A q \in Projects :
          AsLogged(project[q], q, "project.created", "project.archived")'
    BY <2>1, <2>2, EntriesDiffer DEF AuditReplays, AsLogged, Logged
  <2>6. \A b \in Accounts : AsLogged(account[b].state, b, "service_account.created",
                                     "service_account.deleted")'
    BY <2>1, <2>2, EntriesDiffer DEF AuditReplays, AsLogged, Logged
  <2> QED BY <2>3, <2>4, <2>5, <2>6 DEF AuditReplays
<1> QED BY <1>1, <1>2, <1>3

LEMMA DeleteProjectKeyKeeps ==
  ASSUME Tables, NEW p \in Projects, NEW k \in ProjectKeys, DeleteProjectKey(p, k)
  PROVE  Tables'
<1> USE DEF Tables
<1>1. TablesTyped'
  BY ExpiryIsNat DEF TablesTyped, RowStates, DeleteProjectKey
<1>2. KeysHaveAccounts'
  BY DEF TablesTyped, KeysHaveAccounts, HasAccount, DeleteProjectKey
<1>3. AuditReplays'
  BY AdminAssumption, EntriesDiffer DEF TablesTyped, RowStates, AuditReplays,
     AsLogged, Logged, Audited, DeleteProjectKey
<1> QED BY <1>1, <1>2, <1>3

(***************************************************************************)
(* Requests, the command line and time leave the tables alone, or run one  *)
(* operation.                                                              *)
(***************************************************************************)
Elsewhere ==
  /\ fixed \in BOOLEAN /\ enabling \in BOOLEAN
  /\ request \in [Requests ->
        [kind: {"none", "static", "anonymous", "admin", "project"},
         key: AdminKeys \cup ProjectKeys \cup {"none"}, admin: BOOLEAN]]
  /\ adminClock \in Nat /\ adminFaults \in Nat

LEMMA InvariantParts == AdminIInv <=> Tables /\ Elsewhere
BY DEF AdminIInv, AdminTypeOK, Tables, TablesTyped, Elsewhere

LEMMA TablesAlone ==
  ASSUME Tables, UNCHANGED <<auth, adminKey, project, account, projectKey, auditLog>>
  PROVE  Tables'
BY DEF Tables, TablesTyped, KeysHaveAccounts, HasAccount, AuditReplays, AsLogged, Logged

LEMMA AdministerKeeps ==
  ASSUME Tables, Administer
  PROVE  Tables'
<1>1. ASSUME NEW k \in AdminKeys, CreateAdminKey(k) \/ DeleteAdminKey(k) PROVE Tables'
  BY <1>1, CreateAdminKeyKeeps, DeleteAdminKeyKeeps
<1>2. ASSUME NEW p \in Projects, CreateProject(p) \/ ModifyProject(p) \/ ArchiveProject(p)
      PROVE  Tables'
  BY <1>2, CreateProjectKeeps, ModifyProjectKeeps, ArchiveProjectKeeps
<1>3. ASSUME NEW p \in Projects, NEW a \in Accounts,
             \/ CreateServiceAccount(p, a) \/ UpdateServiceAccount(p, a)
             \/ CreateServiceAccountKey(p, a) \/ DeleteServiceAccount(p, a)
      PROVE  Tables'
  BY <1>3, CreateServiceAccountKeeps, UpdateServiceAccountKeeps,
     CreateServiceAccountKeyKeeps, DeleteServiceAccountKeeps
<1>4. ASSUME NEW p \in Projects, NEW k \in ProjectKeys, DeleteProjectKey(p, k)
      PROVE  Tables'
  BY <1>4, DeleteProjectKeyKeeps
<1>5. CASE UNCHANGED <<auth, adminKey, project, account, projectKey, auditLog>>
  BY <1>5, TablesAlone
<1> QED BY <1>1, <1>2, <1>3, <1>4, <1>5 DEF Administer

(* Whoever Gate::check lets in is one of four callers; under a project key *)
(* it is the key's own row, live and of a project that is not archived.    *)
LEMMA GateLetsIn ==
  ASSUME NEW token, NEW administration \in BOOLEAN,
         NEW caller \in GateCheck(token, administration)
  PROVE  /\ caller.kind \in {"static", "anonymous", "admin", "project"}
         /\ caller.key \in AdminKeys \cup ProjectKeys \cup {"none"}
         /\ caller.kind = "project" => caller.key \in ProjectKeys /\ LiveProjectKey(caller.key)
BY DEF GateCheck

LEMMA RequestsType ==
  ASSUME Elsewhere, NEW q \in Requests, Authorize(q) \/ Serve(q) \/ ServeFailed(q),
         UNCHANGED fixed
  PROVE  Elsewhere'
<1>1. Nobody \in [kind: {"none", "static", "anonymous", "admin", "project"},
                  key: AdminKeys \cup ProjectKeys \cup {"none"}, admin: BOOLEAN]
  BY DEF Nobody
<1>2. CASE Authorize(q)
  <2>1. PICK token \in Tokens, administration \in BOOLEAN :
          \E caller \in GateCheck(token, administration) :
            request' = [request EXCEPT ![q] =
              [kind |-> caller.kind, key |-> caller.key, admin |-> administration]]
    BY <1>2 DEF Authorize
  <2>2. PICK caller \in GateCheck(token, administration) :
            request' = [request EXCEPT ![q] =
              [kind |-> caller.kind, key |-> caller.key, admin |-> administration]]
    BY <2>1
  <2>3. [kind |-> caller.kind, key |-> caller.key, admin |-> administration]
          \in [kind: {"none", "static", "anonymous", "admin", "project"},
               key: AdminKeys \cup ProjectKeys \cup {"none"}, admin: BOOLEAN]
    BY GateLetsIn
  <2> QED BY <1>2, <2>2, <2>3 DEF Authorize, Elsewhere
<1>3. CASE Serve(q)
  BY <1>1, <1>3 DEF Serve, Elsewhere
<1>4. CASE ServeFailed(q)
  BY <1>1, <1>4 DEF ServeFailed, Elsewhere
<1> QED BY <1>2, <1>3, <1>4

LEMMA AdminInitially == AdminInit => AdminIInv
<1> SUFFICES ASSUME AdminInit PROVE AdminIInv
  OBVIOUS
<1>1. Never \in Nat
  BY AdminAssumption DEF Never
<1>2. TablesTyped
  BY <1>1 DEF AdminInit, TablesTyped, RowStates
<1>3. Elsewhere
  BY DEF AdminInit, Elsewhere, Nobody
<1>4. KeysHaveAccounts
  BY DEF AdminInit, KeysHaveAccounts
<1>5. AuditReplays
  BY DEF AdminInit, AuditReplays, AsLogged, Logged
<1> QED BY <1>2, <1>3, <1>4, <1>5, InvariantParts DEF Tables

LEMMA AdminStep == AdminIInv /\ [AdminNext]_adminVars => AdminIInv'
<1> SUFFICES ASSUME AdminIInv, [AdminNext]_adminVars PROVE AdminIInv'
  OBVIOUS
<1>0. Tables /\ Elsewhere
  BY InvariantParts
<1>1. CASE UNCHANGED adminVars
  <2>1. Tables'
    BY <1>0, <1>1, TablesAlone DEF adminVars
  <2>2. Elsewhere'
    BY <1>0, <1>1 DEF adminVars, Elsewhere
  <2> QED BY <2>1, <2>2, InvariantParts, PTL
<1>2. ASSUME NEW q \in Requests, Authorize(q) \/ Serve(q) \/ ServeFailed(q),
             UNCHANGED fixed
      PROVE  AdminIInv'
  <2>1. Elsewhere'
    BY <1>0, <1>2, RequestsType
  <2>2. Tables'
    BY <1>0, <1>2, TablesAlone, AdministerKeeps DEF Authorize, Serve, ServeFailed
  <2> QED BY <2>1, <2>2, InvariantParts, PTL
<1>3. CASE OwnerKeys /\ UNCHANGED fixed
  <2>1. Tables'
    BY <1>0, <1>3, CreateAdminKeyKeeps, DeleteAdminKeyKeeps DEF OwnerKeys
  <2>2. Elsewhere'
    BY <1>0, <1>3 DEF OwnerKeys, Elsewhere
  <2> QED BY <2>1, <2>2, InvariantParts, PTL
<1>4. CASE (DisableAuth \/ EnableAuth) /\ UNCHANGED fixed
  <2>1. Tables'
    <3>1. /\ auth' \in BOOLEAN
          /\ UNCHANGED <<adminKey, project, account, projectKey, auditLog>>
      BY <1>4 DEF DisableAuth, EnableAuth
    <3>2. TablesTyped' /\ KeysHaveAccounts'
      BY <1>0, <3>1 DEF Tables, TablesTyped, KeysHaveAccounts, HasAccount
    <3>3. AuditReplays'
      BY <1>0, <3>1 DEF Tables, AuditReplays, AsLogged, Logged
    <3> QED BY <3>2, <3>3 DEF Tables
  <2>2. Elsewhere'
    BY <1>0, <1>4 DEF DisableAuth, EnableAuth, Elsewhere
  <2> QED BY <2>1, <2>2, InvariantParts, PTL
<1>5. CASE (CountLive \/ AdminTick) /\ UNCHANGED fixed
  <2>1. Tables'
    BY <1>0, <1>5, TablesAlone DEF CountLive, AdminTick
  <2>2. Elsewhere'
    <3>1. /\ UNCHANGED <<fixed, request, adminFaults>>
          /\ enabling' \in BOOLEAN /\ adminClock' \in Nat
      <4>1. CASE CountLive
        BY <1>0, <1>5, <4>1 DEF CountLive, Elsewhere
      <4>2. CASE AdminTick
        BY <1>0, <1>5, <4>2 DEF AdminTick, Elsewhere
      <4> QED BY <1>5, <4>1, <4>2
    <3> QED BY <1>0, <3>1 DEF Elsewhere
  <2> QED BY <2>1, <2>2, InvariantParts, PTL
<1> QED BY <1>1, <1>2, <1>3, <1>4, <1>5 DEF AdminNext

(* The tables keep their foreign keys and the log their history, whatever  *)
(* requests, the command line and a failed transaction interleave.         *)
THEOREM AdminInvariant == AdminSpec => []AdminIInv
<1> QED BY AdminInitially, AdminStep, PTL DEF AdminSpec

(* Replaying the audit log gives the tables, the keys that went with their *)
(* service account included.                                               *)
THEOREM AuditIsComplete == AdminSpec => []AuditReplays
<1>1. AdminIInv => AuditReplays
  BY DEF AdminIInv
<1> QED BY <1>1, AdminInvariant, PTL

(* authenticate never reads the service account, and need not: a project   *)
(* key that is still there has its account, in a project that is active.   *)
THEOREM ProjectKeysAreLive == AdminSpec => OnlyLiveKeysAct
<1> DEFINE Acts == \A q \in Requests :
             LET caller == request'[q] IN
             request[q] = Nobody /\ caller.kind = "project" =>
                LET row == projectKey[caller.key] IN
                /\ project[row.project] = "active"
                /\ account[row.account] = [state |-> "live", project |-> row.project]
<1>1. ASSUME AdminIInv, [AdminNext]_adminVars PROVE Acts
  <2>0. Tables /\ Elsewhere
    BY <1>1, InvariantParts
  <2> SUFFICES ASSUME NEW q \in Requests, request[q] = Nobody, request'[q].kind = "project"
               PROVE  /\ project[projectKey[request'[q].key].project] = "active"
                      /\ HasAccount(projectKey[request'[q].key].project,
                                    projectKey[request'[q].key].account)
    BY DEF HasAccount
  <2>1. request'[q] # request[q] /\ request'[q] # Nobody
    BY DEF Nobody
  <2>2. Authorize(q)
    <3>1. PICK r \in Requests : Authorize(r) \/ Serve(r) \/ ServeFailed(r)
      BY <1>1, <2>1 DEF AdminNext, adminVars, OwnerKeys, DisableAuth, CountLive,
                        EnableAuth, AdminTick
    <3>2. r = q
      BY <2>0, <2>1, <3>1 DEF Authorize, Serve, ServeFailed, Elsewhere
    <3>3. ~Serve(q) /\ ~ServeFailed(q)
      BY <2>0, <2>1 DEF Serve, ServeFailed, Elsewhere
    <3> QED BY <3>1, <3>2, <3>3
  <2>3. PICK token \in Tokens, administration \in BOOLEAN :
          \E caller \in GateCheck(token, administration) :
            request' = [request EXCEPT ![q] =
              [kind |-> caller.kind, key |-> caller.key, admin |-> administration]]
    BY <2>2 DEF Authorize
  <2>4. PICK caller \in GateCheck(token, administration) :
            request' = [request EXCEPT ![q] =
              [kind |-> caller.kind, key |-> caller.key, admin |-> administration]]
    BY <2>3
  <2>5. request'[q].kind = caller.kind /\ request'[q].key = caller.key
    BY <2>0, <2>4 DEF Elsewhere
  <2>6. caller.key \in ProjectKeys /\ LiveProjectKey(caller.key)
    BY <2>5, GateLetsIn
  <2> QED BY <2>0, <2>5, <2>6 DEF Tables, TablesTyped, KeysHaveAccounts, LiveProjectKey
<1>2. AdminIInv /\ [AdminNext]_adminVars => [Acts]_adminVars
  BY <1>1
<1> QED BY <1>2, AdminInvariant, PTL DEF AdminSpec, OnlyLiveKeysAct
===========================================================================
