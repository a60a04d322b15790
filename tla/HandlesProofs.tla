--------------------------- MODULE HandlesProofs ----------------------------
(***************************************************************************)
(* Proofs about Handles for any number of routers, registries, servers and *)
(* tasks, about the buffers of FfiBuffers for any text and any size, and   *)
(* about the tables of Router for any manifest and path.                   *)
(***************************************************************************)
EXTENDS Handles, FoldLemmas, SequenceTheorems
-----------------------------------------------------------------------------
(* The copy into a buffer. *)

LEMMA CopyOutType ==
  ASSUME NEW cap \in Nat \ {0}, NEW buf \in Buffers(cap), NEW text \in Texts
  PROVE  CopyOut(buf, text, cap) \in Buffers(cap)
<1>1. CopyLen(text, cap) \in Nat /\ CopyLen(text, cap) <= Len(text)
  BY DEF CopyLen, MinOf, Texts
<1>2. ASSUME NEW i \in 0 .. cap - 1, i < CopyLen(text, cap)
      PROVE  text[i + 1] \in Bytes
  BY <1>1, <1>2 DEF Texts
<1> QED BY <1>2, NulAssumption DEF CopyOut, Buffers

(* Every reader finds the whole text in its buffer or a piece of cap - 1   *)
(* bytes, whatever the buffer held before.                                 *)
THEOREM CopyIsWholeOrFull ==
  ASSUME NEW cap \in Nat \ {0}, NEW buf \in Buffers(cap), NEW text \in Texts
  PROVE  WholeOrFull(CopyOut(buf, text, cap), text, cap)
<1> DEFINE new == CopyOut(buf, text, cap)
<1>1. new = [i \in 0 .. cap - 1 |->
               IF i < CopyLen(text, cap) THEN text[i + 1]
               ELSE IF i = CopyLen(text, cap) THEN Nul ELSE buf[i]]
  BY DEF CopyOut, Buffers
<1>2. Len(text) \in Nat /\ \A i \in 1 .. Len(text) : text[i] # Nul
  BY DEF Texts
<1>3. CASE Len(text) <= cap - 1
  <2>1. CopyLen(text, cap) = Len(text)
    BY <1>2, <1>3 DEF CopyLen, MinOf
  <2>2. Len(text) \in 0 .. cap - 1
    BY <1>2, <1>3
  <2>3. new[Len(text)] = Nul
    BY <1>1, <2>1, <2>2
  <2>4. ASSUME NEW i \in 1 .. Len(text)
        PROVE  new[i - 1] = text[i]
    <3>1. i - 1 \in 0 .. cap - 1 /\ i - 1 < CopyLen(text, cap) /\ (i - 1) + 1 = i
      BY <1>2, <1>3, <2>1
    <3> QED BY <1>1, <3>1
  <2>5. DOMAIN new = 0 .. cap - 1
    BY <1>1
  <2>6. Reads(new, text)
    BY <1>2, <2>2, <2>3, <2>4, <2>5 DEF Reads
  <2> QED BY <2>6 DEF WholeOrFull
<1>4. CASE Len(text) >= cap
  <2> DEFINE piece == SubSeq(text, 1, cap - 1)
  <2>1. CopyLen(text, cap) = cap - 1
    BY <1>2, <1>4 DEF CopyLen, MinOf
  <2>2. /\ Len(piece) = cap - 1
        /\ \A i \in 1 .. cap - 1 : piece[i] = text[i] /\ text[i] # Nul
    BY <1>2, <1>4 DEF Texts
  <2>3. new[cap - 1] = Nul
    BY <1>1, <2>1
  <2>4. ASSUME NEW i \in 1 .. cap - 1
        PROVE  new[i - 1] = text[i]
    <3>1. i - 1 \in 0 .. cap - 1 /\ i - 1 < CopyLen(text, cap) /\ (i - 1) + 1 = i
      BY <2>1
    <3> QED BY <1>1, <3>1
  <2>5. DOMAIN new = 0 .. cap - 1
    BY <1>1
  <2> HIDE DEF new, piece
  <2>6. Reads(new, piece)
    BY <2>2, <2>3, <2>4, <2>5 DEF Reads
  <2> QED BY <1>4, <2>6 DEF WholeOrFull, new, piece
<1> QED BY <1>2, <1>3, <1>4

LEMMA ReplyIsText ==
  ASSUME NEW kind \in Kinds, NEW size \in Sizes
  PROVE  [i \in 1 .. size |-> kind] \in Texts
<1>1. size \in Nat /\ kind \in Bytes \ {Nul}
  BY BufferAssumption
<1> QED BY <1>1 DEF Texts

(* What a call that replies does to the buffer. *)
BufferInv == out \in Buffers(Cap) /\ said \in {None} \cup Texts /\ TextIsWholeOrFull

LEMMA ReplyPreserves ==
  ASSUME BufferInv, NEW kind \in Kinds, NEW size \in Sizes, Reply(kind, size)
  PROVE  BufferInv'
<1> DEFINE text == [i \in 1 .. size |-> kind]
<1>1. text \in Texts
  BY ReplyIsText
<1>2. out' = CopyOut(out, text, Cap) /\ said' = text
  BY DEF Reply
<1> HIDE DEF text
<1>3. Cap \in Nat \ {0} /\ out \in Buffers(Cap)
  BY BufferAssumption DEF BufferInv
<1>4. out' \in Buffers(Cap) /\ WholeOrFull(out', text, Cap)
  BY <1>1, <1>2, <1>3, CopyOutType, CopyIsWholeOrFull
<1> QED BY <1>1, <1>2, <1>4 DEF BufferInv, TextIsWholeOrFull

LEMMA OutcomeKinds ==
  ASSUME NEW routers, NEW method, NEW path
  PROVE  MatchRoute(routers, method, path).is \in Kinds
BY DEF MatchRoute, Kinds

-----------------------------------------------------------------------------
(* The routing tables. *)

(* The greatest of some numbers, which FoldLeft takes last. *)
LEMMA GreatestNumber ==
  ASSUME NEW n \in Nat, NEW s \in SUBSET (1 .. n), s # {}
  PROVE  Max(s) \in s /\ \A i \in s : i <= Max(s)
<1> DEFINE gaps == {n - i : i \in s}
<1>1. gaps \in SUBSET Nat /\ gaps # {}
  <2>1. \A i \in s : i \in Nat /\ n - i \in Nat
    OBVIOUS
  <2>2. PICK i \in s : TRUE
    OBVIOUS
  <2> QED BY <2>1, <2>2
<1>2. PICK g \in gaps : \A h \in gaps : g <= h
  BY <1>1, LeastNumber
<1>3. \E x \in s : \A y \in s : x >= y
  BY <1>2
<1> QED BY <1>3 DEF Max

(* The indices of the routes in s of a method, and with a pattern; the     *)
(* table that has, for each, the first.                                    *)
Under(mf, s, m)      == {i \in s : mf[i].method = m}
Routes(mf, s, m, p)  == {i \in s : mf[i].method = m /\ mf[i].pattern = p}
First(mf, s, m, p)   == CHOOSE i \in Routes(mf, s, m, p) :
                          \A j \in Routes(mf, s, m, p) : i <= j
TreeOf(mf, s, m)     == [p \in {mf[i].pattern : i \in Under(mf, s, m)} |->
                           Metadata(mf[First(mf, s, m, p)])]
TableOf(mf, s)       == [m \in {mf[i].method : i \in s} |-> TreeOf(mf, s, m)]

LEMMA FirstRoute ==
  ASSUME NEW mf, NEW s \in SUBSET Nat, NEW m, NEW p, Routes(mf, s, m, p) # {}
  PROVE  /\ First(mf, s, m, p) \in Routes(mf, s, m, p)
         /\ \A j \in Routes(mf, s, m, p) : First(mf, s, m, p) <= j
<1>1. Routes(mf, s, m, p) \in SUBSET Nat
  BY DEF Routes
<1>2. \E i \in Routes(mf, s, m, p) : \A j \in Routes(mf, s, m, p) : i <= j
  BY <1>1, LeastNumber
<1> QED BY <1>2 DEF First

(* A route that comes after all others of s. *)
LEMMA TableStep ==
  ASSUME NEW mf, NEW s \in SUBSET Nat, NEW k \in s, \A i \in s : i <= k
  PROVE  TableOf(mf, s) = AddRoute(TableOf(mf, s \ {k}), mf[k])
<1> DEFINE r == s \ {k}
           e == mf[k]
           old == TableOf(mf, r)
<1>1. DOMAIN old = {mf[i].method : i \in r} /\ \A m \in DOMAIN old : old[m] = TreeOf(mf, r, m)
  BY DEF TableOf
<1>2. {mf[i].method : i \in s} = DOMAIN old \cup {e.method}
  BY <1>1
<1>3. ASSUME NEW m, m # e.method
      PROVE  TreeOf(mf, s, m) = TreeOf(mf, r, m)
  <2>1. Under(mf, s, m) = Under(mf, r, m)
    BY <1>3 DEF Under
  <2>2. \A p : Routes(mf, s, m, p) = Routes(mf, r, m, p)
    BY <1>3 DEF Routes
  <2>3. \A p : First(mf, s, m, p) = First(mf, r, m, p)
    BY <2>2 DEF First
  <2> QED BY <2>1, <2>3 DEF TreeOf
<1>4. TreeOf(mf, s, e.method) =
        Insert(IF e.method \in DOMAIN old THEN old[e.method] ELSE EmptyTree, e)
  <2> DEFINE tree == IF e.method \in DOMAIN old THEN old[e.method] ELSE EmptyTree
             has  == {mf[i].pattern : i \in Under(mf, r, e.method)}
  <2>1. DOMAIN tree = has /\ \A p \in has : tree[p] = Metadata(mf[First(mf, r, e.method, p)])
    <3>1. CASE e.method \in DOMAIN old
      BY <1>1, <3>1 DEF TreeOf
    <3>2. CASE e.method \notin DOMAIN old
      <4>1. Under(mf, r, e.method) = {}
        BY <1>1, <3>2 DEF Under
      <4> QED BY <3>2, <4>1 DEF EmptyTree
    <3> QED BY <3>1, <3>2
  <2>2. {mf[i].pattern : i \in Under(mf, s, e.method)} = has \cup {e.pattern}
    BY DEF Under
  <2>3. ASSUME NEW p \in has
        PROVE  First(mf, s, e.method, p) = First(mf, r, e.method, p)
    <3> DEFINE rs == Routes(mf, r, e.method, p)
               ss == Routes(mf, s, e.method, p)
    <3>1. rs # {} /\ rs \subseteq ss /\ \A i \in ss \ rs : i = k
      BY <2>3 DEF Under, Routes
    <3>2. First(mf, r, e.method, p) \in rs /\ \A j \in rs : First(mf, r, e.method, p) <= j
      BY <3>1, FirstRoute
    <3>3. First(mf, s, e.method, p) \in ss /\ \A j \in ss : First(mf, s, e.method, p) <= j
      BY <3>1, FirstRoute
    <3>4. rs \subseteq s /\ k \notin rs /\ ss \subseteq s
      BY DEF Routes
    <3> HIDE DEF rs, ss
    <3>5. ASSUME NEW a \in rs, NEW b \in ss, \A j \in rs : a <= j, \A j \in ss : b <= j
          PROVE  a = b
      <4>1. a \in Nat /\ b \in Nat /\ a <= k /\ a # k /\ b <= a
        BY <3>1, <3>4, <3>5
      <4>2. b \in rs
        BY <3>1, <4>1
      <4> QED BY <3>5, <4>1, <4>2
    <3> QED BY <3>2, <3>3, <3>5
  <2>4. ASSUME e.pattern \notin has
        PROVE  First(mf, s, e.method, e.pattern) = k
    <3>1. Routes(mf, s, e.method, e.pattern) = {k}
      BY <2>4 DEF Routes, Under
    <3> QED BY <3>1, FirstRoute
  <2> HIDE DEF tree, has, old
  <2>5. TreeOf(mf, s, e.method) =
          [p \in has \cup {e.pattern} |-> IF p \in has THEN tree[p] ELSE Metadata(e)]
    BY <2>1, <2>2, <2>3, <2>4 DEF TreeOf
  <2>6. Insert(tree, e) =
          [p \in has \cup {e.pattern} |-> IF p \in has THEN tree[p] ELSE Metadata(e)]
    BY <2>1 DEF Insert
  <2> QED BY <2>5, <2>6 DEF tree
<1> HIDE DEF old
<1> QED BY <1>1, <1>2, <1>3, <1>4 DEF TableOf, AddRoute

LEMMA NoRoutes == ASSUME NEW mf PROVE TableOf(mf, {}) = EmptyTree
BY DEF TableOf, EmptyTree

(* The recursive function behind NewRouter. *)
IsBuild(it, mf) ==
  it = [s \in SUBSET (DOMAIN mf) |->
          IF s = {} THEN EmptyTree ELSE AddRoute(it[s \ {Max(s)}], mf[Max(s)])]

(* The table in closed form: each method of the manifest has a tree, each  *)
(* pattern of its routes is in it, with the first route that has it.       *)
LEMMA RouterTable ==
  ASSUME NEW mf, NEW n \in Nat, DOMAIN mf = 1 .. n
  PROVE  NewRouter(mf) = TableOf(mf, DOMAIN mf)
<1> DEFINE it == CHOOSE it : IsBuild(it, mf)
<1>1. \A s \in SUBSET (DOMAIN mf) : s # {} =>
        /\ Max(s) \in s
        /\ TableOf(mf, s) = AddRoute(TableOf(mf, s \ {Max(s)}), mf[Max(s)])
  <2>1. ASSUME NEW s \in SUBSET (DOMAIN mf), s # {}
        PROVE  /\ Max(s) \in s
               /\ TableOf(mf, s) = AddRoute(TableOf(mf, s \ {Max(s)}), mf[Max(s)])
    <3>1. Max(s) \in s /\ \A i \in s : i <= Max(s)
      BY <2>1, GreatestNumber
    <3>2. s \in SUBSET Nat
      OBVIOUS
    <3> QED BY <3>1, <3>2, TableStep
  <2> QED BY <2>1
<1>2. IsBuild([s \in SUBSET (DOMAIN mf) |-> TableOf(mf, s)], mf)
  <2> DEFINE all == [s \in SUBSET (DOMAIN mf) |-> TableOf(mf, s)]
  <2>1. ASSUME NEW s \in SUBSET (DOMAIN mf)
        PROVE  all[s] = IF s = {} THEN EmptyTree
                        ELSE AddRoute(all[s \ {Max(s)}], mf[Max(s)])
    BY <1>1, NoRoutes
  <2> HIDE DEF all
  <2>2. all = [s \in SUBSET (DOMAIN mf) |-> all[s]]
    BY DEF all
  <2> QED BY <2>1, <2>2 DEF IsBuild, all
<1>3. IsBuild(it, mf)
  BY <1>2
<1>4. NewRouter(mf) = it[DOMAIN mf]
  BY DEF NewRouter, FoldLeft, MapThenFoldSet, IsBuild
<1> HIDE DEF it
<1> DEFINE Good == {s \in SUBSET (DOMAIN mf) : it[s] = TableOf(mf, s)}
<1>5. {} \in Good
  BY <1>3, NoRoutes DEF IsBuild
<1>6. ASSUME NEW s \in SUBSET (DOMAIN mf), s # {}, \A x \in s : s \ {x} \in Good
      PROVE  s \in Good
  <2>1. Max(s) \in s /\ TableOf(mf, s) = AddRoute(TableOf(mf, s \ {Max(s)}), mf[Max(s)])
    BY <1>1, <1>6
  <2>2. it[s \ {Max(s)}] = TableOf(mf, s \ {Max(s)})
    BY <1>6, <2>1
  <2>3. it[s] = AddRoute(it[s \ {Max(s)}], mf[Max(s)])
    BY <1>3, <1>6 DEF IsBuild
  <2> QED BY <2>1, <2>2, <2>3
<1>7. SUBSET (DOMAIN mf) \subseteq Good
  <2>1. IsFiniteSet(DOMAIN mf)
    BY FS_Interval
  <2> HIDE DEF Good
  <2> QED BY <1>5, <1>6, <2>1, Growing
<1> QED BY <1>4, <1>7
-----------------------------------------------------------------------------
(* The patterns that cover one path are in a strict total order.           *)
LEMMA BeatsTotal ==
  ASSUME NEW path \in Seq(Segments), NEW p \in Patterns, NEW q \in Patterns,
         Covers(p, path), Covers(q, path), p # q
  PROVE  Beats(p, q) \/ Beats(q, p)
<1> DEFINE apart == {i \in 1 .. Len(path) : p[i] # q[i]}
<1>1. /\ Len(path) \in Nat /\ DOMAIN path = 1 .. Len(path)
      /\ DOMAIN p = 1 .. Len(path) /\ DOMAIN q = 1 .. Len(path)
      /\ \A i \in 1 .. Len(path) : path[i] \in Segments
  BY DEF Covers, Patterns
<1>2. apart # {}
  BY <1>1 DEF Patterns
<1>3. PICK i \in apart : \A j \in apart : i <= j
  <2>1. apart \in SUBSET Nat
    OBVIOUS
  <2> HIDE DEF apart
  <2> QED BY <1>2, <2>1, LeastNumber
<1>4. i \in 1 .. Len(path) /\ \A j \in 1 .. i - 1 : p[j] = q[j]
  BY <1>1, <1>3
<1>5. p[i] \in {path[i], Wild} /\ q[i] \in {path[i], Wild} /\ path[i] # Wild
  BY <1>1, <1>4, WildAssumption DEF Covers
<1>6. \/ p[i] # Wild /\ q[i] = Wild
      \/ q[i] # Wild /\ p[i] = Wild
  BY <1>3, <1>5
<1> QED BY <1>1, <1>4, <1>6 DEF Beats

LEMMA BeatsTransitive ==
  ASSUME NEW p \in Patterns, NEW q \in Patterns, NEW r \in Patterns,
         Beats(p, q), Beats(q, r)
  PROVE  Beats(p, r)
<1>1. PICK i \in DOMAIN p \cap DOMAIN q :
        p[i] # Wild /\ q[i] = Wild /\ \A l \in 1 .. i - 1 : p[l] = q[l]
  BY DEF Beats
<1>2. PICK j \in DOMAIN q \cap DOMAIN r :
        q[j] # Wild /\ r[j] = Wild /\ \A l \in 1 .. j - 1 : q[l] = r[l]
  BY DEF Beats
<1>3. /\ i \in Nat \ {0} /\ j \in Nat \ {0} /\ i # j
      /\ DOMAIN p = 1 .. Len(p) /\ DOMAIN r = 1 .. Len(r) /\ Len(p) \in Nat /\ Len(r) \in Nat
  BY <1>1, <1>2 DEF Patterns
<1>4. CASE i < j
  <2>1. i \in DOMAIN r /\ r[i] = Wild /\ \A l \in 1 .. i - 1 : p[l] = r[l]
    BY <1>1, <1>2, <1>3, <1>4
  <2> QED BY <1>1, <2>1 DEF Beats
<1>5. CASE j < i
  <2>1. j \in DOMAIN p /\ p[j] # Wild /\ \A l \in 1 .. j - 1 : p[l] = r[l]
    BY <1>1, <1>2, <1>3, <1>5
  <2> QED BY <1>2, <2>1 DEF Beats
<1> QED BY <1>3, <1>4, <1>5

BestOf(p, hits) == \A q \in hits : q = p \/ Beats(p, q)

(* So the most specific of finitely many is well defined. *)
LEMMA BestPattern ==
  ASSUME NEW path \in Seq(Segments), NEW hits \in SUBSET Patterns, IsFiniteSet(hits),
         \A p \in hits : Covers(p, path), hits # {}
  PROVE  \E p \in hits : BestOf(p, hits)
<1> DEFINE Good == {T \in SUBSET hits : T = {} \/ \E p \in T : BestOf(p, T)}
<1>1. ASSUME NEW T \in SUBSET hits, T # {}, \A x \in T : T \ {x} \in Good
      PROVE  T \in Good
  <2>1. PICK x \in T : T \ {x} \in Good
    BY <1>1
  <2>2. CASE T \ {x} = {}
    <3>1. BestOf(x, T)
      BY <2>2 DEF BestOf
    <3> QED BY <3>1
  <2>3. CASE T \ {x} # {}
    <3>1. PICK b \in T \ {x} : BestOf(b, T \ {x})
      BY <2>1, <2>3
    <3>2. Beats(b, x) \/ Beats(x, b)
      BY <3>1, BeatsTotal
    <3>3. CASE Beats(b, x)
      <4>1. BestOf(b, T)
        BY <3>1, <3>3 DEF BestOf
      <4> QED BY <4>1
    <3>4. CASE Beats(x, b)
      <4>1. ASSUME NEW q \in T, q # x
            PROVE  Beats(x, q)
        <5>1. q = b \/ Beats(b, q)
          BY <3>1, <4>1 DEF BestOf
        <5>2. x \in Patterns /\ b \in Patterns /\ q \in Patterns
          OBVIOUS
        <5> QED BY <3>4, <5>1, <5>2, BeatsTransitive
      <4>2. BestOf(x, T)
        BY <4>1 DEF BestOf
      <4> QED BY <4>2
    <3> QED BY <3>2, <3>3, <3>4
  <2> QED BY <2>2, <2>3
<1>2. SUBSET hits \subseteq Good
  <2>1. {} \in Good
    OBVIOUS
  <2> HIDE DEF Good
  <2> QED BY <1>1, <2>1, Growing
<1> QED BY <1>2

(* The routes of a method that cover a path. *)
Covering(mf, m, path) == {i \in DOMAIN mf : mf[i].method = m /\ Covers(mf[i].pattern, path)}

LEMMA HitsAreCovering ==
  ASSUME NEW mf \in Seq(RouteEntry), NEW m, NEW path
  PROVE  LET trees == TableOf(mf, DOMAIN mf)
         IN  /\ m \in DOMAIN trees =>
                  Hits(trees[m], path) = {mf[i].pattern : i \in Covering(mf, m, path)}
             /\ m \notin DOMAIN trees => Covering(mf, m, path) = {}
             /\ DOMAIN trees \subseteq Methods
             /\ {mf[i].pattern : i \in Covering(mf, m, path)} \subseteq Patterns
             /\ IsFiniteSet({mf[i].pattern : i \in Covering(mf, m, path)})
<1> DEFINE trees == TableOf(mf, DOMAIN mf)
           hits  == {mf[i].pattern : i \in Covering(mf, m, path)}
<1>1. \A i \in DOMAIN mf : mf[i].method \in Methods /\ mf[i].pattern \in Patterns
  <2>1. \A i \in DOMAIN mf : mf[i] \in RouteEntry
    OBVIOUS
  <2> QED BY <2>1 DEF RouteEntry
<1>2. DOMAIN trees = {mf[i].method : i \in DOMAIN mf}
        /\ \A k \in DOMAIN trees : trees[k] = TreeOf(mf, DOMAIN mf, k)
  BY DEF TableOf
<1>3. ASSUME m \in DOMAIN trees
      PROVE  Hits(trees[m], path) = hits
  <2>1. DOMAIN trees[m] = {mf[i].pattern : i \in Under(mf, DOMAIN mf, m)}
    BY <1>2, <1>3 DEF TreeOf
  <2> HIDE DEF trees
  <2> QED BY <2>1 DEF Hits, Under, Covering
<1>4. m \notin DOMAIN trees => Covering(mf, m, path) = {}
  BY <1>2 DEF Covering
<1>5. IsFiniteSet(hits)
  <2>1. IsFiniteSet(Covering(mf, m, path))
    <3>1. IsFiniteSet(DOMAIN mf)
      BY FS_Interval
    <3> QED BY <3>1, FS_Subset DEF Covering
  <2>2. hits = {[j \in Covering(mf, m, path) |-> mf[j].pattern][i] :
                  i \in Covering(mf, m, path)}
    OBVIOUS
  <2>3. [i \in Covering(mf, m, path) |-> mf[i].pattern] \in
          Surjection(Covering(mf, m, path), hits)
    BY DEF Surjection
  <2> QED BY <2>1, <2>3, FS_Surjection
<1>6. hits \subseteq Patterns /\ DOMAIN trees \subseteq Methods
  BY <1>1, <1>2 DEF Covering
<1> QED BY <1>3, <1>4, <1>5, <1>6

(* Every routing trees answers every method and path as its manifest asks. *)
THEOREM RoutesAnswer ==
  ASSUME NEW mf \in Seq(RouteEntry), NEW method \in Methods, NEW path \in Seq(Segments)
  PROVE  IsAnswer(mf, method, path, MatchRoute(NewRouter(mf), method, path))
<1> DEFINE trees == TableOf(mf, DOMAIN mf)
           x     == MatchRoute(trees, method, path)
           cov(m) == Covering(mf, m, path)
<1>1. NewRouter(mf) = trees
  <2>1. Len(mf) \in Nat /\ DOMAIN mf = 1 .. Len(mf)
    OBVIOUS
  <2> QED BY <2>1, RouterTable
<1>2. \A m : /\ m \in DOMAIN trees => Hits(trees[m], path) = {mf[i].pattern : i \in cov(m)}
             /\ m \notin DOMAIN trees => cov(m) = {}
  BY HitsAreCovering
<1>3. DOMAIN trees \subseteq Methods
  BY HitsAreCovering
<1>4. CASE cov(method) # {}
  <2> DEFINE hits == {mf[i].pattern : i \in cov(method)}
             p == At(trees[method], path)
             i == First(mf, DOMAIN mf, method, p)
  <2>1. method \in DOMAIN trees /\ Hits(trees[method], path) = hits /\ hits # {}
    BY <1>2, <1>4
  <2>2. p \in hits /\ BestOf(p, hits)
    <3>1. \A q \in hits : Covers(q, path)
      BY DEF Covering
    <3>2. hits \subseteq Patterns /\ IsFiniteSet(hits)
      BY HitsAreCovering
    <3>3. \E q \in hits : BestOf(q, hits)
      <4> HIDE DEF hits
      <4> QED BY <2>1, <3>1, <3>2, BestPattern
    <3>4. p = CHOOSE q \in hits : BestOf(q, hits)
      BY <2>1 DEF At, BestOf
    <3> QED BY <3>3, <3>4
  <2>3. x = [is |-> "ok", value |-> trees[method][p]]
    BY <2>1 DEF MatchRoute
  <2>4. /\ i \in Routes(mf, DOMAIN mf, method, p)
        /\ \A j \in Routes(mf, DOMAIN mf, method, p) : i <= j
    <3>1. Routes(mf, DOMAIN mf, method, p) # {}
      BY <2>2 DEF Routes, Covering
    <3>2. DOMAIN mf \in SUBSET Nat
      OBVIOUS
    <3> QED BY <3>1, <3>2, FirstRoute
  <2>5. trees[method][p] = Metadata(mf[i])
    BY <2>1, <2>2 DEF TableOf, TreeOf, Under, Covering
  <2>6. i \in cov(method) /\ mf[i].pattern = p
    BY <2>2, <2>4 DEF Routes, Covering
  <2>7. \A j \in cov(method) : IF mf[j].pattern = mf[i].pattern THEN i <= j
                               ELSE Beats(mf[i].pattern, mf[j].pattern)
    BY <2>2, <2>4, <2>6 DEF Routes, Covering, BestOf
  <2> HIDE DEF i, p, trees
  <2> QED BY <1>1, <2>3, <2>5, <2>6, <2>7 DEF IsAnswer, Covering
<1>5. CASE cov(method) = {}
  <2>1. x = [is |-> IF \E m \in DOMAIN trees \ {method} : Hits(trees[m], path) # {}
                    THEN "not_allowed" ELSE "not_found"]
    BY <1>2, <1>5 DEF MatchRoute
  <2>2. CASE \E m \in DOMAIN trees \ {method} : Hits(trees[m], path) # {}
    <3>1. x.is = "not_allowed"
      BY <2>1, <2>2
    <3>2. \E m \in Methods : cov(m) # {}
      BY <1>2, <1>3, <2>2
    <3> HIDE DEF x, trees
    <3> QED BY <1>1, <1>5, <3>1, <3>2 DEF IsAnswer, Covering, x
  <2>3. CASE ~ \E m \in DOMAIN trees \ {method} : Hits(trees[m], path) # {}
    <3>1. x.is = "not_found"
      BY <2>1, <2>3
    <3>2. \A m \in Methods : cov(m) = {}
      BY <1>2, <1>5, <2>3
    <3> HIDE DEF x, trees
    <3> QED BY <1>1, <1>5, <3>1, <3>2 DEF IsAnswer, Covering, x
  <2> QED BY <2>2, <2>3
<1> QED BY <1>4, <1>5

-----------------------------------------------------------------------------
(* The counts.  A server that has not started is owned by no task, and     *)
(* servers use objects that were made.                                     *)
OwnersInv ==
  \A s \in Servers :
    /\ uses[s] \subseteq made
    /\ thread[s] = "none" => OwnerTasks(s) = {}

IInv == TypeOK /\ BufferInv /\ CountsAreExact /\ OwnersInv

LEMMA OwnerSets ==
  /\ \A o : IsFiniteSet(Users(o)) /\ Cardinality(Users(o)) \in Nat
  /\ \A s : IsFiniteSet(OwnerTasks(s)) /\ Cardinality(OwnerTasks(s)) \in Nat
<1>1. \A o : Users(o) \subseteq Servers
  BY DEF Users
<1>2. \A s : OwnerTasks(s) \subseteq Tasks
  BY DEF OwnerTasks
<1> QED BY <1>1, <1>2, FiniteAssumption, FS_Subset, FS_CardinalityType

LEMMA OwnersUnchanged ==
  ASSUME UNCHANGED serverVars
  PROVE  /\ \A o : Users(o)' = Users(o)
         /\ \A s : OwnerTasks(s)' = OwnerTasks(s)
BY DEF serverVars, Users, OwnerTasks

LEMMA TypesAreTyped ==
  ASSUME IInv
  PROVE  /\ count \in [Objects -> Nat] /\ refs \in [Servers -> Nat]
         /\ uses \in [Servers -> SUBSET Objects] /\ task \in [Tasks -> Servers \cup {None}]
         /\ made \in SUBSET Objects /\ held \in SUBSET made
BY DEF IInv, TypeOK

LEMMA InitIInv == Init => IInv
<1> SUFFICES ASSUME Init PROVE IInv
  OBVIOUS
<1>1. \A o : Users(o) = {}
  BY DEF Init, Users
<1>2. \A s \in Servers : OwnerTasks(s) = {}
  BY ObjectAssumption DEF Init, OwnerTasks
<1>3. Cardinality({}) = 0
  BY FS_EmptySet
<1>4. CountsAreExact
  <2>1. \A o \in Objects : Cardinality(Users(o)) = 0 /\ count[o] = 0 /\ o \notin held
    BY <1>1, <1>3 DEF Init
  <2>2. \A s \in Servers :
          Cardinality(OwnerTasks(s)) = 0 /\ refs[s] = 0 /\ thread[s] # "running"
    BY <1>2, <1>3 DEF Init
  <2> QED BY <2>1, <2>2 DEF CountsAreExact, One
<1>5. OwnersInv
  BY <1>2 DEF Init, OwnersInv
<1>6. TypeOK
  BY NulAssumption DEF Init, TypeOK, Buffers
<1>7. BufferInv
  BY <1>6 DEF Init, BufferInv, TypeOK, TextIsWholeOrFull
<1> QED BY <1>4, <1>5, <1>6, <1>7 DEF IInv

(* A new object has one owner, and nobody has touched it before. *)
LEMMA NewObject ==
  ASSUME IInv, NEW o \in Objects, o \notin made,
         made' = made \cup {o}, held' = held \cup {o},
         count' = [count EXCEPT ![o] = 1], UNCHANGED <<serverVars, replyVars>>
  PROVE  IInv'
<1> USE TypesAreTyped, OwnersUnchanged, OwnerSets
<1>1. Users(o) = {}
  BY DEF IInv, OwnersInv, Users
<1>2. TypeOK'
  BY DEF IInv, TypeOK, serverVars, replyVars
<1>3. BufferInv'
  BY DEF IInv, BufferInv, TextIsWholeOrFull, replyVars
<1>4. OwnersInv'
  BY DEF IInv, OwnersInv, serverVars
<1>5. count'[o] = One(o \in held') + Cardinality(Users(o)')
  BY <1>1, FS_EmptySet DEF One
<1>6. ASSUME NEW p \in Objects, p # o
      PROVE  count'[p] = One(p \in held') + Cardinality(Users(p)')
  BY <1>6 DEF IInv, CountsAreExact
<1>7. CountsAreExact'
  BY <1>5, <1>6 DEF IInv, CountsAreExact, serverVars
<1> QED BY <1>2, <1>3, <1>4, <1>7 DEF IInv

LEMMA FreeStep ==
  ASSUME IInv, NEW o \in Objects, Free(o)
  PROVE  IInv'
<1> USE TypesAreTyped, OwnersUnchanged, OwnerSets
<1>1. count[o] = 1 + Cardinality(Users(o))
  BY DEF IInv, CountsAreExact, Free, One
<1>2. TypeOK'
  BY <1>1 DEF IInv, TypeOK, Free, serverVars, replyVars
<1>3. BufferInv'
  BY DEF IInv, BufferInv, TextIsWholeOrFull, Free, replyVars
<1>4. OwnersInv'
  BY DEF IInv, OwnersInv, Free, serverVars
<1>5. count'[o] = One(o \in held') + Cardinality(Users(o)')
  BY <1>1 DEF Free, One
<1>6. ASSUME NEW p \in Objects, p # o
      PROVE  count'[p] = One(p \in held') + Cardinality(Users(p)')
  BY <1>6 DEF IInv, CountsAreExact, Free
<1>7. CountsAreExact'
  BY <1>5, <1>6 DEF IInv, CountsAreExact, Free, serverVars
<1> QED BY <1>2, <1>3, <1>4, <1>7 DEF IInv

(* The calls that only borrow. *)
LEMMA BorrowStep ==
  ASSUME IInv, UNCHANGED <<objectVars, count, serverVars>>, BufferInv'
  PROVE  IInv'
<1> USE OwnersUnchanged
<1>1. TypeOK' /\ OwnersInv' /\ CountsAreExact'
  BY DEF IInv, TypeOK, OwnersInv, CountsAreExact, BufferInv, objectVars, serverVars
<1> QED BY <1>1 DEF IInv

LEMMA MatchStep ==
  ASSUME IInv, NEW o \in Routers, NEW method, NEW path, NEW size \in Sizes,
         Match(o, method, path, size)
  PROVE  IInv'
<1>1. BufferInv'
  <2>1. CASE Reply("ok", size)
    BY <2>1, ReplyPreserves DEF IInv, Kinds
  <2>2. CASE UNCHANGED out /\ said' = None
    BY <2>2 DEF IInv, BufferInv, TextIsWholeOrFull
  <2> QED BY <2>1, <2>2 DEF Match
<1> QED BY <1>1, BorrowStep DEF Match

LEMMA DispatchStep ==
  ASSUME IInv, NEW o \in Routers, NEW v, NEW method, NEW path,
         NEW verdict \in {"valid", "errors"}, NEW size \in Sizes,
         Dispatch(o, v, method, path, verdict, size)
  PROVE  IInv'
<1>1. PICK kind \in Kinds : Reply(kind, size)
  BY OutcomeKinds DEF Dispatch, Kinds
<1>2. BufferInv'
  BY <1>1, ReplyPreserves DEF IInv
<1> QED BY <1>2, BorrowStep DEF Dispatch

LEMMA ValidateStep ==
  ASSUME IInv, NEW v, NEW verdict \in {"valid", "errors"}, NEW size \in Sizes,
         Validate(v, verdict, size)
  PROVE  IInv'
<1>1. BufferInv'
  BY ReplyPreserves DEF IInv, Validate, Kinds
<1> QED BY <1>1, BorrowStep DEF Validate

LEMMA ListenStep ==
  ASSUME IInv, NEW s \in Servers, NEW os \in SUBSET Objects, Listen(s, os)
  PROVE  IInv'
<1> USE TypesAreTyped, OwnerSets
<1>1. /\ thread[s] = "none" /\ os \subseteq held
      /\ count'  = [o \in Objects |-> count[o] + (IF o \in os THEN 1 ELSE 0)]
      /\ uses'   = [uses EXCEPT ![s] = os]
      /\ refs'   = [refs EXCEPT ![s] = 1]
      /\ thread' = [thread EXCEPT ![s] = "running"]
      /\ UNCHANGED <<made, held, task, out, said>>
  BY DEF Listen, objectVars, replyVars
<1>2. OwnerTasks(s) = {}
  BY <1>1 DEF IInv, OwnersInv
<1>3. \A z : OwnerTasks(z)' = OwnerTasks(z)
  BY <1>1 DEF OwnerTasks
<1>4. refs[s] = 0
  BY <1>1, <1>2, FS_EmptySet DEF IInv, CountsAreExact, One
<1>5. TypeOK'
  BY <1>1 DEF IInv, TypeOK
<1>6. BufferInv'
  BY <1>1 DEF IInv, BufferInv, TextIsWholeOrFull
<1>7. OwnersInv'
  BY <1>1, <1>3 DEF IInv, OwnersInv, TypeOK
<1>8. ASSUME NEW o \in Objects
      PROVE  count'[o] = One(o \in held') + Cardinality(Users(o)')
  <2>1. count[o] = One(o \in held) + Cardinality(Users(o))
    BY DEF IInv, CountsAreExact
  <2>2. CASE o \in os
    <3>1. Users(o)' = Users(o) \cup {s} /\ s \notin Users(o)
      BY <1>1, <1>4, <2>2 DEF Users
    <3>2. Cardinality(Users(o)') = Cardinality(Users(o)) + 1
      BY <3>1, FS_AddElement
    <3>3. count'[o] = count[o] + 1 /\ held' = held
      BY <1>1, <2>2
    <3> QED BY <2>1, <3>2, <3>3 DEF One
  <2>3. CASE o \notin os
    <3>1. Users(o)' = Users(o)
      BY <1>1, <1>4, <2>3 DEF Users
    <3> QED BY <1>1, <2>1, <2>3, <3>1
  <2> QED BY <2>2, <2>3
<1>9. ASSUME NEW z \in Servers
      PROVE  refs'[z] = One(thread'[z] = "running") + Cardinality(OwnerTasks(z)')
  <2>1. CASE z = s
    BY <1>1, <1>2, <1>3, <2>1, FS_EmptySet DEF IInv, TypeOK, One
  <2>2. CASE z # s
    BY <1>1, <1>3, <2>2 DEF IInv, TypeOK, CountsAreExact
  <2> QED BY <2>1, <2>2
<1>10. CountsAreExact'
  BY <1>8, <1>9 DEF CountsAreExact
<1> QED BY <1>5, <1>6, <1>7, <1>10 DEF IInv

LEMMA AcceptStep ==
  ASSUME IInv, NEW s \in Servers, NEW k \in Tasks, Accept(s, k)
  PROVE  IInv'
<1> USE TypesAreTyped, OwnerSets
<1>1. /\ thread[s] = "running" /\ task[k] = None
      /\ task' = [task EXCEPT ![k] = s]
      /\ refs' = [refs EXCEPT ![s] = @ + 1]
      /\ UNCHANGED <<made, held, count, thread, uses, out, said>>
  BY DEF Accept, objectVars, replyVars
<1>2. None \notin Servers
  BY ObjectAssumption
<1>3. refs[s] > 0
  BY <1>1 DEF IInv, CountsAreExact, One
<1>4. \A o : Users(o)' = Users(o)
  BY <1>1, <1>3 DEF Users
<1>5. OwnerTasks(s)' = OwnerTasks(s) \cup {k} /\ k \notin OwnerTasks(s)
  BY <1>1, <1>2 DEF OwnerTasks
<1>6. \A z \in Servers : z # s => OwnerTasks(z)' = OwnerTasks(z)
  BY <1>1, <1>2 DEF OwnerTasks
<1>7. TypeOK'
  BY <1>1 DEF IInv, TypeOK
<1>8. BufferInv'
  BY <1>1 DEF IInv, BufferInv, TextIsWholeOrFull
<1>9. OwnersInv'
  BY <1>1, <1>6 DEF IInv, OwnersInv
<1>10. Cardinality(OwnerTasks(s)') = Cardinality(OwnerTasks(s)) + 1
  BY <1>5, FS_AddElement
<1>11. ASSUME NEW z \in Servers
       PROVE  refs'[z] = One(thread'[z] = "running") + Cardinality(OwnerTasks(z)')
  <2>1. refs[z] = One(thread[z] = "running") + Cardinality(OwnerTasks(z))
    BY DEF IInv, CountsAreExact
  <2>2. CASE z = s
    BY <1>1, <1>10, <2>1, <2>2 DEF One
  <2>3. CASE z # s
    BY <1>1, <1>6, <2>1, <2>3
  <2> QED BY <2>2, <2>3
<1>12. CountsAreExact'
  BY <1>1, <1>4, <1>11 DEF IInv, CountsAreExact
<1> QED BY <1>7, <1>8, <1>9, <1>12 DEF IInv

(* One owner of a state less: what it refers to loses a reference with the *)
(* last one.                                                               *)
LEMMA Dropping ==
  ASSUME IInv, NEW s \in Servers, refs[s] > 0, DropState(s), UNCHANGED <<held, uses>>
  PROVE  /\ refs' = [refs EXCEPT ![s] = refs[s] - 1] /\ refs' \in [Servers -> Nat]
         /\ count' \in [Objects -> Nat]
         /\ \A o \in Objects :
              count'[o] = One(o \in held') + Cardinality(Users(o)')
<1> USE TypesAreTyped, OwnerSets
<1>1. /\ refs' = [refs EXCEPT ![s] = refs[s] - 1]
      /\ refs' \in [Servers -> Nat]
      /\ count' = [o \in Objects |->
                     count[o] - (IF refs[s] = 1 /\ o \in uses[s] THEN 1 ELSE 0)]
  BY DEF DropState
<1>2. ASSUME NEW o \in Objects
      PROVE  /\ count'[o] = One(o \in held') + Cardinality(Users(o)')
             /\ count'[o] \in Nat
  <2>1. count[o] = One(o \in held) + Cardinality(Users(o))
    BY DEF IInv, CountsAreExact
  <2>2. CASE refs[s] = 1 /\ o \in uses[s]
    <3>1. Users(o)' = Users(o) \ {s} /\ s \in Users(o)
      BY <1>1, <2>2 DEF Users
    <3>2. Cardinality(Users(o)') = Cardinality(Users(o)) - 1 /\ Cardinality(Users(o)') \in Nat
      BY <3>1, FS_RemoveElement, FS_CardinalityType
    <3>3. count'[o] = count[o] - 1 /\ held' = held
      BY <1>1, <2>2
    <3> QED BY <2>1, <3>2, <3>3 DEF One
  <2>3. CASE ~ (refs[s] = 1 /\ o \in uses[s])
    <3>1. Users(o)' = Users(o)
      BY <1>1, <2>3 DEF Users
    <3> QED BY <1>1, <2>1, <2>3, <3>1
  <2> QED BY <2>2, <2>3
<1> QED BY <1>1, <1>2

LEMMA EndTaskStep ==
  ASSUME IInv, NEW k \in Tasks, NEW s, s = task[k], EndTask(k)
  PROVE  IInv'
<1> USE TypesAreTyped, OwnerSets
<1>1. /\ s \in Servers /\ DropState(s)
      /\ task' = [task EXCEPT ![k] = None]
      /\ UNCHANGED <<made, held, thread, uses, out, said>>
  BY DEF EndTask, objectVars, replyVars
<1>2. None \notin Servers
  BY ObjectAssumption
<1>3. OwnerTasks(s)' = OwnerTasks(s) \ {k} /\ k \in OwnerTasks(s)
  BY <1>1, <1>2 DEF OwnerTasks
<1>4. ASSUME NEW z \in Servers, z # s
      PROVE  OwnerTasks(z)' = OwnerTasks(z)
  <2>1. \A j \in Tasks : task'[j] = z <=> task[j] = z
    BY <1>1, <1>2, <1>4
  <2> QED BY <2>1 DEF OwnerTasks
<1>5. Cardinality(OwnerTasks(s)') = Cardinality(OwnerTasks(s)) - 1
  <2>1. IsFiniteSet(OwnerTasks(s))
    OBVIOUS
  <2>2. Cardinality(OwnerTasks(s) \ {k}) = Cardinality(OwnerTasks(s)) - 1
    BY <1>3, <2>1, FS_RemoveElement
  <2> QED BY <1>3, <2>2
<1>6. Cardinality(OwnerTasks(s)) > 0
  BY <1>3, FS_EmptySet
<1>7. refs[s] = One(thread[s] = "running") + Cardinality(OwnerTasks(s))
  BY <1>1 DEF IInv, CountsAreExact
<1>8. refs[s] > 0
  BY <1>6, <1>7 DEF One
<1>9. /\ refs' = [refs EXCEPT ![s] = refs[s] - 1] /\ refs' \in [Servers -> Nat]
      /\ count' \in [Objects -> Nat]
      /\ \A o \in Objects : count'[o] = One(o \in held') + Cardinality(Users(o)')
  BY <1>1, <1>8, Dropping
<1>10. TypeOK'
  BY <1>1, <1>9 DEF IInv, TypeOK
<1>11. BufferInv'
  BY <1>1 DEF IInv, BufferInv, TextIsWholeOrFull
<1>12. OwnersInv'
  BY <1>1, <1>3, <1>4 DEF IInv, OwnersInv
<1>13. ASSUME NEW z \in Servers
       PROVE  refs'[z] = One(thread'[z] = "running") + Cardinality(OwnerTasks(z)')
  <2>1. CASE z = s
    BY <1>1, <1>5, <1>7, <1>9, <2>1 DEF One
  <2>2. CASE z # s
    BY <1>1, <1>4, <1>9, <2>2 DEF IInv, CountsAreExact
  <2> QED BY <2>1, <2>2
<1>14. CountsAreExact'
  BY <1>9, <1>13 DEF CountsAreExact
<1> QED BY <1>10, <1>11, <1>12, <1>14 DEF IInv

LEMMA EndServerStep ==
  ASSUME IInv, NEW s \in Servers, EndServer(s)
  PROVE  IInv'
<1> USE TypesAreTyped, OwnerSets
<1>1. /\ thread[s] = "running" /\ DropState(s)
      /\ thread' = [thread EXCEPT ![s] = "ended"]
      /\ UNCHANGED <<made, held, uses, task, out, said>>
  BY DEF EndServer, objectVars, replyVars
<1>2. \A z : OwnerTasks(z)' = OwnerTasks(z)
  BY <1>1 DEF OwnerTasks
<1>3. refs[s] = 1 + Cardinality(OwnerTasks(s))
  BY <1>1 DEF IInv, CountsAreExact, One
<1>4. /\ refs' = [refs EXCEPT ![s] = refs[s] - 1] /\ refs' \in [Servers -> Nat]
      /\ count' \in [Objects -> Nat]
      /\ \A o \in Objects : count'[o] = One(o \in held') + Cardinality(Users(o)')
  BY <1>1, <1>3, Dropping
<1>5. TypeOK'
  BY <1>1, <1>4 DEF IInv, TypeOK
<1>6. BufferInv'
  BY <1>1 DEF IInv, BufferInv, TextIsWholeOrFull
<1>7. OwnersInv'
  BY <1>1, <1>2 DEF IInv, OwnersInv, TypeOK
<1>8. ASSUME NEW z \in Servers
      PROVE  refs'[z] = One(thread'[z] = "running") + Cardinality(OwnerTasks(z)')
  <2>1. CASE z = s
    BY <1>1, <1>2, <1>3, <1>4, <2>1 DEF IInv, TypeOK, One
  <2>2. CASE z # s
    BY <1>1, <1>2, <1>4, <2>2 DEF IInv, TypeOK, CountsAreExact
  <2> QED BY <2>1, <2>2
<1>9. CountsAreExact'
  BY <1>4, <1>8 DEF CountsAreExact
<1> QED BY <1>5, <1>6, <1>7, <1>9 DEF IInv

LEMMA NextIInv == IInv /\ [Next]_vars => IInv'
<1> SUFFICES ASSUME IInv, [Next]_vars PROVE IInv'
  OBVIOUS
<1>1. CASE Php
  <2>1. ASSUME NEW o \in Routers, NEW m \in Manifests, Build(o, m)
        PROVE  IInv'
    BY <2>1, NewObject DEF Build, Objects
  <2>2. ASSUME NEW o \in Registries, New(o)
        PROVE  IInv'
    BY <2>2, NewObject DEF New, Objects
  <2> QED BY <1>1, <2>1, <2>2, FreeStep, MatchStep, DispatchStep, ValidateStep,
             ListenStep DEF Php
<1>2. CASE \E s \in Servers : EndServer(s) \/ \E k \in Tasks : Accept(s, k)
  BY <1>2, EndServerStep, AcceptStep
<1>3. CASE \E k \in Tasks : EndTask(k)
  BY <1>3, EndTaskStep
<1>4. CASE UNCHANGED vars
  BY <1>4, BorrowStep DEF vars, objectVars, serverVars, replyVars, IInv, BufferInv,
     TextIsWholeOrFull
<1> QED BY <1>1, <1>2, <1>3, <1>4 DEF Next

LEMMA Invariant == Spec => []IInv
BY InitIInv, NextIInv, PTL DEF Spec

(* The types of the variables: no count ever goes below zero.              *)
THEOREM TypeCorrect == Spec => []TypeOK
<1>1. IInv => TypeOK
  BY DEF IInv
<1> QED BY <1>1, Invariant, PTL

(* No call of the FFI, no server and no connection leaks a reference or    *)
(* drops one that is not its own.                                          *)
THEOREM CountsExact == Spec => []CountsAreExact
<1>1. IInv => CountsAreExact
  BY DEF IInv
<1> QED BY <1>1, Invariant, PTL

(* However PHP orders its frees, and however long connections stay after a *)
(* server's thread has ended, no router or registry is used after it was   *)
(* released.                                                               *)
THEOREM UsedBeforeFree == Spec => []NothingUsedAfterFree
<1>1. ASSUME IInv PROVE NothingUsedAfterFree
  <2> USE TypesAreTyped, OwnerSets, <1>1
  <2>1. ASSUME NEW o \in held
        PROVE  count[o] > 0
    BY DEF IInv, CountsAreExact, One
  <2>2. ASSUME NEW s \in Servers, thread[s] = "running" \/ OwnerTasks(s) # {},
               NEW o \in uses[s]
        PROVE  count[o] > 0
    <3>1. OwnerTasks(s) # {} => Cardinality(OwnerTasks(s)) > 0
      BY FS_EmptySet
    <3>2. refs[s] = One(thread[s] = "running") + Cardinality(OwnerTasks(s))
      BY DEF IInv, CountsAreExact
    <3>3. refs[s] > 0
      BY <2>2, <3>1, <3>2 DEF One
    <3>4. s \in Users(o)
      BY <3>3 DEF Users
    <3>5. Cardinality(Users(o)) > 0
      BY <3>4, FS_EmptySet
    <3>6. o \in Objects /\ count[o] = One(o \in held) + Cardinality(Users(o))
      BY DEF IInv, CountsAreExact
    <3> QED BY <3>5, <3>6 DEF One
  <2> QED BY <2>1, <2>2 DEF NothingUsedAfterFree
<1> QED BY <1>1, Invariant, PTL

(* Whatever the calls before wrote, PHP never reads a byte of an older     *)
(* reply, or past the end of its buffer.                                   *)
THEOREM TextWhole == Spec => []TextIsWholeOrFull
<1>1. IInv => TextIsWholeOrFull
  BY DEF IInv, BufferInv
<1> QED BY <1>1, Invariant, PTL

-----------------------------------------------------------------------------
(* A router never changes after it was built, whatever is freed. *)
RoutersInv == /\ manifest \in [Routers -> Seq(RouteEntry)]
              /\ table = [o \in Routers |-> NewRouter(manifest[o])]

LEMMA InitRouters == Init => RoutersInv
<1> SUFFICES ASSUME Init PROVE RoutersInv
  OBVIOUS
<1>1. <<>> \in Seq(RouteEntry) /\ DOMAIN <<>> = 1 .. 0
  OBVIOUS
<1>2. NewRouter(<<>>) = TableOf(<<>>, DOMAIN <<>>)
  BY <1>1, RouterTable
<1>3. DOMAIN <<>> = {}
  BY <1>1
<1>4. NewRouter(<<>>) = EmptyTree
  BY <1>2, <1>3, NoRoutes
<1> QED BY <1>1, <1>4 DEF Init, RoutersInv

LEMMA NextRouters == RoutersInv /\ [Next]_vars => RoutersInv'
<1> SUFFICES ASSUME RoutersInv, [Next]_vars PROVE RoutersInv'
  OBVIOUS
<1>1. CASE UNCHANGED <<manifest, table>>
  BY <1>1 DEF RoutersInv
<1>2. ASSUME NEW o \in Routers, NEW m \in Manifests, Build(o, m)
      PROVE  RoutersInv'
  <2>1. m \in Seq(RouteEntry)
    BY ManifestAssumption
  <2> QED BY <1>2, <2>1 DEF Build, RoutersInv
<1>3. CASE Php
  BY <1>1, <1>2, <1>3 DEF Php, New, Free, Match, Dispatch, Validate, Listen, objectVars
<1>4. CASE \E s \in Servers : EndServer(s) \/ \E k \in Tasks : Accept(s, k)
  BY <1>1, <1>4 DEF EndServer, Accept, objectVars
<1>5. CASE \E k \in Tasks : EndTask(k)
  BY <1>1, <1>5 DEF EndTask, objectVars
<1>6. CASE UNCHANGED vars
  BY <1>1, <1>6 DEF vars
<1> QED BY <1>3, <1>4, <1>5, <1>6 DEF Next

(* Every router that PHP built answers as its manifest asks, for every     *)
(* manifest that parses and every path.                                    *)
THEOREM RoutersMatch == Spec => []RoutesMatchManifest
<1>1. ASSUME RoutersInv, NEW o \in made \cap Routers, NEW method \in Methods,
             NEW path \in Paths
      PROVE  IsAnswer(manifest[o], method, path, MatchRoute(table[o], method, path))
  <2>1. manifest[o] \in Seq(RouteEntry) /\ table[o] = NewRouter(manifest[o])
    BY <1>1 DEF RoutersInv
  <2>2. path \in Seq(Segments)
    BY PathAssumption
  <2> QED BY <2>1, <2>2, RoutesAnswer
<1>2. RoutersInv => RoutesMatchManifest
  BY <1>1 DEF RoutesMatchManifest
<1> QED BY <1>2, InitRouters, NextRouters, PTL DEF Spec
============================================================================
