----------------------------- MODULE FamilyProofs ------------------------------
(***************************************************************************)
(* The proofs for the benchmark families that are no graphs: what each     *)
(* derives is what its independent reference derives.                      *)
(***************************************************************************)
EXTENDS OrderingProofs, RetryMachine, BatchRename, ProcessDelta, RepairPlan,
        HardlinkMirror, SnapshotArchive

(***************************************************************************)
(* Sequences, and concatenations of sequences.                             *)
(***************************************************************************)
(* One more of a sequence's first elements. *)
LEMMA OneMore ==
  ASSUME NEW T, NEW s \in Seq(T), NEW k \in 1 .. Len(s)
  PROVE  /\ SubSeq(s, 1, k - 1) \in Seq(T)
         /\ s[k] \in T
         /\ SubSeq(s, 1, k) = Append(SubSeq(s, 1, k - 1), s[k])
<1> DEFINE a == SubSeq(s, 1, k - 1)
           b == SubSeq(s, 1, k)
<1>1. k \in Nat /\ k - 1 \in Nat /\ k <= Len(s) /\ Len(s) \in Nat /\ k >= 1
  OBVIOUS
<1>2. a \in Seq(T) /\ Len(a) = k - 1 /\ \A i \in 1 .. k - 1 : a[i] = s[i]
  BY <1>1, SubSeqProperties
<1>3. b \in Seq(T) /\ Len(b) = k /\ \A i \in 1 .. k : b[i] = s[i]
  BY <1>1, SubSeqProperties
<1>4. s[k] \in T
  BY <1>1, ElementOfSeq
<1> HIDE DEF a, b
<1>5. Append(a, s[k]) \in Seq(T) /\ Len(Append(a, s[k])) = k
      /\ \A i \in 1 .. k : Append(a, s[k])[i] = s[i]
  BY <1>1, <1>2, <1>4
<1>6. b = Append(a, s[k])
  BY <1>1, <1>3, <1>5, SeqEqual
<1> QED
  BY <1>2, <1>4, <1>6 DEF a, b

(* No element, and all. *)
LEMMA NoneAll ==
  ASSUME NEW T, NEW s \in Seq(T)
  PROVE  SubSeq(s, 1, 0) = <<>> /\ SubSeq(s, 1, Len(s)) = s
<1>1. Len(s) \in Nat
  OBVIOUS
<1>2. SubSeq(s, 1, 0) = <<>>
  BY SubSeqEmpty
<1>3. SubSeq(s, 1, Len(s)) = s
  BY SubSeqFull
<1> QED
  BY <1>2, <1>3

(* What a flattened sequence holds. *)
Holds(s, x) == \E i \in 1 .. Len(s) : s[i] = x

(* A concatenation holds what its lists hold. *)
LEMMA FlattenHolds ==
  ASSUME NEW T, NEW ss \in Seq(Lists(T))
  PROVE  /\ FlattenSeq(ss) \in Lists(T)
         /\ \A x \in T : Holds(FlattenSeq(ss), x) <=> \E k \in 1 .. Len(ss) : Holds(ss[k], x)
<1> DEFINE N == Len(ss)
           upto(k) == SubSeq(ss, 1, k)
           Right(k) == \A x \in T : Holds(FlattenSeq(upto(k)), x)
                                      <=> \E j \in 1 .. k : Holds(ss[j], x)
           good == {k \in 0 .. N : Right(k)}
<1>1. N \in Nat
  OBVIOUS
<1>2. 0 \in good
  <2>1. FlattenSeq(upto(0)) = <<>>
    BY NoneAll, FlattenEmpty, Zenon
  <2>2. \A x \in T : ~Holds(<<>>, x)
    BY DEF Holds
  <2>3. Right(0)
    BY <2>1, <2>2
  <2> QED
    BY <1>1, <2>3
<1>3. ASSUME NEW k \in 1 .. N, k - 1 \in good PROVE k \in good
  <2> DEFINE a == upto(k - 1)
  <2>1. a \in Seq(Lists(T)) /\ ss[k] \in Lists(T) /\ upto(k) = Append(a, ss[k])
    BY OneMore
  <2>2. FlattenSeq(upto(k)) = FlattenSeq(a) \o ss[k] /\ FlattenSeq(a) \in Lists(T)
    BY <2>1, FlattenAppend, FlattenType
  <2>3. Right(k - 1)
    BY <1>3
  <2> DEFINE u == FlattenSeq(a)
             v == ss[k]
  <2>4. u \in Seq(T) /\ v \in Seq(T)
    BY <2>1, <2>2 DEF Lists
  <2> HIDE DEF u, v
  <2>5. \A x \in T : Holds(u \o v, x) <=> Holds(u, x) \/ Holds(v, x)
    <3>1. ASSUME NEW x \in T, NEW i \in 1 .. Len(u \o v), (u \o v)[i] = x
          PROVE  Holds(u, x) \/ Holds(v, x)
      <4>1. CASE i <= Len(u)
        BY <2>4, <3>1, <4>1 DEF Holds
      <4>2. CASE i > Len(u)
        <5>1. i - Len(u) \in 1 .. Len(v) /\ v[i - Len(u)] = x
          BY <2>4, <3>1, <4>2
        <5> QED
          BY <5>1 DEF Holds
      <4> QED
        BY <2>4, <4>1, <4>2
    <3>2. ASSUME NEW x \in T, NEW i \in 1 .. Len(u), u[i] = x PROVE Holds(u \o v, x)
      <4>1. i \in 1 .. Len(u \o v) /\ (u \o v)[i] = x
        BY <2>4, <3>2
      <4> QED
        BY <4>1 DEF Holds
    <3>3. ASSUME NEW x \in T, NEW i \in 1 .. Len(v), v[i] = x PROVE Holds(u \o v, x)
      <4>1. Len(u) + i \in 1 .. Len(u \o v) /\ (u \o v)[Len(u) + i] = x
        BY <2>4, <3>3
      <4> QED
        BY <4>1 DEF Holds
    <3> QED
      BY <3>1, <3>2, <3>3 DEF Holds
  <2>6. \A x \in T : Holds(FlattenSeq(upto(k)), x)
                       <=> (\E j \in 1 .. k - 1 : Holds(ss[j], x)) \/ Holds(ss[k], x)
    BY <2>2, <2>3, <2>5, Zenon DEF u, v
  <2>7. 1 .. k = (1 .. k - 1) \cup {k}
    OBVIOUS
  <2>8. Right(k)
    BY <2>6, <2>7, Zenon
  <2>9. k \in 0 .. N
    OBVIOUS
  <2> QED
    BY <2>8, <2>9
<1> HIDE DEF good
<1>4. N \in good
  <2> HIDE DEF N
  <2>1. \A k \in 1 .. N : k - 1 \in good => k \in good
    BY <1>3
  <2>2. 0 .. N \subseteq good
    BY <1>1, <1>2, <2>1, Induction
  <2> QED
    BY <1>1, <2>2
<1>5. Right(N) /\ upto(N) = ss
  BY <1>4, NoneAll DEF good
<1> QED
  BY <1>5, FlattenType

(***************************************************************************)
(* RepairPlan: RepairRight.                                                *)
(***************************************************************************)
(* A tree of assets. *)
Assets ==
  UNION {[D -> {Link} \cup {File(d, r) : d \in Digests, r \in BOOLEAN}] : D \in SUBSET Paths}

(* The order of a manifest's rows: their places in it break ties. *)
RowBefore(x, y) == \/ PathBefore(x.path, y.path)
                   \/ x.path = y.path /\ x.declared < y.declared
RowsBefore(s) ==
  {p \in (DOMAIN s) \X (DOMAIN s) :
     \/ RowBefore(s[p[1]], s[p[2]])
     \/ ~RowBefore(s[p[2]], s[p[1]]) /\ p[1] < p[2]}

(* The order of two rows. *)
LEMMA RowsRelated ==
  ASSUME NEW s, NEW i \in DOMAIN s, NEW j \in DOMAIN s
  PROVE  <<i, j>> \in RowsBefore(s)
           <=> RowBefore(s[i], s[j]) \/ (~RowBefore(s[j], s[i]) /\ i < j)
  BY DEF RowsBefore

(* Ties are broken by place, so that all rows are ordered. *)
LEMMA RowsOrdered ==
  ASSUME NEW s \in Seq(ManifestRecord)
  PROVE  Ordering(DOMAIN s, RowsBefore(s))
<1> DEFINE D == DOMAIN s
           R == RowsBefore(s)
           b(i, j) == RowBefore(s[i], s[j])
<1>1. D \subseteq Nat /\ \A i \in D : s[i].path \in Paths /\ s[i].declared \in Nat
  <2>1. \A i \in D : s[i] \in ManifestRecord
    OBVIOUS
  <2>2. Digests \subseteq Nat
    BY RepairAssumption
  <2>3. D \subseteq Nat
    OBVIOUS
  <2> QED
    BY <2>1, <2>2, <2>3 DEF ManifestRecord
<1>2. \A i, j \in D : <<i, j>> \in R <=> b(i, j) \/ (~b(j, i) /\ i < j)
  BY RowsRelated
<1>3. /\ \A i \in D : ~b(i, i)
      /\ \A i, j, k \in D : b(i, j) /\ b(j, k) => b(i, k)
      /\ \A i, j \in D : b(i, j) => ~b(j, i)
      /\ \A i, j, k \in D : b(i, k) => b(i, j) \/ b(j, k)
  <2> DEFINE P == Paths
  <2>1. /\ \A p \in Paths : ~PathBefore(p, p)
        /\ \A p, q, r \in Paths : PathBefore(p, q) /\ PathBefore(q, r) => PathBefore(p, r)
        /\ \A p, q \in Paths : p = q \/ PathBefore(p, q) \/ PathBefore(q, p)
    BY RepairAssumption
  <2>2. \A i \in D : ~b(i, i)
    BY <1>1, <2>1 DEF RowBefore
  <2>3. ASSUME NEW i \in D, NEW j \in D, NEW k \in D, b(i, j), b(j, k) PROVE b(i, k)
    BY <1>1, <2>1, <2>3 DEF RowBefore
  <2>4. ASSUME NEW i \in D, NEW j \in D, b(i, j) PROVE ~b(j, i)
    BY <2>2, <2>3, <2>4
  <2>5. ASSUME NEW i \in D, NEW j \in D, NEW k \in D, b(i, k) PROVE b(i, j) \/ b(j, k)
    <3>1. \A x, y \in D : b(x, y) \/ b(y, x)
                            \/ (s[x].path = s[y].path /\ s[x].declared = s[y].declared)
      BY <1>1, <2>1 DEF RowBefore
    <3>2. CASE b(i, j)
      BY <3>2
    <3>3. CASE b(j, i)
      BY <2>3, <2>5, <3>3
    <3>4. CASE s[i].path = s[j].path /\ s[i].declared = s[j].declared
      BY <2>5, <3>4 DEF RowBefore
    <3> QED
      BY <3>1, <3>2, <3>3, <3>4
  <2> QED
    BY <2>2, <2>3, <2>4, <2>5, Zenon
<1> HIDE DEF b, R
<1>4. \A x \in D : <<x, x>> \notin R
  BY <1>1, <1>2, <1>3
<1>5. ASSUME NEW x \in D, NEW y \in D, NEW z \in D, <<x, y>> \in R, <<y, z>> \in R
      PROVE  <<x, z>> \in R
  <2>1. x \in Nat /\ y \in Nat /\ z \in Nat
    BY <1>1
  <2> QED
    BY <1>2, <1>3, <1>5, <2>1
<1>6. ASSUME NEW x \in D, NEW y \in D PROVE x = y \/ <<x, y>> \in R \/ <<y, x>> \in R
  <2>1. x \in Nat /\ y \in Nat
    BY <1>1
  <2> QED
    BY <1>2, <2>1
<1> QED
  BY <1>4, <1>5, <1>6 DEF Ordering, R

(* A sorted manifest holds the same records. *)
LEMMA SortedHolds ==
  ASSUME NEW s \in Seq(ManifestRecord)
  PROVE  /\ Sorted(s) \in Seq(ManifestRecord) /\ DOMAIN Sorted(s) = DOMAIN s
         /\ \A i \in DOMAIN s : \E k \in DOMAIN s : s[k] = Sorted(s)[i]
         /\ \A i \in DOMAIN s : \E k \in DOMAIN s : Sorted(s)[k] = s[i]
<1> DEFINE D == DOMAIN s
           R == RowsBefore(s)
           place == Ranked(D, LAMBDA i, j :
                      \/ RowBefore(s[i], s[j])
                      \/ ~RowBefore(s[j], s[i]) /\ i < j)
<1>1. D = 1 .. Len(s) /\ Len(s) \in Nat /\ IsFiniteSet(D) /\ Cardinality(D) = Len(s)
  <2>1. D = 1 .. Len(s) /\ Len(s) \in Nat /\ 1 \in Int /\ Len(s) \in Int
    OBVIOUS
  <2>2. IsFiniteSet(1 .. Len(s))
          /\ Cardinality(1 .. Len(s)) = IF 1 > Len(s) THEN 0 ELSE Len(s) - 1 + 1
    BY <2>1, FS_Interval
  <2> QED
    BY <2>1, <2>2
<1>2. Ordering(D, R)
  BY RowsOrdered
<1>3. Ranks(place, D, R)
  <2> DEFINE B(i, j) == RowBefore(s[i], s[j]) \/ (~RowBefore(s[j], s[i]) /\ i < j)
  <2>1. \A x \in D : {y \in D : B(y, x)} = Ahead(D, R, x)
    BY RowsRelated DEF Ahead
  <2>2. place = [k \in 1 .. Cardinality(D) |->
                   CHOOSE x \in D : Cardinality({y \in D : B(y, x)}) = k - 1]
    BY DEF Ranked
  <2> HIDE DEF B, place, D, R
  <2>3. ASSUME NEW k \in 1 .. Cardinality(D)
        PROVE  place[k] \in D /\ Cardinality(Ahead(D, R, place[k])) = k - 1
    <3>1. PICK w \in D : Cardinality(Ahead(D, R, w)) = k - 1
      BY <1>1, <1>2, RankTaken
    <3>4. Cardinality({y \in D : B(y, w)}) = k - 1
      BY <2>1, <3>1
    <3>2. place[k] = CHOOSE x \in D : Cardinality({y \in D : B(y, x)}) = k - 1
      BY <2>2
    <3>3. place[k] \in D /\ Cardinality({y \in D : B(y, place[k])}) = k - 1
      BY <3>2, <3>4
    <3> QED
      BY <2>1, <3>3
  <2> DEFINE e(k) == CHOOSE z \in D : Cardinality({y \in D : B(y, z)}) = k - 1
  <2>4. place = [k \in 1 .. Cardinality(D) |-> e(k)]
    BY <2>2
  <2> HIDE DEF e
  <2>5. place = [k \in 1 .. Cardinality(D) |-> place[k]]
    BY <2>4
  <2> QED
    BY <2>3, <2>5 DEF Ranks
<1>4. InOrder(place, D, R)
  BY <1>1, <1>2, <1>3, PlacesInOrder
<1>5. Sorted(s) = [k \in D |-> s[place[k]]]
  BY DEF Sorted, RowBefore
<1> HIDE DEF place, D, R
<1>6. /\ \A k \in D : place[k] \in D
      /\ \A x \in D : \E k \in D : place[k] = x
  <2>1. /\ place \in Seq(D) /\ Len(place) = Len(s)
        /\ \A x \in D : \E k \in 1 .. Len(place) : place[k] = x
    BY <1>1, <1>4 DEF InOrder
  <2>2. \A k \in 1 .. Len(place) : place[k] \in D
    BY <2>1, ElementOfSeq
  <2> QED
    BY <1>1, <2>1, <2>2
<1>7. \A k \in D : s[k] \in ManifestRecord
  BY DEF D
<1> DEFINE z == Sorted(s)
<1>8. z \in [1 .. Len(s) -> ManifestRecord]
  BY <1>1, <1>5, <1>6, <1>7
<1>9. z \in Seq(ManifestRecord) /\ DOMAIN z = D
  BY <1>1, <1>8
<1>10. \A i \in D : \E k \in D : s[k] = z[i]
  BY <1>5, <1>6
<1>11. \A i \in D : \E k \in D : z[k] = s[i]
  <2>1. SUFFICES ASSUME NEW i \in D PROVE \E k \in D : z[k] = s[i]
    OBVIOUS
  <2>2. PICK k \in D : place[k] = i
    BY <1>6
  <2> QED
    BY <1>5, <2>2
<1> QED
  BY <1>9, <1>10, <1>11 DEF D

Statuses == {"symlink", "unreadable", "ok", "checksum-mismatch", "directory", "missing"}

(* What an asset is. *)
LEMMA AssetIs ==
  ASSUME NEW tree \in Assets, NEW p \in DOMAIN tree
  PROVE  /\ tree[p] \in {Link} \cup {File(d, r) : d \in Digests, r \in BOOLEAN}
         /\ \/ tree[p].kind = "symlink"
            \/ tree[p].kind = "file" /\ tree[p].readable \in BOOLEAN /\ tree[p].content \in Digests
<1>1. PICK D \in SUBSET Paths :
        tree \in [D -> {Link} \cup {File(d, r) : d \in Digests, r \in BOOLEAN}]
  BY DEF Assets
<1>2. tree[p] \in {Link} \cup {File(d, r) : d \in Digests, r \in BOOLEAN}
  BY <1>1
<1>3. CASE tree[p] = Link
  BY <1>2, <1>3 DEF Link
<1>4. CASE \E d \in Digests, r \in BOOLEAN : tree[p] = File(d, r)
  BY <1>2, <1>4 DEF File
<1> QED
  BY <1>2, <1>3, <1>4

(* The two classifications agree. *)
LEMMA ClassifyAgrees ==
  ASSUME NEW tree \in Assets, NEW r
  PROVE  ReferenceClassify(r, tree) = Classify(r, tree)
<1> DEFINE p == r.path
           links == {q \in DOMAIN tree : tree[q].kind = "symlink"}
           files == {q \in DOMAIN tree : tree[q].kind = "file" /\ q = r.path}
<1>1. CASE p \notin DOMAIN tree
  <2>1. p \notin links /\ files = {}
    BY <1>1
  <2> QED
    BY <1>1, <2>1 DEF ReferenceClassify, Classify
<1>2. CASE p \in DOMAIN tree /\ tree[p].kind = "symlink"
  <2>1. p \in links
    BY <1>2
  <2> QED
    BY <1>2, <2>1 DEF ReferenceClassify, Classify
<1>3. CASE p \in DOMAIN tree /\ tree[p].kind = "file"
  <2>1. p \notin links /\ files = {p}
    BY <1>3
  <2>2. (CHOOSE q \in files : TRUE) = p
    BY <2>1
  <2>3. ReferenceClassify(r, tree)
          = IF ~tree[p].readable THEN Classified("unreadable", NoDigest)
            ELSE Classified(IF tree[p].content = r.declared THEN "ok"
                            ELSE "checksum-mismatch", tree[p].content)
    BY <2>1, <2>2 DEF ReferenceClassify
  <2>4. Classify(r, tree)
          = IF ~tree[p].readable THEN Classified("unreadable", NoDigest)
            ELSE Classified(IF tree[p].content = r.declared THEN "ok"
                            ELSE "checksum-mismatch", tree[p].content)
    BY <1>3 DEF Classify
  <2> QED
    BY <2>3, <2>4
<1> QED
  BY <1>1, <1>2, <1>3, AssetIs

(* What a classification says. *)
LEMMA ClassifySays ==
  ASSUME NEW tree \in Assets, NEW r
  PROVE  /\ Classify(r, tree).status \in Statuses
         /\ Classify(r, tree).status \in {"ok", "checksum-mismatch"} =>
              /\ r.path \in DOMAIN tree /\ tree[r.path].kind # "symlink"
              /\ tree[r.path].readable
              /\ Classify(r, tree).actual = tree[r.path].content
              /\ Classify(r, tree).status = "ok" <=> tree[r.path].content = r.declared
         /\ /\ r.path \in DOMAIN tree /\ tree[r.path].kind # "symlink"
            /\ tree[r.path].readable
            => Classify(r, tree).status \in {"ok", "checksum-mismatch"}
         /\ Classify(r, tree).status = "missing" => r.path \notin DOMAIN tree
         /\ r.path \notin DOMAIN tree => Classify(r, tree).status \in {"missing", "directory"}
<1>1. CASE r.path \notin DOMAIN tree
  BY <1>1 DEF Classify, Classified, Statuses
<1>2. CASE r.path \in DOMAIN tree /\ tree[r.path].kind = "symlink"
  BY <1>2 DEF Classify, Classified, Statuses
<1>3. CASE r.path \in DOMAIN tree /\ tree[r.path].kind # "symlink"
  <2>1. CASE ~tree[r.path].readable
    BY <1>3, <2>1 DEF Classify, Classified, Statuses
  <2>2. CASE tree[r.path].readable /\ tree[r.path].content = r.declared
    BY <1>3, <2>2 DEF Classify, Classified, Statuses
  <2>3. CASE tree[r.path].readable /\ tree[r.path].content # r.declared
    BY <1>3, <2>3 DEF Classify, Classified, Statuses
  <2> QED
    BY <2>1, <2>2, <2>3
<1> QED
  BY <1>1, <1>2, <1>3

(* The same asset and the same record give the same classification. *)
LEMMA SameClass ==
  ASSUME NEW tree \in Assets, NEW other \in Assets, NEW r,
         r.path \in DOMAIN tree, r.path \in DOMAIN other, other[r.path] = tree[r.path]
  PROVE  Classify(r, other) = Classify(r, tree)
BY DEF Classify

(* The action of the reference. *)
LEMMA ActionAgrees ==
  ASSUME NEW c, c.status \in Statuses, NEW p, NEW policy \in RepairPolicies,
         NEW bad \in BOOLEAN, NEW worse \in BOOLEAN,
         policy = "strict-reject" => (bad <=> worse)
  PROVE  ReferenceAction(c, p, policy, worse) = ActionFor(c, p, policy, bad)
<1>1. CASE policy = "report-only"
  BY <1>1 DEF ReferenceAction, ActionFor, Targeted
<1>2. CASE policy = "strict-reject" /\ worse
  BY <1>2 DEF ReferenceAction, ActionFor, Targeted
<1>3. CASE policy = "strict-reject" /\ ~worse
  BY <1>3 DEF ReferenceAction, ActionFor, Targeted
<1>4. CASE policy \in Targeted /\ c.status = "ok"
  BY <1>4 DEF ReferenceAction, ActionFor, Targeted
<1>5. CASE policy \in Targeted /\ c.status = "checksum-mismatch"
  BY <1>5 DEF ReferenceAction, ActionFor, Targeted
<1>6. CASE policy \in Targeted /\ c.status = "missing"
  BY <1>6 DEF ReferenceAction, ActionFor, Targeted
<1>7. CASE policy \in Targeted /\ c.status \in {"symlink", "unreadable", "directory"}
  BY <1>7 DEF ReferenceAction, ActionFor, Targeted
<1> QED
  BY <1>1, <1>2, <1>3, <1>4, <1>5, <1>6, <1>7 DEF RepairPolicies, Statuses

(* What an action is. *)
LEMMA ActionSays ==
  ASSUME NEW c, c.status \in Statuses, NEW p, NEW policy \in RepairPolicies, NEW bad \in BOOLEAN
  PROVE  LET a == ActionFor(c, p, policy, bad)
         IN /\ a[1] = "drop-record" <=> policy = "drop-missing" /\ c.status = "missing"
            /\ a[1] = "quarantine-asset"
                 <=> policy = "quarantine-mismatch" /\ c.status = "checksum-mismatch"
            /\ a[1] = "replace-digest"
                 <=> policy = "replace-digest" /\ c.status = "checksum-mismatch"
            /\ a[1] = "replace-digest" => a[2] = c.actual
            /\ policy \in Targeted /\ a[1] # "unresolved" /\ c.status # "ok"
                 => a[1] \in Proposals
<1> DEFINE a == ActionFor(c, p, policy, bad)
<1>1. CASE policy = "report-only"
  BY <1>1 DEF ActionFor, Targeted, Proposals
<1>2. CASE policy = "strict-reject"
  BY <1>2 DEF ActionFor, Targeted, Proposals
<1>4. CASE policy \in Targeted /\ c.status = "ok"
  BY <1>4 DEF ActionFor, Targeted, Proposals
<1>5. CASE policy \in Targeted /\ c.status = "checksum-mismatch"
  BY <1>5 DEF ActionFor, Targeted, Proposals
<1>6. CASE policy \in Targeted /\ c.status = "missing"
  BY <1>6 DEF ActionFor, Targeted, Proposals
<1>7. CASE policy \in Targeted /\ c.status \in {"symlink", "unreadable", "directory"}
  BY <1>7 DEF ActionFor, Targeted, Proposals
<1> QED
  BY <1>1, <1>2, <1>4, <1>5, <1>6, <1>7 DEF RepairPolicies, Statuses

(* The two derivations agree. *)
LEMMA DerivationsAgree ==
  ASSUME NEW s \in Seq(ManifestRecord), NEW tree \in Assets, NEW policy \in RepairPolicies
  PROVE  DerivePlan(s, tree, policy) = ReferenceRepair(s, tree, policy)
<1> DEFINE z == Sorted(s)
           bad == \E i \in DOMAIN z : Classify(z[i], tree).status # "ok"
           worse == policy = "strict-reject"
                      /\ \E i \in DOMAIN z : ReferenceClassify(z[i], tree).status # "ok"
           one == [i \in DOMAIN z |->
                     PlanEntry(z[i], Classify(z[i], tree),
                       ActionFor(Classify(z[i], tree), z[i].path, policy, bad))]
           two == [i \in DOMAIN z |->
                     PlanEntry(z[i], ReferenceClassify(z[i], tree),
                       ReferenceAction(ReferenceClassify(z[i], tree), z[i].path, policy, worse))]
<1>1. \A i \in DOMAIN z : ReferenceClassify(z[i], tree) = Classify(z[i], tree)
  BY ClassifyAgrees
<1>2. bad \in BOOLEAN /\ worse \in BOOLEAN /\ (policy = "strict-reject" => (bad <=> worse))
  BY <1>1
<1>3. DerivePlan(s, tree, policy) = Planned(one, policy)
  BY DEF DerivePlan
<1>4. ReferenceRepair(s, tree, policy) = Planned(two, policy)
  BY DEF ReferenceRepair
<1> HIDE DEF z, bad, worse
<1>5. ASSUME NEW i \in DOMAIN z PROVE one[i] = two[i]
  <2> DEFINE c == Classify(z[i], tree)
  <2>1. c.status \in Statuses /\ ReferenceClassify(z[i], tree) = c
    BY <1>1, ClassifySays
  <2> HIDE DEF c
  <2>2. ReferenceAction(c, z[i].path, policy, worse) = ActionFor(c, z[i].path, policy, bad)
    BY <1>2, <2>1, ActionAgrees
  <2> QED
    BY <2>1, <2>2 DEF c
<1>6. one = two
  BY <1>5
<1> QED
  BY <1>3, <1>4, <1>6

(* A plan has an entry for each record. *)
LEMMA PlanSays ==
  ASSUME NEW s \in Seq(ManifestRecord), NEW tree \in Assets, NEW policy \in RepairPolicies
  PROVE  LET plan_ == DerivePlan(s, tree, policy)
             e == plan_.entries
         IN /\ DOMAIN e = DOMAIN s
            /\ plan_.state = PlanState(e, policy)
            /\ \E bad \in BOOLEAN : \A i \in DOMAIN e :
                 \E r \in ManifestRecord :
                    /\ Holds(s, r)
                    /\ e[i].path = r.path /\ e[i].declared = r.declared
                    /\ e[i].status = Classify(r, tree).status
                    /\ e[i].actual = Classify(r, tree).actual
                    /\ e[i].action = ActionFor(Classify(r, tree), r.path, policy, bad)
            /\ \A r \in ManifestRecord : Holds(s, r) =>
                 \E i \in DOMAIN e :
                    /\ e[i].path = r.path /\ e[i].declared = r.declared
                    /\ e[i].status = Classify(r, tree).status
<1> DEFINE z == Sorted(s)
           c(i) == Classify(z[i], tree)
           bad == \E i \in DOMAIN z : c(i).status # "ok"
           act(i) == ActionFor(c(i), z[i].path, policy, bad)
           e == [i \in DOMAIN z |-> PlanEntry(z[i], c(i), act(i))]
<1>1. DerivePlan(s, tree, policy) = Planned(e, policy)
  BY DEF DerivePlan
<1>2. /\ DOMAIN z = DOMAIN s /\ \A i \in DOMAIN z : z[i] \in ManifestRecord
      /\ \A i \in DOMAIN s : \E k \in DOMAIN s : s[k] = z[i]
      /\ \A i \in DOMAIN s : \E k \in DOMAIN s : z[k] = s[i]
  <2>1. z \in Seq(ManifestRecord)
    BY SortedHolds
  <2>2. \A i \in DOMAIN z : z[i] \in ManifestRecord
    BY <2>1
  <2> QED
    BY <2>2, SortedHolds
<1>3. bad \in BOOLEAN /\ DOMAIN s = 1 .. Len(s)
  OBVIOUS
<1> HIDE DEF z, bad
<1>4. ASSUME NEW i \in DOMAIN z
      PROVE  /\ e[i].path = z[i].path /\ e[i].declared = z[i].declared
             /\ e[i].status = c(i).status /\ e[i].actual = c(i).actual
             /\ e[i].action = act(i)
  BY DEF PlanEntry
<1>5. DOMAIN e = DOMAIN z
  OBVIOUS
<1> HIDE DEF e, act
<1>6. ASSUME NEW i \in DOMAIN e
      PROVE  \E r \in ManifestRecord :
                    /\ Holds(s, r)
                    /\ e[i].path = r.path /\ e[i].declared = r.declared
                    /\ e[i].status = Classify(r, tree).status
                    /\ e[i].actual = Classify(r, tree).actual
                    /\ e[i].action = ActionFor(Classify(r, tree), r.path, policy, bad)
  <2>1. i \in DOMAIN s /\ i \in DOMAIN z
    BY <1>2, <1>5
  <2>2. PICK k \in DOMAIN s : s[k] = z[i]
    BY <1>2, <2>1
  <2>3. Holds(s, z[i])
    BY <1>3, <2>2 DEF Holds
  <2>4. z[i] \in ManifestRecord
    BY <1>2, <2>1
  <2> QED
    BY <1>4, <2>1, <2>3, <2>4 DEF act
<1>7. ASSUME NEW r \in ManifestRecord, Holds(s, r)
      PROVE  \E i \in DOMAIN e :
                    /\ e[i].path = r.path /\ e[i].declared = r.declared
                    /\ e[i].status = Classify(r, tree).status
  <2>1. PICK k \in DOMAIN s : s[k] = r
    BY <1>3, <1>7 DEF Holds
  <2>2. PICK i \in DOMAIN s : z[i] = r
    BY <1>2, <2>1
  <2>3. i \in DOMAIN z /\ i \in DOMAIN e
    BY <1>2, <1>5
  <2> QED
    BY <1>4, <2>2, <2>3
<1>8. /\ DerivePlan(s, tree, policy).entries = e
      /\ DerivePlan(s, tree, policy).state = PlanState(e, policy)
  BY <1>1 DEF Planned
<1>9. \E b \in BOOLEAN : \A i \in DOMAIN e :
                 \E r \in ManifestRecord :
                    /\ Holds(s, r)
                    /\ e[i].path = r.path /\ e[i].declared = r.declared
                    /\ e[i].status = Classify(r, tree).status
                    /\ e[i].actual = Classify(r, tree).actual
                    /\ e[i].action = ActionFor(Classify(r, tree), r.path, policy, b)
  BY <1>3, <1>6, Zenon
<1> QED
  BY <1>2, <1>5, <1>7, <1>8, <1>9, Zenon

(* What is known of a state with a plan. *)
RepairTyped ==
  /\ manifest \in Seq(ManifestRecord) /\ assets \in Assets
  /\ repairPolicy \in RepairPolicies

RepairInv ==
  /\ RepairTyped
  /\ repairPlan # Undecided => repairPlan = DerivePlan(manifest, assets, repairPolicy)

RepairPlanned == RepairTyped /\ repairPlan = DerivePlan(manifest, assets, repairPolicy)

(* An entry of the plan, and the record it is about. *)
EntryAbout(e, r, bad) ==
  /\ Holds(manifest, r)
  /\ e.path = r.path /\ e.declared = r.declared
  /\ e.status = Classify(r, assets).status
  /\ e.actual = Classify(r, assets).actual
  /\ e.action = ActionFor(Classify(r, assets), r.path, repairPolicy, bad)

(* Every entry of a plan is about a record of the manifest. *)
LEMMA EntriesAbout ==
  ASSUME RepairPlanned
  PROVE  /\ DOMAIN repairPlan.entries = DOMAIN manifest
         /\ repairPlan.state = PlanState(repairPlan.entries, repairPolicy)
         /\ \E bad \in BOOLEAN : \A i \in DOMAIN repairPlan.entries :
              \E r \in ManifestRecord : EntryAbout(repairPlan.entries[i], r, bad)
BY PlanSays DEF RepairPlanned, RepairTyped, EntryAbout

(* A repaired record is a record. *)
LEMMA RepairedRecord ==
  ASSUME RepairPlanned, NEW i \in DOMAIN repairPlan.entries
  PROVE  Repaired(repairPlan.entries[i]) \in ManifestRecord
<1> DEFINE e == repairPlan.entries[i]
<1>1. PICK bad \in BOOLEAN : \A j \in DOMAIN repairPlan.entries :
              \E r \in ManifestRecord : EntryAbout(repairPlan.entries[j], r, bad)
  BY EntriesAbout
<1>2. PICK r \in ManifestRecord : EntryAbout(e, r, bad)
  BY <1>1
<1> HIDE DEF e
<1> DEFINE c == Classify(r, assets)
<1>3. /\ e.path \in Paths /\ e.declared \in Digests
  BY <1>2 DEF EntryAbout, ManifestRecord
<1> DEFINE d == IF e.action[1] = "replace-digest" THEN e.action[2] ELSE e.declared
<1>6. e.path \in Paths /\ d \in Digests => Repaired(e) \in ManifestRecord
  <2>1. Repaired(e) = [path |-> e.path, declared |-> d]
    BY DEF Repaired
  <2> HIDE DEF d
  <2> QED
    BY <2>1 DEF ManifestRecord
<1>4. CASE e.action[1] = "replace-digest"
  <2>1. c.status \in Statuses /\ assets \in Assets /\ repairPolicy \in RepairPolicies
    BY ClassifySays DEF RepairPlanned, RepairTyped
  <2>2. c.status = "checksum-mismatch" /\ e.action[2] = c.actual
    BY <1>2, <1>4, <2>1, ActionSays DEF EntryAbout
  <2>3. /\ r.path \in DOMAIN assets /\ assets[r.path].kind # "symlink"
        /\ c.actual = assets[r.path].content
    BY <2>1, <2>2, ClassifySays
  <2>4. assets[r.path].content \in Digests
    BY <2>1, <2>3, AssetIs
  <2>5. d \in Digests
    BY <1>4, <2>2, <2>3, <2>4
  <2> QED
    BY <1>6, <1>3, <2>5 DEF e
<1>5. CASE e.action[1] # "replace-digest"
  BY <1>6, <1>3, <1>5 DEF e
<1> QED
  BY <1>4, <1>5 DEF e

(* What the repaired manifest holds. *)
LEMMA AfterHolds ==
  ASSUME RepairPlanned
  PROVE  /\ ManifestAfter \in Seq(ManifestRecord)
         /\ \A r \in ManifestRecord : Holds(ManifestAfter, r)
              <=> \E i \in DOMAIN repairPlan.entries :
                    /\ repairPlan.entries[i].action[1] # "drop-record"
                    /\ Repaired(repairPlan.entries[i]) = r
<1> DEFINE E == repairPlan.entries
           kept(i) == E[i].action[1] # "drop-record"
           one(i) == IF E[i].action[1] = "drop-record" THEN <<>> ELSE <<Repaired(E[i])>>
           ss == [i \in DOMAIN E |-> one(i)]
<1>1. DOMAIN E = 1 .. Len(manifest) /\ Len(manifest) \in Nat
  BY EntriesAbout DEF RepairPlanned, RepairTyped
<1>2. ManifestAfter = FlattenSeq(ss)
  BY DEF ManifestAfter
<1>3. ASSUME NEW i \in DOMAIN E
      PROVE  /\ one(i) \in Lists(ManifestRecord)
             /\ \A r \in ManifestRecord : Holds(one(i), r) <=> kept(i) /\ Repaired(E[i]) = r
  <2>1. Repaired(E[i]) \in ManifestRecord
    BY RepairedRecord
  <2> DEFINE v == Repaired(E[i])
  <2> HIDE DEF v
  <2>2. <<v>> \in Seq(ManifestRecord) /\ Len(<<v>>) = 1 /\ <<v>>[1] = v
    BY <2>1 DEF v
  <2>3. <<>> \in Seq(ManifestRecord) /\ Len(<<>>) = 0
    OBVIOUS
  <2>4. \A r : Holds(<<v>>, r) <=> v = r
    BY <2>2 DEF Holds
  <2>5. \A r : ~Holds(<<>>, r)
    BY <2>3 DEF Holds
  <2> QED
    BY <2>2, <2>3, <2>4, <2>5 DEF Lists, v
<1> HIDE DEF E, one, kept
<1>4. ss \in Seq(Lists(ManifestRecord)) /\ Len(ss) = Len(manifest)
  BY <1>1, <1>3
<1>5. /\ FlattenSeq(ss) \in Lists(ManifestRecord)
      /\ \A r \in ManifestRecord :
           Holds(FlattenSeq(ss), r) <=> \E k \in 1 .. Len(ss) : Holds(ss[k], r)
  BY <1>4, FlattenHolds
<1>6. \A k \in DOMAIN E : ss[k] = one(k)
  OBVIOUS
<1>7. \A r \in ManifestRecord :
         Holds(FlattenSeq(ss), r) <=> \E k \in DOMAIN E : kept(k) /\ Repaired(E[k]) = r
  <2> HIDE DEF ss
  <2> QED
    BY <1>1, <1>3, <1>4, <1>5, <1>6
<1> QED
  BY <1>2, <1>5, <1>7 DEF E, kept, Lists

(* The assets that stay. *)
LEMMA AssetsStay ==
  ASSUME RepairPlanned
  PROVE  /\ AssetsAfter \in Assets
         /\ DOMAIN AssetsAfter = DOMAIN assets \ Quarantined
         /\ \A p \in DOMAIN AssetsAfter : AssetsAfter[p] = assets[p]
         /\ repairPolicy # "quarantine-mismatch" => AssetsAfter = assets
<1> DEFINE V == {Link} \cup {File(d, r) : d \in Digests, r \in BOOLEAN}
<1>1. PICK D \in SUBSET Paths : assets \in [D -> V]
  BY DEF RepairPlanned, RepairTyped, Assets
<1> HIDE DEF V
<1>2. /\ DOMAIN AssetsAfter = DOMAIN assets \ Quarantined
      /\ \A p \in DOMAIN AssetsAfter : AssetsAfter[p] = assets[p]
      /\ AssetsAfter = [p \in DOMAIN assets \ Quarantined |-> assets[p]]
  BY DEF AssetsAfter
<1>3. AssetsAfter \in [D \ Quarantined -> V]
  BY <1>1, <1>2
<1>4. AssetsAfter \in Assets
  BY <1>3 DEF Assets, V
<1>5. ASSUME repairPolicy # "quarantine-mismatch" PROVE AssetsAfter = assets
  <2>1. PICK bad \in BOOLEAN : \A j \in DOMAIN repairPlan.entries :
              \E r \in ManifestRecord : EntryAbout(repairPlan.entries[j], r, bad)
    BY EntriesAbout
  <2>2. ASSUME NEW j \in DOMAIN repairPlan.entries
        PROVE  repairPlan.entries[j].action[1] # "quarantine-asset"
    <3>1. PICK r \in ManifestRecord : EntryAbout(repairPlan.entries[j], r, bad)
      BY <2>1
    <3>2. Classify(r, assets).status \in Statuses /\ repairPolicy \in RepairPolicies
      BY ClassifySays DEF RepairPlanned, RepairTyped
    <3> QED
      BY <1>5, <3>1, <3>2, ActionSays DEF EntryAbout
  <2>3. Quarantined = {}
    BY <2>2 DEF Quarantined
  <2>4. AssetsAfter \in [D -> V]
    BY <1>3, <2>3
  <2> QED
    BY <1>1, <1>2, <2>4
<1> QED
  BY <1>2, <1>4, <1>5

(* What an entry becomes once the plan has been carried out. *)
LEMMA EntryBecomes ==
  ASSUME RepairPlanned, NEW bad \in BOOLEAN, NEW e, NEW r \in ManifestRecord,
         EntryAbout(e, r, bad), e.action[1] = "quarantine-asset" => r.path \in Quarantined,
         NEW n, n = Repaired(e), NEW b, b = Classify(n, AssetsAfter)
  PROVE  /\ n.path = r.path
         /\ b.status \in Statuses
         /\ e.status \in Statuses
         /\ repairPolicy \in {"replace-digest", "quarantine-mismatch"}
              => b.status # "checksum-mismatch"
         /\ repairPolicy = "drop-missing" /\ e.action[1] # "drop-record"
              => b.status # "missing"
         /\ /\ repairPolicy \in {"replace-digest", "drop-missing"}
            /\ e.action[1] # "drop-record" /\ e.action[1] # "unresolved"
            => b.status = "ok"
         /\ e.status = "ok" =>
              /\ e.action[1] # "drop-record" /\ n.declared = e.declared
              /\ r.path \notin Quarantined => b.status = "ok"
<1> DEFINE c == Classify(r, assets)
           a == ActionFor(c, r.path, repairPolicy, bad)
           A == AssetsAfter
<1>1. /\ assets \in Assets /\ A \in Assets /\ repairPolicy \in RepairPolicies
      /\ DOMAIN A = DOMAIN assets \ Quarantined
      /\ \A p \in DOMAIN A : A[p] = assets[p]
      /\ repairPolicy # "quarantine-mismatch" => A = assets
  BY AssetsStay DEF RepairPlanned, RepairTyped
<1>2. /\ e.path = r.path /\ e.declared = r.declared /\ e.status = c.status
      /\ e.actual = c.actual /\ e.action = a
  BY DEF EntryAbout
<1>3. n.path = r.path
      /\ n.declared = IF a[1] = "replace-digest" THEN a[2] ELSE r.declared
  BY <1>2 DEF Repaired
<1>4. /\ c.status \in Statuses
      /\ c.status \in {"ok", "checksum-mismatch"} =>
           /\ r.path \in DOMAIN assets /\ assets[r.path].kind # "symlink"
           /\ assets[r.path].readable
           /\ c.actual = assets[r.path].content
           /\ c.status = "ok" <=> assets[r.path].content = r.declared
      /\ /\ r.path \in DOMAIN assets /\ assets[r.path].kind # "symlink"
         /\ assets[r.path].readable
         => c.status \in {"ok", "checksum-mismatch"}
      /\ c.status = "missing" => r.path \notin DOMAIN assets
      /\ r.path \notin DOMAIN assets => c.status \in {"missing", "directory"}
  BY <1>1, ClassifySays
<1>5. /\ b.status \in Statuses
      /\ b.status \in {"ok", "checksum-mismatch"} =>
           /\ n.path \in DOMAIN A /\ A[n.path].kind # "symlink"
           /\ A[n.path].readable
           /\ b.actual = A[n.path].content
           /\ b.status = "ok" <=> A[n.path].content = n.declared
      /\ /\ n.path \in DOMAIN A /\ A[n.path].kind # "symlink"
         /\ A[n.path].readable
         => b.status \in {"ok", "checksum-mismatch"}
      /\ b.status = "missing" => n.path \notin DOMAIN A
      /\ n.path \notin DOMAIN A => b.status \in {"missing", "directory"}
  BY <1>1, ClassifySays
<1>6. /\ a[1] = "drop-record" <=> repairPolicy = "drop-missing" /\ c.status = "missing"
      /\ a[1] = "quarantine-asset"
                 <=> repairPolicy = "quarantine-mismatch" /\ c.status = "checksum-mismatch"
      /\ a[1] = "replace-digest"
                 <=> repairPolicy = "replace-digest" /\ c.status = "checksum-mismatch"
      /\ a[1] = "replace-digest" => a[2] = c.actual
      /\ repairPolicy \in Targeted /\ a[1] # "unresolved" /\ c.status # "ok"
                 => a[1] \in Proposals
  BY <1>1, <1>4, ActionSays
<1> HIDE DEF c, a, A
<1>7. ASSUME repairPolicy # "quarantine-mismatch", n.declared = r.declared
      PROVE  b.status = c.status
  <2>1. b = Classify(n, assets)
    BY <1>1, <1>7 DEF A
  <2>2. Classify(n, assets) = Classify(r, assets)
    BY <1>3, <1>7 DEF Classify
  <2> QED
    BY <2>1, <2>2 DEF c
<1>8. CASE repairPolicy = "quarantine-mismatch"
  <2>1. n.declared = r.declared /\ a[1] # "drop-record"
    BY <1>3, <1>6, <1>8
  <2>2. b.status # "checksum-mismatch"
    BY <1>1, <1>2, <1>3, <1>4, <1>5, <1>6, <1>8, <2>1
  <2>3. c.status = "ok" /\ r.path \notin Quarantined => b.status = "ok"
    BY <1>1, <1>2, <1>3, <1>4, <1>5, <1>8, <2>1, <2>2
  <2> QED
    BY <1>2, <1>3, <1>4, <1>5, <1>6, <1>8, <2>1, <2>2, <2>3
<1>9. CASE repairPolicy = "drop-missing"
  <2>1. n.declared = r.declared
    BY <1>3, <1>6, <1>9
  <2>2. b.status = c.status
    BY <1>7, <1>9, <2>1
  <2>3. a[1] # "drop-record" /\ a[1] # "unresolved" => c.status = "ok"
    BY <1>6, <1>9 DEF Targeted, Proposals
  <2> QED
    BY <1>2, <1>3, <1>4, <1>5, <1>6, <1>9, <2>1, <2>2, <2>3
<1>10. CASE repairPolicy = "replace-digest"
  <2>1. CASE c.status = "checksum-mismatch"
    <3>1. n.declared = assets[r.path].content /\ a[1] = "replace-digest"
      BY <1>3, <1>4, <1>6, <1>10, <2>1
    <3>2. b.status = "ok"
      BY <1>1, <1>3, <1>4, <1>5, <1>10, <2>1, <3>1
    <3> QED
      BY <1>2, <1>3, <1>4, <1>5, <1>6, <1>10, <2>1, <3>1, <3>2
  <2>2. CASE c.status # "checksum-mismatch"
    <3>1. n.declared = r.declared /\ b.status = c.status
      BY <1>3, <1>6, <1>7, <1>10, <2>2
    <3>2. a[1] # "drop-record" /\ a[1] # "unresolved" => c.status = "ok"
      BY <1>6, <1>10, <2>2 DEF Targeted, Proposals
    <3> QED
      BY <1>2, <1>3, <1>4, <1>5, <1>6, <1>10, <2>2, <3>1, <3>2
  <2> QED
    BY <2>1, <2>2
<1>11. CASE repairPolicy \in {"report-only", "strict-reject"}
  <2>1. n.declared = r.declared
    BY <1>3, <1>6, <1>11
  <2>2. b.status = c.status
    BY <1>7, <1>11, <2>1
  <2> QED
    BY <1>2, <1>3, <1>4, <1>5, <1>6, <1>11, <2>1, <2>2
<1> QED
  BY <1>1, <1>8, <1>9, <1>10, <1>11 DEF RepairPolicies, Targeted

(* Every entry becomes one. *)
LEMMA EntriesBecome ==
  ASSUME RepairPlanned
  PROVE  LET A == Again.entries
             E == repairPlan.entries
         IN /\ \A i \in DOMAIN E :
                 /\ E[i].status \in Statuses
                 /\ E[i].status = "ok" =>
                      \/ E[i].path \in Quarantined
                      \/ \E j \in DOMAIN A :
                           /\ A[j].path = E[i].path /\ A[j].declared = E[i].declared
                           /\ A[j].status = "ok"
            /\ \A j \in DOMAIN A :
                 /\ repairPolicy \in {"replace-digest", "quarantine-mismatch"}
                      => A[j].status # "checksum-mismatch"
                 /\ repairPolicy = "drop-missing" => A[j].status # "missing"
                 /\ /\ repairPolicy \in {"replace-digest", "drop-missing"}
                    /\ \A i \in DOMAIN E : E[i].action[1] # "unresolved"
                    => A[j].status = "ok"
                 /\ A[j].action[1] \notin Proposals
<1> DEFINE A == Again.entries
           E == repairPlan.entries
<1>1. /\ ManifestAfter \in Seq(ManifestRecord) /\ AssetsAfter \in Assets
      /\ repairPolicy \in RepairPolicies
  BY AfterHolds, AssetsStay DEF RepairPlanned, RepairTyped
<1>2. PICK bad \in BOOLEAN : \A i \in DOMAIN E : \E r \in ManifestRecord : EntryAbout(E[i], r, bad)
  BY EntriesAbout
<1>3. /\ \E worse \in BOOLEAN : \A i \in DOMAIN A :
           \E r \in ManifestRecord :
              /\ Holds(ManifestAfter, r)
              /\ A[i].path = r.path /\ A[i].declared = r.declared
              /\ A[i].status = Classify(r, AssetsAfter).status
              /\ A[i].actual = Classify(r, AssetsAfter).actual
              /\ A[i].action
                   = ActionFor(Classify(r, AssetsAfter), r.path, repairPolicy, worse)
      /\ \A r \in ManifestRecord : Holds(ManifestAfter, r) =>
           \E i \in DOMAIN A :
              /\ A[i].path = r.path /\ A[i].declared = r.declared
              /\ A[i].status = Classify(r, AssetsAfter).status
  BY <1>1, PlanSays DEF Again
<1>4. ASSUME NEW i \in DOMAIN E
      PROVE  E[i].action[1] = "quarantine-asset" => E[i].path \in Quarantined
  BY DEF Quarantined
<1>5. ASSUME NEW i \in DOMAIN E
      PROVE  LET n == Repaired(E[i])
                 b == Classify(n, AssetsAfter)
             IN /\ n.path = E[i].path
                /\ b.status \in Statuses
                /\ E[i].status \in Statuses
                /\ repairPolicy \in {"replace-digest", "quarantine-mismatch"}
                     => b.status # "checksum-mismatch"
                /\ repairPolicy = "drop-missing" /\ E[i].action[1] # "drop-record"
                     => b.status # "missing"
                /\ /\ repairPolicy \in {"replace-digest", "drop-missing"}
                   /\ E[i].action[1] # "drop-record" /\ E[i].action[1] # "unresolved"
                   => b.status = "ok"
                /\ E[i].status = "ok" =>
                     /\ E[i].action[1] # "drop-record" /\ n.declared = E[i].declared
                     /\ E[i].path \notin Quarantined => b.status = "ok"
  <2>1. PICK r \in ManifestRecord : EntryAbout(E[i], r, bad)
    BY <1>2
  <2> DEFINE e == E[i]
             n == Repaired(e)
             b == Classify(n, AssetsAfter)
  <2>2. e.path = r.path
    BY <2>1 DEF EntryAbout
  <2>3. e.action[1] = "quarantine-asset" => r.path \in Quarantined
    BY <1>4, <2>2
  <2> HIDE DEF e, n, b
  <2>4. /\ n.path = r.path
        /\ b.status \in Statuses
        /\ e.status \in Statuses
        /\ repairPolicy \in {"replace-digest", "quarantine-mismatch"}
             => b.status # "checksum-mismatch"
        /\ repairPolicy = "drop-missing" /\ e.action[1] # "drop-record"
             => b.status # "missing"
        /\ /\ repairPolicy \in {"replace-digest", "drop-missing"}
           /\ e.action[1] # "drop-record" /\ e.action[1] # "unresolved"
           => b.status = "ok"
        /\ e.status = "ok" =>
             /\ e.action[1] # "drop-record" /\ n.declared = e.declared
             /\ r.path \notin Quarantined => b.status = "ok"
    BY <2>1, <2>3, EntryBecomes DEF n, b, e
  <2> QED
    BY <2>2, <2>4 DEF n, b, e
<1>6. PICK worse \in BOOLEAN : \A i \in DOMAIN A :
           \E r \in ManifestRecord :
              /\ Holds(ManifestAfter, r)
              /\ A[i].path = r.path /\ A[i].declared = r.declared
              /\ A[i].status = Classify(r, AssetsAfter).status
              /\ A[i].actual = Classify(r, AssetsAfter).actual
              /\ A[i].action
                   = ActionFor(Classify(r, AssetsAfter), r.path, repairPolicy, worse)
  BY <1>3
<1>7. \A r \in ManifestRecord : Holds(ManifestAfter, r)
         <=> \E i \in DOMAIN E : E[i].action[1] # "drop-record" /\ Repaired(E[i]) = r
  BY AfterHolds
<1> HIDE DEF A, E
<1>8. ASSUME NEW j \in DOMAIN A
      PROVE  /\ repairPolicy \in {"replace-digest", "quarantine-mismatch"}
                  => A[j].status # "checksum-mismatch"
             /\ repairPolicy = "drop-missing" => A[j].status # "missing"
             /\ /\ repairPolicy \in {"replace-digest", "drop-missing"}
                /\ \A i \in DOMAIN E : E[i].action[1] # "unresolved"
                => A[j].status = "ok"
             /\ A[j].action[1] \notin Proposals
  <2>1. PICK r \in ManifestRecord :
              /\ Holds(ManifestAfter, r)
              /\ A[j].status = Classify(r, AssetsAfter).status
              /\ A[j].action
                   = ActionFor(Classify(r, AssetsAfter), r.path, repairPolicy, worse)
    BY <1>6
  <2>2. PICK i \in DOMAIN E : E[i].action[1] # "drop-record" /\ Repaired(E[i]) = r
    BY <1>7, <2>1
  <2>3. /\ A[j].status \in Statuses
        /\ repairPolicy \in {"replace-digest", "quarantine-mismatch"}
             => A[j].status # "checksum-mismatch"
        /\ repairPolicy = "drop-missing" => A[j].status # "missing"
        /\ repairPolicy \in {"replace-digest", "drop-missing"}
             /\ E[i].action[1] # "unresolved" => A[j].status = "ok"
    BY <1>5, <2>1, <2>2
  <2> DEFINE c == Classify(r, AssetsAfter)
             a == ActionFor(c, r.path, repairPolicy, worse)
  <2>4. c.status \in Statuses /\ A[j].status = c.status /\ A[j].action = a
    BY <2>1, <2>3
  <2> HIDE DEF c
  <2>5. /\ a[1] = "drop-record" <=> repairPolicy = "drop-missing" /\ c.status = "missing"
        /\ a[1] = "quarantine-asset"
              <=> repairPolicy = "quarantine-mismatch" /\ c.status = "checksum-mismatch"
        /\ a[1] = "replace-digest"
              <=> repairPolicy = "replace-digest" /\ c.status = "checksum-mismatch"
    BY <1>1, <2>4, ActionSays
  <2> HIDE DEF a
  <2>6. a[1] \notin Proposals
    BY <2>3, <2>4, <2>5 DEF Proposals
  <2> QED
    BY <2>3, <2>4, <2>6
<1>9. ASSUME NEW i \in DOMAIN E, E[i].status = "ok", E[i].path \notin Quarantined
      PROVE  \E j \in DOMAIN A :
               /\ A[j].path = E[i].path /\ A[j].declared = E[i].declared
               /\ A[j].status = "ok"
  <2> DEFINE n == Repaired(E[i])
  <2>1. n \in ManifestRecord
    BY RepairedRecord DEF E
  <2>2. /\ n.path = E[i].path /\ n.declared = E[i].declared
        /\ E[i].action[1] # "drop-record" /\ Classify(n, AssetsAfter).status = "ok"
    BY <1>5, <1>9
  <2> HIDE DEF n
  <2>3. Holds(ManifestAfter, n)
    BY <1>7, <2>1, <2>2 DEF n
  <2>4. PICK j \in DOMAIN A :
              /\ A[j].path = n.path /\ A[j].declared = n.declared
              /\ A[j].status = Classify(n, AssetsAfter).status
    BY <1>3, <2>1, <2>3 DEF A
  <2> QED
    BY <2>2, <2>4
<1>10. \A i \in DOMAIN E : E[i].status \in Statuses
  BY <1>5
<1> QED
  BY <1>8, <1>9, <1>10 DEF A, E

(* Carrying out a plan. *)
LEMMA PlansRight ==
  ASSUME RepairInv
  PROVE  RepairRight
<1> SUFFICES ASSUME repairPlan # Undecided PROVE RepairRight
  BY DEF RepairRight
<1> DEFINE A == Again.entries
           E == repairPlan.entries
<1>1. RepairPlanned
  BY DEF RepairInv, RepairPlanned
<1>2. repairPlan = ReferenceRepair(manifest, assets, repairPolicy)
  BY <1>1, DerivationsAgree DEF RepairPlanned, RepairTyped
<1>3. /\ \A i \in DOMAIN E :
           E[i].status = "ok" =>
                \/ E[i].path \in Quarantined
                \/ \E j \in DOMAIN A :
                     /\ A[j].path = E[i].path /\ A[j].declared = E[i].declared
                     /\ A[j].status = "ok"
      /\ \A j \in DOMAIN A :
           /\ repairPolicy \in {"replace-digest", "quarantine-mismatch"}
                => A[j].status # "checksum-mismatch"
           /\ /\ repairPolicy \in {"replace-digest", "drop-missing"}
              /\ \A i \in DOMAIN E : E[i].action[1] # "unresolved"
              => A[j].status = "ok"
           /\ A[j].action[1] \notin Proposals
  BY <1>1, EntriesBecome
<1>4. repairPlan.state = PlanState(E, repairPolicy) /\ repairPolicy \in RepairPolicies
  BY <1>1, EntriesAbout DEF RepairPlanned, RepairTyped
<1>5. ASSUME repairPlan.state = "planned", repairPolicy # "quarantine-mismatch"
      PROVE  Again.state = "clean"
  <2> HIDE DEF E
  <2>1. /\ repairPolicy \in Targeted
        /\ \A i \in DOMAIN E : E[i].action[1] # "unresolved"
    BY <1>4, <1>5 DEF PlanState, RepairPolicies, Targeted
  <2> HIDE DEF A
  <2>2. repairPolicy \in {"replace-digest", "drop-missing"}
    BY <1>5, <2>1 DEF Targeted
  <2>3. \A j \in DOMAIN A : A[j].status = "ok"
    BY <1>3, <2>1, <2>2
  <2>4. Again.state = PlanState(A, repairPolicy)
    BY DEF Again, A, DerivePlan, Planned
  <2> QED
    BY <2>3, <2>4 DEF PlanState
<1>6. ASSUME NEW p \in Quarantined
      PROVE  \E j \in DOMAIN E : E[j].path = p /\ E[j].action[1] = "quarantine-asset"
  BY DEF Quarantined
<1> HIDE DEF A, E
<1>7. \A i \in DOMAIN E :
        E[i].status = "ok" =>
             \/ \E j \in DOMAIN A :
                   /\ A[j].path = E[i].path /\ A[j].status = "ok"
                   /\ A[j].declared = E[i].declared
             \/ \E j \in DOMAIN E :
                   /\ E[j].path = E[i].path
                   /\ E[j].action[1] = "quarantine-asset"
  BY <1>3, <1>6
<1> QED
  BY <1>2, <1>3, <1>5, <1>7 DEF RepairRight, A, E

(* At first no plan has been derived. *)
LEMMA RepairInvStart == RepairInit => RepairInv
<1> SUFFICES ASSUME RepairInit PROVE RepairInv
  OBVIOUS
<1>1. PICK m \in 0 .. MaxRecords : manifest \in [1 .. m -> ManifestRecord]
  BY DEF RepairInit, BoundedSeq, SeqOf
<1>2. m \in Nat
  BY <1>1, RepairAssumption
<1>3. manifest \in Seq(ManifestRecord)
  BY <1>1, <1>2
<1>4. assets \in Assets
  BY DEF RepairInit, AssetTrees, Assets
<1> QED
  BY <1>3, <1>4 DEF RepairInit, RepairInv, RepairTyped

(* A plan is derived from parameters that do not change. *)
LEMMA RepairInvStep ==
  ASSUME RepairInv, [Derive]_repairVars
  PROVE  RepairInv'
BY DEF RepairInv, RepairTyped, Derive, repairVars

(* Both derivations agree, and a plan that is carried out settles what its  *)
(* policy is about. *)
THEOREM RepairsRight == RepairSpec => []RepairRight
<1>1. RepairInit => RepairInv
  BY RepairInvStart
<1>2. RepairInv /\ [Derive]_repairVars => RepairInv'
  BY RepairInvStep
<1>3. RepairInv => RepairRight
  BY PlansRight
<1> QED
  BY <1>1, <1>2, <1>3, PTL DEF RepairSpec

(***************************************************************************)
(* HardlinkMirror: MirrorRight.                                            *)
(***************************************************************************)
(* The least element of a finite set. *)
LEMMA FirstExists ==
  ASSUME NEW S, IsFiniteSet(S), NEW R, Ordering(S, R), S # {}
  PROVE  \E x \in S : \A y \in S \ {x} : <<x, y>> \in R
<1>1. Cardinality(S) \in Nat /\ Cardinality(S) # 0
  BY FS_CardinalityType, FS_EmptySet
<1>2. 1 \in 1 .. Cardinality(S)
  BY <1>1
<1>3. PICK x \in S : Cardinality(Ahead(S, R, x)) = 1 - 1
  BY <1>2, RankTaken
<1>4. IsFiniteSet(Ahead(S, R, x))
  BY RankType
<1>5. Ahead(S, R, x) = {}
  BY <1>3, <1>4, FS_EmptySet
<1>6. \A y \in S \ {x} : <<x, y>> \in R
  BY <1>5 DEF Ahead, Ordering
<1> QED
  BY <1>6

(* A source that a mirror can be derived from. *)
Source(s) ==
  \A n \in MirrorNames :
    /\ s[n].relative = n
    /\ s[n].content \in Nat /\ s[n].mode \in Nat /\ s[n].mtime \in Nat

MirrorTyped ==
  /\ key \in Keys /\ ownerPolicy \in OwnerPolicies
  /\ declaredGroup \in [MirrorNames -> Nat]
  /\ ownerPriority \in [MirrorNames -> Nat]
  /\ \A m, n \in MirrorNames : ownerPriority[m] = ownerPriority[n] => m = n

Class(s, n) == {m \in MirrorNames : EquivalenceValue(s[m]) = EquivalenceValue(s[n])}

(* The names are numbered. *)
LEMMA NamesFinite ==
  /\ NameCount \in Nat /\ IsFiniteSet(MirrorNames) /\ Cardinality(MirrorNames) = NameCount
  /\ MirrorNames \subseteq Nat
<1>1. NameCount \in Nat /\ 1 \in Int /\ NameCount \in Int
  BY MirrorAssumption
<1>2. IsFiniteSet(1 .. NameCount)
        /\ Cardinality(1 .. NameCount) = IF 1 > NameCount THEN 0 ELSE NameCount - 1 + 1
  BY <1>1, FS_Interval
<1> QED
  BY <1>1, <1>2 DEF MirrorNames

(* A group has an owner. *)
LEMMA OwnerExists ==
  ASSUME MirrorTyped, NEW s, Source(s), NEW g \in SUBSET MirrorNames, g # {}
  PROVE  ChooseOwner(g, s) \in g
<1> DEFINE R == {p \in MirrorNames \X MirrorNames : Preferred(s[p[1]], s[p[2]])}
           pr(m, n) == Preferred(s[m], s[n])
<1>1. ASSUME NEW m \in g, NEW n \in g PROVE <<m, n>> \in R <=> pr(m, n)
  OBVIOUS
<1>2. /\ \A n \in g : n \in Nat /\ s[n].relative = n /\ s[n].mtime \in Nat
                       /\ ownerPriority[n] \in Nat
      /\ \A m, n \in g : ownerPriority[m] = ownerPriority[n] => m = n
  BY NamesFinite DEF Source, MirrorTyped
<1>3. /\ \A n \in g : ~pr(n, n)
      /\ \A k, m, n \in g : pr(k, m) /\ pr(m, n) => pr(k, n)
      /\ \A m, n \in g : m = n \/ pr(m, n) \/ pr(n, m)
  <2>1. CASE ownerPolicy = "smallest-path"
    <3>1. \A m, n \in g : pr(m, n) <=> m < n
      BY <1>2, <2>1 DEF Preferred
    <3> HIDE DEF pr
    <3> QED
      BY <1>2, <3>1
  <2>2. CASE ownerPolicy = "largest-path"
    <3>1. \A m, n \in g : pr(m, n) <=> m > n
      BY <1>2, <2>2 DEF Preferred
    <3> HIDE DEF pr
    <3> QED
      BY <1>2, <3>1
  <2>3. CASE ownerPolicy = "oldest-mtime"
    <3> DEFINE at(n) == s[n].mtime
    <3>1. \A m, n \in g : pr(m, n) <=> at(m) < at(n) \/ (at(m) = at(n) /\ m < n)
      BY <1>2, <2>3 DEF Preferred
    <3>2. \A n \in g : at(n) \in Nat
      BY <1>2
    <3> HIDE DEF pr, at
    <3> QED
      BY <1>2, <3>1, <3>2
  <2>4. CASE ownerPolicy = "newest-mtime"
    <3> DEFINE at(n) == s[n].mtime
    <3>1. \A m, n \in g : pr(m, n) <=> at(m) > at(n) \/ (at(m) = at(n) /\ m < n)
      BY <1>2, <2>4 DEF Preferred
    <3>2. \A n \in g : at(n) \in Nat
      BY <1>2
    <3> HIDE DEF pr, at
    <3> QED
      BY <1>2, <3>1, <3>2
  <2>5. CASE ownerPolicy = "manifest-priority"
    <3>1. \A m, n \in g : pr(m, n) <=> ownerPriority[m] < ownerPriority[n]
      BY <1>2, <2>5 DEF Preferred
    <3> HIDE DEF pr
    <3> QED
      BY <1>2, <3>1
  <2> QED
    BY <2>1, <2>2, <2>3, <2>4, <2>5 DEF MirrorTyped, OwnerPolicies
<1> HIDE DEF R, pr
<1>4. Ordering(g, R)
  BY <1>1, <1>3 DEF Ordering
<1>5. IsFiniteSet(g)
  BY NamesFinite, FS_Subset
<1>6. PICK o \in g : \A n \in g \ {o} : <<o, n>> \in R
  BY <1>4, <1>5, FirstExists
<1>7. \A n \in g \ {o} : Preferred(s[o], s[n])
  BY <1>1, <1>6 DEF pr
<1> QED
  BY <1>7 DEF ChooseOwner

(* The name whose bytes a name's inode has. *)
OwnerOf(s, n) == ChooseOwner(Class(s, n), s)

(* The classes are a partition of the names. *)
LEMMA ClassesPart ==
  ASSUME NEW s
  PROVE  /\ EquivalenceClasses(s) = {Class(s, n) : n \in MirrorNames}
         /\ \A n \in MirrorNames :
              /\ n \in Class(s, n) /\ Class(s, n) \in SUBSET MirrorNames
              /\ \A g \in EquivalenceClasses(s) : n \in g => g = Class(s, n)
              /\ (CHOOSE g \in EquivalenceClasses(s) : n \in g) = Class(s, n)
         /\ \A m, n \in MirrorNames :
              Class(s, m) = Class(s, n)
                <=> EquivalenceValue(s[m]) = EquivalenceValue(s[n])
<1> DEFINE G == EquivalenceClasses(s)
           v(n) == EquivalenceValue(s[n])
<1>1. G = {Class(s, n) : n \in MirrorNames}
  BY DEF EquivalenceClasses, Class
<1>2. \A m, n \in MirrorNames : m \in Class(s, n) <=> v(m) = v(n)
  BY DEF Class
<1>3. \A n \in MirrorNames : Class(s, n) \in SUBSET MirrorNames
  BY DEF Class
<1> HIDE DEF G
<1>4. ASSUME NEW m \in MirrorNames, NEW n \in MirrorNames, v(m) = v(n)
      PROVE  Class(s, m) = Class(s, n)
  BY <1>4 DEF Class
<1> HIDE DEF v
<1>5. ASSUME NEW n \in MirrorNames, NEW g \in G, n \in g PROVE g = Class(s, n)
  <2>1. PICK k \in MirrorNames : g = Class(s, k)
    BY <1>1, <1>5
  <2> QED
    BY <1>2, <1>4, <1>5, <2>1
<1>6. \A n \in MirrorNames : n \in Class(s, n)
  BY <1>2
<1>7. ASSUME NEW n \in MirrorNames PROVE (CHOOSE g \in G : n \in g) = Class(s, n)
  <2>1. Class(s, n) \in G
    BY <1>1
  <2> QED
    BY <1>5, <1>6, <2>1
<1>8. \A m, n \in MirrorNames : Class(s, m) = Class(s, n) <=> v(m) = v(n)
  BY <1>2, <1>4, <1>6
<1> QED
  BY <1>1, <1>3, <1>5, <1>6, <1>7, <1>8 DEF G, v

(* A derived mirror, name by name. *)
LEMMA DerivedIs ==
  ASSUME MirrorTyped, NEW s, Source(s)
  PROVE  /\ DeriveState(s)
              = [tree |-> [n \in MirrorNames |->
                             [group |-> Class(s, n), content |-> s[OwnerOf(s, n)].content,
                              mode |-> s[OwnerOf(s, n)].mode,
                              mtime |-> s[OwnerOf(s, n)].mtime]],
                 saved |-> NameCount - Cardinality(EquivalenceClasses(s))]
         /\ \A n \in MirrorNames :
              /\ OwnerOf(s, n) \in MirrorNames
              /\ EquivalenceValue(s[OwnerOf(s, n)]) = EquivalenceValue(s[n])
<1> DEFINE G == EquivalenceClasses(s)
           gr(n) == CHOOSE g \in G : n \in g
           own(n) == s[ChooseOwner(gr(n), s)]
           t == [n \in MirrorNames |->
                   [group |-> gr(n), content |-> own(n).content,
                    mode |-> own(n).mode, mtime |-> own(n).mtime]]
           z == [n \in MirrorNames |->
                   [group |-> Class(s, n), content |-> s[OwnerOf(s, n)].content,
                    mode |-> s[OwnerOf(s, n)].mode, mtime |-> s[OwnerOf(s, n)].mtime]]
<1>1. \A n \in MirrorNames : gr(n) = Class(s, n)
  BY ClassesPart
<1>2. DeriveState(s) = [tree |-> t, saved |-> NameCount - Cardinality(G)]
  BY DEF DeriveState, AssembleState
<1> HIDE DEF gr
<1>3. ASSUME NEW n \in MirrorNames PROVE own(n) = s[OwnerOf(s, n)]
  BY <1>1 DEF OwnerOf
<1> HIDE DEF own
<1>4. t = z
  BY <1>1, <1>3
<1>5. ASSUME NEW n \in MirrorNames
      PROVE  /\ OwnerOf(s, n) \in MirrorNames
             /\ EquivalenceValue(s[OwnerOf(s, n)]) = EquivalenceValue(s[n])
  <2>1. Class(s, n) \in SUBSET MirrorNames /\ Class(s, n) # {}
    BY ClassesPart
  <2>2. OwnerOf(s, n) \in Class(s, n)
    BY <2>1, OwnerExists DEF OwnerOf
  <2> QED
    BY <2>2 DEF Class
<1> QED
  BY <1>2, <1>4, <1>5

(* Equal keys mean equal bytes. *)
LEMMA SameKeySameBytes ==
  ASSUME MirrorTyped, NEW a, NEW b, EquivalenceValue(a) = EquivalenceValue(b)
  PROVE  /\ a.content = b.content
         /\ key = "mode-and-sha256" => a.mode = b.mode
<1>1. CASE key = "sha256"
  BY <1>1 DEF EquivalenceValue
<1>2. CASE key = "mode-and-sha256"
  BY <1>2 DEF EquivalenceValue
<1>3. CASE key = "suffix-and-sha256"
  BY <1>3 DEF EquivalenceValue
<1>4. CASE key = "declared-group-and-sha256"
  BY <1>4 DEF EquivalenceValue
<1> QED
  BY <1>1, <1>2, <1>3, <1>4 DEF MirrorTyped, Keys

(* What two records have to share to be of one class. *)
LEMMA KeyIs ==
  ASSUME MirrorTyped, NEW a, NEW b, a.relative = b.relative, a.content = b.content,
         key = "mode-and-sha256" => a.mode = b.mode
  PROVE  EquivalenceValue(a) = EquivalenceValue(b)
<1>1. CASE key = "sha256"
  BY <1>1 DEF EquivalenceValue
<1>2. CASE key = "mode-and-sha256"
  BY <1>2 DEF EquivalenceValue
<1>3. CASE key = "suffix-and-sha256"
  BY <1>3 DEF EquivalenceValue
<1>4. CASE key = "declared-group-and-sha256"
  BY <1>4 DEF EquivalenceValue
<1> QED
  BY <1>1, <1>2, <1>3, <1>4 DEF MirrorTyped, Keys

(* The reference's keys are the equivalence's, and in an order. *)
LEMMA SortKeyIs ==
  ASSUME MirrorTyped, NEW s, Source(s), NEW n \in MirrorNames
  PROVE  /\ ReferenceSortKey(s[n]) = EquivalenceValue(s[n])
         /\ ReferenceSortKey(s[n]) \in Nat \X Nat
<1>0. /\ s[n].content \in Nat /\ s[n].mode \in Nat /\ s[n].relative = n
      /\ Suffix[n] \in Nat /\ declaredGroup[n] \in Nat
  <2>1. n \in 1 .. Len(Suffix)
    BY MirrorAssumption DEF MirrorNames
  <2> QED
    BY <2>1, MirrorAssumption, ElementOfSeq DEF Source, MirrorTyped
<1>1. CASE key = "sha256"
  BY <1>0, <1>1 DEF EquivalenceValue, ReferenceSortKey
<1>2. CASE key = "mode-and-sha256"
  BY <1>0, <1>2 DEF EquivalenceValue, ReferenceSortKey
<1>3. CASE key = "suffix-and-sha256"
  BY <1>0, <1>3 DEF EquivalenceValue, ReferenceSortKey
<1>4. CASE key = "declared-group-and-sha256"
  BY <1>0, <1>4 DEF EquivalenceValue, ReferenceSortKey
<1> QED
  BY <1>1, <1>2, <1>3, <1>4 DEF MirrorTyped, Keys

(* One key before another. *)
KeyLess(a, b) == a[1] < b[1] \/ (a[1] = b[1] /\ a[2] < b[2])

SortAhead(s, m, n) ==
  LET x == Append(ReferenceSortKey(s[m]), m)
      y == Append(ReferenceSortKey(s[n]), n)
  IN \E i \in 1 .. 3 : x[i] < y[i] /\ \A j \in 1 .. i - 1 : x[j] = y[j]

(* The sort of the reference, and the order of its keys. *)
LEMMA AheadIs ==
  ASSUME MirrorTyped, NEW s, Source(s), NEW m \in MirrorNames, NEW n \in MirrorNames
  PROVE  SortAhead(s, m, n) <=>
           \/ KeyLess(ReferenceSortKey(s[m]), ReferenceSortKey(s[n]))
           \/ ReferenceSortKey(s[m]) = ReferenceSortKey(s[n]) /\ m < n
<1> DEFINE a == ReferenceSortKey(s[m])
           b == ReferenceSortKey(s[n])
<1>1. a \in Nat \X Nat /\ b \in Nat \X Nat
  BY SortKeyIs
<1> HIDE DEF a, b
<1>2. PICK a1 \in Nat, a2 \in Nat : a = <<a1, a2>>
  BY <1>1
<1>3. PICK b1 \in Nat, b2 \in Nat : b = <<b1, b2>>
  BY <1>1
<1> DEFINE x == Append(a, m)
           y == Append(b, n)
<1>4. x = <<a1, a2, m>> /\ y = <<b1, b2, n>>
  <2>1. m \in Nat /\ n \in Nat
    BY NamesFinite
  <2>2. Append(<<a1, a2>>, m) = <<a1, a2, m>> /\ Append(<<b1, b2>>, n) = <<b1, b2, n>>
    <3>1. <<a1, a2>> \in Seq(Nat) /\ <<b1, b2>> \in Seq(Nat)
          /\ Len(<<a1, a2>>) = 2 /\ Len(<<b1, b2>>) = 2
      OBVIOUS
    <3>2. Append(<<a1, a2>>, m) \in Seq(Nat) /\ Append(<<b1, b2>>, n) \in Seq(Nat)
          /\ Len(Append(<<a1, a2>>, m)) = 3 /\ Len(Append(<<b1, b2>>, n)) = 3
      BY <2>1, <3>1
    <3>3. <<a1, a2, m>> \in Seq(Nat) /\ <<b1, b2, n>> \in Seq(Nat)
          /\ Len(<<a1, a2, m>>) = 3 /\ Len(<<b1, b2, n>>) = 3
      BY <2>1
    <3>4. \A i \in 1 .. 3 : Append(<<a1, a2>>, m)[i] = <<a1, a2, m>>[i]
                            /\ Append(<<b1, b2>>, n)[i] = <<b1, b2, n>>[i]
      BY <2>1, <3>1
    <3> QED
      BY <3>2, <3>3, <3>4, SeqEqual
  <2> QED
    BY <1>2, <1>3, <2>2
<1>5. x[1] = a1 /\ x[2] = a2 /\ x[3] = m /\ y[1] = b1 /\ y[2] = b2 /\ y[3] = n
  BY <1>4
<1>6. SortAhead(s, m, n)
        <=> \E i \in 1 .. 3 : x[i] < y[i] /\ \A j \in 1 .. i - 1 : x[j] = y[j]
  BY DEF SortAhead, a, b
<1> HIDE DEF x, y
<1>7. 1 .. 3 = {1, 2, 3} /\ 1 .. 1 - 1 = {} /\ 1 .. 2 - 1 = {1} /\ 1 .. 3 - 1 = {1, 2}
  OBVIOUS
<1>8. SortAhead(s, m, n)
        <=> a1 < b1 \/ (a2 < b2 /\ a1 = b1) \/ (m < n /\ a1 = b1 /\ a2 = b2)
  BY <1>5, <1>6, <1>7
<1>9. KeyLess(a, b) <=> a1 < b1 \/ (a1 = b1 /\ a2 < b2)
  BY <1>2, <1>3 DEF KeyLess
<1>10. a = b <=> a1 = b1 /\ a2 = b2
  BY <1>2, <1>3
<1> QED
  BY <1>8, <1>9, <1>10 DEF a, b

(* The order of keys. *)
LEMMA KeysOrdered ==
  /\ \A a \in Nat \X Nat : ~KeyLess(a, a)
  /\ \A a, b, c \in Nat \X Nat : KeyLess(a, b) /\ KeyLess(b, c) => KeyLess(a, c)
  /\ \A a, b \in Nat \X Nat : a = b \/ KeyLess(a, b) \/ KeyLess(b, a)
<1>1. \A a \in Nat \X Nat : a[1] \in Nat /\ a[2] \in Nat /\ a = <<a[1], a[2]>>
  OBVIOUS
<1>2. \A a, b \in Nat \X Nat : a[1] = b[1] /\ a[2] = b[2] => a = b
  BY <1>1
<1>3. \A a \in Nat \X Nat : ~KeyLess(a, a)
  BY <1>1 DEF KeyLess
<1>4. \A a, b, c \in Nat \X Nat : KeyLess(a, b) /\ KeyLess(b, c) => KeyLess(a, c)
  BY <1>1 DEF KeyLess
<1>5. \A a, b \in Nat \X Nat : a = b \/ KeyLess(a, b) \/ KeyLess(b, a)
  BY <1>1, <1>2 DEF KeyLess
<1> QED
  BY <1>3, <1>4, <1>5

AheadPairs(s) == {p \in MirrorNames \X MirrorNames : SortAhead(s, p[1], p[2])}

(* The sort of the reference is a strict order. *)
LEMMA AheadOrdered ==
  ASSUME MirrorTyped, NEW s, Source(s)
  PROVE  /\ Ordering(MirrorNames, AheadPairs(s))
         /\ \A m, n \in MirrorNames : <<m, n>> \in AheadPairs(s) <=>
              \/ KeyLess(ReferenceSortKey(s[m]), ReferenceSortKey(s[n]))
              \/ ReferenceSortKey(s[m]) = ReferenceSortKey(s[n]) /\ m < n
<1> DEFINE R == AheadPairs(s)
           k(n) == ReferenceSortKey(s[n])
<1>1. \A m, n \in MirrorNames : <<m, n>> \in R
                                  <=> KeyLess(k(m), k(n)) \/ (k(m) = k(n) /\ m < n)
  BY AheadIs DEF AheadPairs
<1>2. \A n \in MirrorNames : k(n) \in Nat \X Nat /\ n \in Nat
  BY SortKeyIs, NamesFinite
<1> HIDE DEF R, k
<1>3. \A n \in MirrorNames : <<n, n>> \notin R
  BY <1>1, <1>2, KeysOrdered
<1>4. ASSUME NEW l \in MirrorNames, NEW m \in MirrorNames, NEW n \in MirrorNames,
             <<l, m>> \in R, <<m, n>> \in R
      PROVE  <<l, n>> \in R
  <2>1. KeyLess(k(l), k(m)) \/ (k(l) = k(m) /\ l < m)
    BY <1>1, <1>4
  <2>2. KeyLess(k(m), k(n)) \/ (k(m) = k(n) /\ m < n)
    BY <1>1, <1>4
  <2>3. k(l) \in Nat \X Nat /\ k(m) \in Nat \X Nat /\ k(n) \in Nat \X Nat
        /\ l \in Nat /\ m \in Nat /\ n \in Nat
    BY <1>2
  <2>4. CASE KeyLess(k(l), k(m))
    BY <1>1, <2>2, <2>3, <2>4, KeysOrdered
  <2>5. CASE k(l) = k(m) /\ l < m
    BY <1>1, <2>2, <2>3, <2>5
  <2> QED
    BY <2>1, <2>4, <2>5
<1>5. ASSUME NEW m \in MirrorNames, NEW n \in MirrorNames
      PROVE  m = n \/ <<m, n>> \in R \/ <<n, m>> \in R
  <2>1. k(m) \in Nat \X Nat /\ k(n) \in Nat \X Nat /\ m \in Nat /\ n \in Nat
    BY <1>2
  <2>2. k(m) = k(n) \/ KeyLess(k(m), k(n)) \/ KeyLess(k(n), k(m))
    BY <2>1, KeysOrdered
  <2>3. CASE k(m) = k(n)
    BY <1>1, <2>1, <2>3
  <2> QED
    BY <1>1, <2>2, <2>3
<1> QED
  BY <1>1, <1>3, <1>4, <1>5 DEF Ordering, R, k

RankedNames(s) ==
  Ranked(MirrorNames, LAMBDA m, n :
     LET x == Append(ReferenceSortKey(s[m]), m)
         y == Append(ReferenceSortKey(s[n]), n)
     IN \E i \in 1 .. 3 : x[i] < y[i] /\ \A j \in 1 .. i - 1 : x[j] = y[j])

(* So its ranking is in order. *)
LEMMA RankedInOrder ==
  ASSUME MirrorTyped, NEW s, Source(s)
  PROVE  InOrder(RankedNames(s), MirrorNames, AheadPairs(s))
<1> DEFINE D == MirrorNames
           R == AheadPairs(s)
           place == RankedNames(s)
           B(m, n) == SortAhead(s, m, n)
           e(k) == CHOOSE z \in D : Cardinality({y \in D : B(y, z)}) = k - 1
<1>1. IsFiniteSet(D) /\ Ordering(D, R)
  BY NamesFinite, AheadOrdered
<1>2. place = [k \in 1 .. Cardinality(D) |-> e(k)]
  BY DEF RankedNames, Ranked, SortAhead
<1>3. \A z \in D : {y \in D : B(y, z)} = Ahead(D, R, z)
  BY DEF Ahead, AheadPairs
<1> HIDE DEF B, place, D, R
<1>4. ASSUME NEW k \in 1 .. Cardinality(D)
      PROVE  e(k) \in D /\ Cardinality(Ahead(D, R, e(k))) = k - 1
  <2>1. PICK w \in D : Cardinality(Ahead(D, R, w)) = k - 1
    BY <1>1, RankTaken
  <2>2. Cardinality({y \in D : B(y, w)}) = k - 1
    BY <1>3, <2>1
  <2>3. e(k) \in D /\ Cardinality({y \in D : B(y, e(k))}) = k - 1
    BY <2>2
  <2> QED
    BY <1>3, <2>3
<1> HIDE DEF e
<1>5. Ranks(place, D, R)
  BY <1>2, <1>4 DEF Ranks
<1> QED
  BY <1>1, <1>5, PlacesInOrder DEF D, R, place

(* What lies between two numbers. *)
LEMMA BetweenIs ==
  ASSUME NEW i \in Nat, NEW k \in Nat
  PROVE  /\ Min({i, k}) = IF i <= k THEN i ELSE k
         /\ Max({i, k}) = IF i <= k THEN k ELSE i
BY DEF Min, Max

(* A run of the sorted list is a class. *)
LEMMA RunIsClass ==
  ASSUME MirrorTyped, NEW s, Source(s), NEW i \in MirrorNames,
         NEW z, InOrder(z, MirrorNames, AheadPairs(s))
  PROVE  {z[j] : j \in {k \in MirrorNames :
            \A l \in Min({i, k}) .. Max({i, k}) :
               ReferenceSortKey(s[z[l]]) = ReferenceSortKey(s[z[i]])}}
         = Class(s, z[i])
<1> DEFINE k(n) == ReferenceSortKey(s[n])
           R == AheadPairs(s)
           near(j) == \A l \in Min({i, j}) .. Max({i, j}) : k(z[l]) = k(z[i])
           run == {z[j] : j \in {h \in MirrorNames : near(h)}}
<1>1. /\ NameCount \in Nat /\ MirrorNames = 1 .. NameCount
      /\ z \in Seq(MirrorNames) /\ Len(z) = NameCount
      /\ \A x \in MirrorNames : \E j \in 1 .. Len(z) : z[j] = x
      /\ \A a, b \in 1 .. Len(z) : a < b <=> <<z[a], z[b]>> \in R
  BY NamesFinite DEF InOrder, MirrorNames
<1>2. \A j \in MirrorNames : z[j] \in MirrorNames
  BY <1>1, ElementOfSeq
<1>3. \A m, n \in MirrorNames : <<m, n>> \in R
                                  <=> KeyLess(k(m), k(n)) \/ (k(m) = k(n) /\ m < n)
  BY AheadOrdered
<1>4. \A n \in MirrorNames : k(n) \in Nat \X Nat /\ k(n) = EquivalenceValue(s[n])
  BY SortKeyIs
<1> HIDE DEF k, R
<1>5. ASSUME NEW a \in MirrorNames, NEW b \in MirrorNames, NEW l \in a .. b,
             k(z[a]) = k(z[b])
      PROVE  k(z[l]) = k(z[a])
  <2>1. l \in MirrorNames /\ a \in Nat /\ b \in Nat /\ l \in Nat /\ a <= l /\ l <= b
    BY <1>1
  <2>2. CASE a = l \/ l = b
    BY <1>5, <2>2
  <2>3. CASE a < l /\ l < b
    <3>1. <<z[a], z[l]>> \in R /\ <<z[l], z[b]>> \in R
      BY <1>1, <2>1, <2>3
    <3>2. z[a] \in MirrorNames /\ z[b] \in MirrorNames /\ z[l] \in MirrorNames
      BY <1>2, <2>1
    <3>3. KeyLess(k(z[a]), k(z[l])) \/ k(z[a]) = k(z[l])
      BY <1>3, <3>1, <3>2
    <3>4. KeyLess(k(z[l]), k(z[b])) \/ k(z[l]) = k(z[b])
      BY <1>3, <3>1, <3>2
    <3> QED
      BY <1>4, <1>5, <3>2, <3>3, <3>4, KeysOrdered
  <2> QED
    BY <2>1, <2>2, <2>3
<1>6. ASSUME NEW j \in MirrorNames PROVE near(j) <=> k(z[j]) = k(z[i])
  <2>1. i \in Nat /\ j \in Nat
    BY <1>1
  <2>2. CASE i <= j
    <3>1. Min({i, j}) = i /\ Max({i, j}) = j
      BY <2>1, <2>2, BetweenIs
    <3>2. ASSUME k(z[j]) = k(z[i]) PROVE near(j)
      BY <1>5, <3>1, <3>2
    <3>3. ASSUME near(j) PROVE k(z[j]) = k(z[i])
      <4>1. j \in i .. j
        BY <2>1, <2>2
      <4> QED
        BY <3>1, <3>3, <4>1
    <3> QED
      BY <3>2, <3>3
  <2>3. CASE ~(i <= j)
    <3>1. Min({i, j}) = j /\ Max({i, j}) = i
      BY <2>1, <2>3, BetweenIs
    <3>2. ASSUME k(z[j]) = k(z[i]) PROVE near(j)
      BY <1>5, <3>1, <3>2
    <3>3. ASSUME near(j) PROVE k(z[j]) = k(z[i])
      <4>1. j \in j .. i
        BY <2>1, <2>3
      <4> QED
        BY <3>1, <3>3, <4>1
    <3> QED
      BY <3>2, <3>3
  <2> QED
    BY <2>2, <2>3
<1> HIDE DEF near
<1>7. ASSUME NEW m PROVE m \in run <=> m \in Class(s, z[i])
  <2>1. ASSUME m \in run PROVE m \in Class(s, z[i])
    <3>1. PICK j \in MirrorNames : near(j) /\ m = z[j]
      BY <2>1
    <3>2. m \in MirrorNames /\ z[i] \in MirrorNames /\ k(m) = k(z[i])
      BY <1>2, <1>6, <3>1
    <3> QED
      BY <1>4, <3>2 DEF Class
  <2>2. ASSUME m \in Class(s, z[i]) PROVE m \in run
    <3>1. m \in MirrorNames /\ EquivalenceValue(s[m]) = EquivalenceValue(s[z[i]])
      BY <2>2 DEF Class
    <3>2. k(m) = k(z[i])
      BY <1>2, <1>4, <3>1
    <3>3. PICK j \in MirrorNames : z[j] = m
      BY <1>1, <3>1
    <3> QED
      BY <1>6, <3>2, <3>3
  <2> QED
    BY <2>1, <2>2
<1>8. run = Class(s, z[i])
  BY <1>7
<1> QED
  BY <1>8 DEF run, near, k

(* The two derivations agree. *)
LEMMA ReferenceAgrees ==
  ASSUME MirrorTyped, NEW s, Source(s)
  PROVE  ReferenceState(s) = DeriveState(s)
<1> DEFINE z == RankedNames(s)
           run(i) == {z[j] : j \in {k \in MirrorNames :
                        \A l \in Min({i, k}) .. Max({i, k}) :
                           ReferenceSortKey(s[z[l]]) = ReferenceSortKey(s[z[i]])}}
           G == {run(i) : i \in MirrorNames}
<1>1. ReferenceState(s) = AssembleState(G, s)
  BY DEF ReferenceState, RankedNames
<1>2. InOrder(z, MirrorNames, AheadPairs(s))
  BY RankedInOrder
<1>3. \A i \in MirrorNames : run(i) = Class(s, z[i])
  BY <1>2, RunIsClass
<1> HIDE DEF z, run
<1>4. /\ \A i \in MirrorNames : z[i] \in MirrorNames
      /\ \A n \in MirrorNames : \E i \in MirrorNames : z[i] = n
  <2>1. z \in Seq(MirrorNames) /\ Len(z) = NameCount /\ MirrorNames = 1 .. NameCount
        /\ \A x \in MirrorNames : \E j \in 1 .. Len(z) : z[j] = x
    BY <1>2, NamesFinite DEF InOrder, MirrorNames
  <2> QED
    BY <2>1, ElementOfSeq
<1>5. G = {Class(s, n) : n \in MirrorNames}
  <2>1. ASSUME NEW g \in G PROVE g \in {Class(s, n) : n \in MirrorNames}
    BY <1>3, <1>4
  <2>2. ASSUME NEW n \in MirrorNames PROVE Class(s, n) \in G
    BY <1>3, <1>4
  <2> QED
    BY <2>1, <2>2
<1>6. G = EquivalenceClasses(s)
  BY <1>5, ClassesPart
<1> QED
  BY <1>1, <1>6 DEF DeriveState

(* What is known of a state with a mirror. *)
MirrorInv ==
  /\ MirrorTyped
  /\ original \in [MirrorNames -> MirrorNames]
  /\ \A n \in MirrorNames : original[original[n]] = original[n]
  /\ metadata \in [{original[n] : n \in MirrorNames}
                    -> [content : MetadataValues, mode : MetadataValues,
                        mtime : MetadataValues]]
  /\ mirror # Underived => mirror = DeriveState(SourceRecords)

(* The least of some numbers. *)
LEMMA LeastNumber ==
  ASSUME NEW S \in SUBSET Nat, S # {}
  PROVE  \E x \in S : \A y \in S : x <= y
<1>1. PICK x \in S : \A k \in S : ~(<<k, x>> \in OpToRel(<, Nat))
  BY WFMin, NatLessThanWellFounded
<1>2. \A k \in S : ~(k < x)
  BY <1>1 DEF OpToRel
<1>3. \A k \in S : x <= k
  BY <1>2
<1> QED
  BY <1>3

(* The records of the original are a source. *)
LEMMA RecordsSource ==
  ASSUME MirrorInv
  PROVE  Source(SourceRecords)
<1> SUFFICES ASSUME NEW n \in MirrorNames
             PROVE  LET r == SourceRecords[n]
                    IN r.relative = n /\ r.content \in Nat /\ r.mode \in Nat /\ r.mtime \in Nat
  BY DEF Source
<1> DEFINE d == metadata[original[n]]
<1>1. original[n] \in {original[m] : m \in MirrorNames}
  OBVIOUS
<1>2. d \in [content : MetadataValues, mode : MetadataValues, mtime : MetadataValues]
  BY <1>1 DEF MirrorInv
<1>3. MetadataValues \subseteq Nat
  BY MirrorAssumption
<1>5. d.content \in Nat /\ d.mode \in Nat /\ d.mtime \in Nat
  BY <1>2, <1>3
<1>4. SourceRecords[n] = [relative |-> n, content |-> d.content, mode |-> d.mode,
                          mtime |-> d.mtime]
  BY DEF SourceRecords, SourceRecord
<1> HIDE DEF d
<1> QED
  BY <1>4, <1>5

(* The mirror, read as a source, is the owners' records. *)
LEMMA MirroredIs ==
  ASSUME MirrorTyped, NEW s, Source(s), mirror = DeriveState(s), NEW n \in MirrorNames
  PROVE  /\ Mirrored[n].relative = n
         /\ Mirrored[n].content = s[OwnerOf(s, n)].content
         /\ Mirrored[n].mode = s[OwnerOf(s, n)].mode
         /\ Mirrored[n].mtime = s[OwnerOf(s, n)].mtime
<1> DEFINE o(m) == s[OwnerOf(s, m)]
           first(m) == Min(mirror.tree[m].group)
           f == first(n)
<1>1. \A m \in MirrorNames :
        /\ mirror.tree[m].group = Class(s, m) /\ mirror.tree[m].content = o(m).content
        /\ mirror.tree[m].mode = o(m).mode /\ mirror.tree[m].mtime = o(m).mtime
  BY DerivedIs
<1>2. f \in Class(s, n)
  <2>1. n \in Class(s, n) /\ Class(s, n) \in SUBSET MirrorNames
    BY ClassesPart
  <2>2. Class(s, n) \in SUBSET Nat /\ Class(s, n) # {}
    BY <2>1, NamesFinite
  <2>3. \E x \in Class(s, n) : \A y \in Class(s, n) : x <= y
    BY <2>2, LeastNumber
  <2> QED
    BY <1>1, <2>3 DEF Min
<1>3. f \in MirrorNames /\ Class(s, f) = Class(s, n)
  BY <1>2, ClassesPart DEF Class
<1>4. o(f) = o(n)
  BY <1>3 DEF OwnerOf
<1>5. Mirrored[n] = SourceRecord(n, [m \in MirrorNames |-> first(m)],
                                 [m \in MirrorNames |-> mirror.tree[m]])
  BY DEF Mirrored
<1> HIDE DEF first, o
<1>6. Mirrored[n] = [relative |-> n, content |-> mirror.tree[f].content,
                     mode |-> mirror.tree[f].mode, mtime |-> mirror.tree[f].mtime]
  BY <1>3, <1>5 DEF SourceRecord
<1> QED
  BY <1>1, <1>3, <1>4, <1>6 DEF o

(* A mirror of the mirror is the mirror. *)
LEMMA MirrorAgain ==
  ASSUME MirrorTyped, NEW s, Source(s), mirror = DeriveState(s)
  PROVE  DeriveState(Mirrored) = mirror
<1> DEFINE w == Mirrored
           o(n) == s[OwnerOf(s, n)]
<1>1. \A n \in MirrorNames :
        /\ w[n].relative = n /\ w[n].content = o(n).content
        /\ w[n].mode = o(n).mode /\ w[n].mtime = o(n).mtime
  BY MirroredIs
<1>2. \A n \in MirrorNames :
        /\ OwnerOf(s, n) \in MirrorNames
        /\ EquivalenceValue(o(n)) = EquivalenceValue(s[n])
  BY DerivedIs
<1> HIDE DEF w
<1>3. Source(w)
  BY <1>1, <1>2 DEF Source
<1>4. ASSUME NEW n \in MirrorNames PROVE EquivalenceValue(w[n]) = EquivalenceValue(s[n])
  <2>1. o(n).content = s[n].content /\ (key = "mode-and-sha256" => o(n).mode = s[n].mode)
    BY <1>2, SameKeySameBytes
  <2>2. s[n].relative = n
    BY DEF Source
  <2> QED
    BY <1>1, <2>1, <2>2, KeyIs
<1>5. \A n \in MirrorNames : Class(w, n) = Class(s, n)
  BY <1>4 DEF Class
<1>6. EquivalenceClasses(w) = EquivalenceClasses(s)
  <2>1. EquivalenceClasses(w) = {Class(w, n) : n \in MirrorNames}
        /\ EquivalenceClasses(s) = {Class(s, n) : n \in MirrorNames}
    BY ClassesPart
  <2>2. {Class(w, n) : n \in MirrorNames} = {Class(s, n) : n \in MirrorNames}
    BY <1>5
  <2> QED
    BY <2>1, <2>2
<1>7. ASSUME NEW n \in MirrorNames
      PROVE  /\ w[OwnerOf(w, n)].content = o(n).content
             /\ w[OwnerOf(w, n)].mode = o(n).mode
             /\ w[OwnerOf(w, n)].mtime = o(n).mtime
  <2> DEFINE x == OwnerOf(w, n)
  <2>1. x \in MirrorNames /\ EquivalenceValue(w[x]) = EquivalenceValue(w[n])
    BY <1>3, DerivedIs
  <2>2. Class(s, x) = Class(s, n)
    BY <1>4, <2>1, ClassesPart
  <2>3. o(x) = o(n)
    BY <2>2 DEF OwnerOf
  <2> QED
    BY <1>1, <2>1, <2>3
<1> HIDE DEF o
<1>8. [n \in MirrorNames |->
         [group |-> Class(w, n), content |-> w[OwnerOf(w, n)].content,
          mode |-> w[OwnerOf(w, n)].mode, mtime |-> w[OwnerOf(w, n)].mtime]]
      = [n \in MirrorNames |->
           [group |-> Class(s, n), content |-> o(n).content, mode |-> o(n).mode,
            mtime |-> o(n).mtime]]
  BY <1>5, <1>7
<1>9. DeriveState(w)
        = [tree |-> [n \in MirrorNames |->
             [group |-> Class(w, n), content |-> w[OwnerOf(w, n)].content,
              mode |-> w[OwnerOf(w, n)].mode, mtime |-> w[OwnerOf(w, n)].mtime]],
           saved |-> NameCount - Cardinality(EquivalenceClasses(w))]
  BY <1>3, DerivedIs
<1>10. mirror
        = [tree |-> [n \in MirrorNames |->
             [group |-> Class(s, n), content |-> o(n).content, mode |-> o(n).mode,
              mtime |-> o(n).mtime]],
           saved |-> NameCount - Cardinality(EquivalenceClasses(s))]
  BY DerivedIs DEF o
<1> QED
  BY <1>6, <1>8, <1>9, <1>10 DEF w

(* The invariant implies the property. *)
LEMMA MirrorInvRight ==
  ASSUME MirrorInv
  PROVE  MirrorRight
<1> SUFFICES ASSUME mirror # Underived PROVE MirrorRight
  BY DEF MirrorRight
<1> DEFINE s == SourceRecords
<1>1. Source(s) /\ MirrorTyped /\ mirror = DeriveState(s)
  BY RecordsSource DEF MirrorInv
<1>2. mirror = ReferenceState(s) /\ DeriveState(Mirrored) = mirror
  BY <1>1, ReferenceAgrees, MirrorAgain
<1> HIDE DEF s
<1>3. /\ \A n \in MirrorNames :
           /\ mirror.tree[n].group = Class(s, n)
           /\ mirror.tree[n].content = s[OwnerOf(s, n)].content
           /\ EquivalenceValue(s[OwnerOf(s, n)]) = EquivalenceValue(s[n])
      /\ mirror.saved = NameCount - Cardinality(EquivalenceClasses(s))
  BY <1>1, DerivedIs
<1>4. \A n \in MirrorNames : mirror.tree[n].content = s[n].content
  BY <1>1, <1>3, SameKeySameBytes
<1>5. \A m, n \in MirrorNames :
         mirror.tree[m].group = mirror.tree[n].group
           <=> EquivalenceValue(s[m]) = EquivalenceValue(s[n])
  BY <1>3, ClassesPart
<1>6. mirror.saved + Cardinality({mirror.tree[n].group : n \in MirrorNames}) = NameCount
  <2>1. {mirror.tree[n].group : n \in MirrorNames} = EquivalenceClasses(s)
    BY <1>3, ClassesPart
  <2>2. IsFiniteSet(EquivalenceClasses(s))
    <3> DEFINE f == [n \in MirrorNames |-> Class(s, n)]
    <3>1. EquivalenceClasses(s) = {f[n] : n \in MirrorNames}
      BY ClassesPart
    <3>2. f \in Surjection(MirrorNames, EquivalenceClasses(s))
      BY <3>1 DEF Surjection
    <3> QED
      BY <3>2, NamesFinite, FS_Surjection
  <2>3. Cardinality(EquivalenceClasses(s)) \in Nat /\ NameCount \in Nat
    BY <2>2, FS_CardinalityType, NamesFinite
  <2> QED
    <3> DEFINE c == Cardinality(EquivalenceClasses(s))
    <3>1. c \in Nat /\ NameCount \in Nat /\ mirror.saved = NameCount - c
      BY <1>3, <2>3
    <3> HIDE DEF c
    <3>2. mirror.saved + c = NameCount
      BY <3>1
    <3> QED
      BY <2>1, <3>2 DEF c
<1> QED
  BY <1>2, <1>4, <1>5, <1>6 DEF MirrorRight, s

(* At first no mirror has been derived. *)
LEMMA MirrorInvStart == MirrorInit => MirrorInv
<1> SUFFICES ASSUME MirrorInit PROVE MirrorInv
  OBVIOUS
<1>1. declaredGroup \in [MirrorNames -> Nat]
  <2>1. MetadataValues \subseteq Nat
    BY MirrorAssumption
  <2>2. CASE key = "declared-group-and-sha256"
    BY <2>1, <2>2 DEF MirrorInit
  <2>3. CASE key # "declared-group-and-sha256"
    <3>1. declaredGroup = [n \in MirrorNames |-> 0]
      BY <2>3 DEF MirrorInit
    <3> QED
      BY <3>1
  <2> QED
    BY <2>2, <2>3
<1>2. /\ ownerPriority \in [MirrorNames -> Nat]
      /\ \A m, n \in MirrorNames : ownerPriority[m] = ownerPriority[n] => m = n
  <2>1. NameCount \in Nat /\ MirrorNames = 1 .. NameCount
    BY NamesFinite DEF MirrorNames
  <2> QED
    <3>1. CASE ownerPolicy = "manifest-priority"
      <4>1. ownerPriority \in {f \in [MirrorNames -> 0 .. NameCount - 1] :
                               \A m, n \in MirrorNames : f[m] = f[n] => m = n}
        BY <3>1 DEF MirrorInit
      <4> QED
        BY <2>1, <4>1
    <3>2. CASE ownerPolicy # "manifest-priority"
      <4>1. ownerPriority = [n \in MirrorNames |-> n - 1]
        BY <3>2 DEF MirrorInit
      <4> QED
        BY <2>1, <4>1
    <3> QED
      BY <3>1, <3>2
<1>3. /\ metadata \in [{original[n] : n \in MirrorNames}
                    -> [content : MetadataValues, mode : MetadataValues,
                        mtime : MetadataValues]]
      /\ original \in [MirrorNames -> MirrorNames]
      /\ \A n \in MirrorNames : original[original[n]] = original[n]
      /\ key \in Keys /\ ownerPolicy \in OwnerPolicies /\ mirror = Underived
  BY DEF MirrorInit
<1> QED
  BY <1>1, <1>2, <1>3 DEF MirrorInv, MirrorTyped

(* A mirror is derived from a task that does not change. *)
LEMMA MirrorInvStep ==
  ASSUME MirrorInv, [DeriveMirror]_mirrorVars
  PROVE  MirrorInv'
<1>1. CASE DeriveMirror
  <2>2. UNCHANGED <<original, metadata, declaredGroup, ownerPriority, key, ownerPolicy>>
    BY <1>1 DEF DeriveMirror
  <2>1. /\ SourceRecords' = SourceRecords
        /\ DeriveState(SourceRecords)' = DeriveState(SourceRecords)
    BY <2>2 DEF SourceRecords, SourceRecord, DeriveState, AssembleState,
         EquivalenceClasses,
                EquivalenceValue, ChooseOwner, Preferred
  <2> QED
    BY <1>1, <2>1 DEF MirrorInv, MirrorTyped, DeriveMirror
<1>2. CASE UNCHANGED mirrorVars
  <2>1. /\ SourceRecords' = SourceRecords
        /\ DeriveState(SourceRecords)' = DeriveState(SourceRecords)
    BY <1>2 DEF mirrorVars, SourceRecords, SourceRecord, DeriveState, AssembleState,
         EquivalenceClasses,
                EquivalenceValue, ChooseOwner, Preferred
  <2> QED
    BY <1>2, <2>1 DEF MirrorInv, MirrorTyped, mirrorVars
<1> QED
  BY <1>1, <1>2

(* Both derivations agree, and a mirror of the mirror is the mirror.        *)
THEOREM MirrorsRight == MirrorSpec => []MirrorRight
<1>1. MirrorInit => MirrorInv
  BY MirrorInvStart
<1>2. MirrorInv /\ [DeriveMirror]_mirrorVars => MirrorInv'
  BY MirrorInvStep
<1>3. MirrorInv => MirrorRight
  BY MirrorInvRight
<1> QED
  BY <1>1, <1>2, <1>3, PTL DEF MirrorSpec

(***************************************************************************)
(* BatchRename: RenameRight.                                               *)
(***************************************************************************)
(* A function's image of a finite set. *)
LEMMA ImageFinite ==
  ASSUME NEW S, IsFiniteSet(S), NEW f, DOMAIN f = S
  PROVE  IsFiniteSet({f[x] : x \in S})
<1>1. [x \in S |-> f[x]] \in Surjection(S, {f[x] : x \in S})
  BY DEF Surjection
<1> QED
  BY <1>1, FS_Surjection

(* The files are finitely many, and no two names have one position. *)
LEMMA FilesFinite ==
  /\ Names = {NameOrder[i] : i \in DOMAIN NameOrder} /\ IsFiniteSet(Names)
  /\ \A n \in Names : Position(n) \in Nat
  /\ \A m, n \in Names : Position(m) = Position(n) => m = n
  /\ IsFiniteSet([parent : Parents, name : Names])
<1>1. DOMAIN NameOrder = 1 .. Len(NameOrder) /\ Len(NameOrder) \in Nat
  BY RenameAssumption
<1>2. IsFiniteSet(1 .. Len(NameOrder))
  <2>1. 1 \in Int /\ Len(NameOrder) \in Int
    BY <1>1
  <2> QED
    BY <2>1, FS_Interval
<1>3. IsFiniteSet(Names)
  BY <1>1, <1>2, ImageFinite DEF Names
<1>4. ASSUME NEW n \in Names
      PROVE  Position(n) \in DOMAIN NameOrder /\ NameOrder[Position(n)] = n
  BY DEF Names, Position
<1>5. \A n \in Names : Position(n) \in Nat
  BY <1>1, <1>4
<1>6. \A m, n \in Names : Position(m) = Position(n) => m = n
  BY <1>4
<1>7. IsFiniteSet([parent : Parents, name : Names])
  <2> DEFINE S == Parents \X Names
             f == [p \in S |-> [parent |-> p[1], name |-> p[2]]]
  <2>1. IsFiniteSet(S)
    BY <1>3, FS_Product, RenameAssumption
  <2>2. [parent : Parents, name : Names] = {f[p] : p \in S}
    <3>1. ASSUME NEW p \in S PROVE f[p] \in [parent : Parents, name : Names]
      OBVIOUS
    <3>2. ASSUME NEW r \in [parent : Parents, name : Names] PROVE \E p \in S : f[p] = r
      <4>1. <<r.parent, r.name>> \in S /\ r = [parent |-> r.parent, name |-> r.name]
        OBVIOUS
      <4> QED
        BY <4>1
    <3> HIDE DEF f, S
    <3> QED
      BY <3>1, <3>2
  <2> HIDE DEF S
  <2>3. DOMAIN f = S
    OBVIOUS
  <2> HIDE DEF f
  <2>4. IsFiniteSet({f[p] : p \in S})
    BY <2>1, <2>3, ImageFinite
  <2> QED
    BY <2>2, <2>4, Zenon
<1> QED
  BY <1>3, <1>5, <1>6, <1>7 DEF Names

RenameTyped ==
  /\ candidates \in SUBSET [parent : Parents, name : Names] /\ IsFiniteSet(candidates)
  /\ collisionPolicy \in CollisionPolicies

(* The files of a destination, and their order. *)
Targets(d) == {f \in candidates : Destination(f) = d}
RawPairs == {p \in candidates \X candidates : RawBefore(p[1], p[2])}

(* The raw order is a strict order. *)
LEMMA FilesOrdered ==
  ASSUME RenameTyped, NEW d
  PROVE  /\ IsFiniteSet(Targets(d)) /\ Ordering(Targets(d), RawPairs)
         /\ \A f, g \in candidates : <<f, g>> \in RawPairs <=> RawBefore(f, g)
<1> DEFINE R == RawPairs
           at(f) == Position(f.name)
<1>1. \A f, g \in candidates : <<f, g>> \in R <=> RawBefore(f, g)
  BY DEF RawPairs
<1>2. \A f, g \in candidates : RawBefore(f, g)
                 <=> f.parent < g.parent \/ (f.parent = g.parent /\ at(f) < at(g))
  BY DEF RawBefore
<1>3. ASSUME NEW f \in candidates
      PROVE  f.parent \in Nat /\ at(f) \in Nat /\ f.name \in Names
             /\ f = [parent |-> f.parent, name |-> f.name]
  <2>1. f \in [parent : Parents, name : Names] /\ Parents \subseteq Nat
    BY RenameAssumption DEF RenameTyped
  <2> QED
    BY <2>1, FilesFinite
<1>4. ASSUME NEW f \in candidates, NEW g \in candidates, f.parent = g.parent, at(f) = at(g)
      PROVE  f = g
  <2>1. f.name = g.name
    BY <1>3, <1>4, FilesFinite
  <2> QED
    BY <1>3, <1>4, <2>1
<1> HIDE DEF R, at
<1>5. \A f \in candidates : <<f, f>> \notin R
  BY <1>1, <1>2, <1>3
<1>6. \A f, g, h \in candidates : <<f, g>> \in R /\ <<g, h>> \in R => <<f, h>> \in R
  <2> DEFINE b(f, g) == RawBefore(f, g)
  <2>1. \A f, g, h \in candidates : b(f, g) /\ b(g, h) => b(f, h)
    BY <1>2, <1>3
  <2> QED
    BY <1>1, <2>1
<1>7. ASSUME NEW f \in candidates, NEW g \in candidates
      PROVE  f = g \/ <<f, g>> \in R \/ <<g, f>> \in R
  <2>1. f.parent \in Nat /\ at(f) \in Nat /\ g.parent \in Nat /\ at(g) \in Nat
    BY <1>3
  <2> QED
    BY <1>1, <1>2, <1>4, <2>1
<1>8. Targets(d) \subseteq candidates
  BY DEF Targets
<1>9. IsFiniteSet(Targets(d))
  BY <1>8, FS_Subset DEF RenameTyped
<1> QED
  BY <1>1, <1>5, <1>6, <1>7, <1>8, <1>9 DEF Ordering, R

(* A group is in raw order. *)
LEMMA GroupInOrder ==
  ASSUME RenameTyped, NEW d
  PROVE  InOrder(GroupOf(d), Targets(d), RawPairs)
<1> DEFINE D == Targets(d)
           R == RawPairs
           place == GroupOf(d)
           B(f, g) == RawBefore(f, g)
           e(k) == CHOOSE z \in D : Cardinality({y \in D : B(y, z)}) = k - 1
<1>1. IsFiniteSet(D) /\ Ordering(D, R)
      /\ \A f, g \in candidates : <<f, g>> \in R <=> RawBefore(f, g)
  BY FilesOrdered
<1>2. place = [k \in 1 .. Cardinality(D) |-> e(k)]
  BY DEF GroupOf, Ranked, Targets
<1>3. \A z \in D : {y \in D : B(y, z)} = Ahead(D, R, z)
  BY <1>1 DEF Ahead, Targets
<1> HIDE DEF B, place, D, R
<1>4. ASSUME NEW k \in 1 .. Cardinality(D)
      PROVE  e(k) \in D /\ Cardinality(Ahead(D, R, e(k))) = k - 1
  <2>1. PICK w \in D : Cardinality(Ahead(D, R, w)) = k - 1
    BY <1>1, RankTaken
  <2>2. Cardinality({y \in D : B(y, w)}) = k - 1
    BY <1>3, <2>1
  <2>3. e(k) \in D /\ Cardinality({y \in D : B(y, e(k))}) = k - 1
    BY <2>2
  <2> QED
    BY <1>3, <2>3
<1> HIDE DEF e
<1>5. Ranks(place, D, R)
  BY <1>2, <1>4 DEF Ranks
<1> QED
  BY <1>1, <1>5, PlacesInOrder DEF D, R, place

(* The reference's decision about one file. *)
Peers(f) == Targets(Destination(f))
FirstOf(f) == \A g \in Peers(f) : g = f \/ RawBefore(f, g)
LastOf(f) == \A g \in Peers(f) : g = f \/ RawBefore(g, f)
AlikeFor(f) == \A g, h \in Peers(f) : content[g] = content[h]
Wins(f) ==
  /\ ~Rejected
  /\ \/ Peers(f) = {f}
     \/ collisionPolicy = "stable-first" /\ FirstOf(f)
     \/ collisionPolicy = "stable-last" /\ LastOf(f)
     \/ collisionPolicy = "identical-files-coalesce" /\ FirstOf(f) /\ AlikeFor(f)
OutcomeOf(f) ==
  CASE Rejected -> "retained-rejected"
    [] Wins(f) -> "moved"
    [] OTHER ->
         CASE collisionPolicy = "skip-collisions" -> "retained-collision"
           [] collisionPolicy \in {"stable-first", "stable-last"} -> "retained-loser"
           [] OTHER -> IF AlikeFor(f) THEN "coalesced" ELSE "retained-nonidentical"
WinnerOf(f) == IF \E g \in Peers(f) : Wins(g) THEN CHOOSE g \in Peers(f) : Wins(g) ELSE ""
DecisionOf(f) == Action(f, OutcomeOf(f), WinnerOf(f), Cardinality(Peers(f)))

(* The reference decides about every file on its own. *)
LEMMA ReferenceDecides == ReferenceActions = {DecisionOf(f) : f \in candidates}
BY DEF ReferenceActions, DecisionOf, OutcomeOf, WinnerOf, Wins, FirstOf, LastOf, AlikeFor,
       Peers, Targets

(* A group, as a list and as a set. *)
LEMMA GroupFacts ==
  ASSUME RenameTyped, NEW f \in candidates, NEW d, d = Destination(f),
         NEW g, g = GroupOf(d), NEW n, n = Len(g)
  PROVE  /\ n \in Nat /\ n >= 1 /\ n = Cardinality(Peers(f)) /\ DOMAIN g = 1 .. n
         /\ g[1] \in Peers(f) /\ g[n] \in Peers(f) /\ {g[i] : i \in DOMAIN g} = Peers(f)
         /\ FirstOf(f) <=> f = g[1]
         /\ LastOf(f) <=> f = g[n]
         /\ AlikeFor(f) <=> Identical(g)
         /\ Peers(f) = {f} <=> n = 1
<1> DEFINE T == Peers(f)
           R == RawPairs
<1>1. InOrder(g, T, R)
  BY GroupInOrder DEF Peers
<1>2. /\ f \in T /\ T \subseteq candidates
      /\ \A x, y \in candidates : <<x, y>> \in R <=> RawBefore(x, y)
      /\ Ordering(T, R)
  BY FilesOrdered DEF Peers, Targets
<1> HIDE DEF R, T
<1>3. /\ n \in Nat /\ n = Cardinality(T) /\ g \in Seq(T) /\ DOMAIN g = 1 .. n
      /\ \A x \in T : \E k \in 1 .. n : g[k] = x
      /\ \A i, j \in 1 .. n : i < j <=> <<g[i], g[j]>> \in R
      /\ \A i, j \in 1 .. n : g[i] = g[j] => i = j
  BY <1>1 DEF InOrder
<1>4. PICK k \in 1 .. n : g[k] = f
  BY <1>2, <1>3
<1>5. \A i \in 1 .. n : g[i] \in T
  BY <1>3, ElementOfSeq
<1>6. n >= 1 /\ 1 \in 1 .. n /\ n \in 1 .. n
  BY <1>3, <1>4
<1>7. {g[i] : i \in DOMAIN g} = T
  BY <1>3, <1>5
<1>8. FirstOf(f) <=> f = g[1]
  <2>1. ASSUME FirstOf(f) PROVE f = g[1]
    <3>1. g[1] = f \/ <<f, g[1]>> \in R
      BY <1>2, <1>5, <1>6, <2>1 DEF FirstOf, T
    <3>2. <<f, g[1]>> \in R <=> k < 1
      BY <1>3, <1>4, <1>6
    <3> QED
      BY <1>3, <1>4, <3>1, <3>2
  <2>2. ASSUME f = g[1] PROVE FirstOf(f)
    <3>1. SUFFICES ASSUME NEW x \in T PROVE x = f \/ RawBefore(f, x)
      BY DEF FirstOf, T
    <3>2. PICK i \in 1 .. n : g[i] = x
      BY <1>3
    <3>3. i = 1 \/ 1 < i
      BY <1>3
    <3>4. CASE 1 < i
      <4>1. <<g[1], g[i]>> \in R
        BY <1>3, <1>6, <3>4
      <4> QED
        BY <1>2, <2>2, <3>2, <4>1
    <3> QED
      BY <2>2, <3>2, <3>3, <3>4
  <2> QED
    BY <2>1, <2>2
<1>9. LastOf(f) <=> f = g[n]
  <2>1. ASSUME LastOf(f) PROVE f = g[n]
    <3>1. g[n] = f \/ <<g[n], f>> \in R
      BY <1>2, <1>5, <1>6, <2>1 DEF LastOf, T
    <3>2. <<g[n], f>> \in R <=> n < k
      BY <1>3, <1>4, <1>6
    <3> QED
      BY <1>3, <1>4, <3>1, <3>2
  <2>2. ASSUME f = g[n] PROVE LastOf(f)
    <3>1. SUFFICES ASSUME NEW x \in T PROVE x = f \/ RawBefore(x, f)
      BY DEF LastOf, T
    <3>2. PICK i \in 1 .. n : g[i] = x
      BY <1>3
    <3>3. i = n \/ i < n
      BY <1>3
    <3>4. CASE i < n
      <4>1. <<g[i], g[n]>> \in R
        BY <1>3, <1>6, <3>4
      <4> QED
        BY <1>2, <2>2, <3>2, <4>1
    <3> QED
      BY <2>2, <3>2, <3>3, <3>4
  <2> QED
    BY <2>1, <2>2
<1>10. AlikeFor(f) <=> Identical(g)
  <2>1. ASSUME AlikeFor(f) PROVE Identical(g)
    BY <1>3, <1>5, <1>6, <2>1 DEF AlikeFor, Identical, T
  <2>2. ASSUME Identical(g), NEW x \in T, NEW y \in T PROVE content[x] = content[y]
    <3>1. PICK i \in 1 .. n : g[i] = x
      BY <1>3
    <3>2. PICK j \in 1 .. n : g[j] = y
      BY <1>3
    <3> QED
      BY <1>3, <2>2, <3>1, <3>2 DEF Identical
  <2> QED
    BY <2>1, <2>2 DEF AlikeFor, T
<1>11. T = {f} <=> n = 1
  <2>1. ASSUME T = {f} PROVE n = 1
    <3>1. g[1] = g[n]
      BY <1>5, <1>6, <2>1
    <3> QED
      BY <1>3, <1>6, <3>1
  <2>2. ASSUME n = 1, NEW x \in T PROVE x = f
    BY <1>3, <1>4, <2>2
  <2> QED
    BY <1>2, <2>1, <2>2
<1> QED
  BY <1>3, <1>5, <1>6, <1>7, <1>8, <1>9, <1>10, <1>11 DEF T

(* A group, without a name for it. *)
LEMMA GroupSays ==
  ASSUME RenameTyped, NEW f \in candidates
  PROVE  LET g == GroupOf(Destination(f))
         IN /\ Len(g) \in Nat /\ Len(g) >= 1 /\ Len(g) = Cardinality(Peers(f))
            /\ DOMAIN g = 1 .. Len(g)
            /\ g[1] \in Peers(f) /\ g[Len(g)] \in Peers(f)
            /\ {g[i] : i \in DOMAIN g} = Peers(f)
            /\ AlikeFor(f) <=> Identical(g)
            /\ Wins(f) <=>
                 /\ ~Rejected
                 /\ \/ Len(g) = 1
                    \/ collisionPolicy = "stable-first" /\ f = g[1]
                    \/ collisionPolicy = "stable-last" /\ f = g[Len(g)]
                    \/ collisionPolicy = "identical-files-coalesce" /\ f = g[1] /\ Identical(g)
<1> DEFINE d == Destination(f)
           g == GroupOf(d)
           n == Len(g)
<1> HIDE DEF d, g, n
<1>1. d = Destination(f) /\ g = GroupOf(d) /\ n = Len(g)
  BY DEF d, g, n
<1>2. /\ n \in Nat /\ n >= 1 /\ n = Cardinality(Peers(f)) /\ DOMAIN g = 1 .. n
      /\ g[1] \in Peers(f) /\ g[n] \in Peers(f) /\ {g[i] : i \in DOMAIN g} = Peers(f)
      /\ FirstOf(f) <=> f = g[1]
      /\ LastOf(f) <=> f = g[n]
      /\ AlikeFor(f) <=> Identical(g)
      /\ Peers(f) = {f} <=> n = 1
  BY <1>1, GroupFacts
<1>3. Wins(f) <=>
           /\ ~Rejected
           /\ \/ n = 1
              \/ collisionPolicy = "stable-first" /\ f = g[1]
              \/ collisionPolicy = "stable-last" /\ f = g[n]
              \/ collisionPolicy = "identical-files-coalesce" /\ f = g[1] /\ Identical(g)
  BY <1>2 DEF Wins
<1> QED
  BY <1>1, <1>2, <1>3

(* A group with more than one file is a collision. *)
LEMMA AloneUnlessCollision ==
  ASSUME RenameTyped, NEW f \in candidates, ~Rejected, collisionPolicy = "reject-all"
  PROVE  Len(GroupOf(Destination(f))) = 1
<1> DEFINE d == Destination(f)
           n == Len(GroupOf(d))
<1>1. n \in Nat /\ n >= 1
  BY GroupSays
<1>2. d \in Destinations /\ Collisions = {}
  BY DEF Destinations, Rejected
<1>3. ~(n > 1)
  BY <1>2 DEF Collisions
<1> HIDE DEF n
<1>4. n = 1
  BY <1>1, <1>3
<1> QED
  BY <1>4 DEF n

(* A group nothing of which moves, and one with a winner. *)
LEMMA NoneMoves ==
  ASSUME RenameTyped, NEW d \in Destinations, \A f \in Targets(d) : ~Wins(f)
  PROVE  \A f \in Targets(d) : WinnerOf(f) = "" /\ OutcomeOf(f) # "moved"
<1> SUFFICES ASSUME NEW f \in Targets(d) PROVE WinnerOf(f) = "" /\ OutcomeOf(f) # "moved"
  OBVIOUS
<1>1. Peers(f) = Targets(d)
  BY DEF Peers, Targets
<1> QED
  BY <1>1 DEF WinnerOf, OutcomeOf

(* If one file of a group moves, it is the one that the others yield to. *)
LEMMA OneMoves ==
  ASSUME RenameTyped, NEW d \in Destinations, NEW w \in Targets(d),
         \A f \in Targets(d) : Wins(f) <=> f = w
  PROVE  /\ \A f \in Targets(d) : WinnerOf(f) = w
         /\ (CHOOSE f \in Targets(d) : Wins(f)) = w
<1> DEFINE T == Targets(d)
<1>1. (CHOOSE f \in T : Wins(f)) = w
  OBVIOUS
<1>2. ASSUME NEW f \in T PROVE WinnerOf(f) = w
  <2>1. Peers(f) = T
    BY DEF Peers, Targets
  <2> QED
    BY <1>1, <2>1 DEF WinnerOf
<1> QED
  BY <1>1, <1>2

(* What has been decided. *)
Settled == {f \in candidates : Destination(f) \notin pending}
Written == {d \in Destinations \ pending : \E f \in Targets(d) : Wins(f)}
WriterOf(d) == CHOOSE f \in Targets(d) : Wins(f)

RenameInv ==
  /\ RenameTyped
  /\ pending \subseteq Destinations
  /\ actions = {DecisionOf(f) : f \in Settled}
  /\ representatives = [d \in Written |-> WriterOf(d)]

(* The task does not change. *)
LEMMA TaskSteady ==
  ASSUME UNCHANGED <<candidates, content, mapping, renameRule, collisionPolicy>>
  PROVE  /\ \A f : Destination(f)' = Destination(f)
         /\ Destinations' = Destinations
         /\ \A d : Targets(d)' = Targets(d)
         /\ \A f : Wins(f)' <=> Wins(f)
         /\ \A f : DecisionOf(f)' = DecisionOf(f)
         /\ RenameTyped => RenameTyped'
<1>1. \A f : Destination(f)' = Destination(f)
  BY DEF Destination, RawBefore, Position
<1>2. Destinations' = Destinations /\ \A d : Targets(d)' = Targets(d)
  BY <1>1 DEF Destinations, Targets
<1>3. ASSUME NEW d PROVE GroupOf(d)' = GroupOf(d)
  <2> DEFINE T == Targets(d)
  <2>1. GroupOf(d) = [k \in 1 .. Cardinality(T) |->
          CHOOSE x \in T : Cardinality({y \in T : RawBefore(y, x)}) = k - 1]
    BY DEF GroupOf, Ranked, Targets
  <2>2. GroupOf(d)' = [k \in 1 .. Cardinality(T') |->
          CHOOSE x \in T' : Cardinality({y \in T' : RawBefore(y, x)}) = k - 1]
    BY DEF GroupOf, Ranked, Targets, RawBefore, Position
  <2>3. T' = T
    BY <1>2
  <2> HIDE DEF T
  <2> QED
    BY <2>1, <2>2, <2>3
<1>4. Collisions' = Collisions
  BY <1>2, <1>3 DEF Collisions
<1>5. Rejected' <=> Rejected
  BY <1>4 DEF Rejected
<1>6. \A f : Peers(f)' = Peers(f)
  BY <1>1, <1>2 DEF Peers
<1>7. \A f : Wins(f)' <=> Wins(f)
  BY <1>5, <1>6 DEF Wins, FirstOf, LastOf, AlikeFor, RawBefore, Position
<1>8. \A f : OutcomeOf(f)' = OutcomeOf(f)
  BY <1>5, <1>6, <1>7 DEF OutcomeOf, AlikeFor
<1>9. \A f : WinnerOf(f)' = WinnerOf(f)
  BY <1>6, <1>7 DEF WinnerOf
<1>10. \A f : DecisionOf(f)' = DecisionOf(f)
  BY <1>1, <1>6, <1>8, <1>9 DEF DecisionOf, Action
<1>11. RenameTyped => RenameTyped'
  BY DEF RenameTyped
<1> QED
  BY <1>1, <1>2, <1>7, <1>10, <1>11

(* One group is decided. *)
LEMMA KeepStep ==
  ASSUME RenameInv, NEW d \in pending, NEW g, g = GroupOf(d), NEW verdict,
         \A f \in Targets(d) : ~Wins(f) /\ OutcomeOf(f) = verdict,
         Keep(g, verdict)
  PROVE  /\ actions' = actions \cup {DecisionOf(f) : f \in Targets(d)}
         /\ representatives' = representatives
<1>1. RenameTyped /\ d \in Destinations
  BY DEF RenameInv
<1>2. PICK f \in candidates : Destination(f) = d
  BY <1>1 DEF Destinations
<1>3. Peers(f) = Targets(d)
  BY <1>2 DEF Peers
<1>4. {g[i] : i \in DOMAIN g} = Targets(d) /\ Len(g) = Cardinality(Targets(d))
  BY <1>1, <1>2, <1>3, GroupSays
<1>5. ASSUME NEW h \in Targets(d) PROVE DecisionOf(h) = Action(h, verdict, "", Len(g))
  <2>1. Peers(h) = Targets(d) /\ WinnerOf(h) = ""
    BY <1>1, NoneMoves DEF Peers, Targets
  <2> QED
    BY <1>4, <2>1 DEF DecisionOf
<1> DEFINE act(h) == Action(h, verdict, "", Len(g))
<1>6. {act(g[i]) : i \in DOMAIN g} = {DecisionOf(h) : h \in Targets(d)}
  <2> HIDE DEF act
  <2>1. \A h \in Targets(d) : DecisionOf(h) = act(h)
    BY <1>5 DEF act
  <2> QED
    BY <1>4, <2>1
<1>7. actions' = actions \cup {act(g[i]) : i \in DOMAIN g}
  BY DEF Keep
<1> QED
  BY <1>6, <1>7 DEF Keep

Put(r, d, w) == [x \in DOMAIN r \cup {d} |-> IF x = d THEN w ELSE r[x]]

MovesOne(d, w, other) ==
  \A f \in Targets(d) : OutcomeOf(f) = IF f = w THEN "moved" ELSE other

(* What the election of one file records. *)
LEMMA ElectStep ==
  ASSUME RenameInv, NEW d \in pending, NEW g, g = GroupOf(d), NEW other,
         NEW w \in Targets(d), \A f \in Targets(d) : Wins(f) <=> f = w,
         MovesOne(d, w, other), Elect(g, w, other)
  PROVE  /\ actions' = actions \cup {DecisionOf(f) : f \in Targets(d)}
         /\ representatives' = Put(representatives, d, w)
<1>1. RenameTyped /\ d \in Destinations
  BY DEF RenameInv
<1>2. Destination(w) = d /\ w \in candidates
  BY DEF Targets
<1>3. Peers(w) = Targets(d)
  BY <1>2 DEF Peers
<1>4. {g[i] : i \in DOMAIN g} = Targets(d) /\ Len(g) = Cardinality(Targets(d))
  BY <1>1, <1>2, <1>3, GroupSays
<1> DEFINE act(h) == Action(h, IF h = w THEN "moved" ELSE other, w, Len(g))
<1>5. ASSUME NEW h \in Targets(d) PROVE DecisionOf(h) = act(h)
  <2>1. Peers(h) = Targets(d) /\ WinnerOf(h) = w
    BY <1>1, OneMoves DEF Peers, Targets
  <2> QED
    BY <1>4, <2>1 DEF DecisionOf, MovesOne
<1>6. {act(g[i]) : i \in DOMAIN g} = {DecisionOf(h) : h \in Targets(d)}
  <2> HIDE DEF act
  <2> QED
    BY <1>4, <1>5
<1>7. actions' = actions \cup {act(g[i]) : i \in DOMAIN g}
  BY DEF Elect
<1> QED
  BY <1>2, <1>6, <1>7 DEF Elect, Put

(* What the decision about a group records. *)
LEMMA GroupStep ==
  ASSUME RenameInv, DecideGroup
  PROVE  LET d == CHOOSE x \in pending : TRUE
             T == Targets(d)
         IN /\ actions' = actions \cup {DecisionOf(f) : f \in T}
            /\ \/ /\ \A f \in T : ~Wins(f)
                  /\ representatives' = representatives
               \/ \E w \in T :
                    /\ \A f \in T : Wins(f) <=> f = w
                    /\ representatives' = Put(representatives, d, w)
<1> DEFINE d == CHOOSE x \in pending : TRUE
           T == Targets(d)
           g == GroupOf(d)
           n == Len(g)
           Kept(verdict) == \A f \in T : ~Wins(f) /\ OutcomeOf(f) = verdict
           Won(w, other) == /\ w \in T /\ \A f \in T : Wins(f) <=> f = w
                            /\ \A f \in T : OutcomeOf(f) = IF f = w THEN "moved" ELSE other
<1>1. d \in pending /\ RenameTyped /\ d \in Destinations
  BY DEF DecideGroup, RenameInv
<1>2. PICK one \in candidates : Destination(one) = d
  BY <1>1 DEF Destinations
<1>3. /\ n \in Nat /\ n >= 1 /\ DOMAIN g = 1 .. n /\ g[1] \in T /\ g[n] \in T
      /\ {g[i] : i \in DOMAIN g} = T
  <2>1. Peers(one) = T
    BY <1>2 DEF Peers
  <2> QED
    <3>1. g = GroupOf(Destination(one))
      BY <1>2
    <3> HIDE DEF g, T, d
    <3> QED
      BY <1>1, <2>1, <3>1, GroupSays
<1>4. ASSUME NEW f \in T
      PROVE  /\ f \in candidates /\ Destination(f) = d
             /\ AlikeFor(f) <=> Identical(g)
             /\ Wins(f) <=>
                  /\ ~Rejected
                  /\ \/ n = 1
                     \/ collisionPolicy = "stable-first" /\ f = g[1]
                     \/ collisionPolicy = "stable-last" /\ f = g[n]
                     \/ collisionPolicy = "identical-files-coalesce"
                          /\ f = g[1] /\ Identical(g)
  <2>1. f \in candidates /\ Destination(f) = d
    BY DEF Targets
  <2> QED
    BY <1>1, <2>1, GroupSays
<1>5. ASSUME ~Rejected, n > 1 PROVE collisionPolicy \in CollisionPolicies \ {"reject-all"}
  <2>1. g = GroupOf(Destination(one)) /\ n = Len(g)
    BY <1>2
  <2> HIDE DEF g, n, d
  <2>2. collisionPolicy # "reject-all"
    <3>1. SUFFICES ASSUME collisionPolicy = "reject-all" PROVE FALSE
      OBVIOUS
    <3>2. Len(GroupOf(Destination(one))) = 1
      BY <1>1, <1>2, <1>5, <3>1, AloneUnlessCollision
    <3>3. n = 1
      BY <2>1, <3>2
    <3> QED
      BY <1>5, <3>3
  <2> QED
    BY <1>1, <2>2 DEF RenameTyped
<1>6. Rejected => collisionPolicy = "reject-all"
  BY DEF Rejected
<1> DEFINE Done ==
             CASE Rejected -> Keep(g, "retained-rejected")
               [] ~Rejected /\ n = 1 -> Elect(g, g[1], "")
               [] n > 1 /\ collisionPolicy = "skip-collisions" -> Keep(g, "retained-collision")
               [] n > 1 /\ collisionPolicy = "stable-first" -> Elect(g, g[1], "retained-loser")
               [] n > 1 /\ collisionPolicy = "stable-last" -> Elect(g, Last(g), "retained-loser")
               [] n > 1 /\ collisionPolicy = "identical-files-coalesce" ->
                    IF Identical(g) THEN Elect(g, g[1], "coalesced")
                    ELSE Keep(g, "retained-nonidentical")
<1>7. Done
  BY DEF DecideGroup
<1>8. Last(g) = g[n]
  BY DEF Last
<1> HIDE DEF n, g, T, d
<1>9. \/ \E verdict : Keep(g, verdict) /\ Kept(verdict)
      \/ \E w, other : Elect(g, w, other) /\ Won(w, other)
  <2>1. CASE Rejected
    <3>1. Keep(g, "retained-rejected")
      BY <1>6, <1>7, <2>1
    <3>2. Kept("retained-rejected")
      BY <1>4, <2>1 DEF OutcomeOf
    <3> QED
      BY <3>1, <3>2
  <2>2. CASE ~Rejected /\ n = 1
    <3>4. ~(n > 1)
      BY <2>2
    <3>1. Elect(g, g[1], "")
      BY <1>7, <2>2, <3>4, Zenon
    <3>2. \A f \in T : Wins(f) /\ f = g[1]
      BY <1>3, <1>4, <2>2
    <3>3. Won(g[1], "")
      BY <1>3, <2>2, <3>2 DEF OutcomeOf
    <3> HIDE DEF Won
    <3> QED
      BY <3>1, <3>3, Zenon
  <2>3. CASE ~Rejected /\ n > 1 /\ collisionPolicy = "skip-collisions"
    <3>1. Keep(g, "retained-collision")
      BY <1>7, <2>3
    <3>2. Kept("retained-collision")
      BY <1>4, <2>3 DEF OutcomeOf
    <3> QED
      BY <3>1, <3>2
  <2>4. CASE ~Rejected /\ n > 1 /\ collisionPolicy = "stable-first"
    <3>1. Elect(g, g[1], "retained-loser")
      BY <1>7, <2>4
    <3>2. Won(g[1], "retained-loser")
      BY <1>3, <1>4, <2>4 DEF OutcomeOf
    <3> QED
      BY <3>1, <3>2
  <2>5. CASE ~Rejected /\ n > 1 /\ collisionPolicy = "stable-last"
    <3>1. Elect(g, g[n], "retained-loser")
      BY <1>7, <1>8, <2>5
    <3>2. Won(g[n], "retained-loser")
      BY <1>3, <1>4, <2>5 DEF OutcomeOf
    <3> QED
      BY <3>1, <3>2
  <2>6. CASE ~Rejected /\ n > 1 /\ collisionPolicy = "identical-files-coalesce" /\ Identical(g)
    <3>1. Elect(g, g[1], "coalesced")
      BY <1>7, <2>6
    <3>2. Won(g[1], "coalesced")
      BY <1>3, <1>4, <2>6 DEF OutcomeOf
    <3> QED
      BY <3>1, <3>2
  <2>7. CASE ~Rejected /\ n > 1 /\ collisionPolicy = "identical-files-coalesce" /\ ~Identical(g)
    <3>1. Keep(g, "retained-nonidentical")
      BY <1>7, <2>7
    <3>2. Kept("retained-nonidentical")
      BY <1>4, <2>7 DEF OutcomeOf
    <3> QED
      BY <3>1, <3>2
  <2>8. ~Rejected => n = 1 \/ n > 1
    BY <1>3
  <2> QED
    BY <1>5, <2>1, <2>2, <2>3, <2>4, <2>5, <2>6, <2>7, <2>8 DEF CollisionPolicies
<1>10. CASE \E verdict : Keep(g, verdict) /\ Kept(verdict)
  <2>1. PICK verdict : Keep(g, verdict) /\ Kept(verdict)
    BY <1>10
  <2>2. actions' = actions \cup {DecisionOf(f) : f \in T} /\ representatives' = representatives
    BY <1>1, <2>1, KeepStep DEF T, g
  <2> QED
    BY <2>1, <2>2 DEF T, d
<1>11. CASE \E w, other : Elect(g, w, other) /\ Won(w, other)
  <2>1. PICK w, other : Elect(g, w, other) /\ Won(w, other)
    BY <1>11
  <2>2. /\ actions' = actions \cup {DecisionOf(f) : f \in T}
        /\ representatives' = Put(representatives, d, w)
    <3>1. /\ Elect(g, w, other) /\ w \in Targets(d) /\ g = GroupOf(d)
          /\ \A f \in Targets(d) : Wins(f) <=> f = w
          /\ MovesOne(d, w, other)
      BY <2>1 DEF T, g, MovesOne
    <3> QED
      BY <1>1, <3>1, ElectStep DEF T
  <2> QED
    BY <2>1, <2>2 DEF T, d
<1> QED
  BY <1>9, <1>10, <1>11

(* At first nothing has been decided. *)
LEMMA RenameInvStart == RenameInit => RenameInv
<1> SUFFICES ASSUME RenameInit PROVE RenameInv
  OBVIOUS
<1>1. candidates \in SUBSET [parent : Parents, name : Names] /\ IsFiniteSet(candidates)
  <2>1. candidates \in SUBSET [parent : Parents, name : Names]
    BY DEF RenameInit, kSubset
  <2> QED
    BY <2>1, FilesFinite, FS_Subset
<1>2. collisionPolicy \in CollisionPolicies /\ pending = Destinations
      /\ actions = {} /\ representatives = <<>>
  BY DEF RenameInit
<1>3. Settled = {}
  BY <1>2 DEF Settled, Destinations
<1>4. Written = {}
  BY <1>2 DEF Written
<1>5. representatives = [d \in Written |-> WriterOf(d)]
  BY <1>2, <1>4
<1> QED
  BY <1>1, <1>2, <1>3, <1>5 DEF RenameInv, RenameTyped

(* Every decision is the reference's. *)
LEMMA RenameInvStep ==
  ASSUME RenameInv, [DecideGroup]_renameVars
  PROVE  RenameInv'
<1>1. CASE UNCHANGED renameVars
  <2>1. UNCHANGED <<candidates, content, mapping, renameRule, collisionPolicy, pending,
                    actions, representatives>>
    BY <1>1 DEF renameVars
  <2>2. /\ \A f : Destination(f)' = Destination(f)
        /\ Destinations' = Destinations
        /\ \A d : Targets(d)' = Targets(d)
        /\ \A f : Wins(f)' <=> Wins(f)
        /\ \A f : DecisionOf(f)' = DecisionOf(f)
        /\ RenameTyped'
    BY <2>1, TaskSteady DEF RenameInv
  <2>3. Settled' = Settled
    BY <2>1, <2>2 DEF Settled
  <2>4. Written' = Written
    BY <2>1, <2>2 DEF Written
  <2>5. \A d : WriterOf(d)' = WriterOf(d)
    BY <2>2 DEF WriterOf
  <2> QED
    BY <2>1, <2>2, <2>3, <2>4, <2>5 DEF RenameInv
<1>2. CASE DecideGroup
  <2> DEFINE d == CHOOSE x \in pending : TRUE
             T == Targets(d)
  <2>1. /\ d \in pending /\ pending' = pending \ {d}
        /\ UNCHANGED <<candidates, content, mapping, renameRule, collisionPolicy>>
    BY <1>2 DEF DecideGroup
  <2>2. /\ RenameTyped /\ pending \subseteq Destinations
        /\ actions = {DecisionOf(f) : f \in Settled}
        /\ representatives = [e \in Written |-> WriterOf(e)]
    BY DEF RenameInv
  <2>3. /\ actions' = actions \cup {DecisionOf(f) : f \in T}
        /\ \/ /\ \A f \in T : ~Wins(f)
              /\ representatives' = representatives
           \/ \E w \in T :
                /\ \A f \in T : Wins(f) <=> f = w
                /\ representatives' = Put(representatives, d, w)
    BY <1>2, GroupStep
  <2> HIDE DEF d, T
  <2>4. /\ \A f : Destination(f)' = Destination(f)
        /\ Destinations' = Destinations
        /\ \A e : Targets(e)' = Targets(e)
        /\ \A f : Wins(f)' <=> Wins(f)
        /\ \A f : DecisionOf(f)' = DecisionOf(f)
        /\ RenameTyped'
    BY <2>1, <2>2, TaskSteady
  <2>5. Settled' = Settled \cup T /\ candidates' = candidates
    BY <2>1, <2>2, <2>4 DEF Settled, Targets, T
  <2>6. actions' = {DecisionOf(f)' : f \in Settled'}
    <3>1. {DecisionOf(f)' : f \in Settled'} = {DecisionOf(f) : f \in Settled'}
      BY <2>4
    <3>2. {DecisionOf(f) : f \in Settled'}
            = {DecisionOf(f) : f \in Settled} \cup {DecisionOf(f) : f \in T}
      BY <2>5
    <3> QED
      BY <2>2, <2>3, <3>1, <3>2
  <2>7. \A e : WriterOf(e)' = WriterOf(e)
    BY <2>4 DEF WriterOf
  <2>8. Written' = {e \in Destinations \ (pending \ {d}) : \E f \in Targets(e) : Wins(f)}
    BY <2>1, <2>4 DEF Written
  <2>9. representatives' = [e \in Written' |-> WriterOf(e)]
    <3>1. CASE \A f \in T : ~Wins(f)
      <4>1. Written' = Written
        BY <2>1, <2>8, <3>1 DEF Written, T
      <4>2. representatives' = representatives
        BY <2>3, <3>1
      <4> QED
        BY <2>2, <4>1, <4>2
    <3>2. CASE \E f \in T : Wins(f)
      <4>1. PICK w \in T :
              /\ \A f \in T : Wins(f) <=> f = w
              /\ representatives' = Put(representatives, d, w)
        BY <2>3, <3>2
      <4>2. Written' = Written \cup {d} /\ d \notin Written
        BY <2>1, <2>2, <2>8, <3>2 DEF Written, T
      <4>3. WriterOf(d) = w
        BY <4>1 DEF WriterOf, T
      <4>4. DOMAIN representatives = Written
            /\ \A x \in Written : representatives[x] = WriterOf(x)
        BY <2>2
      <4> HIDE DEF Written
      <4> QED
        BY <4>1, <4>2, <4>3, <4>4 DEF Put
    <3> QED
      BY <3>1, <3>2
  <2>10. [e \in Written' |-> WriterOf(e)] = [e \in Written' |-> WriterOf(e)']
    BY <2>7
  <2>11. pending' \subseteq Destinations'
    BY <2>1, <2>2, <2>4
  <2> QED
    BY <2>4, <2>6, <2>9, <2>10, <2>11 DEF RenameInv
<1> QED
  BY <1>1, <1>2

(* A destination has one winner at most. *)
LEMMA OneWinner ==
  ASSUME RenameTyped, NEW f \in candidates, NEW h \in candidates,
         Destination(f) = Destination(h), Wins(f), Wins(h)
  PROVE  f = h
<1> DEFINE g == GroupOf(Destination(f))
           n == Len(g)
<1>1. /\ {g[i] : i \in DOMAIN g} = Peers(f) /\ DOMAIN g = 1 .. n /\ n \in Nat
      /\ n = 1 \/ f = g[1] \/ f = g[n]
      /\ Wins(f) <=>
           /\ ~Rejected
           /\ \/ n = 1
              \/ collisionPolicy = "stable-first" /\ f = g[1]
              \/ collisionPolicy = "stable-last" /\ f = g[n]
              \/ collisionPolicy = "identical-files-coalesce" /\ f = g[1] /\ Identical(g)
  BY GroupSays
<1>2. GroupOf(Destination(h)) = g
  OBVIOUS
<1> HIDE DEF g, n
<1>3. /\ n = Len(g)
      /\ Wins(h) <=>
           /\ ~Rejected
           /\ \/ Len(g) = 1
              \/ collisionPolicy = "stable-first" /\ h = g[1]
              \/ collisionPolicy = "stable-last" /\ h = g[Len(g)]
              \/ collisionPolicy = "identical-files-coalesce" /\ h = g[1] /\ Identical(g)
  BY <1>2, GroupSays DEF n
<1>4. CASE n = 1
  <2>1. f \in Peers(f) /\ h \in Peers(f)
    BY DEF Peers, Targets
  <2>2. Peers(f) = {g[1]}
    BY <1>1, <1>4
  <2> QED
    BY <2>1, <2>2
<1>5. CASE n # 1
  BY <1>1, <1>3, <1>5
<1> QED
  BY <1>4, <1>5

(* What moves, and what is coalesced. *)
LEMMA OutcomeSays ==
  ASSUME RenameTyped, NEW f \in candidates
  PROVE  /\ OutcomeOf(f) = "moved" <=> Wins(f)
         /\ OutcomeOf(f) = "coalesced" => AlikeFor(f) /\ \E h \in Peers(f) : Wins(h)
<1>1. Wins(f) => ~Rejected
  BY DEF Wins
<1>2. OutcomeOf(f) = "moved" <=> Wins(f)
  BY <1>1 DEF OutcomeOf
<1>3. ASSUME OutcomeOf(f) = "coalesced"
      PROVE  AlikeFor(f) /\ \E h \in Peers(f) : Wins(h)
  <2> DEFINE g == GroupOf(Destination(f))
             h == g[1]
  <2>1. /\ ~Rejected /\ ~Wins(f) /\ AlikeFor(f)
        /\ collisionPolicy \notin {"skip-collisions", "stable-first", "stable-last"}
    BY <1>3 DEF OutcomeOf
  <2>2. collisionPolicy # "reject-all"
    <3>1. SUFFICES ASSUME collisionPolicy = "reject-all" PROVE FALSE
      OBVIOUS
    <3>2. Len(g) = 1
      BY <2>1, <3>1, AloneUnlessCollision
    <3> HIDE DEF g
    <3> QED
      BY <2>1, <3>2, GroupSays DEF g
  <2>3. collisionPolicy = "identical-files-coalesce"
    BY <2>1, <2>2 DEF RenameTyped, CollisionPolicies
  <2>4. h \in Peers(f) /\ Identical(g)
    BY <2>1, GroupSays
  <2>5. h \in candidates /\ Destination(h) = Destination(f)
    BY <2>4 DEF Peers, Targets
  <2>6. g = GroupOf(Destination(h))
    BY <2>5
  <2> HIDE DEF g
  <2>7. Wins(h)
    BY <2>1, <2>3, <2>4, <2>5, <2>6, GroupSays
  <2> QED
    BY <2>1, <2>4, <2>7
<1> QED
  BY <1>2, <1>3

(* As many as there are of the others. *)
LEMMA SameNumber ==
  ASSUME NEW S, IsFiniteSet(S), NEW f, DOMAIN f = S,
         \A x, y \in S : f[x] = f[y] => x = y
  PROVE  /\ IsFiniteSet({f[x] : x \in S})
         /\ Cardinality({f[x] : x \in S}) = Cardinality(S)
<1> DEFINE T == {f[x] : x \in S}
           h == [x \in S |-> f[x]]
<1>1. h \in Surjection(S, T) /\ h \in Injection(S, T)
  BY DEF Surjection, Injection, IsInjective
<1> HIDE DEF h, T
<1>2. IsFiniteSet(T) /\ Cardinality(T) = Cardinality(S)
  BY <1>1, FS_Surjection
<1> QED
  BY <1>2 DEF T

(* The invariant implies the property. *)
LEMMA RenameInvRight ==
  ASSUME RenameInv
  PROVE  RenameRight
<1> SUFFICES ASSUME pending = {} PROVE RenameRight
  BY DEF RenameRight
<1> DEFINE act == [f \in candidates |-> DecisionOf(f)]
           R == representatives
<1>1. RenameTyped /\ actions = {DecisionOf(f) : f \in candidates}
  BY DEF RenameInv, Settled
<1>2. /\ DOMAIN R = {d \in Destinations : \E f \in Targets(d) : Wins(f)}
      /\ \A d \in DOMAIN R : R[d] \in Targets(d) /\ Wins(R[d])
      /\ R = [d \in DOMAIN R |-> R[d]]
  BY DEF RenameInv, Written, WriterOf
<1>3. \A f : /\ DecisionOf(f).source = f /\ DecisionOf(f).destination = Destination(f)
             /\ DecisionOf(f).outcome = OutcomeOf(f)
  BY DEF DecisionOf, Action
<1>4. actions = {act[f] : f \in candidates}
  BY <1>1
<1>5. \A f \in candidates : /\ act[f].source = f /\ act[f].destination = Destination(f)
                            /\ act[f].outcome = OutcomeOf(f)
  BY <1>3
<1> HIDE DEF act, R
<1>6. DOMAIN act = candidates
  BY DEF act
<1>7. \A a \in actions : a.source \in candidates /\ a = act[a.source]
  BY <1>4, <1>5
<1>8. actions = ReferenceActions
  BY <1>1, ReferenceDecides
<1>9. {a.source : a \in actions} = candidates
  BY <1>4, <1>5
<1>10. \A d \in DOMAIN R : R[d] \in candidates /\ Destination(R[d]) = d
  BY <1>2 DEF Targets
<1>11. \A f \in candidates : OutcomeOf(f) = "moved" <=> Wins(f)
  BY <1>1, OutcomeSays
<1>12. \A f \in candidates : Wins(f) =>
          Destination(f) \in DOMAIN R /\ R[Destination(f)] = f
  <2>1. SUFFICES ASSUME NEW f \in candidates, Wins(f)
                 PROVE  Destination(f) \in DOMAIN R /\ R[Destination(f)] = f
    OBVIOUS
  <2>2. Destination(f) \in Destinations /\ f \in Targets(Destination(f))
    BY DEF Destinations, Targets
  <2>3. Destination(f) \in DOMAIN R
    BY <1>2, <2>1, <2>2
  <2> QED
    BY <1>1, <1>2, <1>10, <2>1, <2>3, OneWinner
<1>13. ASSUME NEW a \in actions, a.outcome \in {"moved", "coalesced"}
       PROVE  a.destination \in DOMAIN R /\ content[R[a.destination]] = content[a.source]
  <2> DEFINE f == a.source
  <2>1. f \in candidates /\ a.destination = Destination(f) /\ a.outcome = OutcomeOf(f)
    BY <1>5, <1>7
  <2> HIDE DEF f
  <2>2. CASE OutcomeOf(f) = "moved"
    BY <1>11, <1>12, <2>1, <2>2 DEF f
  <2>3. CASE OutcomeOf(f) = "coalesced"
    <3>1. AlikeFor(f)
      BY <1>1, <2>1, <2>3, OutcomeSays
    <3>2. PICK h \in Peers(f) : Wins(h)
      BY <1>1, <2>1, <2>3, OutcomeSays
    <3>3. h \in candidates /\ Destination(h) = Destination(f) /\ f \in Peers(f)
      BY <2>1 DEF Peers, Targets
    <3>4. Destination(f) \in DOMAIN R /\ R[Destination(f)] = h
      BY <1>12, <3>2, <3>3
    <3> QED
      BY <2>1, <3>1, <3>3, <3>4 DEF AlikeFor, f
  <2> QED
    BY <1>13, <2>1, <2>2, <2>3
<1>14. ASSUME NEW d \in DOMAIN R
       PROVE  /\ \E a \in actions : a.source = R[d] /\ a.outcome = "moved"
              /\ Cardinality({a \in actions : a.destination = d /\ a.outcome = "moved"}) = 1
  <2> DEFINE w == act[R[d]]
             M == {a \in actions : a.destination = d /\ a.outcome = "moved"}
  <2>1. w \in actions /\ w.source = R[d] /\ w.destination = d /\ w.outcome = "moved"
    BY <1>2, <1>4, <1>5, <1>10, <1>11
  <2>2. ASSUME NEW a \in M PROVE a = w
    <3>1. /\ a.source \in candidates /\ a = act[a.source] /\ Destination(a.source) = d
          /\ Wins(a.source)
      BY <1>5, <1>7, <1>11
    <3>2. a.source = R[d]
      BY <1>12, <3>1
    <3> QED
      BY <3>1, <3>2
  <2>3. M = {w}
    BY <2>1, <2>2
  <2> QED
    BY <2>1, <2>3, FS_Singleton
<1>15. Rejected => R = <<>>
  <2>1. SUFFICES ASSUME Rejected PROVE R = <<>>
    OBVIOUS
  <2>2. DOMAIN R = {}
    BY <1>2, <2>1 DEF Wins
  <2> QED
    BY <1>2, <2>2
<1> DEFINE moved == {a \in actions : a.outcome \in {"moved"}}
<1>16. IsFiniteSet(actions) /\ Cardinality(actions) = Cardinality(candidates)
  BY <1>1, <1>4, <1>5, <1>6, SameNumber DEF RenameTyped
<1>17. Cardinality(moved) = Cardinality(DOMAIN R)
  <2> DEFINE h == [d \in DOMAIN R |-> act[R[d]]]
  <2>1. IsFiniteSet(DOMAIN R)
    <3>1. IsFiniteSet(Destinations)
      <4> DEFINE t == [f \in candidates |-> Destination(f)]
      <4>1. Destinations = {t[f] : f \in candidates} /\ DOMAIN t = candidates
        BY DEF Destinations
      <4> HIDE DEF t
      <4>2. IsFiniteSet({t[f] : f \in candidates})
        BY <1>1, <4>1, ImageFinite DEF RenameTyped
      <4> QED
        BY <4>1, <4>2, Zenon
    <3> QED
      BY <1>2, <3>1, FS_Subset
  <2>2. \A d, e \in DOMAIN R : h[d] = h[e] => d = e
    <3>1. \A d \in DOMAIN R : h[d].destination = d
      BY <1>5, <1>10
    <3> HIDE DEF h
    <3> QED
      BY <3>1
  <2>3. moved = {h[d] : d \in DOMAIN R}
    <3>1. ASSUME NEW a \in moved PROVE \E d \in DOMAIN R : a = h[d]
      <4>1. a.source \in candidates /\ a = act[a.source] /\ Wins(a.source)
        BY <1>5, <1>7, <1>11
      <4> QED
        BY <1>12, <4>1
    <3>2. ASSUME NEW d \in DOMAIN R PROVE h[d] \in moved
      BY <1>2, <1>4, <1>5, <1>10, <1>11
    <3> HIDE DEF h, moved
    <3> QED
      BY <3>1, <3>2
  <2>4. DOMAIN h = DOMAIN R
    OBVIOUS
  <2> HIDE DEF h, moved
  <2>5. Cardinality({h[d] : d \in DOMAIN R}) = Cardinality(DOMAIN R)
    BY <2>1, <2>2, <2>4, SameNumber
  <2> QED
    BY <2>3, <2>5, Zenon
<1> DEFINE gone == {a \in actions : a.outcome \in {"moved", "coalesced"}}
<1>18. /\ Header.moved = Cardinality(moved)
       /\ Header.files = Cardinality(actions) /\ Header.removed = Cardinality(gone)
       /\ Header.retained = Cardinality(actions) - Cardinality(gone)
  BY DEF Header
<1>19. Cardinality(actions) \in Nat /\ Cardinality(gone) \in Nat
  <2>1. IsFiniteSet(gone)
    BY <1>16, FS_Subset
  <2> QED
    BY <1>16, <2>1, FS_CardinalityType
<1> HIDE DEF moved, gone
<1>20. /\ Header.moved = Cardinality(DOMAIN R)
       /\ Header.files = Header.removed + Header.retained
       /\ Header.retained = 0 => Cardinality(candidates) = Header.removed
  <2> DEFINE p == Cardinality(actions)
             q == Cardinality(gone)
  <2>1. p \in Nat /\ q \in Nat
    BY <1>19
  <2> HIDE DEF p, q
  <2>2. p = q + (p - q) /\ (p - q = 0 => p = q)
    BY <2>1
  <2> QED
    BY <1>16, <1>17, <1>18, <2>2 DEF p, q
<1> QED
  BY <1>8, <1>9, <1>13, <1>14, <1>15, <1>20 DEF RenameRight, R

(* Both derivations agree, no content is lost, and the header counts what   *)
(* was done.                                                               *)
THEOREM RenamesRight == RenameSpec => []RenameRight
<1>1. RenameInit => RenameInv
  BY RenameInvStart
<1>2. RenameInv /\ [DecideGroup]_renameVars => RenameInv'
  BY RenameInvStep
<1>3. RenameInv => RenameRight
  BY RenameInvRight
<1> QED
  BY <1>1, <1>2, <1>3, PTL DEF RenameSpec

(***************************************************************************)
(* RetryMachine: RetryRight.                                               *)
(***************************************************************************)
(* The visit that ends, or stops, with attempt n. *)
EndsAt(s, v, n) ==
  n \in 1 .. Cap /\ ~Repeated(s, v, n) /\ \A i \in 1 .. n - 1 : Repeated(s, v, i)

(* A visit has an attempt at least. *)
LEMMA CapIs ==
  ASSUME model \in Models, retryPolicy \in RetryPolicies
  PROVE  Cap \in Nat /\ Cap >= 1
<1> DEFINE caps == [p \in RetryPolicies |-> CASE p = "never" -> 1
                                    [] p = "fixed-two" -> 2
                                    [] p = "fixed-four" -> 4
                                    [] OTHER -> 6]
           b == AttemptBound[model]
<1>1. b \in Nat /\ b >= 1
  BY RetryAssumption
<1>2. caps[retryPolicy] \in {1, 2, 4, 6}
  BY DEF RetryPolicies
<1>3. Cap = IF caps[retryPolicy] < b THEN caps[retryPolicy] ELSE b
  BY DEF Cap
<1> HIDE DEF caps, b
<1> QED
  BY <1>1, <1>2, <1>3

(* The reference's visit ends where no attempt follows. *)
LEMMA VisitIs ==
  ASSUME model \in Models, retryPolicy \in RetryPolicies, NEW s, NEW v, NEW n, EndsAt(s, v, n)
  PROVE  ReferenceVisit(s, v) = VisitEnding(s, v, n)
<1> DEFINE c == LastAttempt(s, v)
<1>1. Cap \in Nat
  BY CapIs
<1>2. c \in 1 .. Cap /\ ~Repeated(s, v, c) /\ \A k \in 1 .. c - 1 : Repeated(s, v, k)
  BY DEF EndsAt, LastAttempt
<1>3. ReferenceVisit(s, v) = VisitEnding(s, v, c)
  BY DEF ReferenceVisit
<1> HIDE DEF c
<1>4. n \in 1 .. Cap /\ ~Repeated(s, v, n) /\ \A k \in 1 .. n - 1 : Repeated(s, v, k)
  BY DEF EndsAt
<1>5. ~(c < n) /\ ~(n < c)
  <2>1. ASSUME c < n PROVE FALSE
    <3>1. c \in 1 .. n - 1
      BY <1>1, <1>2, <1>4, <2>1
    <3> QED
      BY <1>2, <1>4, <3>1
  <2>2. ASSUME n < c PROVE FALSE
    <3>1. n \in 1 .. c - 1
      BY <1>1, <1>2, <1>4, <2>2
    <3> QED
      BY <1>2, <1>4, <3>1
  <2> QED
    BY <2>1, <2>2
<1>6. c = n
  BY <1>1, <1>2, <1>4, <1>5
<1> QED
  BY <1>3, <1>6

(* The attempts that were repeated. *)
Repeats(s, v, m) ==
  [n \in 1 .. m |-> [key |-> <<s, v, n>>, event |-> Lookup(<<s, v, n>>),
                     resolution |-> "retry"]]

(* What a visit shows. *)
LEMMA SeenIs ==
  ASSUME NEW s, NEW v, NEW n \in Nat \ {0}, NEW event, event = Lookup(<<s, v, n>>)
  PROVE  /\ event = None => VisitEnding(s, v, n).seen = Repeats(s, v, n - 1)
         /\ event # None =>
              VisitEnding(s, v, n).seen = Append(Repeats(s, v, n - 1),
                [key |-> <<s, v, n>>, event |-> event,
                 resolution |-> IF event.outcome = "success" THEN "succeeded" ELSE "failed"])
<1> DEFINE end == IF event.outcome = "success" THEN "succeeded" ELSE "failed"
           row(k) == [key |-> <<s, v, k>>, event |-> Lookup(<<s, v, k>>),
                      resolution |-> IF k < n THEN "retry" ELSE end]
           old(k) == [key |-> <<s, v, k>>, event |-> Lookup(<<s, v, k>>),
                      resolution |-> "retry"]
           x == [key |-> <<s, v, n>>, event |-> event, resolution |-> end]
<1>1. VisitEnding(s, v, n).seen = [k \in 1 .. (IF event = None THEN n - 1 ELSE n) |-> row(k)]
  BY DEF VisitEnding
<1>2. Repeats(s, v, n - 1) = [k \in 1 .. n - 1 |-> old(k)]
  BY DEF Repeats
<1>3. \A k \in 1 .. n - 1 : row(k) = old(k)
  OBVIOUS
<1>4. row(n) = x
  OBVIOUS
<1> HIDE DEF row, old, x
<1>5. CASE event = None
  <2>1. [k \in 1 .. n - 1 |-> row(k)] = [k \in 1 .. n - 1 |-> old(k)]
    BY <1>3
  <2> QED
    BY <1>1, <1>2, <1>5, <2>1
<1>6. CASE event # None
  <2> DEFINE r == [k \in 1 .. n - 1 |-> old(k)]
             z == [k \in 1 .. n |-> row(k)]
             T == {row(k) : k \in 1 .. n}
  <2>1. r \in Seq(T) /\ Len(r) = n - 1 /\ \A k \in 1 .. n - 1 : r[k] = row(k)
    BY <1>3
  <2>2. z \in Seq(T) /\ Len(z) = n /\ \A k \in 1 .. n : z[k] = row(k)
    OBVIOUS
  <2>3. x \in T
    BY <1>4
  <2> HIDE DEF r, z, T
  <2>4. Append(r, x) \in Seq(T) /\ Len(Append(r, x)) = n
        /\ \A k \in 1 .. n : Append(r, x)[k] = row(k)
    BY <1>4, <2>1, <2>3
  <2>5. z = Append(r, x)
    BY <2>2, <2>4, SeqEqual
  <2> QED
    BY <1>1, <1>2, <1>6, <2>5 DEF r, z, x
<1> QED
  BY <1>5, <1>6

(* The rows and what is shown of them. *)
LedgerRow == [outcome : Failures \cup {"success"},
        directive : {"-", "fast", "safe", "repeat", "finish", "next"}]
RowKeys == WorkStates \X Nat \X Nat
Shown == [key : RowKeys, event : LedgerRow \cup {None},
          resolution : {"retry", "succeeded", "failed"}]

(* The ledger holds rows that the parser accepts. *)
LedgerOK ==
  /\ DOMAIN retryLedger \subseteq RowKeys
  /\ \A k \in DOMAIN retryLedger : retryLedger[k] \in Events(k[1])

(* A row that the parser accepts. *)
LEMMA LedgerRowIs ==
  ASSUME NEW s, NEW event \in Events(s)
  PROVE  /\ event \in LedgerRow /\ event # None /\ event.outcome # "missing"
         /\ event.outcome = "success" \/ event.outcome \in Failures
         /\ event.outcome = "success" =>
              /\ s = "choose" => event.directive \in {"fast", "safe"}
              /\ s = "work" => event.directive \in {"repeat", "finish"}
              /\ s # "choose" /\ s # "work" => event.directive = "next"
<1>1. CASE event \in [outcome : Failures, directive : {"-"}]
  BY <1>1 DEF LedgerRow, None, Failures
<1>2. ASSUME NEW D, D \subseteq {"-", "fast", "safe", "repeat", "finish", "next"},
             event \in [outcome : {"success"}, directive : D]
      PROVE  /\ event \in LedgerRow /\ event # None /\ event.outcome = "success"
             /\ event.directive \in D
  <2>1. event.outcome = "success" /\ event.directive \in D
        /\ event = [outcome |-> event.outcome, directive |-> event.directive]
    BY <1>2
  <2>2. event.directive \in {"-", "fast", "safe", "repeat", "finish", "next"}
    BY <1>2, <2>1
  <2>3. event \in LedgerRow
    BY <2>1, <2>2 DEF LedgerRow
  <2>4. event # None
    BY <2>1 DEF None
  <2> QED
    BY <2>1, <2>3, <2>4
<1>3. CASE s = "choose"
  <2>1. Events(s) = [outcome : Failures, directive : {"-"}]
                      \cup [outcome : {"success"}, directive : {"fast", "safe"}]
    BY <1>3 DEF Events
  <2>2. CASE event \in [outcome : {"success"}, directive : {"fast", "safe"}]
    BY <1>2, <1>3, <2>2
  <2> QED
    BY <1>1, <2>1, <2>2 DEF Failures
<1>4. CASE s = "work"
  <2>1. Events(s) = [outcome : Failures, directive : {"-"}]
                      \cup [outcome : {"success"}, directive : {"repeat", "finish"}]
    BY <1>4 DEF Events
  <2>2. CASE event \in [outcome : {"success"}, directive : {"repeat", "finish"}]
    BY <1>2, <1>4, <2>2
  <2> QED
    BY <1>1, <2>1, <2>2 DEF Failures
<1>5. CASE s # "choose" /\ s # "work"
  <2>1. Events(s) = [outcome : Failures, directive : {"-"}]
                      \cup [outcome : {"success"}, directive : {"next"}]
    BY <1>5 DEF Events
  <2>2. CASE event \in [outcome : {"success"}, directive : {"next"}]
    BY <1>2, <1>5, <2>2
  <2> QED
    BY <1>1, <2>1, <2>2 DEF Failures
<1> QED
  BY <1>3, <1>4, <1>5

(* What is found in the ledger. *)
LEMMA LookupIs ==
  ASSUME LedgerOK, NEW k
  PROVE  /\ Lookup(k) \in LedgerRow \cup {None}
         /\ k \notin DOMAIN retryLedger => Lookup(k) = None
         /\ k \in DOMAIN retryLedger => Lookup(k) = retryLedger[k] /\ Lookup(k) # None
                                        /\ Lookup(k) \in Events(k[1])
         /\ Lookup(k).outcome = "missing" <=> k \notin DOMAIN retryLedger
<1>1. CASE k \in DOMAIN retryLedger
  <2> DEFINE s == k[1]
             x == retryLedger[k]
  <2>1. Lookup(k) = x /\ x \in Events(s)
    BY <1>1 DEF Lookup, LedgerOK
  <2> HIDE DEF s, x
  <2>2. x \in LedgerRow /\ x # None /\ x.outcome # "missing"
    BY <2>1, LedgerRowIs
  <2> QED
    BY <1>1, <2>1, <2>2 DEF s, x
<1>2. CASE k \notin DOMAIN retryLedger
  BY <1>2 DEF Lookup, None
<1> QED
  BY <1>1, <1>2

(* What repeated attempts show. *)
LEMMA RepeatsType ==
  ASSUME LedgerOK, NEW s \in WorkStates, NEW v \in Nat, NEW m \in Nat
  PROVE  Repeats(s, v, m) \in Seq(Shown) /\ Len(Repeats(s, v, m)) = m
<1> DEFINE row(n) == [key |-> <<s, v, n>>, event |-> Lookup(<<s, v, n>>), resolution |-> "retry"]
<1>1. \A n \in 1 .. m : row(n) \in Shown
  <2> TAKE n \in 1 .. m
  <2>1. Lookup(<<s, v, n>>) \in LedgerRow \cup {None} /\ n \in Nat
    BY LookupIs
  <2>2. <<s, v, n>> \in RowKeys
    BY <2>1 DEF RowKeys
  <2> QED
    BY <2>1, <2>2 DEF Shown
<1>2. Repeats(s, v, m) = [n \in 1 .. m |-> row(n)]
  BY DEF Repeats
<1> HIDE DEF row
<1> QED
  BY <1>1, <1>2

(* What a visit shows. *)
LEMMA VisitType ==
  ASSUME LedgerOK, NEW s \in WorkStates, NEW v \in Nat, NEW n \in Nat \ {0}
  PROVE  VisitEnding(s, v, n).seen \in Lists(Shown)
<1> DEFINE event == Lookup(<<s, v, n>>)
           z == VisitEnding(s, v, n).seen
           r == Repeats(s, v, n - 1)
           x == [key |-> <<s, v, n>>, event |-> event,
                 resolution |-> IF event.outcome = "success" THEN "succeeded" ELSE "failed"]
<1>1. /\ event = None => z = r
      /\ event # None => z = Append(r, x)
  BY SeenIs
<1>2. r \in Seq(Shown)
  <2>1. n - 1 \in Nat
    OBVIOUS
  <2> QED
    BY <2>1, RepeatsType
<1>3. x \in Shown
  <2>1. event \in LedgerRow \cup {None}
    BY LookupIs
  <2>2. <<s, v, n>> \in RowKeys
    BY DEF RowKeys
  <2> QED
    BY <2>1, <2>2 DEF Shown
<1> HIDE DEF event, z, r, x
<1>4. z \in Seq(Shown)
  BY <1>1, <1>2, <1>3
<1>5. z \in Lists(Shown)
  BY <1>4 DEF Lists
<1> QED
  BY <1>5 DEF z

(* The way of a workflow, given the branch that it takes. *)
Route(m, b) ==
  IF m = "linear" THEN <<<<"prepare", 1>>, <<"execute", 1>>, <<"publish", 1>>>>
  ELSE IF m = "branching" THEN <<<<"choose", 1>>, <<b, 1>>, <<"publish", 1>>>>
  ELSE IF m = "cyclic-bounded"
  THEN [k \in 1 .. 6 |-> <<IF k % 2 = 1 THEN "check" ELSE "work", (k + 1) \div 2>>]
  ELSE <<<<"prepare", 1>>, <<"apply", 1>>, <<"publish", 1>>>>

(* The visits made when the k-th is under way. *)
RouteVisits(m, b, k) ==
  [s \in WorkStates |->
     IF m = "cyclic-bounded"
     THEN IF s = "check" THEN (k + 1) \div 2 ELSE IF s = "work" THEN k \div 2 ELSE 0
     ELSE IF \E j \in 1 .. k : Route(m, b)[j][1] = s THEN 1 ELSE 0]

Branch == ReferenceVisit("choose", 1).event.directive

(* The agenda is the way of the model. *)
LEMMA AgendaIs ==
  ASSUME model \in Models
  PROVE  Agenda = Route(model, Branch)
  BY DEF Agenda, Route, Branch, Models

(* The places of a way. *)
LEMMA RouteIs ==
  ASSUME NEW m \in Models, NEW b
  PROVE  LET A == Route(m, b)
         IN /\ Len(A) \in {3, 6} /\ DOMAIN A = 1 .. Len(A)
            /\ Len(A) = IF m = "cyclic-bounded" THEN 6 ELSE 3
            /\ m # "cyclic-bounded" =>
                 /\ A[1] = <<Start[m], 1>>
                 /\ A[2] = <<IF m = "linear" THEN "execute"
                             ELSE IF m = "branching" THEN b ELSE "apply", 1>>
                 /\ A[3] = <<"publish", 1>>
            /\ m = "cyclic-bounded" =>
                 /\ A[1] = <<"check", 1>> /\ A[2] = <<"work", 1>> /\ A[3] = <<"check", 2>>
                 /\ A[4] = <<"work", 2>> /\ A[5] = <<"check", 3>> /\ A[6] = <<"work", 3>>
<1>1. CASE m = "cyclic-bounded"
  BY <1>1 DEF Route
<1>2. CASE m # "cyclic-bounded"
  BY <1>2 DEF Route, Models, Start
<1> QED
  BY <1>1, <1>2

(* How long a way is. *)
LEMMA RouteLength ==
  ASSUME NEW m \in Models, NEW b
  PROVE  Len(Route(m, b)) = IF m = "cyclic-bounded" THEN 6 ELSE 3
  BY RouteIs

(* The branch that is possible once it matters. *)
BranchKnown(m, b, k) == m = "branching" /\ k >= 2 => b \in {"fast", "safe"}

(* Every place is another visit, and the count of visits says which. *)
LEMMA RoutePlaces ==
  ASSUME NEW m \in Models, NEW b, NEW k \in 1 .. Len(Route(m, b)), BranchKnown(m, b, k)
  PROVE  LET A == Route(m, b)
             V == RouteVisits(m, b, k)
         IN /\ A[k] = <<A[k][1], A[k][2]>>
            /\ A[k][1] \in WorkStates \ {"compensate"} /\ A[k][2] \in 1 .. 3
            /\ V \in [WorkStates -> 0 .. 3] /\ V["compensate"] = 0
            /\ V[A[k][1]] = A[k][2]
            /\ \A j \in 1 .. k - 1 : A[j] # A[k]
<1> DEFINE A == Route(m, b)
<1>1. CASE m = "cyclic-bounded"
  <2>0. Len(Route(m, b)) = 6
    BY <1>1, RouteLength
  <2>1. k \in {1, 2, 3, 4, 5, 6}
    BY <2>0
  <2>2. A[1] = <<"check", 1>> /\ A[2] = <<"work", 1>> /\ A[3] = <<"check", 2>>
        /\ A[4] = <<"work", 2>> /\ A[5] = <<"check", 3>> /\ A[6] = <<"work", 3>>
    BY <1>1, RouteIs
  <2>3. RouteVisits(m, b, k) =
          [s \in WorkStates |-> IF s = "check" THEN (k + 1) \div 2
                                ELSE IF s = "work" THEN k \div 2 ELSE 0]
    BY <1>1 DEF RouteVisits
  <2>4. \A j \in 1 .. k - 1 : j \in {1, 2, 3, 4, 5} /\ j < k
    BY <2>1
  <2> HIDE DEF A
  <2>5. \A j \in 1 .. k - 1 : A[j] # A[k]
    BY <2>1, <2>2, <2>4
  <2>6. A[k] = <<A[k][1], A[k][2]>> /\ A[k][1] \in {"check", "work"} /\ A[k][2] \in 1 .. 3
    BY <2>1, <2>2
  <2>7. RouteVisits(m, b, k)[A[k][1]] = A[k][2]
    <3>1. A[k][1] \in WorkStates
      BY <2>6 DEF WorkStates
    <3> QED
      BY <2>1, <2>2, <2>3, <3>1
  <2>8. (k + 1) \div 2 \in 0 .. 3 /\ k \div 2 \in 0 .. 3
    BY <2>1
  <2>9. RouteVisits(m, b, k) \in [WorkStates -> 0 .. 3]
        /\ RouteVisits(m, b, k)["compensate"] = 0
    BY <2>3, <2>8 DEF WorkStates
  <2> QED
    BY <2>5, <2>6, <2>7, <2>9 DEF A, WorkStates
<1>2. CASE m # "cyclic-bounded"
  <2>0. Len(Route(m, b)) = 3
    BY <1>2, RouteLength
  <2>1. k \in {1, 2, 3}
    BY <2>0
  <2>2. /\ A[1] = <<Start[m], 1>> /\ A[3] = <<"publish", 1>>
        /\ A[2] = <<IF m = "linear" THEN "execute"
                    ELSE IF m = "branching" THEN b ELSE "apply", 1>>
    BY <1>2, RouteIs
  <2>3. Start[m] \in {"prepare", "choose"}
    BY <1>2 DEF Models, Start
  <2>4. k >= 2 => A[2][1] \in {"execute", "fast", "safe", "apply"}
    BY <2>1, <2>2 DEF BranchKnown, Models
  <2>5. RouteVisits(m, b, k) =
          [s \in WorkStates |-> IF \E j \in 1 .. k : A[j][1] = s THEN 1 ELSE 0]
    BY <1>2 DEF RouteVisits
  <2> HIDE DEF A
  <2>6. \A j \in 1 .. k - 1 : j \in {1, 2} /\ j < k
    BY <2>1
  <2>7. \A j \in 1 .. k : j \in {1, 2, 3} /\ j <= k
    BY <2>1
  <2>8. A[k] = <<A[k][1], A[k][2]>> /\ A[k][2] = 1
        /\ A[k][1] \in WorkStates \ {"compensate"}
    BY <2>1, <2>2, <2>3, <2>4 DEF WorkStates
  <2>9. \A j \in 1 .. k - 1 : A[j] # A[k]
    BY <2>1, <2>2, <2>3, <2>4, <2>6
  <2>10. RouteVisits(m, b, k)[A[k][1]] = 1
    BY <2>1, <2>5, <2>8
  <2>11. \A j \in 1 .. k : A[j][1] # "compensate"
    BY <2>1, <2>2, <2>3, <2>4, <2>7
  <2>12. RouteVisits(m, b, k) \in [WorkStates -> 0 .. 3]
         /\ RouteVisits(m, b, k)["compensate"] = 0
    BY <2>5, <2>11 DEF WorkStates
  <2> QED
    BY <2>8, <2>9, <2>10, <2>12 DEF A
<1> QED
  BY <1>1, <1>2

(* To go on is to enter the next place. *)
LEMMA RouteOnward ==
  ASSUME NEW m \in Models, NEW b, NEW k \in 1 .. Len(Route(m, b)) - 1,
         BranchKnown(m, b, k + 1)
  PROVE  RouteVisits(m, b, k + 1)
           = [RouteVisits(m, b, k) EXCEPT ![Route(m, b)[k + 1][1]] = @ + 1]
<1> DEFINE A == Route(m, b)
           V == RouteVisits(m, b, k)
           W == RouteVisits(m, b, k + 1)
           x == A[k + 1][1]
<1>1. k + 1 \in 1 .. Len(Route(m, b)) /\ k \in 1 .. Len(Route(m, b)) /\ BranchKnown(m, b, k)
  BY RouteIs DEF BranchKnown
<1>2. V \in [WorkStates -> 0 .. 3] /\ W \in [WorkStates -> 0 .. 3] /\ x \in WorkStates
  BY <1>1, RoutePlaces
<1>3. SUFFICES ASSUME NEW s \in WorkStates
               PROVE  W[s] = IF s = x THEN V[s] + 1 ELSE V[s]
  BY <1>2
<1>4. CASE m = "cyclic-bounded"
  <2>0. Len(Route(m, b)) = 6
    BY <1>4, RouteLength
  <2>1. k \in {1, 2, 3, 4, 5}
    BY <2>0
  <2>2. A[2] = <<"work", 1>> /\ A[3] = <<"check", 2>>
        /\ A[4] = <<"work", 2>> /\ A[5] = <<"check", 3>> /\ A[6] = <<"work", 3>>
    BY <1>4, RouteIs
  <2>3. /\ V[s] = IF s = "check" THEN (k + 1) \div 2 ELSE IF s = "work" THEN k \div 2 ELSE 0
        /\ W[s] = IF s = "check" THEN (k + 1 + 1) \div 2
                  ELSE IF s = "work" THEN (k + 1) \div 2 ELSE 0
    BY <1>4 DEF RouteVisits
  <2>4. x = IF k \in {1, 3, 5} THEN "work" ELSE "check"
    BY <2>1, <2>2
  <2> HIDE DEF A, V, W, x
  <2> QED
    BY <2>1, <2>3, <2>4
<1>5. CASE m # "cyclic-bounded"
  <2>0. Len(Route(m, b)) = 3
    BY <1>5, RouteLength
  <2>1. k \in {1, 2}
    BY <2>0
  <2>2. /\ V[s] = IF \E j \in 1 .. k : A[j][1] = s THEN 1 ELSE 0
        /\ W[s] = IF \E j \in 1 .. k + 1 : A[j][1] = s THEN 1 ELSE 0
    BY <1>5 DEF RouteVisits
  <2>3. \A j \in 1 .. k : A[j][1] # x
    <3>1. /\ A[1] = <<Start[m], 1>> /\ A[3] = <<"publish", 1>>
          /\ A[2] = <<IF m = "linear" THEN "execute"
                      ELSE IF m = "branching" THEN b ELSE "apply", 1>>
      BY <1>5, RouteIs
    <3>2. Start[m] \in {"prepare", "choose"}
      BY <1>5 DEF Models, Start
    <3>3. A[2][1] \in {"execute", "fast", "safe", "apply"}
      BY <2>1, <3>1 DEF BranchKnown, Models
    <3>4. \A j \in 1 .. k : j \in {1, 2} /\ j <= k
      BY <2>1
    <3> HIDE DEF A
    <3> QED
      BY <2>1, <3>1, <3>2, <3>3, <3>4
  <2>4. \A j \in 1 .. k + 1 : j \in 1 .. k \/ j = k + 1
    OBVIOUS
  <2>5. \A j \in 1 .. k : j \in 1 .. k + 1
    OBVIOUS
  <2>6. k + 1 \in 1 .. k + 1
    OBVIOUS
  <2> HIDE DEF A, V, W
  <2>7. CASE s = x
    BY <2>2, <2>3, <2>6, <2>7
  <2>8. CASE s # x
    BY <2>2, <2>4, <2>5, <2>8
  <2> QED
    BY <2>7, <2>8
<1> QED
  BY <1>4, <1>5

(* The beginning of a way does not depend on the branch. *)
LEMMA RouteStart ==
  ASSUME NEW m \in Models, NEW b, NEW c
  PROVE  /\ Len(Route(m, b)) = Len(Route(m, c))
         /\ Route(m, b)[1] = Route(m, c)[1]
         /\ Route(m, b)[1] = <<Start[m], 1>>
         /\ RouteVisits(m, b, 1) = [s \in WorkStates |-> IF s = Start[m] THEN 1 ELSE 0]
         /\ m # "branching" => Route(m, b) = Route(m, c)
<1>1. Start["cyclic-bounded"] = "check"
  BY DEF Start, Models
<1>2. Route(m, b)[1] = <<Start[m], 1>> /\ Route(m, c)[1] = <<Start[m], 1>>
      /\ Len(Route(m, b)) = Len(Route(m, c))
  BY <1>1, RouteIs
<1>3. m # "branching" => Route(m, b) = Route(m, c)
  BY DEF Route
<1>4. RouteVisits(m, b, 1) = [s \in WorkStates |-> IF s = Start[m] THEN 1 ELSE 0]
  <2>1. CASE m = "cyclic-bounded"
    BY <1>1, <2>1 DEF RouteVisits
  <2>2. CASE m # "cyclic-bounded"
    <3>1. \A s : (\E j \in 1 .. 1 : Route(m, b)[j][1] = s) <=> s = Start[m]
      BY <1>2
    <3> QED
      BY <2>2, <3>1 DEF RouteVisits
  <2> QED
    BY <2>1, <2>2
<1> QED
  BY <1>2, <1>3, <1>4

(* The task, and a ledger for it. *)
RetryTask == model \in Models /\ retryPolicy \in RetryPolicies /\ LedgerOK

(* The ledger only grows. *)
LedgerGrows ==
  /\ UNCHANGED <<model, retryPolicy>>
  /\ \A k \in DOMAIN retryLedger : k \in DOMAIN retryLedger' /\ retryLedger'[k] = retryLedger[k]

(* A visit that is over. *)
Past(s, v) == \E n \in Nat \ {0} : EndsAt(s, v, n) /\ <<s, v, n>> \in DOMAIN retryLedger

(* A visit that is over is the reference's, whatever its attempts. *)
LEMMA VisitSays ==
  \A s, v, n : model \in Models /\ retryPolicy \in RetryPolicies /\ EndsAt(s, v, n)
                 => ReferenceVisit(s, v) = VisitEnding(s, v, n)
  BY VisitIs

(* So it is in the next state. *)
LEMMA VisitSaysNext ==
  (\A s, v, n : model \in Models /\ retryPolicy \in RetryPolicies /\ EndsAt(s, v, n)
                  => ReferenceVisit(s, v) = VisitEnding(s, v, n))'
  BY VisitSays, PTL

(* A repeated attempt is in the ledger. *)
LEMMA RepeatedFound ==
  ASSUME RetryTask, NEW s, NEW v, NEW n, Repeated(s, v, n)
  PROVE  <<s, v, n>> \in DOMAIN retryLedger /\ n < Cap
<1>1. Lookup(<<s, v, n>>).outcome # "missing" /\ n < Cap
  BY DEF Repeated
<1>2. LedgerOK
  BY DEF RetryTask
<1> QED
  BY <1>1, <1>2, LookupIs

(* Nothing that has been looked up changes. *)
LEMMA LookupStays ==
  ASSUME LedgerGrows, NEW s, NEW v, NEW n, <<s, v, n>> \in DOMAIN retryLedger
  PROVE  /\ Lookup(<<s, v, n>>)' = Lookup(<<s, v, n>>)
         /\ <<s, v, n>> \in DOMAIN retryLedger'
         /\ Cap' = Cap
         /\ Repeated(s, v, n)' <=> Repeated(s, v, n)
<1>1. Cap' = Cap
  BY DEF Cap, LedgerGrows
<1>2. Lookup(<<s, v, n>>)' = Lookup(<<s, v, n>>) /\ <<s, v, n>> \in DOMAIN retryLedger'
  BY DEF Lookup, LedgerGrows
<1>3. retryPolicy' = retryPolicy
  BY DEF LedgerGrows
<1> QED
  BY <1>1, <1>2, <1>3 DEF Repeated

(* Nor does a visit that is over. *)
LEMMA VisitStays ==
  ASSUME RetryTask, LedgerGrows, NEW s, NEW v, Past(s, v)
  PROVE  Past(s, v)' /\ ReferenceVisit(s, v)' = ReferenceVisit(s, v)
<1>1. PICK n \in Nat \ {0} : EndsAt(s, v, n) /\ <<s, v, n>> \in DOMAIN retryLedger
  BY DEF Past
<1>2. ASSUME NEW i \in 1 .. n
      PROVE  <<s, v, i>> \in DOMAIN retryLedger
  <2>1. CASE i = n
    BY <1>1, <2>1
  <2>2. CASE i # n
    <3>1. i \in 1 .. n - 1
      BY <1>1, <2>2
    <3>2. Repeated(s, v, i)
      BY <1>1, <3>1 DEF EndsAt
    <3> QED
      BY <3>2, RepeatedFound
  <2> QED
    BY <2>1, <2>2
<1>3. \A i \in 1 .. n : /\ Lookup(<<s, v, i>>)' = Lookup(<<s, v, i>>)
                        /\ Repeated(s, v, i)' <=> Repeated(s, v, i)
  BY <1>2, LookupStays
<1>4. Cap' = Cap /\ <<s, v, n>> \in DOMAIN retryLedger'
  BY <1>1, LookupStays
<1>5. n \in 1 .. n /\ \A i \in 1 .. n - 1 : i \in 1 .. n
  BY <1>1
<1>6. EndsAt(s, v, n)'
  BY <1>1, <1>3, <1>4, <1>5 DEF EndsAt
<1>7. model \in Models /\ retryPolicy \in RetryPolicies
      /\ model' \in Models /\ retryPolicy' \in RetryPolicies /\ retryPolicy' = retryPolicy
  BY DEF RetryTask, LedgerGrows
<1>8. ReferenceVisit(s, v) = VisitEnding(s, v, n)
  BY <1>1, <1>7, VisitIs
<1>9. ReferenceVisit(s, v)' = VisitEnding(s, v, n)'
  BY <1>6, <1>7, VisitSaysNext
<1>10. VisitEnding(s, v, n)' = VisitEnding(s, v, n)
  <2> DEFINE e == Lookup(<<s, v, n>>)
             N == IF e = None THEN n - 1 ELSE n
             row(i) == [key |-> <<s, v, i>>, event |-> Lookup(<<s, v, i>>),
                        resolution |-> IF i < n THEN "retry"
                                       ELSE IF e.outcome = "success" THEN "succeeded"
                                       ELSE "failed"]
  <2>1. e' = e
    BY <1>3, <1>5
  <2>2. N' = N /\ \A i \in 1 .. N : i \in 1 .. n
    BY <1>1, <2>1
  <2>3. \A i \in 1 .. N : row(i)' = row(i)
    <3> TAKE i \in 1 .. N
    <3>1. Lookup(<<s, v, i>>)' = Lookup(<<s, v, i>>)
      BY <1>3, <2>2
    <3> QED
      BY <2>1, <3>1
  <2>4. [i \in 1 .. N |-> row(i)]' = [i \in 1 .. N |-> row(i)]
    BY <2>2, <2>3
  <2>5. VisitEnding(s, v, n) =
          [event |-> e, last |-> <<s, v, n>>,
           status |-> IF e = None THEN "missing"
                      ELSE IF e.outcome = "success" THEN "success" ELSE "failure",
           reason |-> IF e.outcome = "terminal-failure" THEN "terminal-failure"
                      ELSE IF retryPolicy = "never" THEN "retry-disabled"
                      ELSE IF /\ retryPolicy = "retry-transient-only"
                              /\ e.outcome = "ordinary-failure"
                      THEN "nontransient-failure" ELSE "retry-budget-exhausted",
           seen |-> [i \in 1 .. N |-> row(i)]]
    BY DEF VisitEnding
  <2>6. VisitEnding(s, v, n)' =
          [event |-> e', last |-> <<s, v, n>>,
           status |-> IF e' = None THEN "missing"
                      ELSE IF e'.outcome = "success" THEN "success" ELSE "failure",
           reason |-> IF e'.outcome = "terminal-failure" THEN "terminal-failure"
                      ELSE IF retryPolicy' = "never" THEN "retry-disabled"
                      ELSE IF /\ retryPolicy' = "retry-transient-only"
                              /\ e'.outcome = "ordinary-failure"
                      THEN "nontransient-failure" ELSE "retry-budget-exhausted",
           seen |-> [i \in 1 .. N |-> row(i)]']
    BY DEF VisitEnding, None
  <2> HIDE DEF e, N, row
  <2> QED
    BY <1>7, <2>1, <2>4, <2>5, <2>6
<1> QED
  BY <1>4, <1>6, <1>8, <1>9, <1>10, <1>1 DEF Past

(* The first m visits of the agenda are over. *)
PastVisits(m) ==
  /\ m \in 0 .. Len(Agenda)
  /\ \A j \in 1 .. m : /\ Agenda[j] = <<Agenda[j][1], Agenda[j][2]>>
                       /\ Agenda[j][1] \in WorkStates /\ Agenda[j][2] \in Nat
                       /\ Past(Agenda[j][1], Agenda[j][2])

(* The agenda of the next state is a way as well. *)
LEMMA AgendaNext ==
  (model \in Models => Agenda = Route(model, Branch))'
<1>1. model \in Models => Agenda = Route(model, Branch)
  BY AgendaIs
<1> QED
  BY <1>1, PTL

(* So what follows from those visits does not change. *)
LEMMA AgendaStays ==
  ASSUME RetryTask, LedgerGrows, NEW m, PastVisits(m)
  PROVE  /\ Len(Agenda') = Len(Agenda) /\ Cap' = Cap
         /\ \A j \in 1 .. m : /\ Agenda'[j] = Agenda[j]
                              /\ PlannedVisit(j)' = PlannedVisit(j)
                              /\ EndsWith(j)' <=> EndsWith(j)
         /\ MadeBy(m)' = MadeBy(m)
         /\ PastVisits(m)'
         /\ m < Len(Agenda) =>
              /\ Agenda'[m + 1] = Agenda[m + 1]
              /\ RouteVisits(model', Branch', m + 1) = RouteVisits(model, Branch, m + 1)
<1>1. model \in Models /\ model' = model
  BY DEF RetryTask, LedgerGrows
<1>2. Agenda = Route(model, Branch) /\ Agenda' = Route(model, Branch')
  BY <1>1, AgendaIs, AgendaNext
<1>3. m \in Nat /\ Len(Agenda) \in {3, 6}
  BY <1>1, <1>2, RouteIs DEF PastVisits
<1>4. \/ Agenda' = Agenda /\ \A k : RouteVisits(model', Branch', k) = RouteVisits(model, Branch, k)
      \/ m = 0
  <2>1. CASE model # "branching"
    <3>1. Route(model, Branch') = Route(model, Branch)
      BY <1>1, <2>1, RouteStart
    <3>2. \A k : RouteVisits(model', Branch', k) = RouteVisits(model, Branch, k)
      BY <1>1, <3>1 DEF RouteVisits
    <3> QED
      BY <1>2, <3>1, <3>2
  <2>2. CASE model = "branching" /\ m # 0
    <3>1. 1 \in 1 .. m
      BY <1>3, <2>2
    <3>2. Agenda[1] = <<"choose", 1>>
      <4>1. Route(model, Branch)[1] = <<Start[model], 1>>
        BY <1>1, RouteStart
      <4>2. Start[model] = "choose"
        BY <1>1, <2>2 DEF Start
      <4> QED
        BY <1>2, <4>1, <4>2
    <3>3. Past("choose", 1)
      BY <3>1, <3>2 DEF PastVisits
    <3>4. ReferenceVisit("choose", 1)' = ReferenceVisit("choose", 1)
      BY <3>3, VisitStays
    <3>5. Branch' = Branch
      BY <3>4 DEF Branch
    <3> QED
      BY <1>1, <1>2, <3>5
  <2> QED
    BY <2>1, <2>2
<1>5. Len(Agenda') = Len(Agenda) /\ Agenda'[1] = Agenda[1]
      /\ RouteVisits(model', Branch', 1) = RouteVisits(model, Branch, 1)
  BY <1>1, <1>2, RouteStart
<1>6. \A j \in 1 .. m : Agenda'[j] = Agenda[j]
  BY <1>3, <1>4
<1>7. ASSUME NEW j \in 1 .. m
      PROVE  /\ PlannedVisit(j)' = PlannedVisit(j)
             /\ EndsWith(j)' <=> EndsWith(j)
             /\ Past(Agenda[j][1], Agenda[j][2])'
  <2> DEFINE A == Agenda[j]
  <2>1. PICK s, v : s = A[1] /\ v = A[2]
    OBVIOUS
  <2>2. Agenda'[j][1] = s /\ Agenda'[j][2] = v
    BY <1>6, <2>1
  <2>3. Past(s, v)
    BY <2>1 DEF PastVisits
  <2>4. Past(s, v)' /\ ReferenceVisit(s, v)' = ReferenceVisit(s, v)
    BY <2>3, VisitStays
  <2>5. PlannedVisit(j) = ReferenceVisit(s, v)
    BY <2>1 DEF PlannedVisit
  <2>6. PlannedVisit(j)' = ReferenceVisit(s, v)'
    BY <2>2 DEF PlannedVisit
  <2>7. Past(Agenda[j][1], Agenda[j][2])'
    BY <2>2, <2>4
  <2> QED
    BY <1>5, <2>4, <2>5, <2>6, <2>7 DEF EndsWith
<1>8. MadeBy(m)' = MadeBy(m)
  <2>1. [j \in 1 .. m |-> PlannedVisit(j).seen]' = [j \in 1 .. m |-> PlannedVisit(j).seen]
    BY <1>7
  <2> QED
    BY <2>1 DEF MadeBy
<1>9. PastVisits(m)'
  BY <1>5, <1>6, <1>7 DEF PastVisits
<1>10. Cap' = Cap
  BY DEF Cap, LedgerGrows
<1> QED
  BY <1>3, <1>4, <1>5, <1>6, <1>7, <1>8, <1>9, <1>10

(* m visits are over; of the visit <<s, v>> no more than a attempts were    *)
(* looked up, and the first r are repeated.                                *)
Under(m, s, v, a, r) ==
  /\ RetryTask /\ PastVisits(m)
  /\ s \in WorkStates /\ v \in 1 .. 3 /\ a \in Nat /\ r \in Nat /\ r <= a
  /\ \A j \in 1 .. m : Agenda[j] # <<s, v>>
  /\ \A k \in DOMAIN retryLedger :
       \/ \E j \in 1 .. m : Agenda[j] = <<k[1], k[2]>>
       \/ k[1] = s /\ k[2] = v /\ k[3] \in 1 .. a
  /\ \A i \in 1 .. r : Repeated(s, v, i)

RowShown(s, v, n, event, res) == [key |-> <<s, v, n>>, event |-> event, resolution |-> res]

(* The visit <<s, v>> is under way, after a attempts.                      *)
Walking(m, s, v, a) ==
  /\ Under(m, s, v, a, a)
  /\ observations = MadeBy(m) \o Repeats(s, v, a)

(* Its attempt n has just been recorded.                                   *)
Recorded(m, s, v, n, event, res) ==
  /\ n \in Nat \ {0} /\ Under(m, s, v, n, n - 1)
  /\ <<s, v, n>> \in DOMAIN retryLedger /\ Lookup(<<s, v, n>>) = event /\ event \in Events(s)
  /\ observations = Append(MadeBy(m) \o Repeats(s, v, n - 1), RowShown(s, v, n, event, res))

(* The next attempt has not been looked up. *)
LEMMA NextUnknown ==
  ASSUME NEW m, NEW s, NEW v, NEW a, Under(m, s, v, a, a)
  PROVE  /\ <<s, v, a + 1>> \notin DOMAIN retryLedger
         /\ a + 1 \in 1 .. Cap
<1>1. ASSUME <<s, v, a + 1>> \in DOMAIN retryLedger
      PROVE  FALSE
  <2> DEFINE k == <<s, v, a + 1>>
  <2>1. k[1] = s /\ k[2] = v /\ k[3] = a + 1
    OBVIOUS
  <2>2. \/ \E j \in 1 .. m : Agenda[j] = <<k[1], k[2]>>
        \/ k[1] = s /\ k[2] = v /\ k[3] \in 1 .. a
    BY <1>1 DEF Under
  <2>3. a \in Nat /\ \A j \in 1 .. m : Agenda[j] # <<s, v>>
    BY DEF Under
  <2> QED
    BY <2>1, <2>2, <2>3
<1>2. a \in Nat /\ Cap \in Nat /\ Cap >= 1
  BY CapIs DEF Under, RetryTask
<1>3. a # 0 => a < Cap
  <2>1. SUFFICES ASSUME a # 0 PROVE a < Cap
    OBVIOUS
  <2>2. a \in 1 .. a
    BY <1>2, <2>1
  <2>3. Repeated(s, v, a)
    BY <2>2 DEF Under
  <2> QED
    BY <2>3 DEF Repeated
<1> QED
  BY <1>1, <1>2, <1>3

(* What repeated attempts show does not change. *)
LEMMA RepeatsStay ==
  ASSUME LedgerGrows, RetryTask, NEW s, NEW v, NEW r \in Nat, \A i \in 1 .. r : Repeated(s, v, i)
  PROVE  /\ Repeats(s, v, r)' = Repeats(s, v, r)
         /\ \A i \in 1 .. r : Repeated(s, v, i)'
<1>1. \A i \in 1 .. r : <<s, v, i>> \in DOMAIN retryLedger
  BY RepeatedFound
<1>2. \A i \in 1 .. r : /\ Lookup(<<s, v, i>>)' = Lookup(<<s, v, i>>)
                        /\ Repeated(s, v, i)' <=> Repeated(s, v, i)
  BY <1>1, LookupStays
<1> DEFINE row(i) == [key |-> <<s, v, i>>, event |-> Lookup(<<s, v, i>>), resolution |-> "retry"]
<1>3. [i \in 1 .. r |-> row(i)]' = [i \in 1 .. r |-> row(i)]
  BY <1>2
<1>4. Repeats(s, v, r) = [i \in 1 .. r |-> row(i)]
  BY DEF Repeats
<1>5. Repeats(s, v, r)' = [i \in 1 .. r |-> row(i)]'
  BY DEF Repeats
<1> QED
  BY <1>2, <1>3, <1>4, <1>5

(* A row is looked up. *)
LEMMA RecordStep ==
  ASSUME NEW m, NEW s, NEW v, NEW a, Walking(m, s, v, a),
         NEW event \in Events(s), NEW res, UNCHANGED <<model, retryPolicy>>,
         retryLedger' = [k \in DOMAIN retryLedger \cup {<<s, v, a + 1>>} |->
                           IF k = <<s, v, a + 1>> THEN event ELSE retryLedger[k]],
         observations' = Append(observations, RowShown(s, v, a + 1, event, res))
  PROVE  Recorded(m, s, v, a + 1, event, res)' /\ LedgerGrows
<1> DEFINE n == a + 1
           key1 == <<s, v, n>>
<1>1. Under(m, s, v, a, a) /\ RetryTask /\ PastVisits(m) /\ a \in Nat /\ s \in WorkStates
      /\ v \in 1 .. 3
  BY DEF Walking, Under
<1>2. key1 \notin DOMAIN retryLedger
  BY <1>1, NextUnknown
<1>3. DOMAIN retryLedger' = DOMAIN retryLedger \cup {key1} /\ retryLedger'[key1] = event
      /\ \A k \in DOMAIN retryLedger : retryLedger'[k] = retryLedger[k]
  BY <1>2
<1>4. LedgerGrows
  BY <1>3 DEF LedgerGrows
<1>5. /\ Len(Agenda') = Len(Agenda) /\ \A j \in 1 .. m : Agenda'[j] = Agenda[j]
      /\ MadeBy(m)' = MadeBy(m) /\ PastVisits(m)'
  BY <1>1, <1>4, AgendaStays
<1>6. /\ Repeats(s, v, a)' = Repeats(s, v, a)
      /\ \A i \in 1 .. a : Repeated(s, v, i)'
  BY <1>1, <1>4, RepeatsStay DEF Under
<1>7. RetryTask'
  <2>1. model' \in Models /\ retryPolicy' \in RetryPolicies
    BY <1>1 DEF RetryTask
  <2>2. key1 \in RowKeys
    BY <1>1 DEF RowKeys
  <2>3. event \in Events(key1[1])
    OBVIOUS
  <2>4. DOMAIN retryLedger \subseteq RowKeys
        /\ \A k \in DOMAIN retryLedger : retryLedger[k] \in Events(k[1])
    BY <1>1 DEF RetryTask, LedgerOK
  <2> HIDE DEF key1
  <2>5. LedgerOK'
    BY <1>3, <2>2, <2>3, <2>4 DEF LedgerOK, Events
  <2> QED
    BY <2>1, <2>5 DEF RetryTask
<1>8. Lookup(key1)' = event
  BY <1>3 DEF Lookup
<1>9. ASSUME NEW k \in DOMAIN retryLedger'
      PROVE  \/ \E j \in 1 .. m : Agenda'[j] = <<k[1], k[2]>>
             \/ k[1] = s /\ k[2] = v /\ k[3] \in 1 .. n
  <2>1. CASE k = key1
    <3>1. k[1] = s /\ k[2] = v /\ k[3] = n
      BY <2>1
    <3> QED
      BY <1>1, <3>1
  <2>2. CASE k \in DOMAIN retryLedger
    <3>1. \/ \E j \in 1 .. m : Agenda[j] = <<k[1], k[2]>>
          \/ k[1] = s /\ k[2] = v /\ k[3] \in 1 .. a
      BY <1>1, <2>2 DEF Under
    <3> QED
      BY <1>1, <1>5, <3>1
  <2> QED
    BY <1>3, <2>1, <2>2
<1>10. n \in Nat \ {0} /\ n - 1 = a /\ n - 1 <= n /\ n - 1 \in Nat
  BY <1>1
<1>11. \A j \in 1 .. m : Agenda'[j] # <<s, v>>
  BY <1>1, <1>5 DEF Under
<1>12. Under(m, s, v, n, n - 1)'
  <2> HIDE DEF n
  <2> QED
    BY <1>1, <1>5, <1>6, <1>7, <1>9, <1>10, <1>11 DEF Under
<1>13. observations' = Append(MadeBy(m)' \o Repeats(s, v, n - 1)', RowShown(s, v, n, event, res))
  BY <1>5, <1>6, <1>10 DEF Walking
<1>14. event \in Events(s)'
  BY DEF Events
<1> QED
  BY <1>3, <1>4, <1>8, <1>10, <1>12, <1>13, <1>14 DEF Recorded, RowShown

(* What has been made so far is a list. *)
LEMMA MadeType ==
  ASSUME RetryTask, NEW m, PastVisits(m)
  PROVE  /\ [j \in 1 .. m |-> PlannedVisit(j).seen] \in Seq(Lists(Shown))
         /\ Len([j \in 1 .. m |-> PlannedVisit(j).seen]) = m
         /\ MadeBy(m) \in Seq(Shown)
<1> DEFINE part1(j) == PlannedVisit(j).seen
<1>1. ASSUME NEW j \in 1 .. m
      PROVE  part1(j) \in Lists(Shown)
  <2> DEFINE s == Agenda[j][1]
             v == Agenda[j][2]
  <2>1. s \in WorkStates /\ v \in Nat /\ Past(s, v)
    BY DEF PastVisits
  <2>2. PICK n \in Nat \ {0} : EndsAt(s, v, n)
    BY <2>1 DEF Past
  <2>3. ReferenceVisit(s, v) = VisitEnding(s, v, n)
    BY <2>2, VisitIs DEF RetryTask
  <2>4. VisitEnding(s, v, n).seen \in Lists(Shown)
    BY <2>1, VisitType DEF RetryTask
  <2> QED
    BY <2>3, <2>4 DEF PlannedVisit
<1>2. m \in Nat
  <2>1. Len(Agenda) \in {3, 6}
    BY AgendaIs, RouteIs DEF RetryTask
  <2> QED
    BY <2>1 DEF PastVisits
<1> HIDE DEF part1
<1>3. [j \in 1 .. m |-> part1(j)] \in Seq(Lists(Shown)) /\ Len([j \in 1 .. m |-> part1(j)]) = m
  BY <1>1, <1>2
<1>4. FlattenSeq([j \in 1 .. m |-> part1(j)]) \in Lists(Shown)
  BY <1>3, FlattenType
<1> QED
  BY <1>3, <1>4 DEF part1, MadeBy, Lists

(* One more visit. *)
LEMMA MadeMore ==
  ASSUME RetryTask, NEW m, PastVisits(m), m < Len(Agenda), PlannedVisit(m + 1).seen \in Seq(Shown)
  PROVE  MadeBy(m + 1) = MadeBy(m) \o PlannedVisit(m + 1).seen
<1> DEFINE z == [j \in 1 .. m + 1 |-> PlannedVisit(j).seen]
           y == [j \in 1 .. m |-> PlannedVisit(j).seen]
           x == PlannedVisit(m + 1).seen
           L == Lists(Shown)
<1>1. y \in Seq(L) /\ Len(y) = m
  BY MadeType
<1>2. x \in L
  BY DEF Lists
<1>3. m \in Nat
  <2> HIDE DEF y, L
  <2> QED
    BY <1>1
<1>4. DOMAIN z = 1 .. m + 1 /\ \A j \in 1 .. m + 1 : z[j] = IF j = m + 1 THEN x ELSE y[j]
  BY <1>3
<1> HIDE DEF z, y, x, L
<1>5. Append(y, x) \in Seq(L) /\ Len(Append(y, x)) = m + 1
      /\ \A j \in 1 .. m + 1 : Append(y, x)[j] = IF j = m + 1 THEN x ELSE y[j]
  BY <1>1, <1>2, <1>3
<1>6. z = Append(y, x)
  <2>1. \A j \in 1 .. m + 1 : z[j] \in L
    BY <1>1, <1>2, <1>3, <1>4
  <2>2. z = [j \in 1 .. m + 1 |-> z[j]]
    BY DEF z
  <2>3. z \in Seq(L) /\ Len(z) = m + 1
    BY <1>3, <2>1, <2>2
  <2> QED
    BY <1>3, <1>4, <1>5, <2>3, SeqEqual
<1>7. FlattenSeq(Append(y, x)) = FlattenSeq(y) \o x
  BY <1>1, <1>2, FlattenAppend DEF L
<1>8. FlattenSeq(z) = FlattenSeq(y) \o x
  BY <1>6, <1>7
<1> QED
  BY <1>8 DEF z, y, x, MadeBy

(* One more at the end of a concatenation. *)
LEMMA JoinShown ==
  ASSUME NEW a \in Seq(Shown), NEW b \in Seq(Shown), NEW x \in Shown
  PROVE  Append(a \o b, x) = a \o Append(b, x)
<1> DEFINE l == Append(a \o b, x)
           r == a \o Append(b, x)
           N == Len(a) + Len(b) + 1
<1>1. Len(a) \in Nat /\ Len(b) \in Nat
  OBVIOUS
<1>2. a \o b \in Seq(Shown) /\ Len(a \o b) = Len(a) + Len(b)
      /\ \A i \in 1 .. Len(a) + Len(b) :
           (a \o b)[i] = IF i <= Len(a) THEN a[i] ELSE b[i - Len(a)]
  BY ConcatProperties
<1>3. l \in Seq(Shown) /\ Len(l) = N
      /\ \A i \in 1 .. N : l[i] = IF i = N THEN x ELSE (a \o b)[i]
  BY <1>1, <1>2
<1>4. Append(b, x) \in Seq(Shown) /\ Len(Append(b, x)) = Len(b) + 1
      /\ \A i \in 1 .. Len(b) + 1 : Append(b, x)[i] = IF i = Len(b) + 1 THEN x ELSE b[i]
  BY <1>1
<1>5. r \in Seq(Shown) /\ Len(r) = N
      /\ \A i \in 1 .. N : r[i] = IF i <= Len(a) THEN a[i] ELSE Append(b, x)[i - Len(a)]
  <2>1. Len(r) = Len(a) + Len(Append(b, x)) /\ r \in Seq(Shown)
        /\ \A i \in 1 .. Len(a) + Len(Append(b, x)) :
             r[i] = IF i <= Len(a) THEN a[i] ELSE Append(b, x)[i - Len(a)]
    BY <1>4, ConcatProperties
  <2>2. Len(a) + Len(Append(b, x)) = N
    BY <1>1, <1>4
  <2> QED
    BY <2>1, <2>2
<1> HIDE DEF l, r
<1>6. ASSUME NEW i \in 1 .. N
      PROVE  l[i] = r[i]
  <2>1. CASE i = N
    <3>1. i - Len(a) = Len(b) + 1 /\ ~(i <= Len(a))
      BY <1>1, <2>1
    <3>2. i - Len(a) \in 1 .. Len(b) + 1
      BY <1>1, <3>1
    <3>3. r[i] = x
      BY <1>4, <1>5, <3>1, <3>2
    <3> QED
      BY <1>3, <2>1, <3>3
  <2>2. CASE i # N /\ i <= Len(a)
    <3>1. i \in 1 .. Len(a) + Len(b)
      BY <1>1, <2>2
    <3> QED
      BY <1>2, <1>3, <1>5, <2>2, <3>1
  <2>3. CASE i # N /\ ~(i <= Len(a))
    <3>1. i \in 1 .. Len(a) + Len(b) /\ i - Len(a) \in 1 .. Len(b) + 1
          /\ i - Len(a) # Len(b) + 1
      BY <1>1, <2>3
    <3>2. l[i] = b[i - Len(a)]
      BY <1>2, <1>3, <2>3, <3>1
    <3>3. Append(b, x)[i - Len(a)] = b[i - Len(a)]
      BY <1>4, <3>1
    <3>4. r[i] = b[i - Len(a)]
      BY <1>5, <2>3, <3>3
    <3> QED
      BY <3>2, <3>4
  <2> QED
    BY <2>1, <2>2, <2>3
<1>7. l = r
  <2>1. Len(l) = Len(r) /\ \A i \in 1 .. Len(l) : l[i] = r[i]
    BY <1>3, <1>5, <1>6
  <2> QED
    BY <1>3, <1>5, <2>1, SeqEqual
<1> QED
  BY <1>7 DEF l, r

(* One more repeated attempt. *)
LEMMA RepeatsMore ==
  ASSUME LedgerOK, NEW s \in WorkStates, NEW v \in Nat, NEW n \in Nat \ {0}
  PROVE  Repeats(s, v, n) =
           Append(Repeats(s, v, n - 1), RowShown(s, v, n, Lookup(<<s, v, n>>), "retry"))
<1> DEFINE row(k) == [key |-> <<s, v, k>>, event |-> Lookup(<<s, v, k>>), resolution |-> "retry"]
           z == Repeats(s, v, n)
           y == Repeats(s, v, n - 1)
           x == RowShown(s, v, n, Lookup(<<s, v, n>>), "retry")
<1>1. y \in Seq(Shown) /\ Len(y) = n - 1 /\ z \in Seq(Shown) /\ Len(z) = n
  <2>1. n - 1 \in Nat /\ n \in Nat
    OBVIOUS
  <2> QED
    BY <2>1, RepeatsType
<1>2. z = [k \in 1 .. n |-> row(k)] /\ y = [k \in 1 .. n - 1 |-> row(k)]
  BY DEF Repeats
<1>3. x = row(n) /\ n \in 1 .. n
  BY DEF RowShown
<1> HIDE DEF row, z, y, x
<1>4. z[n] = x /\ \A k \in 1 .. n - 1 : y[k] = z[k]
  BY <1>2, <1>3
<1>5. x \in Shown
  BY <1>1, <1>3, <1>4
<1>6. Append(y, x) \in Seq(Shown) /\ Len(Append(y, x)) = n
      /\ \A k \in 1 .. n : Append(y, x)[k] = z[k]
  BY <1>1, <1>4, <1>5
<1>7. z = Append(y, x)
  BY <1>1, <1>6, SeqEqual
<1> QED
  BY <1>7 DEF z, y, x

(* What is shown is typed. *)
LEMMA ShownType ==
  ASSUME LedgerOK, NEW s \in WorkStates, NEW v \in Nat, NEW n \in Nat,
         NEW event \in Events(s), NEW res \in {"retry", "succeeded", "failed"}
  PROVE  RowShown(s, v, n, event, res) \in Shown
<1>1. event \in LedgerRow
  BY LedgerRowIs
<1> QED
  BY <1>1 DEF RowShown, Shown, RowKeys

(* A repeated attempt: the visit goes on. *)
LEMMA GoesOn ==
  ASSUME NEW m, NEW s, NEW v, NEW n, NEW event, Recorded(m, s, v, n, event, "retry"),
         Repeated(s, v, n)
  PROVE  Walking(m, s, v, n)
<1> DEFINE x == RowShown(s, v, n, event, "retry")
<1>1. /\ n \in Nat \ {0} /\ Under(m, s, v, n, n - 1) /\ event = Lookup(<<s, v, n>>)
      /\ observations = Append(MadeBy(m) \o Repeats(s, v, n - 1), x) /\ event \in Events(s)
  BY DEF Recorded
<1>2. RetryTask /\ LedgerOK /\ PastVisits(m) /\ s \in WorkStates /\ v \in Nat
  BY <1>1 DEF Under, RetryTask
<1>3. Repeats(s, v, n) = Append(Repeats(s, v, n - 1), x)
  BY <1>1, <1>2, RepeatsMore
<1>4. MadeBy(m) \in Seq(Shown) /\ Repeats(s, v, n - 1) \in Seq(Shown) /\ x \in Shown
  <2>1. n - 1 \in Nat /\ n \in Nat
    BY <1>1
  <2>2. x \in Shown
    BY <1>1, <1>2, <2>1, ShownType
  <2> QED
    BY <1>2, <2>1, <2>2, MadeType, RepeatsType
<1> HIDE DEF x
<1>5. observations = MadeBy(m) \o Repeats(s, v, n)
  <2> DEFINE p == MadeBy(m)
             q == Repeats(s, v, n - 1)
  <2>1. p \in Seq(Shown) /\ q \in Seq(Shown) /\ x \in Shown
    BY <1>4
  <2> HIDE DEF p, q
  <2>2. Append(p \o q, x) = p \o Append(q, x)
    BY <2>1, JoinShown
  <2> QED
    BY <1>1, <1>3, <2>2 DEF p, q
<1>6. \A i \in 1 .. n : Repeated(s, v, i)
  <2>1. \A i \in 1 .. n - 1 : Repeated(s, v, i)
    BY <1>1 DEF Under
  <2>2. \A i \in 1 .. n : i \in 1 .. n - 1 \/ i = n
    BY <1>1
  <2> QED
    BY <2>1, <2>2
<1>7. n \in Nat /\ n <= n
  BY <1>1
<1> QED
  BY <1>1, <1>5, <1>6, <1>7 DEF Walking, Under

(* How a visit that is over is shown. *)
Resolves(event, res) == res = IF event.outcome = "success" THEN "succeeded" ELSE "failed"

(* The visit is over: the reference's visit is what was recorded.          *)
LEMMA VisitOver ==
  ASSUME NEW m, NEW s, NEW v, NEW n, NEW event, NEW res,
         Recorded(m, s, v, n, event, res), ~Repeated(s, v, n),
         Resolves(event, res)
  PROVE  LET r == ReferenceVisit(s, v)
         IN /\ Past(s, v)
            /\ r.event = event /\ r.last = <<s, v, n>>
            /\ r.status = IF event.outcome = "success" THEN "success" ELSE "failure"
            /\ r.reason = FailureReason(event)
            /\ r.seen \in Seq(Shown)
            /\ observations = MadeBy(m) \o r.seen
<1> DEFINE x == RowShown(s, v, n, event, res)
<1>1. /\ n \in Nat \ {0} /\ Under(m, s, v, n, n - 1) /\ event = Lookup(<<s, v, n>>)
      /\ observations = Append(MadeBy(m) \o Repeats(s, v, n - 1), x) /\ event \in Events(s)
      /\ <<s, v, n>> \in DOMAIN retryLedger
  BY DEF Recorded
<1>2. RetryTask /\ LedgerOK /\ PastVisits(m) /\ s \in WorkStates /\ v \in Nat
      /\ model \in Models /\ retryPolicy \in RetryPolicies
  BY <1>1 DEF Under, RetryTask
<1>3. event \in LedgerRow /\ event # None
  BY <1>1, LedgerRowIs
<1>4. n \in 1 .. Cap
  <2>1. Cap \in Nat /\ Cap >= 1
    BY <1>2, CapIs
  <2>2. n # 1 => n - 1 < Cap
    <3>1. SUFFICES ASSUME n # 1 PROVE n - 1 < Cap
      OBVIOUS
    <3>2. n - 1 \in 1 .. n - 1
      BY <1>1, <3>1
    <3>3. Repeated(s, v, n - 1)
      BY <1>1, <3>2 DEF Under
    <3> QED
      BY <3>3 DEF Repeated
  <2> QED
    BY <1>1, <2>1, <2>2
<1>5. EndsAt(s, v, n)
  BY <1>1, <1>4 DEF EndsAt, Under
<1>6. ReferenceVisit(s, v) = VisitEnding(s, v, n)
  BY <1>2, <1>5, VisitIs
<1>7. VisitEnding(s, v, n).seen = Append(Repeats(s, v, n - 1), x)
  BY <1>1, <1>3, SeenIs DEF RowShown, Resolves
<1>8. MadeBy(m) \in Seq(Shown) /\ Repeats(s, v, n - 1) \in Seq(Shown) /\ x \in Shown
  <2>1. n - 1 \in Nat /\ n \in Nat
    BY <1>1
  <2>2. res \in {"retry", "succeeded", "failed"}
    BY DEF Resolves
  <2>3. x \in Shown
    BY <1>1, <1>2, <2>1, <2>2, ShownType
  <2> QED
    BY <1>2, <2>1, <2>3, MadeType, RepeatsType
<1>9. /\ VisitEnding(s, v, n).event = event /\ VisitEnding(s, v, n).last = <<s, v, n>>
      /\ VisitEnding(s, v, n).status = IF event.outcome = "success" THEN "success" ELSE "failure"
      /\ VisitEnding(s, v, n).reason = FailureReason(event)
  BY <1>1, <1>3 DEF VisitEnding, FailureReason
<1> HIDE DEF x
<1>10. observations = MadeBy(m) \o VisitEnding(s, v, n).seen
  <2> DEFINE p == MadeBy(m)
             q == Repeats(s, v, n - 1)
  <2>1. p \in Seq(Shown) /\ q \in Seq(Shown) /\ x \in Shown
    BY <1>8
  <2> HIDE DEF p, q
  <2>2. Append(p \o q, x) = p \o Append(q, x)
    BY <2>1, JoinShown
  <2> QED
    BY <1>1, <1>7, <2>2 DEF p, q
<1>11. VisitEnding(s, v, n).seen \in Seq(Shown)
  BY <1>7, <1>8
<1>12. Past(s, v)
  BY <1>1, <1>5 DEF Past
<1> QED
  BY <1>6, <1>9, <1>10, <1>11, <1>12

(* A row is missing: so it is for the reference. *)
LEMMA VisitMissing ==
  ASSUME NEW m, NEW s, NEW v, NEW a, Walking(m, s, v, a)
  PROVE  LET r == ReferenceVisit(s, v)
         IN /\ r.last = <<s, v, a + 1>> /\ r.status = "missing"
            /\ r.seen \in Seq(Shown)
            /\ observations = MadeBy(m) \o r.seen
<1> DEFINE n == a + 1
<1>1. Under(m, s, v, a, a) /\ a \in Nat /\ observations = MadeBy(m) \o Repeats(s, v, a)
  BY DEF Walking, Under
<1>2. RetryTask /\ LedgerOK /\ PastVisits(m) /\ s \in WorkStates /\ v \in Nat
      /\ model \in Models /\ retryPolicy \in RetryPolicies
  BY <1>1 DEF Under, RetryTask
<1>3. <<s, v, n>> \notin DOMAIN retryLedger /\ n \in 1 .. Cap
  BY <1>1, NextUnknown
<1>4. Lookup(<<s, v, n>>) = None
  BY <1>2, <1>3, LookupIs
<1>5. ~Repeated(s, v, n)
  BY <1>2, <1>3, RepeatedFound
<1>6. n - 1 = a /\ n \in Nat \ {0}
  BY <1>1
<1>7. EndsAt(s, v, n)
  BY <1>1, <1>3, <1>5, <1>6 DEF EndsAt, Under
<1>8. ReferenceVisit(s, v) = VisitEnding(s, v, n)
  BY <1>2, <1>7, VisitIs
<1>9. VisitEnding(s, v, n).seen = Repeats(s, v, a)
  BY <1>4, <1>6, SeenIs
<1>10. VisitEnding(s, v, n).last = <<s, v, n>> /\ VisitEnding(s, v, n).status = "missing"
  BY <1>4 DEF VisitEnding
<1>11. Repeats(s, v, a) \in Seq(Shown)
  BY <1>1, <1>2, RepeatsType
<1> QED
  BY <1>1, <1>8, <1>9, <1>10, <1>11

(* The visit that the workflow is at. *)
Here(m, s, v) ==
  m < Len(Agenda) /\ Agenda[m + 1] = <<s, v>> /\ \A j \in 1 .. m : ~EndsWith(j)

(* The last visit is the first that ends the workflow. *)
LEMMA LastVisitIs ==
  ASSUME NEW k \in 1 .. Len(Agenda), Len(Agenda) \in Nat, DOMAIN Agenda = 1 .. Len(Agenda),
         EndsWith(k), \A j \in 1 .. k - 1 : ~EndsWith(j)
  PROVE  LastVisit = k
<1> DEFINE c == LastVisit
<1>1. c \in 1 .. Len(Agenda) /\ EndsWith(c) /\ \A j \in 1 .. c - 1 : ~EndsWith(j)
  BY DEF LastVisit
<1> HIDE DEF c
<1>2. ~(c < k)
  <2>1. SUFFICES ASSUME c < k PROVE FALSE
    OBVIOUS
  <2>2. c \in 1 .. k - 1
    BY <1>1, <2>1
  <2> QED
    BY <1>1, <2>2
<1>3. ~(k < c)
  <2>1. SUFFICES ASSUME k < c PROVE FALSE
    OBVIOUS
  <2>2. k \in 1 .. c - 1
    BY <1>1, <2>1
  <2> QED
    BY <1>1, <2>2
<1>4. c = k
  BY <1>1, <1>2, <1>3
<1> QED
  BY <1>4 DEF c

(* What the reference reports of a workflow that ends here. *)
LEMMA EndsHere ==
  ASSUME NEW m, NEW s, NEW v, RetryTask, PastVisits(m), Here(m, s, v), EndsWith(m + 1),
         ReferenceVisit(s, v).seen \in Seq(Shown),
         observations = MadeBy(m) \o ReferenceVisit(s, v).seen
  PROVE  LET r == ReferenceVisit(s, v)
         IN /\ r.status = "missing" =>
                 ReferenceRun = <<observations, Terminal("incomplete", "event-ledger-exhausted",
                                                         observations, r.last, "missing")>>
            /\ r.status = "success" =>
                 ReferenceRun =
                   <<observations,
                     IF r.event.directive = "repeat"
                     THEN Terminal("cycle-limit", "cycle-bound-exceeded", observations,
                                   r.last, "success")
                     ELSE Terminal("complete", "workflow-complete", observations, r.last,
                                   "success")>>
            /\ r.status = "failure" /\ ~(model = "compensating" /\ m > 0) =>
                 ReferenceRun = <<observations, Terminal("failed", r.reason, observations,
                                                         r.last, r.event.outcome)>>
<1> DEFINE r == ReferenceVisit(s, v)
<1>1. Len(Agenda) \in {3, 6} /\ DOMAIN Agenda = 1 .. Len(Agenda)
  BY AgendaIs, RouteIs DEF RetryTask
<1>2. m \in Nat /\ m + 1 \in 1 .. Len(Agenda) /\ (m + 1) - 1 = m
  BY <1>1 DEF PastVisits, Here
<1>3. \A j \in 1 .. (m + 1) - 1 : ~EndsWith(j)
  BY <1>2 DEF Here
<1>4. LastVisit = m + 1
  BY <1>1, <1>2, <1>3, LastVisitIs
<1>5. PlannedVisit(m + 1) = r
  <2>1. Agenda[m + 1] = <<s, v>>
    BY DEF Here
  <2>2. Agenda[m + 1][1] = s /\ Agenda[m + 1][2] = v
    BY <2>1
  <2> QED
    BY <2>2 DEF PlannedVisit
<1>6. MadeBy(m + 1) = observations
  <2>1. m < Len(Agenda)
    BY DEF Here
  <2> QED
    BY <1>5, <2>1, MadeMore
<1>7. LastVisit > 1 <=> m > 0
  BY <1>2, <1>4
<1> DEFINE made == MadeBy(LastVisit)
           final == PlannedVisit(LastVisit)
<1>8. made = observations /\ final = r
  BY <1>4, <1>5, <1>6
<1> HIDE DEF r, made, final
<1>9. CASE r.status = "missing"
  <2>1. ReferenceRun = <<made, Terminal("incomplete", "event-ledger-exhausted", made,
                                        final.last, "missing")>>
    BY <1>8, <1>9 DEF ReferenceRun, made, final
  <2> QED
    BY <1>8, <1>9, <2>1 DEF r
<1>10. CASE r.status = "success"
  <2>1. ReferenceRun =
          <<made, IF final.event.directive = "repeat"
                  THEN Terminal("cycle-limit", "cycle-bound-exceeded", made, final.last,
                                "success")
                  ELSE Terminal("complete", "workflow-complete", made, final.last, "success")>>
    BY <1>8, <1>10 DEF ReferenceRun, made, final
  <2> QED
    BY <1>8, <1>10, <2>1 DEF r
<1>11. CASE r.status = "failure" /\ ~(model = "compensating" /\ m > 0)
  <2>1. ReferenceRun = <<made, Terminal("failed", final.reason, made, final.last,
                                        final.event.outcome)>>
    BY <1>7, <1>8, <1>11 DEF ReferenceRun, made, final
  <2> QED
    BY <1>8, <1>11, <2>1 DEF r
<1> QED
  BY <1>9, <1>10, <1>11 DEF r

(* What it reports of a workflow that compensates for its visit m. *)
LEMMA EndsBack ==
  ASSUME NEW m, RetryTask, PastVisits(m), m > 1, model = "compensating",
         PlannedVisit(m).status = "failure", \A j \in 1 .. m - 1 : ~EndsWith(j),
         observations = MadeBy(m) \o ReferenceVisit("compensate", 1).seen
  PROVE  LET r == ReferenceVisit("compensate", 1)
             f == PlannedVisit(m)
         IN /\ r.status = "missing" =>
                 ReferenceRun = <<observations, Terminal("incomplete", "event-ledger-exhausted",
                                                         observations, r.last, "missing")>>
            /\ r.status = "success" =>
                 ReferenceRun = <<observations, Terminal("compensated", "compensation-complete",
                                                         observations, f.last,
                                                         f.event.outcome)>>
            /\ r.status = "failure" =>
                 ReferenceRun = <<observations, Terminal("compensation-failed",
                                                         "compensation-failed", observations,
                                                         r.last, r.event.outcome)>>
<1> DEFINE r == ReferenceVisit("compensate", 1)
           f == PlannedVisit(m)
<1>1. Len(Agenda) \in {3, 6} /\ DOMAIN Agenda = 1 .. Len(Agenda)
  BY AgendaIs, RouteIs DEF RetryTask
<1>2. m \in 1 .. Len(Agenda) /\ m \in Nat
  BY <1>1 DEF PastVisits
<1>3. EndsWith(m)
  BY DEF EndsWith
<1>4. LastVisit = m
  BY <1>1, <1>2, <1>3, LastVisitIs
<1> DEFINE both == MadeBy(LastVisit) \o ReferenceVisit("compensate", 1).seen
           final == PlannedVisit(LastVisit)
<1>5. both = observations /\ final = f /\ LastVisit > 1
  BY <1>4
<1>6. f.status = "failure"
  OBVIOUS
<1> HIDE DEF r, f, both, final
<1>7. CASE r.status = "missing"
  <2>1. ReferenceRun = <<both, Terminal("incomplete", "event-ledger-exhausted", both,
                                        r.last, "missing")>>
    BY <1>5, <1>6, <1>7 DEF ReferenceRun, both, final, r
  <2> QED
    BY <1>5, <1>7, <2>1 DEF r, f
<1>8. CASE r.status = "success"
  <2>1. ReferenceRun = <<both, Terminal("compensated", "compensation-complete", both,
                                        final.last, final.event.outcome)>>
    BY <1>5, <1>6, <1>8 DEF ReferenceRun, both, final, r
  <2> QED
    BY <1>5, <1>8, <2>1 DEF r, f
<1>9. CASE r.status = "failure"
  <2>1. ReferenceRun = <<both, Terminal("compensation-failed", "compensation-failed", both,
                                        r.last, r.event.outcome)>>
    BY <1>5, <1>6, <1>9 DEF ReferenceRun, both, final, r
  <2> QED
    BY <1>5, <1>9, <2>1 DEF r, f
<1> QED
  BY <1>7, <1>8, <1>9 DEF r, f

(* The reference looks at the task and the ledger only. *)
LEMMA ReferenceStays ==
  ASSUME UNCHANGED <<model, retryPolicy, retryLedger>>
  PROVE  /\ ReferenceRun' = ReferenceRun
         /\ Cap' = Cap
<1>0. model' = model /\ retryPolicy' = retryPolicy /\ retryLedger' = retryLedger
  OBVIOUS
<1>1. ASSUME NEW k PROVE Lookup(k)' = Lookup(k)
  BY <1>0 DEF Lookup
<1>2. Cap' = Cap
  BY <1>0 DEF Cap
<1>3. ASSUME NEW s, NEW v, NEW n PROVE Repeated(s, v, n)' <=> Repeated(s, v, n)
  BY <1>0, <1>1, <1>2 DEF Repeated
<1>4. ASSUME NEW s, NEW v PROVE LastAttempt(s, v)' = LastAttempt(s, v)
  BY <1>2, <1>3 DEF LastAttempt
<1>5. ASSUME NEW s, NEW v, NEW n PROVE VisitEnding(s, v, n)' = VisitEnding(s, v, n)
  BY <1>0, <1>1 DEF VisitEnding
<1>6. ASSUME NEW s, NEW v PROVE ReferenceVisit(s, v)' = ReferenceVisit(s, v)
  BY <1>4, <1>5 DEF ReferenceVisit
<1>7. Agenda' = Agenda
  BY <1>0, <1>6 DEF Agenda
<1>8. ASSUME NEW k PROVE PlannedVisit(k)' = PlannedVisit(k)
  BY <1>6, <1>7 DEF PlannedVisit
<1>9. ASSUME NEW k PROVE EndsWith(k)' <=> EndsWith(k)
  BY <1>7, <1>8 DEF EndsWith
<1>10. LastVisit' = LastVisit
  BY <1>7, <1>9 DEF LastVisit
<1>11. ASSUME NEW k PROVE MadeBy(k)' = MadeBy(k)
  BY <1>8 DEF MadeBy
<1> QED
  BY <1>0, <1>2, <1>6, <1>8, <1>10, <1>11 DEF ReferenceRun

(* Which key may follow an observation. *)
Follows(o, next) ==
  /\ o.resolution = "retry" <=> <<next[1], next[2]>> = <<o.key[1], o.key[2]>>
  /\ o.resolution = "failed" => next[1] = "compensate" /\ o.key[1] \in {"apply", "publish"}
  /\ next[1] = "compensate" /\ o.key[1] # "compensate" => o.resolution = "failed"
  /\ o.key[1] = "compensate" => next[1] = "compensate"
  /\ next[3] <= Cap /\ o.key[2] <= 3

Chained ==
  \A i \in 1 .. Len(observations) - 1 : Follows(observations[i], observations[i + 1].key)

(* The attempt under way follows what was observed last. *)
LeadsOn ==
  /\ observations = <<>> => attempt = 1
  /\ observations # <<>> =>
       LET o == observations[Len(observations)]
       IN /\ Follows(o, EventKey)
          /\ attempt = IF <<o.key[1], o.key[2]>> = <<state, visits[state]>> THEN o.key[3] + 1
                       ELSE 1

(* The workflow goes on after m visits that succeeded, or compensates for a *)
(* failure of its visit m.                                                  *)
Forward(m) ==
  /\ state # "compensate" /\ Here(m, state, visits[state])
  /\ visits = RouteVisits(model, Branch, m + 1)

CauseShown ==
  \E i \in DOMAIN observations :
    /\ observations[i].resolution = "failed"
    /\ observations[i].key = cause.key /\ observations[i].event = cause.event

Backward(m) ==
  /\ state = "compensate" /\ model = "compensating" /\ visits["compensate"] = 1
  /\ m > 1 /\ PlannedVisit(m).status = "failure" /\ \A j \in 1 .. m - 1 : ~EndsWith(j)
  /\ cause = [key |-> PlannedVisit(m).last, event |-> PlannedVisit(m).event]
  /\ cause.key \in RowKeys /\ CauseShown

RetryWalks(m) ==
  /\ attempt \in Nat \ {0} /\ visits \in [WorkStates -> Nat]
  /\ Walking(m, state, visits[state], attempt - 1)
  /\ Forward(m) \/ Backward(m)

RetryDone ==
  /\ <<observations, terminal>> = Reference
  /\ terminal.terminal = "complete" =>
       \A i \in DOMAIN observations : observations[i].resolution # "failed"
  /\ terminal.terminal = "compensated" =>
       \E i \in DOMAIN observations :
         /\ observations[i].resolution = "failed"
         /\ observations[i].key = <<terminal.state, terminal.visit, terminal.attempt>>
         /\ observations[i].event.outcome = terminal.outcome

(* What is true of every run, running or over. *)
RetryInv ==
  /\ RetryTask /\ observations \in Seq(Shown) /\ Chained
  /\ terminal = Running =>
       /\ \E m : RetryWalks(m)
       /\ LeadsOn
       /\ state # "compensate" =>
            \A i \in DOMAIN observations : observations[i].resolution # "failed"
  /\ terminal # Running => RetryDone

(* The invariant implies the property. *)
LEMMA RetryInvRight == RetryInv => RetryRight
<1> SUFFICES ASSUME RetryInv PROVE RetryRight
  OBVIOUS
<1>1. terminal.terminal \in {"complete", "compensated"} => terminal # Running
  BY DEF Running
<1>2. terminal # Running => RetryDone
  BY DEF RetryInv
<1>3. Chained
  BY DEF RetryInv
<1> QED
  BY <1>1, <1>2, <1>3 DEF RetryRight, RetryDone, Chained, Follows

(* No workflow has begun with anything recorded. *)
LEMMA RetryInvStart == RetryInit => RetryInv
<1> SUFFICES ASSUME RetryInit PROVE RetryInv
  OBVIOUS
<1>1. /\ model \in Models /\ retryPolicy \in RetryPolicies
      /\ retryLedger = <<>> /\ observations = <<>> /\ state = Start[model]
      /\ visits = [s \in WorkStates |-> IF s = state THEN 1 ELSE 0]
      /\ attempt = 1 /\ terminal \in {Running, EmptyTerminal}
  BY DEF RetryInit
<1>2. RetryTask /\ DOMAIN retryLedger = {}
  BY <1>1 DEF RetryTask, LedgerOK
<1>3. observations \in Seq(Shown) /\ Chained
  BY <1>1 DEF Chained
<1>4. CASE terminal = EmptyTerminal
  <2>1. EmptyTerminal.terminal = "empty"
    BY DEF EmptyTerminal, Terminal
  <2>2. terminal # Running
    BY <1>4, <2>1 DEF Running
  <2>3. RetryDone
    BY <1>1, <1>4, <2>1 DEF RetryDone, Reference
  <2> QED
    BY <1>2, <1>3, <2>2, <2>3 DEF RetryInv
<1>5. CASE terminal = Running
  <2>1. Agenda = Route(model, Branch) /\ Len(Agenda) \in {3, 6}
    BY <1>1, AgendaIs, RouteIs
  <2>2. Agenda[1] = <<Start[model], 1>>
        /\ RouteVisits(model, Branch, 1) = [s \in WorkStates |-> IF s = state THEN 1 ELSE 0]
    BY <1>1, <2>1, RouteStart
  <2>3. state \in WorkStates \ {"compensate"} /\ visits[state] = 1
        /\ visits \in [WorkStates -> Nat]
    <3>1. state \in {"prepare", "choose", "check"}
      BY <1>1 DEF Start, Models
    <3> QED
      BY <1>1, <3>1 DEF WorkStates
  <2>4. PastVisits(0)
    BY <2>1 DEF PastVisits
  <2>5. Here(0, state, visits[state])
    BY <1>1, <2>1, <2>2, <2>3 DEF Here
  <2>6. Under(0, state, visits[state], 0, 0)
    BY <1>2, <2>3, <2>4 DEF Under
  <2>7. MadeBy(0) = <<>> /\ Repeats(state, visits[state], 0) = <<>>
    <3>1. MadeBy(0) = FlattenSeq(<<>>)
      BY DEF MadeBy
    <3> QED
      BY <3>1, FlattenEmpty DEF Repeats
  <2>8. Walking(0, state, visits[state], attempt - 1)
    <3>1. attempt - 1 = 0 /\ <<>> \o <<>> = <<>>
      BY <1>1
    <3> QED
      BY <1>1, <2>6, <2>7, <3>1 DEF Walking
  <2>9. Forward(0)
    BY <1>1, <2>2, <2>3, <2>5 DEF Forward
  <2>10. RetryWalks(0)
    BY <1>1, <2>3, <2>8, <2>9 DEF RetryWalks
  <2>11. LeadsOn /\ \A i \in DOMAIN observations : observations[i].resolution # "failed"
    BY <1>1 DEF LeadsOn
  <2> QED
    BY <1>2, <1>3, <1>5, <2>10, <2>11 DEF RetryInv
<1> QED
  BY <1>1, <1>4, <1>5

(* A visit that is none of the first m. *)
Fresh(m, s, v) == \A j \in 1 .. m : Agenda[j] # <<s, v>>

(* The next visit begins. *)
LEMMA NextVisit ==
  ASSUME NEW m, NEW s, NEW v, NEW a, NEW r, Under(m, s, v, a, r), Past(s, v),
         m < Len(Agenda), Agenda[m + 1] = <<s, v>>, ReferenceVisit(s, v).seen \in Seq(Shown),
         observations = MadeBy(m) \o ReferenceVisit(s, v).seen,
         NEW t \in WorkStates, NEW w \in 1 .. 3, Fresh(m + 1, t, w)
  PROVE  Walking(m + 1, t, w, 0) /\ PlannedVisit(m + 1) = ReferenceVisit(s, v)
<1>1. RetryTask /\ PastVisits(m) /\ s \in WorkStates /\ v \in 1 .. 3
  BY DEF Under
<1>2. Len(Agenda) \in {3, 6}
  BY <1>1, AgendaIs, RouteIs DEF RetryTask
<1>3. m \in Nat /\ m + 1 \in 0 .. Len(Agenda) /\ m + 1 \in Nat
      /\ \A j \in 1 .. m + 1 : j \in 1 .. m \/ j = m + 1
  BY <1>1, <1>2 DEF PastVisits
<1>4. Agenda[m + 1][1] = s /\ Agenda[m + 1][2] = v
  OBVIOUS
<1>5. PlannedVisit(m + 1) = ReferenceVisit(s, v)
  BY <1>4 DEF PlannedVisit
<1>6. PastVisits(m + 1)
  BY <1>1, <1>3, <1>4 DEF PastVisits
<1>7. MadeBy(m + 1) = observations
  BY <1>1, <1>5, MadeMore
<1>8. Repeats(t, w, 0) = <<>> /\ observations \o <<>> = observations
  <2>1. MadeBy(m + 1) \in Seq(Shown)
    BY <1>1, <1>6, MadeType
  <2> QED
    BY <1>7, <2>1 DEF Repeats
<1>9. ASSUME NEW k \in DOMAIN retryLedger
      PROVE  \E j \in 1 .. m + 1 : Agenda[j] = <<k[1], k[2]>>
  <2>1. \/ \E j \in 1 .. m : Agenda[j] = <<k[1], k[2]>>
        \/ k[1] = s /\ k[2] = v
    BY DEF Under
  <2>2. \A j \in 1 .. m : j \in 1 .. m + 1
    BY <1>3
  <2>3. m + 1 \in 1 .. m + 1
    BY <1>3
  <2> QED
    BY <2>1, <2>2, <2>3
<1>10. Under(m + 1, t, w, 0, 0)
  <2>1. 0 \in Nat /\ 0 <= 0 /\ \A i \in 1 .. 0 : Repeated(t, w, i)
    OBVIOUS
  <2>2. \A k \in DOMAIN retryLedger : \E j \in 1 .. m + 1 : Agenda[j] = <<k[1], k[2]>>
    BY <1>9
  <2>3. \A j \in 1 .. m + 1 : Agenda[j] # <<t, w>>
    BY DEF Fresh
  <2>4. t \in WorkStates /\ w \in 1 .. 3
    OBVIOUS
  <2> QED
    BY <1>1, <1>6, <2>1, <2>2, <2>3, <2>4 DEF Under
<1> QED
  BY <1>5, <1>7, <1>8, <1>10 DEF Walking

(* Where a workflow goes on to from state s; w counts its visits of work.  *)
Onward(s, w, event) ==
  CASE s = "prepare" /\ model = "linear"       -> "execute"
    [] s = "prepare" /\ model = "compensating" -> "apply"
    [] s \in {"execute", "fast", "safe", "apply"} -> "publish"
    [] s = "choose"                            -> event.directive
    [] s = "check"                             -> "work"
    [] s = "work" /\ event.directive = "repeat" /\ w < 3 -> "check"
    [] OTHER                                   -> ""

(* A visit that succeeded recorded what its state allows. *)
LEMMA SuccessKnown ==
  ASSUME RetryTask, NEW s, NEW v, Past(s, v)
  PROVE  ReferenceVisit(s, v).event \in Events(s)
<1>1. PICK n \in Nat \ {0} : EndsAt(s, v, n) /\ <<s, v, n>> \in DOMAIN retryLedger
  BY DEF Past
<1>2. ReferenceVisit(s, v) = VisitEnding(s, v, n)
  BY <1>1, VisitIs DEF RetryTask
<1>3. VisitEnding(s, v, n).event = Lookup(<<s, v, n>>)
  BY DEF VisitEnding
<1>4. Lookup(<<s, v, n>>) \in Events(<<s, v, n>>[1])
  BY <1>1, LookupIs DEF RetryTask
<1>5. <<s, v, n>>[1] = s
  OBVIOUS
<1> QED
  BY <1>2, <1>3, <1>4, <1>5

(* And its outcome is a success if its status is. *)
LEMMA SuccessStatus ==
  ASSUME RetryTask, NEW s, NEW v, Past(s, v), ReferenceVisit(s, v).status = "success"
  PROVE  ReferenceVisit(s, v).event.outcome = "success"
<1>1. PICK n \in Nat \ {0} : EndsAt(s, v, n) /\ <<s, v, n>> \in DOMAIN retryLedger
  BY DEF Past
<1>2. ReferenceVisit(s, v) = VisitEnding(s, v, n)
  BY <1>1, VisitIs DEF RetryTask
<1> QED
  BY <1>2 DEF VisitEnding

(* Once the first visit has succeeded the branch is known. *)
LEMMA WayKnown ==
  ASSUME RetryTask, NEW m, PastVisits(m), \A j \in 1 .. m : ~EndsWith(j)
  PROVE  BranchKnown(model, Branch, m + 1)
<1> SUFFICES ASSUME model = "branching", m + 1 >= 2
             PROVE  Branch \in {"fast", "safe"}
  BY DEF BranchKnown
<1>1. Agenda = Route(model, Branch) /\ Len(Agenda) \in {3, 6}
  BY AgendaIs, RouteIs DEF RetryTask
<1>2. m \in Nat /\ 1 \in 1 .. m
  BY <1>1 DEF PastVisits
<1>3. Agenda[1] = <<"choose", 1>>
  BY <1>1 DEF Route
<1>4. Agenda[1][1] = "choose" /\ Agenda[1][2] = 1
  BY <1>3
<1>5. Past("choose", 1) /\ PlannedVisit(1) = ReferenceVisit("choose", 1)
  BY <1>2, <1>4 DEF PastVisits, PlannedVisit
<1>6. ReferenceVisit("choose", 1).status = "success"
  BY <1>2, <1>5 DEF EndsWith
<1>7. Branch = ReferenceVisit("choose", 1).event.directive
  BY DEF Branch
<1>8. ReferenceVisit("choose", 1).event.outcome = "success"
      /\ ReferenceVisit("choose", 1).event \in Events("choose")
  BY <1>5, <1>6, SuccessKnown, SuccessStatus
<1> QED
  BY <1>7, <1>8, LedgerRowIs

(* The place that the workflow is at. *)
LEMMA HereIs ==
  ASSUME RetryTask, NEW m, PastVisits(m), NEW s, NEW v, Here(m, s, v)
  PROVE  /\ Agenda = Route(model, Branch) /\ BranchKnown(model, Branch, m + 1)
         /\ m \in Nat /\ m + 1 \in 1 .. Len(Agenda) /\ Len(Agenda) \in {3, 6}
         /\ s \in WorkStates \ {"compensate"} /\ v \in 1 .. 3
         /\ RouteVisits(model, Branch, m + 1)[s] = v
         /\ RouteVisits(model, Branch, m + 1) \in [WorkStates -> 0 .. 3]
         /\ RouteVisits(model, Branch, m + 1)["compensate"] = 0
         /\ \A j \in 1 .. m : Agenda[j] # <<s, v>>
<1>1. Agenda = Route(model, Branch) /\ Len(Agenda) \in {3, 6} /\ model \in Models
  BY AgendaIs, RouteIs DEF RetryTask
<1>2. m \in Nat /\ m + 1 \in 1 .. Len(Agenda) /\ (m + 1) - 1 = m
  BY <1>1 DEF PastVisits, Here
<1>3. BranchKnown(model, Branch, m + 1)
  BY WayKnown DEF Here
<1>4. m + 1 \in 1 .. Len(Route(model, Branch))
  BY <1>1, <1>2
<1>5. LET A == Route(model, Branch)
          V == RouteVisits(model, Branch, m + 1)
      IN /\ A[m + 1][1] \in WorkStates \ {"compensate"} /\ A[m + 1][2] \in 1 .. 3
         /\ V \in [WorkStates -> 0 .. 3] /\ V["compensate"] = 0
         /\ V[A[m + 1][1]] = A[m + 1][2]
         /\ \A j \in 1 .. (m + 1) - 1 : A[j] # A[m + 1]
  BY <1>1, <1>3, <1>4, RoutePlaces
<1>6. Agenda[m + 1] = <<s, v>>
  BY DEF Here
<1>7. Agenda[m + 1][1] = s /\ Agenda[m + 1][2] = v
  BY <1>6
<1> HIDE DEF RetryTask
<1> QED
  BY <1>1, <1>2, <1>3, <1>5, <1>6, <1>7

(* The branch that was chosen. *)
BranchTaken(s, event) == s = "choose" => Branch = event.directive

(* The next place, or none. *)
Nowhere(t) == t = ""

WhereTo(m, s, event) == Onward(s, RouteVisits(model, Branch, m + 1)["work"], event)

OnwardTo(m, s, event) ==
  /\ m + 1 = Len(Agenda) \/ event.directive = "finish" => Nowhere(WhereTo(m, s, event))
  /\ ~(m + 1 = Len(Agenda) \/ event.directive = "finish") =>
       /\ WhereTo(m, s, event) = Agenda[m + 2][1] /\ ~Nowhere(WhereTo(m, s, event))
       /\ m + 2 \in 1 .. Len(Agenda)
  /\ event.directive = "repeat" => s = "work"

(* It goes on to the next place of the agenda, if there is one. *)
LEMMA OnwardIs ==
  ASSUME RetryTask, NEW m, PastVisits(m), NEW s, NEW v, Here(m, s, v),
         NEW event \in Events(s), event.outcome = "success",
         BranchTaken(s, event)
  PROVE  OnwardTo(m, s, event)
<1> DEFINE w == RouteVisits(model, Branch, m + 1)["work"]
           t == Onward(s, w, event)
           d == event.directive
<1>1. /\ Agenda = Route(model, Branch) /\ BranchKnown(model, Branch, m + 1)
      /\ m \in Nat /\ m + 1 \in 1 .. Len(Agenda) /\ Len(Agenda) \in {3, 6}
  BY HereIs
<1>2. model \in Models
  BY DEF RetryTask
<1>3. /\ s = "choose" => d \in {"fast", "safe"}
      /\ s = "work" => d \in {"repeat", "finish"}
      /\ s # "choose" /\ s # "work" => d = "next"
  BY LedgerRowIs
<1>4. Agenda[m + 1] = <<s, v>>
  BY DEF Here
<1>5. Agenda[m + 1][1] = s /\ Agenda[m + 1][2] = v
  BY <1>4
<1>6. Len(Agenda) = IF model = "cyclic-bounded" THEN 6 ELSE 3
  BY <1>1, <1>2, RouteLength
<1>7. d = "repeat" => s = "work"
  BY <1>3
<1>8. ASSUME model = "cyclic-bounded"
      PROVE  /\ m + 1 = Len(Agenda) \/ d = "finish" => t = ""
             /\ ~(m + 1 = Len(Agenda) \/ d = "finish") =>
                  t = Agenda[m + 2][1] /\ t # "" /\ m + 2 \in 1 .. Len(Agenda)
             /\ d = "repeat" => s = "work"
  <2>1. /\ Agenda[1] = <<"check", 1>> /\ Agenda[2] = <<"work", 1>> /\ Agenda[3] = <<"check", 2>>
        /\ Agenda[4] = <<"work", 2>> /\ Agenda[5] = <<"check", 3>> /\ Agenda[6] = <<"work", 3>>
    BY <1>1, <1>2, <1>8, RouteIs
  <2>2. /\ Agenda[1][1] = "check" /\ Agenda[2][1] = "work" /\ Agenda[3][1] = "check"
        /\ Agenda[4][1] = "work" /\ Agenda[5][1] = "check" /\ Agenda[6][1] = "work"
    BY <2>1
  <2>3. w = (m + 1) \div 2
    <3>1. "work" \in WorkStates
      BY DEF WorkStates
    <3> QED
      BY <1>8, <3>1 DEF RouteVisits
  <2>4. m \in {0, 2, 4} \/ m \in {1, 3, 5}
    <3>1. m \in Nat /\ m + 1 <= 6
      BY <1>1, <1>6, <1>8
    <3> QED
      BY <3>1
  <2> HIDE DEF w
  <2>5. CASE m \in {0, 2, 4}
    <3>1. s = "check"
      BY <1>5, <2>2, <2>5
    <3>2. t = "work"
      BY <3>1 DEF Onward
    <3>3. Agenda[m + 2][1] = "work" /\ m + 2 \in 1 .. 6 /\ m + 1 # 6
      BY <2>2, <2>5
    <3> QED
      BY <1>3, <1>6, <1>7, <1>8, <3>1, <3>2, <3>3 DEF w
  <2>6. CASE m \in {1, 3, 5}
    <3>1. s = "work"
      BY <1>5, <2>2, <2>6
    <3>2. w < 3 <=> m # 5
      BY <2>3, <2>6
    <3>3. t = IF d = "repeat" /\ m # 5 THEN "check" ELSE ""
      BY <3>1, <3>2 DEF Onward
    <3>4. m # 5 => Agenda[m + 2][1] = "check" /\ m + 2 \in 1 .. 6 /\ m + 1 # 6
      BY <2>2, <2>6
    <3>5. m = 5 <=> m + 1 = 6
      BY <2>6
    <3> QED
      BY <1>3, <1>6, <1>7, <1>8, <3>1, <3>3, <3>4, <3>5 DEF w
  <2> QED
    BY <2>4, <2>5, <2>6
<1>9. ASSUME model # "cyclic-bounded"
      PROVE  /\ m + 1 = Len(Agenda) \/ d = "finish" => t = ""
             /\ ~(m + 1 = Len(Agenda) \/ d = "finish") =>
                  t = Agenda[m + 2][1] /\ t # "" /\ m + 2 \in 1 .. Len(Agenda)
             /\ d = "repeat" => s = "work"
  <2>1. /\ Agenda[1] = <<Start[model], 1>>
        /\ Agenda[2] = <<IF model = "linear" THEN "execute"
                         ELSE IF model = "branching" THEN Branch ELSE "apply", 1>>
        /\ Agenda[3] = <<"publish", 1>>
    BY <1>1, <1>2, <1>9, RouteIs
  <2>2. /\ Agenda[1][1] = Start[model]
        /\ Agenda[2][1] = (IF model = "linear" THEN "execute"
                           ELSE IF model = "branching" THEN Branch ELSE "apply")
        /\ Agenda[3][1] = "publish"
    BY <2>1
  <2>3. Start[model] = IF model = "branching" THEN "choose" ELSE "prepare"
    BY <1>2, <1>9 DEF Start
  <2>4. m \in {0, 1, 2} /\ Len(Agenda) = 3
    BY <1>1, <1>6, <1>9
  <2>5. model \in {"linear", "branching", "compensating"}
    BY <1>2, <1>9 DEF Models
  <2> HIDE DEF w
  <2>6. CASE m = 0
    <3>1. s = Start[model] /\ Agenda[m + 2][1] = Agenda[2][1] /\ m + 2 \in 1 .. 3 /\ m + 1 # 3
      BY <1>5, <2>2, <2>6
    <3>2. d # "finish"
      BY <1>3, <2>3, <3>1
    <3>3. t = Agenda[2][1] /\ t # ""
      <4>1. CASE model = "branching"
        <5>1. s = "choose" /\ d = Branch /\ d \in {"fast", "safe"}
          BY <1>3, <2>3, <3>1, <4>1 DEF BranchTaken
        <5>2. t = d
          BY <5>1 DEF Onward
        <5> QED
          BY <2>2, <4>1, <5>1, <5>2
      <4>2. CASE model \in {"linear", "compensating"}
        <5>1. s = "prepare"
          BY <2>3, <3>1, <4>2
        <5>2. t = IF model = "linear" THEN "execute" ELSE "apply"
          BY <4>2, <5>1 DEF Onward
        <5> QED
          BY <2>2, <4>2, <5>2
      <4> QED
        BY <2>5, <4>1, <4>2
    <3> QED
      BY <1>7, <2>4, <3>1, <3>2, <3>3 DEF w
  <2>7. CASE m = 1
    <3>1. s = Agenda[2][1] /\ Agenda[m + 2][1] = "publish" /\ m + 2 \in 1 .. 3 /\ m + 1 # 3
      BY <1>5, <2>2, <2>7
    <3>2. model = "branching" => Branch \in {"fast", "safe"}
      BY <1>1, <2>7 DEF BranchKnown
    <3>3. s \in {"execute", "fast", "safe", "apply"}
      BY <2>2, <3>1, <3>2
    <3>4. t = "publish" /\ d # "finish"
      BY <1>3, <3>3 DEF Onward
    <3> QED
      BY <1>7, <2>4, <3>1, <3>4 DEF w
  <2>8. CASE m = 2
    <3>1. s = "publish" /\ m + 1 = 3
      BY <1>5, <2>2, <2>8
    <3>2. t = ""
      BY <3>1 DEF Onward
    <3> QED
      BY <1>7, <2>4, <3>1, <3>2 DEF w
  <2> QED
    BY <2>4, <2>6, <2>7, <2>8
<1>10. /\ m + 1 = Len(Agenda) \/ d = "finish" => t = ""
       /\ ~(m + 1 = Len(Agenda) \/ d = "finish") =>
            t = Agenda[m + 2][1] /\ t # "" /\ m + 2 \in 1 .. Len(Agenda)
       /\ d = "repeat" => s = "work"
  BY <1>8, <1>9
<1> QED
  BY <1>10 DEF OnwardTo, WhereTo, Nowhere

(* The reference's answers to an attempt that ends the run. *)
EndsFailed ==
  \A m, s, v, n, event :
    /\ Recorded(m, s, v, n, event, "failed") /\ event.outcome # "success"
    /\ ~Repeated(s, v, n) /\ Here(m, s, v) /\ ~(model = "compensating" /\ m > 0)
    => ReferenceRun = <<observations, Terminal("failed", FailureReason(event), observations,
                                               <<s, v, n>>, event.outcome)>>

(* A failure that is not made up for ends the reference's run too. *)
LEMMA EndsFailedRight == EndsFailed
<1> SUFFICES ASSUME NEW m, NEW s, NEW v, NEW n, NEW event,
                    Recorded(m, s, v, n, event, "failed"), event.outcome # "success",
                    ~Repeated(s, v, n), Here(m, s, v), ~(model = "compensating" /\ m > 0)
             PROVE  ReferenceRun = <<observations, Terminal("failed", FailureReason(event),
                                          observations, <<s, v, n>>, event.outcome)>>
  BY DEF EndsFailed
<1> DEFINE r == ReferenceVisit(s, v)
<1>0. Resolves(event, "failed")
  BY DEF Resolves
<1>1. /\ r.event = event /\ r.last = <<s, v, n>>
      /\ r.status = (IF event.outcome = "success" THEN "success" ELSE "failure")
      /\ r.reason = FailureReason(event) /\ r.seen \in Seq(Shown)
      /\ observations = MadeBy(m) \o r.seen
  BY <1>0, VisitOver
<1>2. RetryTask /\ PastVisits(m)
  BY DEF Recorded, Under
<1>3. EndsWith(m + 1)
  <2>1. Agenda[m + 1][1] = s /\ Agenda[m + 1][2] = v
    BY DEF Here
  <2> QED
    BY <1>1, <2>1 DEF EndsWith, PlannedVisit
<1> HIDE DEF r
<1>4. ReferenceRun = <<observations, Terminal("failed", r.reason, observations, r.last,
                                              r.event.outcome)>>
  BY <1>1, <1>2, <1>3, EndsHere DEF r
<1> QED
  BY <1>1, <1>4

EndsWell ==
  \A m, s, v, n, event :
    /\ Recorded(m, s, v, n, event, "succeeded") /\ event.outcome = "success"
    /\ ~Repeated(s, v, n) /\ Here(m, s, v)
    /\ m + 1 = Len(Agenda) \/ event.directive = "finish"
    => ReferenceRun = <<observations,
                        IF event.directive = "repeat"
                        THEN Terminal("cycle-limit", "cycle-bound-exceeded", observations,
                                      <<s, v, n>>, "success")
                        ELSE Terminal("complete", "workflow-complete", observations,
                                      <<s, v, n>>, "success")>>

(* So does the last success of a workflow. *)
LEMMA EndsWellRight == EndsWell
<1> SUFFICES ASSUME NEW m, NEW s, NEW v, NEW n, NEW event,
                    Recorded(m, s, v, n, event, "succeeded"), event.outcome = "success",
                    ~Repeated(s, v, n), Here(m, s, v),
                    m + 1 = Len(Agenda) \/ event.directive = "finish"
             PROVE  ReferenceRun = <<observations,
                        IF event.directive = "repeat"
                        THEN Terminal("cycle-limit", "cycle-bound-exceeded", observations,
                                      <<s, v, n>>, "success")
                        ELSE Terminal("complete", "workflow-complete", observations,
                                      <<s, v, n>>, "success")>>
  BY DEF EndsWell
<1> DEFINE r == ReferenceVisit(s, v)
<1>0. Resolves(event, "succeeded")
  BY DEF Resolves
<1>1. /\ r.event = event /\ r.last = <<s, v, n>> /\ r.status = "success"
      /\ r.seen \in Seq(Shown) /\ observations = MadeBy(m) \o r.seen
  BY <1>0, VisitOver
<1>2. RetryTask /\ PastVisits(m)
  BY DEF Recorded, Under
<1>3. EndsWith(m + 1)
  <2>1. Agenda[m + 1][1] = s /\ Agenda[m + 1][2] = v
    BY DEF Here
  <2> QED
    BY <1>1, <2>1 DEF EndsWith, PlannedVisit
<1> HIDE DEF r
<1>4. ReferenceRun = <<observations,
                       IF r.event.directive = "repeat"
                       THEN Terminal("cycle-limit", "cycle-bound-exceeded", observations,
                                     r.last, "success")
                       ELSE Terminal("complete", "workflow-complete", observations, r.last,
                                     "success")>>
  BY <1>1, <1>2, <1>3, EndsHere DEF r
<1> QED
  BY <1>1, <1>4

EndsUndone ==
  \A m, n, event, res :
    /\ Recorded(m, "compensate", 1, n, event, res) /\ ~Repeated("compensate", 1, n)
    /\ Resolves(event, res)
    /\ m > 1 /\ model = "compensating" /\ PlannedVisit(m).status = "failure"
    /\ \A j \in 1 .. m - 1 : ~EndsWith(j)
    => ReferenceRun = <<observations,
                        IF event.outcome = "success"
                        THEN Terminal("compensated", "compensation-complete", observations,
                                      PlannedVisit(m).last, PlannedVisit(m).event.outcome)
                        ELSE Terminal("compensation-failed", "compensation-failed",
                                      observations, <<"compensate", 1, n>>, event.outcome)>>

(* And the end of a compensation. *)
LEMMA EndsUndoneRight == EndsUndone
<1> SUFFICES ASSUME NEW m, NEW n, NEW event, NEW res,
                    Recorded(m, "compensate", 1, n, event, res), ~Repeated("compensate", 1, n),
                    Resolves(event, res),
                    m > 1, model = "compensating", PlannedVisit(m).status = "failure",
                    \A j \in 1 .. m - 1 : ~EndsWith(j)
             PROVE  ReferenceRun = <<observations,
                        IF event.outcome = "success"
                        THEN Terminal("compensated", "compensation-complete", observations,
                                      PlannedVisit(m).last, PlannedVisit(m).event.outcome)
                        ELSE Terminal("compensation-failed", "compensation-failed",
                                      observations, <<"compensate", 1, n>>, event.outcome)>>
  BY DEF EndsUndone
<1> DEFINE r == ReferenceVisit("compensate", 1)
           f == PlannedVisit(m)
<1>1. /\ r.event = event /\ r.last = <<"compensate", 1, n>>
      /\ r.status = IF event.outcome = "success" THEN "success" ELSE "failure"
      /\ observations = MadeBy(m) \o r.seen
  BY VisitOver
<1>2. RetryTask /\ PastVisits(m)
  BY DEF Recorded, Under
<1> HIDE DEF r, f
<1>3. /\ r.status = "success" =>
           ReferenceRun = <<observations, Terminal("compensated", "compensation-complete",
                                                   observations, f.last, f.event.outcome)>>
      /\ r.status = "failure" =>
           ReferenceRun = <<observations, Terminal("compensation-failed",
                                                   "compensation-failed", observations,
                                                   r.last, r.event.outcome)>>
  BY <1>1, <1>2, EndsBack DEF r, f
<1> QED
  BY <1>1, <1>3 DEF f

(* The visit of t is the one that follows the visit <<s, v>>.              *)
GoesTo(m, s, v, t) ==
  LET V == RouteVisits(model, Branch, m + 1)
      W == RouteVisits(model, Branch, m + 2)
  IN /\ W = [V EXCEPT ![t] = @ + 1] /\ W \in [WorkStates -> 0 .. 3]
     /\ t \in WorkStates \ {"compensate"} /\ W[t] \in 1 .. 3
     /\ <<t, W[t]>> # <<s, v>>
     /\ Here(m + 1, t, W[t]) /\ Walking(m + 1, t, W[t], 0)

GoesForward ==
  \A m, s, v, n, event :
    /\ Recorded(m, s, v, n, event, "succeeded") /\ event.outcome = "success"
    /\ ~Repeated(s, v, n) /\ Here(m, s, v)
    => /\ event.directive = "repeat" => s = "work"
       /\ Nowhere(WhereTo(m, s, event)) => m + 1 = Len(Agenda) \/ event.directive = "finish"
       /\ ~Nowhere(WhereTo(m, s, event)) => GoesTo(m, s, v, WhereTo(m, s, event))

(* After a success the agenda and the machine go to the same visit. *)
LEMMA GoesForwardRight == GoesForward
<1> SUFFICES ASSUME NEW m, NEW s, NEW v, NEW n, NEW event,
                    Recorded(m, s, v, n, event, "succeeded"), event.outcome = "success",
                    ~Repeated(s, v, n), Here(m, s, v)
             PROVE  /\ event.directive = "repeat" => s = "work"
                    /\ Nowhere(WhereTo(m, s, event)) =>
                         m + 1 = Len(Agenda) \/ event.directive = "finish"
                    /\ ~Nowhere(WhereTo(m, s, event)) => GoesTo(m, s, v, WhereTo(m, s, event))
  BY DEF GoesForward
<1> DEFINE r == ReferenceVisit(s, v)
           V == RouteVisits(model, Branch, m + 1)
           W == RouteVisits(model, Branch, m + 2)
           t == WhereTo(m, s, event)
<1>0. Resolves(event, "succeeded")
  BY DEF Resolves
<1>1. /\ Past(s, v) /\ r.event = event /\ r.last = <<s, v, n>> /\ r.status = "success"
      /\ r.seen \in Seq(Shown) /\ observations = MadeBy(m) \o r.seen
  BY <1>0, VisitOver
<1>2. RetryTask /\ PastVisits(m) /\ Under(m, s, v, n, n - 1) /\ event \in Events(s)
  BY DEF Recorded, Under
<1>3. /\ Agenda = Route(model, Branch) /\ m \in Nat /\ m + 1 \in 1 .. Len(Agenda)
      /\ Len(Agenda) \in {3, 6} /\ s \in WorkStates /\ v \in 1 .. 3
  BY <1>2, HereIs
<1>4. Agenda[m + 1] = <<s, v>> /\ m < Len(Agenda) /\ \A j \in 1 .. m : ~EndsWith(j)
  BY DEF Here
<1>5. BranchTaken(s, event)
  <2>1. SUFFICES ASSUME s = "choose" PROVE v = 1
    BY <1>1, <2>1 DEF Branch, BranchTaken
  <2>2. Agenda[m + 1][1] = "choose" /\ Agenda[m + 1][2] = v
    BY <1>4, <2>1
  <2>3. model \in Models
    BY <1>2 DEF RetryTask
  <2>4. CASE model = "cyclic-bounded"
    <3>1. Agenda[m + 1][1] \in {"check", "work"}
      <4>1. m + 1 \in 1 .. 6
        <5> DEFINE len == Len(Agenda)
        <5>1. m \in Nat /\ m + 1 \in 1 .. len /\ (len = 3 \/ len = 6)
          BY <1>3
        <5> HIDE DEF len
        <5> QED
          BY <5>1
      <4>2. Agenda[m + 1] = <<IF (m + 1) % 2 = 1 THEN "check" ELSE "work", (m + 1 + 1) \div 2>>
        BY <1>3, <2>4, <4>1 DEF Route
      <4> QED
        BY <4>2
    <3> QED
      BY <2>2, <3>1
  <2>5. CASE model # "cyclic-bounded"
    <3>1. Agenda[1][2] = 1 /\ Agenda[2][2] = 1 /\ Agenda[3][2] = 1 /\ Len(Agenda) = 3
      BY <1>3, <2>3, <2>5, RouteIs
    <3>2. m + 1 \in {1, 2, 3}
      BY <1>3, <3>1
    <3> QED
      BY <2>2, <3>1, <3>2
  <2> QED
    BY <2>4, <2>5
<1>6. /\ event.directive = "repeat" => s = "work"
      /\ m + 1 = Len(Agenda) \/ event.directive = "finish" => Nowhere(t)
      /\ ~(m + 1 = Len(Agenda) \/ event.directive = "finish") =>
           t = Agenda[m + 2][1] /\ ~Nowhere(t) /\ m + 2 \in 1 .. Len(Agenda)
  <2>1. OnwardTo(m, s, event)
    BY <1>2, <1>5, OnwardIs
  <2> QED
    BY <2>1 DEF OnwardTo
<1>7. ASSUME ~Nowhere(t)
      PROVE  GoesTo(m, s, v, t)
  <2>1. /\ t = Agenda[m + 2][1] /\ m + 2 \in 1 .. Len(Agenda)
        /\ m + 1 # Len(Agenda) /\ event.directive # "finish"
    BY <1>6, <1>7
  <2>2. Agenda[m + 1][1] = s /\ Agenda[m + 1][2] = v
    BY <1>4
  <2>3. PlannedVisit(m + 1) = r
    BY <2>2 DEF PlannedVisit
  <2>4. ~EndsWith(m + 1)
    BY <1>1, <2>1, <2>3 DEF EndsWith
  <2>5. m + 1 \in 0 .. Len(Agenda) /\ \A j \in 1 .. m + 1 : j \in 1 .. m \/ j = m + 1
    BY <1>3
  <2>6. PastVisits(m + 1)
    BY <1>1, <1>2, <1>3, <1>4, <2>2, <2>5 DEF PastVisits
  <2>7. \A j \in 1 .. m + 1 : ~EndsWith(j)
    BY <1>4, <2>4, <2>5
  <2>8. (m + 1) + 1 = m + 2 /\ (m + 2) - 1 = m + 1
    BY <1>3
  <2>9. BranchKnown(model, Branch, m + 2)
    BY <1>2, <2>6, <2>7, <2>8, WayKnown
  <2>10. model \in Models
    BY <1>2 DEF RetryTask
  <2>11. m + 2 \in 1 .. Len(Route(model, Branch)) /\ m + 1 \in 1 .. Len(Route(model, Branch)) - 1
    BY <1>3, <2>1
  <2> HIDE DEF t, r, V, W
  <2>12. LET A == Route(model, Branch)
         IN /\ A[m + 2] = <<A[m + 2][1], A[m + 2][2]>>
            /\ A[m + 2][1] \in WorkStates \ {"compensate"} /\ A[m + 2][2] \in 1 .. 3
            /\ W \in [WorkStates -> 0 .. 3]
            /\ W[A[m + 2][1]] = A[m + 2][2]
            /\ \A j \in 1 .. (m + 2) - 1 : A[j] # A[m + 2]
    BY <2>9, <2>10, <2>11, RoutePlaces DEF W
  <2>13. RouteVisits(model, Branch, (m + 1) + 1)
           = [RouteVisits(model, Branch, m + 1)
                EXCEPT ![Route(model, Branch)[(m + 1) + 1][1]] = @ + 1]
    BY <2>8, <2>9, <2>10, <2>11, RouteOnward
  <2>14. W = [V EXCEPT ![t] = @ + 1]
    BY <1>3, <2>1, <2>8, <2>13 DEF V, W
  <2>15. /\ Agenda[m + 2] = <<t, W[t]>>
         /\ \A j \in 1 .. m + 1 : Agenda[j] # <<t, W[t]>>
         /\ t \in WorkStates \ {"compensate"} /\ W[t] \in 1 .. 3
    BY <1>3, <2>1, <2>8, <2>12
  <2>16. m + 1 \in 1 .. m + 1
    BY <1>3
  <2>17. <<t, W[t]>> # <<s, v>>
    BY <1>4, <2>15, <2>16
  <2>18. Here(m + 1, t, W[t])
    <3>1. m + 1 < Len(Agenda)
      BY <1>3, <2>1
    <3> QED
      BY <2>7, <2>8, <2>15, <3>1 DEF Here
  <2>19. Walking(m + 1, t, W[t], 0)
    <3> DEFINE w == W[t]
    <3>1. w \in 1 .. 3 /\ t \in WorkStates
      BY <2>15
    <3>4. Fresh(m + 1, t, w)
      BY <2>15, Zenon DEF Fresh
    <3> HIDE DEF w
    <3>2. ReferenceVisit(s, v).seen \in Seq(Shown)
          /\ observations = MadeBy(m) \o ReferenceVisit(s, v).seen
      BY <1>1 DEF r
    <3>3. Walking(m + 1, t, w, 0)
      BY <1>1, <1>2, <1>4, <3>1, <3>2, <3>4, NextVisit
    <3> QED
      BY <3>3 DEF w
  <2> QED
    <3>1. W = [V EXCEPT ![t] = @ + 1] /\ W \in [WorkStates -> 0 .. 3]
          /\ t \in WorkStates \ {"compensate"} /\ W[t] \in 1 .. 3
          /\ <<t, W[t]>> # <<s, v>>
          /\ Here(m + 1, t, W[t]) /\ Walking(m + 1, t, W[t], 0)
      BY <2>12, <2>14, <2>15, <2>17, <2>18, <2>19
    <3> QED
      BY <3>1, Zenon DEF GoesTo, V, W
<1> QED
  BY <1>6, <1>7

(* A failed apply or publish of a compensating workflow. *)
GoesBack ==
  \A m, s, v, n, event :
    /\ Recorded(m, s, v, n, event, "failed") /\ event.outcome # "success"
    /\ ~Repeated(s, v, n) /\ Here(m, s, v) /\ model = "compensating" /\ s \in {"apply", "publish"}
    => /\ Walking(m + 1, "compensate", 1, 0) /\ m + 1 > 1
       /\ PlannedVisit(m + 1).status = "failure" /\ \A j \in 1 .. (m + 1) - 1 : ~EndsWith(j)
       /\ PlannedVisit(m + 1).last = <<s, v, n>> /\ PlannedVisit(m + 1).event = event

(* After a failed apply or publish both go to the compensation. *)
LEMMA GoesBackRight == GoesBack
<1> SUFFICES ASSUME NEW m, NEW s, NEW v, NEW n, NEW event,
                    Recorded(m, s, v, n, event, "failed"), event.outcome # "success",
                    ~Repeated(s, v, n), Here(m, s, v), model = "compensating",
                    s \in {"apply", "publish"}
             PROVE  /\ Walking(m + 1, "compensate", 1, 0) /\ m + 1 > 1
                    /\ PlannedVisit(m + 1).status = "failure"
                    /\ \A j \in 1 .. (m + 1) - 1 : ~EndsWith(j)
                    /\ PlannedVisit(m + 1).last = <<s, v, n>>
                    /\ PlannedVisit(m + 1).event = event
  BY DEF GoesBack
<1> DEFINE r == ReferenceVisit(s, v)
<1>0. Resolves(event, "failed")
  BY DEF Resolves
<1>1. /\ Past(s, v) /\ r.event = event /\ r.last = <<s, v, n>>
      /\ r.status = (IF event.outcome = "success" THEN "success" ELSE "failure")
      /\ r.seen \in Seq(Shown) /\ observations = MadeBy(m) \o r.seen
  BY <1>0, VisitOver
<1>2. RetryTask /\ PastVisits(m) /\ Under(m, s, v, n, n - 1)
  BY DEF Recorded, Under
<1>3. /\ Agenda = Route(model, Branch) /\ m \in Nat /\ m + 1 \in 1 .. Len(Agenda)
      /\ Len(Agenda) \in {3, 6}
  BY <1>2, HereIs
<1>4. Agenda[m + 1] = <<s, v>> /\ m < Len(Agenda) /\ \A j \in 1 .. m : ~EndsWith(j)
  BY DEF Here
<1>5. Agenda = <<<<"prepare", 1>>, <<"apply", 1>>, <<"publish", 1>>>>
  BY <1>3 DEF Route
<1>6. Agenda[1][1] = "prepare" /\ Agenda[2][1] = "apply" /\ Agenda[3][1] = "publish"
      /\ Agenda[m + 1][1] = s /\ Len(Agenda) = 3
  BY <1>4, <1>5
<1>7. m \in {1, 2}
  <2>1. m \in {0, 1, 2}
    BY <1>3, <1>6
  <2>2. m # 0
    BY <1>6
  <2> QED
    BY <2>1, <2>2
<1>8. Fresh(m + 1, "compensate", 1)
  <2>1. ASSUME NEW j \in 1 .. m + 1
        PROVE  Agenda[j][1] # "compensate"
    <3>1. j \in {1, 2, 3}
      BY <1>7
    <3> QED
      BY <1>6, <3>1
  <2> QED
    BY <2>1 DEF Fresh
<1>9. "compensate" \in WorkStates /\ 1 \in 1 .. 3
  BY DEF WorkStates
<1>10. Walking(m + 1, "compensate", 1, 0) /\ PlannedVisit(m + 1) = r
  BY <1>1, <1>2, <1>4, <1>8, <1>9, NextVisit
<1>11. (m + 1) - 1 = m /\ m + 1 > 1
  BY <1>7
<1> HIDE DEF r
<1> QED
  BY <1>1, <1>4, <1>10, <1>11

(* The same of the next state. *)
LEMMA GoesOnNext ==
  (\A m, s, v, n, event :
     Recorded(m, s, v, n, event, "retry") /\ Repeated(s, v, n) => Walking(m, s, v, n))'
<1>1. \A m, s, v, n, event :
        Recorded(m, s, v, n, event, "retry") /\ Repeated(s, v, n) => Walking(m, s, v, n)
  BY GoesOn
<1> QED
  BY <1>1, PTL

(* The next state's: a failure. *)
LEMMA EndsFailedNext == EndsFailed'
  BY EndsFailedRight, PTL

(* The next state's: the last success. *)
LEMMA EndsWellNext == EndsWell'
  BY EndsWellRight, PTL

(* The next state's: the end of a compensation. *)
LEMMA EndsUndoneNext == EndsUndone'
  BY EndsUndoneRight, PTL

(* The next state's: the next visit. *)
LEMMA GoesForwardNext == GoesForward'
  BY GoesForwardRight, PTL

(* The next state's: the compensation. *)
LEMMA GoesBackNext == GoesBack'
  BY GoesBackRight, PTL

(* The next state's: a visit has an attempt at least. *)
LEMMA CapNext == (model \in Models /\ retryPolicy \in RetryPolicies => Cap \in Nat /\ Cap >= 1)'
<1>1. model \in Models /\ retryPolicy \in RetryPolicies => Cap \in Nat /\ Cap >= 1
  BY CapIs
<1> QED
  BY <1>1, PTL

(* What an attempt leaves behind: m visits over, its visit <<s, v>>, its     *)
(* number n.                                                                *)
Attempted(m, s, v, n, event, res) ==
  /\ Recorded(m, s, v, n, event, res)' /\ LedgerGrows /\ RetryTask' /\ Cap' = Cap /\ Cap \in Nat
  /\ observations' = Append(observations, RowShown(s, v, n, event, res))
  /\ observations' \in Seq(Shown) /\ Chained'
  /\ Repeated(s, v, n)' <=> ShouldRetry(event)
  /\ FailureReason(event)' = FailureReason(event)
  /\ retryLedger' # <<>>

(* A row that is found leaves this behind. *)
LEMMA AttemptMade ==
  ASSUME RetryInv, terminal = Running, NEW m, RetryWalks(m), NEW s, NEW v, NEW n,
         s = state, v = visits[state], n = attempt,
         NEW event \in Events(s), NEW res \in {"retry", "succeeded", "failed"},
         Found(event, res)
  PROVE  Attempted(m, s, v, n, event, res)
<1>1. /\ RetryTask /\ observations \in Seq(Shown) /\ Chained /\ LeadsOn
      /\ model \in Models /\ retryPolicy \in RetryPolicies
  BY DEF RetryInv, RetryTask
<1>2. n \in Nat \ {0} /\ Walking(m, s, v, n - 1) /\ EventKey = <<s, v, n>>
  BY DEF RetryWalks, EventKey
<1>3. (n - 1) + 1 = n /\ n \in Nat
  BY <1>2
<1>4. /\ observations' = Append(observations, RowShown(s, v, n, event, res))
      /\ retryLedger' = [k \in DOMAIN retryLedger \cup {<<s, v, n>>} |->
                           IF k = <<s, v, n>> THEN event ELSE retryLedger[k]]
      /\ UNCHANGED <<model, retryPolicy>>
  BY <1>2 DEF Found, Observed, RowShown
<1>5. Recorded(m, s, v, n, event, res)' /\ LedgerGrows
  <2>1. UNCHANGED <<model, retryPolicy>>
        /\ retryLedger' = [k \in DOMAIN retryLedger \cup {<<s, v, (n - 1) + 1>>} |->
                             IF k = <<s, v, (n - 1) + 1>> THEN event ELSE retryLedger[k]]
        /\ observations' = Append(observations, RowShown(s, v, (n - 1) + 1, event, res))
    BY <1>3, <1>4
  <2>2. Recorded(m, s, v, (n - 1) + 1, event, res)' /\ LedgerGrows
    BY <1>2, <2>1, RecordStep
  <2> QED
    BY <1>3, <2>2
<1>6. RetryTask' /\ Cap' = Cap /\ Cap \in Nat
  <2>1. RetryTask'
    BY <1>5 DEF Recorded, Under
  <2>2. Cap' = Cap
    BY <1>4 DEF Cap
  <2> QED
    BY <1>1, <2>1, <2>2, CapIs
<1>7. s \in WorkStates /\ v \in 1 .. 3
  BY <1>2 DEF Walking, Under
<1> DEFINE x == RowShown(s, v, n, event, res)
<1>8. x \in Shown
  <2>1. LedgerOK /\ v \in Nat
    BY <1>1, <1>7 DEF RetryTask
  <2> QED
    BY <1>3, <1>7, <2>1, ShownType
<1>9. observations' \in Seq(Shown)
  BY <1>1, <1>4, <1>8
<1>10. Chained'
  <2> DEFINE len == Len(observations)
  <2>1. len \in Nat /\ Len(observations') = len + 1
        /\ \A i \in 1 .. len + 1 :
             observations'[i] = IF i = len + 1 THEN x ELSE observations[i]
    BY <1>1, <1>4, <1>8
  <2>2. x.key = <<s, v, n>>
    BY DEF RowShown
  <2> HIDE DEF x
  <2>3. ASSUME NEW i \in 1 .. len
        PROVE  Follows(observations[i], observations'[i + 1].key)
    <3>1. CASE i = len
      <4>1. observations # <<>>
        BY <2>1, <3>1
      <4>2. Follows(observations[Len(observations)], EventKey)
        BY <1>1, <4>1 DEF LeadsOn
      <4>3. observations'[i + 1].key = <<s, v, n>>
        BY <2>1, <2>2, <3>1
      <4> QED
        BY <1>2, <3>1, <4>2, <4>3
    <3>2. CASE i # len
      <4>1. i \in 1 .. len - 1 /\ i + 1 \in 1 .. len + 1 /\ i + 1 # len + 1
        BY <2>1, <3>2
      <4>2. observations'[i + 1] = observations[i + 1]
        BY <2>1, <4>1
      <4> QED
        BY <1>1, <4>1, <4>2 DEF Chained
    <3> QED
      BY <3>1, <3>2
  <2>4. ASSUME NEW i \in 1 .. Len(observations') - 1
        PROVE  Follows(observations[i], observations'[i + 1].key)
               /\ observations'[i] = observations[i]
    <3>1. i \in 1 .. len /\ i \in 1 .. len + 1 /\ i # len + 1
      BY <2>1
    <3> QED
      BY <2>1, <2>3, <3>1
  <2>5. ASSUME NEW i \in 1 .. Len(observations') - 1
        PROVE  Follows(observations[i], observations[i + 1].key)'
    <3>1. PICK o, next : o = observations'[i] /\ next = observations'[i + 1].key
      OBVIOUS
    <3>2. Follows(o, next)
      BY <2>4, <3>1
    <3> QED
      BY <1>6, <3>1, <3>2 DEF Follows
  <2> QED
    BY <2>5 DEF Chained
<1>11. Repeated(s, v, n)' <=> ShouldRetry(event)
  <2>1. Lookup(<<s, v, n>>)' = event
    BY <1>4 DEF Lookup
  <2>2. event.outcome = "success" \/ event.outcome \in Failures
    BY LedgerRowIs
  <2>3. Repeated(s, v, n)' <=>
          /\ retryPolicy # "never" /\ n < Cap
          /\ event.outcome \in IF retryPolicy = "retry-transient-only" THEN {"transient-failure"}
                               ELSE {"transient-failure", "ordinary-failure"}
    BY <1>4, <1>6, <2>1 DEF Repeated
  <2> QED
    BY <2>2, <2>3 DEF ShouldRetry, Failures
<1>12. FailureReason(event)' = FailureReason(event)
  BY <1>4 DEF FailureReason
<1>13. retryLedger' # <<>>
  <2>1. <<s, v, n>> \in DOMAIN retryLedger'
    BY <1>4
  <2>2. DOMAIN <<>> = {}
    OBVIOUS
  <2> QED
    BY <2>1, <2>2
<1> QED
  BY <1>4, <1>5, <1>6, <1>9, <1>10, <1>11, <1>12, <1>13 DEF Attempted

(* The last of the observations is the attempt's.                          *)
LEMMA AttemptLast ==
  ASSUME observations \in Seq(Shown), NEW x, observations' = Append(observations, x),
         observations' \in Seq(Shown)
  PROVE  /\ Len(observations') \in DOMAIN observations' /\ observations' # <<>>
         /\ observations'[Len(observations')] = x
         /\ \A i \in DOMAIN observations :
              i \in DOMAIN observations' /\ observations'[i] = observations[i]
         /\ \A i \in DOMAIN observations' : i \in DOMAIN observations \/ observations'[i] = x
<1>1. /\ Len(observations) \in Nat /\ Len(observations') = Len(observations) + 1
      /\ \A i \in 1 .. Len(observations) + 1 :
           observations'[i] = IF i = Len(observations) + 1 THEN x ELSE observations[i]
      /\ DOMAIN observations = 1 .. Len(observations)
      /\ DOMAIN observations' = 1 .. Len(observations')
  OBVIOUS
<1>2. \A i \in 1 .. Len(observations) + 1 :
        i \in 1 .. Len(observations) \/ i = Len(observations) + 1
  BY <1>1
<1>3. \A i \in 1 .. Len(observations) :
        i \in 1 .. Len(observations) + 1 /\ i # Len(observations) + 1
  BY <1>1
<1>4. Len(observations) + 1 \in 1 .. Len(observations) + 1
  BY <1>1
<1>5. observations' # <<>>
  BY <1>1
<1> QED
  BY <1>1, <1>2, <1>3, <1>4, <1>5

(* The place, or the failure compensated for, stays what it is.            *)
LEMMA PlaceStays ==
  ASSUME RetryTask, LedgerGrows, NEW m, PastVisits(m)
  PROVE  /\ PastVisits(m)' /\ Len(Agenda') = Len(Agenda)
         /\ \A s, v : Here(m, s, v) =>
              /\ Here(m, s, v)'
              /\ RouteVisits(model', Branch', m + 1) = RouteVisits(model, Branch, m + 1)
         /\ \A j \in 1 .. m : /\ PlannedVisit(j)' = PlannedVisit(j)
                              /\ EndsWith(j)' <=> EndsWith(j)
<1>1. /\ Len(Agenda') = Len(Agenda) /\ PastVisits(m)'
      /\ \A j \in 1 .. m : /\ Agenda'[j] = Agenda[j]
                           /\ PlannedVisit(j)' = PlannedVisit(j)
                           /\ EndsWith(j)' <=> EndsWith(j)
      /\ m < Len(Agenda) =>
              /\ Agenda'[m + 1] = Agenda[m + 1]
              /\ RouteVisits(model', Branch', m + 1) = RouteVisits(model, Branch, m + 1)
  BY AgendaStays
<1>2. ASSUME NEW s, NEW v, Here(m, s, v)
      PROVE  /\ Here(m, s, v)'
             /\ RouteVisits(model', Branch', m + 1) = RouteVisits(model, Branch, m + 1)
  BY <1>1, <1>2 DEF Here
<1> QED
  BY <1>1, <1>2

(* A run that is under way, as the walk it is on.                          *)
LEMMA WalksOn ==
  ASSUME RetryTask', observations' \in Seq(Shown), Chained', terminal' = Running,
         NEW m, NEW s, NEW v, NEW a, a \in Nat, state' = s, visits'[s] = v, attempt' = a + 1,
         visits' \in [WorkStates -> Nat], Walking(m, s, v, a)',
         Forward(m)' \/ Backward(m)', LeadsOn',
         state' # "compensate" =>
           \A i \in DOMAIN observations' : observations'[i].resolution # "failed"
  PROVE  RetryInv'
<1>1. /\ visits'[state'] = v /\ attempt' - 1 = a /\ attempt' \in Nat \ {0}
  OBVIOUS
<1>2. Walking(m, state, visits[state], attempt - 1)'
  BY <1>1
<1>3. RetryWalks(m)'
  BY <1>1, <1>2 DEF RetryWalks
<1>4. (terminal = Running)'
  BY DEF Running
<1> QED
  BY <1>3, <1>4 DEF RetryInv

(* And one that is over. *)
LEMMA WalkOver ==
  ASSUME RetryTask', observations' \in Seq(Shown), Chained', terminal' # Running, RetryDone'
  PROVE  RetryInv'
<1>1. ~(terminal = Running)'
  BY DEF Running
<1> QED
  BY <1>1 DEF RetryInv

(* An attempt follows the one recorded last. *)
LEMMA LeadsNext ==
  ASSUME observations \in Seq(Shown), NEW s, NEW v, NEW n, NEW event, NEW res,
         observations' = Append(observations, RowShown(s, v, n, event, res)),
         observations' \in Seq(Shown), Follows(RowShown(s, v, n, event, res), EventKey)',
         attempt' = IF <<s, v>> = <<state, visits[state]>>' THEN n + 1 ELSE 1
  PROVE  LeadsOn'
<1> DEFINE x == RowShown(s, v, n, event, res)
<1>1. observations' # <<>> /\ observations'[Len(observations')] = x
  BY AttemptLast
<1>2. x.key[1] = s /\ x.key[2] = v /\ x.key[3] = n
  BY DEF RowShown
<1> HIDE DEF x
<1>3. attempt' = IF <<x.key[1], x.key[2]>> = <<state, visits[state]>>' THEN x.key[3] + 1 ELSE 1
  BY <1>2
<1>4. Follows(x, EventKey)'
  BY DEF x
<1> QED
  BY <1>1, <1>3, <1>4 DEF LeadsOn

(* What a run under way gives its next attempt. *)
LEMMA UnderWay ==
  ASSUME RetryInv, terminal = Running, NEW m, RetryWalks(m)
  PROVE  /\ RetryTask /\ PastVisits(m) /\ observations \in Seq(Shown) /\ LeadsOn
         /\ state \in WorkStates /\ visits[state] \in 1 .. 3 /\ attempt \in Nat \ {0}
         /\ Forward(m) \/ Backward(m)
         /\ visits \in [WorkStates -> Nat] /\ m \in Nat
         /\ state # "compensate" =>
              \A i \in DOMAIN observations : observations[i].resolution # "failed"
         /\ \E k : RetryWalks(k)
<1>1. Walking(m, state, visits[state], attempt - 1)
  BY DEF RetryWalks
<1>2. Under(m, state, visits[state], attempt - 1, attempt - 1)
  BY <1>1 DEF Walking
<1>3. RetryTask /\ PastVisits(m) /\ state \in WorkStates /\ visits[state] \in 1 .. 3
  BY <1>2 DEF Under
<1>4. m \in Nat
  <2>1. Len(Agenda) \in {3, 6}
    BY <1>3, AgendaIs, RouteIs DEF RetryTask
  <2> QED
    BY <1>3, <2>1 DEF PastVisits
<1> QED
  BY <1>3, <1>4 DEF RetryWalks, RetryInv

(* An attempt that is repeated. *)
LEMMA RetryStep ==
  ASSUME RetryInv, Retry
  PROVE  RetryInv'
<1>1. terminal = Running /\ UNCHANGED <<state, visits, cause, terminal>>
  BY DEF Retry
<1>2. PICK event \in Events(state) :
        ShouldRetry(event) /\ Found(event, "retry") /\ attempt' = attempt + 1
  BY DEF Retry
<1>3. PICK m : RetryWalks(m)
  BY <1>1 DEF RetryInv
<1>4. PICK s, v, n : s = state /\ v = visits[state] /\ n = attempt
  OBVIOUS
<1>5. /\ RetryTask /\ PastVisits(m) /\ observations \in Seq(Shown)
      /\ s \in WorkStates /\ v \in 1 .. 3 /\ n \in Nat \ {0}
      /\ visits \in [WorkStates -> Nat] /\ (Forward(m) \/ Backward(m))
  BY <1>1, <1>3, <1>4, UnderWay
<1>6. Attempted(m, s, v, n, event, "retry")
  <2>1. event \in Events(s)
    BY <1>2, <1>4
  <2> QED
    BY <1>1, <1>2, <1>3, <1>4, <2>1, AttemptMade
<1>7. /\ Recorded(m, s, v, n, event, "retry")' /\ LedgerGrows /\ RetryTask' /\ Cap' = Cap
      /\ observations' = Append(observations, RowShown(s, v, n, event, "retry"))
      /\ observations' \in Seq(Shown) /\ Chained' /\ Repeated(s, v, n)' /\ Cap \in Nat
  BY <1>2, <1>6 DEF Attempted
<1>8. Walking(m, s, v, n)'
  BY <1>7, GoesOnNext
<1>9. /\ \A i \in DOMAIN observations :
           i \in DOMAIN observations' /\ observations'[i] = observations[i]
      /\ \A i \in DOMAIN observations' :
           i \in DOMAIN observations \/ observations'[i] = RowShown(s, v, n, event, "retry")
  BY <1>5, <1>7, AttemptLast
<1>10. state' = s /\ visits'[s] = v /\ attempt' = n + 1 /\ visits' = visits /\ n \in Nat
  BY <1>1, <1>2, <1>4, <1>5
<1>11. Forward(m)' \/ Backward(m)'
  <2>1. CASE Forward(m)
    <3>1. Here(m, s, v) /\ state # "compensate" /\ visits = RouteVisits(model, Branch, m + 1)
      BY <1>4, <2>1 DEF Forward
    <3>2. Here(m, s, v)' /\ RouteVisits(model', Branch', m + 1) = RouteVisits(model, Branch, m + 1)
      BY <1>5, <1>7, <3>1, PlaceStays
    <3>3. Here(m, state, visits[state])'
      BY <1>10, <3>2
    <3> QED
      BY <1>4, <1>10, <3>1, <3>2, <3>3 DEF Forward
  <2>2. CASE Backward(m)
    <3>1. /\ state = "compensate" /\ model = "compensating" /\ visits["compensate"] = 1
          /\ m > 1 /\ PlannedVisit(m).status = "failure" /\ \A j \in 1 .. m - 1 : ~EndsWith(j)
          /\ cause = [key |-> PlannedVisit(m).last, event |-> PlannedVisit(m).event]
          /\ cause.key \in RowKeys /\ CauseShown
      BY <2>2 DEF Backward
    <3>2. m \in 1 .. m /\ \A j \in 1 .. m - 1 : j \in 1 .. m
      BY <1>1, <1>3, <3>1, UnderWay
    <3>3. /\ PlannedVisit(m)' = PlannedVisit(m) /\ \A j \in 1 .. m - 1 : ~EndsWith(j)'
      BY <1>5, <1>7, <3>1, <3>2, PlaceStays
    <3>4. model' = model
      BY <1>7 DEF LedgerGrows
    <3>5. CauseShown'
      BY <1>1, <1>9, <3>1 DEF CauseShown
    <3> QED
      BY <1>1, <3>1, <3>3, <3>4, <3>5 DEF Backward
  <2> QED
    BY <1>5, <2>1, <2>2
<1>12. LeadsOn'
  <2> DEFINE x == RowShown(s, v, n, event, "retry")
  <2>1. EventKey' = <<s, v, n + 1>> /\ <<state, visits[state]>>' = <<s, v>>
    BY <1>10 DEF EventKey
  <2>2. n + 1 <= Cap'
    BY <1>2, <1>4, <1>5, <1>7 DEF ShouldRetry
  <2>3. Follows(x, EventKey)'
    <3>1. v <= 3
      BY <1>5
    <3> QED
      BY <2>1, <2>2, <3>1 DEF Follows, RowShown
  <2>4. attempt' = IF <<s, v>> = <<state, visits[state]>>' THEN n + 1 ELSE 1
    BY <1>10, <2>1
  <2> QED
    BY <1>5, <1>7, <2>3, <2>4, LeadsNext
<1>13. state' # "compensate" =>
         \A i \in DOMAIN observations' : observations'[i].resolution # "failed"
  <2>1. state # "compensate" =>
          \A i \in DOMAIN observations : observations[i].resolution # "failed"
    BY <1>1, <1>3, UnderWay
  <2> QED
    BY <1>1, <1>9, <2>1 DEF RowShown
<1>14. terminal' = Running
  BY <1>1
<1>15. visits' \in [WorkStates -> Nat]
  <2>1. visits' = visits /\ visits \in [WorkStates -> Nat]
    BY <1>1, <1>5
  <2> QED
    BY <2>1, Zenon
<1> QED
  BY <1>7, <1>8, <1>10, <1>11, <1>12, <1>13, <1>14, <1>15, WalksOn

(* What the reference answers once something was looked up, or a run has    *)
(* begun.                                                                   *)
LEMMA ReferenceNext ==
  ASSUME retryLedger' # <<>> \/ terminal'.terminal # "empty"
  PROVE  Reference' = ReferenceRun'
<1>1. EmptyTerminal' = EmptyTerminal /\ EmptyTerminal.terminal = "empty"
  BY DEF EmptyTerminal, Terminal
<1>2. ~(retryLedger' = <<>> /\ terminal' = EmptyTerminal')
  BY <1>1
<1> QED
  BY <1>2 DEF Reference

(* A row is missing. *)
LEMMA MissingStep ==
  ASSUME RetryInv, Missing
  PROVE  RetryInv'
<1>1. terminal = Running /\ UNCHANGED <<model, retryPolicy, retryLedger, cause, observations>>
  BY DEF Missing
<1>2. PICK m : RetryWalks(m)
  BY <1>1 DEF RetryInv
<1>3. PICK s, v, n : s = state /\ v = visits[state] /\ n = attempt
  OBVIOUS
<1>4. /\ RetryTask /\ PastVisits(m) /\ observations \in Seq(Shown) /\ LeadsOn
      /\ n \in Nat \ {0} /\ (Forward(m) \/ Backward(m))
  BY <1>1, <1>2, <1>3, UnderWay
<1> DEFINE third == IF observations = <<>> THEN 1
                    ELSE LET last == observations[Len(observations)].key IN
                         IF <<last[1], last[2]>> # <<state, visits[state]>> THEN 1
                         ELSE last[3] + 1
<1>5. terminal' = Terminal("incomplete", "event-ledger-exhausted", observations,
                           <<state, visits[state], third>>, "missing")
  BY DEF Missing, Halt
<1>6. third = n
  BY <1>3, <1>4 DEF LeadsOn
<1> HIDE DEF third
<1>7. terminal' = Terminal("incomplete", "event-ledger-exhausted", observations, <<s, v, n>>,
                           "missing")
  BY <1>3, <1>5, <1>6
<1>8. terminal'.terminal = "incomplete"
  BY <1>7 DEF Terminal
<1> DEFINE r == ReferenceVisit(s, v)
<1>9. /\ r.last = <<s, v, n>> /\ r.status = "missing" /\ r.seen \in Seq(Shown)
      /\ observations = MadeBy(m) \o r.seen
  <2>1. Walking(m, s, v, n - 1) /\ (n - 1) + 1 = n
    BY <1>2, <1>3, <1>4 DEF RetryWalks
  <2>2. /\ ReferenceVisit(s, v).last = <<s, v, (n - 1) + 1>>
        /\ ReferenceVisit(s, v).status = "missing"
        /\ ReferenceVisit(s, v).seen \in Seq(Shown)
        /\ observations = MadeBy(m) \o ReferenceVisit(s, v).seen
    BY <2>1, VisitMissing
  <2> QED
    BY <2>1, <2>2
<1>10. ReferenceRun = <<observations, Terminal("incomplete", "event-ledger-exhausted",
                                               observations, r.last, "missing")>>
  <2>1. CASE Forward(m)
    <3>1. Here(m, s, v)
      BY <1>3, <2>1 DEF Forward
    <3>2. Agenda[m + 1][1] = s /\ Agenda[m + 1][2] = v
      BY <3>1 DEF Here
    <3>3. EndsWith(m + 1)
      BY <1>9, <3>2 DEF EndsWith, PlannedVisit
    <3> QED
      BY <1>4, <1>9, <3>1, <3>3, EndsHere
  <2>2. CASE Backward(m)
    <3>1. /\ s = "compensate" /\ v = 1 /\ model = "compensating" /\ m > 1
          /\ PlannedVisit(m).status = "failure" /\ \A j \in 1 .. m - 1 : ~EndsWith(j)
      BY <1>3, <2>2 DEF Backward
    <3>2. /\ observations = MadeBy(m) \o ReferenceVisit("compensate", 1).seen
          /\ ReferenceVisit("compensate", 1).status = "missing"
          /\ r = ReferenceVisit("compensate", 1)
      BY <1>9, <3>1
    <3> QED
      BY <1>4, <3>1, <3>2, EndsBack
  <2> QED
    BY <1>4, <2>1, <2>2
<1>11. ReferenceRun' = ReferenceRun /\ Cap' = Cap
  BY <1>1, ReferenceStays
<1>12. <<observations, terminal>>' = Reference'
  <2>1. Reference' = ReferenceRun'
    BY <1>8, ReferenceNext
  <2>2. ReferenceRun = <<observations, terminal'>>
    BY <1>7, <1>9, <1>10
  <2> QED
    BY <1>1, <1>11, <2>1, <2>2
<1>13. RetryDone'
  BY <1>8, <1>12 DEF RetryDone
<1>14. RetryTask' /\ observations' \in Seq(Shown) /\ Chained'
  <2>1. RetryTask'
    BY <1>1, <1>4 DEF RetryTask, LedgerOK, Events
  <2>2. Chained'
    BY <1>1, <1>11 DEF RetryInv, Chained, Follows
  <2> QED
    BY <1>1, <1>4, <2>1, <2>2
<1>15. terminal' # Running
  BY <1>8 DEF Running
<1> QED
  BY <1>13, <1>14, <1>15, WalkOver

(* Nothing happens. *)
LEMMA RetryStutter ==
  ASSUME RetryInv, UNCHANGED retryVars
  PROVE  RetryInv'
<1>1. /\ model' = model /\ retryPolicy' = retryPolicy /\ retryLedger' = retryLedger
      /\ state' = state /\ visits' = visits /\ attempt' = attempt /\ cause' = cause
      /\ observations' = observations /\ terminal' = terminal
  BY DEF retryVars
<1>2. ReferenceRun' = ReferenceRun /\ Cap' = Cap
  BY <1>1, ReferenceStays
<1>3. RetryTask' /\ observations' \in Seq(Shown) /\ Chained'
  <2>1. RetryTask'
    BY <1>1 DEF RetryInv, RetryTask, LedgerOK, Events
  <2>2. Chained'
    BY <1>1, <1>2 DEF RetryInv, Chained, Follows
  <2> QED
    BY <1>1, <2>1, <2>2 DEF RetryInv
<1>4. CASE terminal # Running
  <2>1. RetryDone
    BY <1>4 DEF RetryInv
  <2>2. EmptyTerminal' = EmptyTerminal
    BY DEF EmptyTerminal, Terminal
  <2>3. Reference' = Reference
    BY <1>1, <1>2, <2>2 DEF Reference
  <2>4. RetryDone'
    BY <1>1, <2>1, <2>3 DEF RetryDone
  <2> QED
    BY <1>1, <1>3, <1>4, <2>4, WalkOver
<1>5. CASE terminal = Running
  <2>1. PICK m : RetryWalks(m)
    BY <1>5 DEF RetryInv
  <2>2. PICK s, v, a : s = state /\ v = visits[state] /\ a = attempt - 1
    OBVIOUS
  <2>3. /\ RetryTask /\ PastVisits(m) /\ LeadsOn
        /\ attempt \in Nat \ {0} /\ (Forward(m) \/ Backward(m))
        /\ visits \in [WorkStates -> Nat] /\ m \in Nat
        /\ state # "compensate" =>
             \A i \in DOMAIN observations : observations[i].resolution # "failed"
    BY <1>5, <2>1, UnderWay
  <2>4. LedgerGrows
    BY <1>1 DEF LedgerGrows
  <2>5. /\ MadeBy(m)' = MadeBy(m) /\ PastVisits(m)' /\ Len(Agenda') = Len(Agenda)
        /\ \A j \in 1 .. m : Agenda'[j] = Agenda[j]
    BY <2>3, <2>4, AgendaStays
  <2>6. /\ Here(m, s, v) =>
             /\ Here(m, s, v)'
             /\ RouteVisits(model', Branch', m + 1) = RouteVisits(model, Branch, m + 1)
        /\ \A j \in 1 .. m : /\ PlannedVisit(j)' = PlannedVisit(j)
                             /\ EndsWith(j)' <=> EndsWith(j)
    BY <2>3, <2>4, PlaceStays
  <2>7. Walking(m, s, v, a)'
    <3>1. Walking(m, s, v, a)
      BY <2>1, <2>2 DEF RetryWalks
    <3>2. Under(m, s, v, a, a) /\ observations = MadeBy(m) \o Repeats(s, v, a)
      BY <3>1 DEF Walking
    <3>3. a \in Nat /\ \A i \in 1 .. a : Repeated(s, v, i)
      BY <3>2 DEF Under
    <3>4. Repeats(s, v, a)' = Repeats(s, v, a) /\ \A i \in 1 .. a : Repeated(s, v, i)'
      BY <2>3, <2>4, <3>3, RepeatsStay
    <3>5. Under(m, s, v, a, a)'
      BY <1>1, <1>3, <2>5, <3>2, <3>4 DEF Under
    <3> QED
      BY <1>1, <2>5, <3>2, <3>4, <3>5 DEF Walking
  <2>8. Forward(m)' \/ Backward(m)'
    <3>1. CASE Forward(m)
      <4>1. Here(m, s, v)' /\ visits = RouteVisits(model', Branch', m + 1)
        BY <2>2, <2>6, <3>1 DEF Forward
      <4>2. Here(m, state, visits[state])'
        BY <1>1, <2>2, <4>1
      <4> QED
        BY <1>1, <3>1, <4>1, <4>2 DEF Forward
    <3>2. CASE Backward(m)
      <4>1. m \in 1 .. m /\ \A j \in 1 .. m - 1 : j \in 1 .. m
        BY <2>3, <3>2 DEF Backward
      <4>2. PlannedVisit(m)' = PlannedVisit(m) /\ \A j \in 1 .. m - 1 : EndsWith(j)' <=> EndsWith(j)
        BY <2>6, <4>1
      <4>3. CauseShown'
        BY <1>1, <3>2 DEF Backward, CauseShown
      <4> QED
        BY <1>1, <3>2, <4>2, <4>3 DEF Backward
    <3> QED
      BY <2>3, <3>1, <3>2
  <2>9. LeadsOn'
    BY <1>1, <1>2, <2>3 DEF LeadsOn, Follows, EventKey
  <2>10. /\ a \in Nat /\ state' = s /\ visits'[s] = v /\ attempt' = a + 1
         /\ visits' \in [WorkStates -> Nat] /\ terminal' = Running
    BY <1>1, <1>5, <2>2, <2>3
  <2>11. state' # "compensate" =>
           \A i \in DOMAIN observations' : observations'[i].resolution # "failed"
    BY <1>1, <2>3
  <2> QED
    BY <1>3, <2>7, <2>8, <2>9, <2>10, <2>11, WalksOn
<1> QED
  BY <1>4, <1>5

(* The next row is found where the workflow stands.                        *)
Stands(m, s, v, n, event, res) ==
  /\ RetryTask /\ PastVisits(m) /\ observations \in Seq(Shown) /\ m \in Nat
  /\ s = state /\ v = visits[state] /\ n = attempt /\ EventKey = <<s, v, n>>
  /\ s \in WorkStates /\ v \in 1 .. 3 /\ n \in Nat \ {0} /\ event \in Events(s)
  /\ visits \in [WorkStates -> Nat]
  /\ Forward(m) \/ Backward(m)
  /\ s # "compensate" => \A i \in DOMAIN observations : observations[i].resolution # "failed"
  /\ Attempted(m, s, v, n, event, res)

(* A run under way finds its row somewhere. *)
LEMMA StandsAt ==
  ASSUME RetryInv, terminal = Running, NEW event \in Events(state),
         NEW res \in {"retry", "succeeded", "failed"}, Found(event, res)
  PROVE  \E m, s, v, n : Stands(m, s, v, n, event, res)
<1>1. PICK m : RetryWalks(m)
  BY DEF RetryInv
<1>2. PICK s, v, n : s = state /\ v = visits[state] /\ n = attempt
  OBVIOUS
<1>3. event \in Events(s)
  BY <1>2
<1>4. Attempted(m, s, v, n, event, res)
  BY <1>1, <1>2, <1>3, AttemptMade
<1>5. EventKey = <<s, v, n>>
  BY <1>2 DEF EventKey
<1>6. Stands(m, s, v, n, event, res)
  BY <1>1, <1>2, <1>3, <1>4, <1>5, UnderWay DEF Stands
<1> QED
  BY <1>6

(* A failure that is compensated for.                                      *)
LEMMA BackStep ==
  ASSUME NEW m, NEW s, NEW v, NEW n, NEW event, Stands(m, s, v, n, event, "failed"),
         terminal = Running, event.outcome # "success", ~ShouldRetry(event),
         model = "compensating", s \in {"apply", "publish"},
         cause' = [key |-> EventKey, event |-> event], Enter("compensate"),
         UNCHANGED terminal
  PROVE  RetryInv'
<1> DEFINE x == RowShown(s, v, n, event, "failed")
<1>1. /\ RetryTask /\ PastVisits(m) /\ observations \in Seq(Shown) /\ m \in Nat
      /\ s = state /\ v = visits[state] /\ EventKey = <<s, v, n>>
      /\ s \in WorkStates /\ v \in 1 .. 3 /\ n \in Nat \ {0}
      /\ visits \in [WorkStates -> Nat] /\ (Forward(m) \/ Backward(m))
  BY DEF Stands
<1>2. /\ Recorded(m, s, v, n, event, "failed")' /\ LedgerGrows /\ RetryTask' /\ Cap' = Cap
      /\ observations' = Append(observations, x) /\ Cap \in Nat
      /\ observations' \in Seq(Shown) /\ Chained' /\ ~Repeated(s, v, n)'
  BY DEF Stands, Attempted
<1>3. Here(m, s, v) /\ visits = RouteVisits(model, Branch, m + 1)
  BY <1>1 DEF Forward, Backward
<1>4. Here(m, s, v)' /\ model' = model
  <2>1. Here(m, s, v)'
    BY <1>1, <1>2, <1>3, PlaceStays
  <2> QED
    BY <1>2, <2>1 DEF LedgerGrows
<1>5. /\ Walking(m + 1, "compensate", 1, 0)' /\ m + 1 > 1
      /\ PlannedVisit(m + 1)'.status = "failure" /\ \A j \in 1 .. (m + 1) - 1 : ~EndsWith(j)'
      /\ PlannedVisit(m + 1)'.last = <<s, v, n>> /\ PlannedVisit(m + 1)'.event = event
  BY <1>2, <1>4, GoesBackNext DEF GoesBack
<1>6. visits["compensate"] = 0
  BY <1>1, <1>3, HereIs
<1>7. /\ state' = "compensate" /\ attempt' = 0 + 1 /\ visits'["compensate"] = 1
      /\ visits' \in [WorkStates -> Nat]
  <2>1. state' = "compensate" /\ attempt' = 1
        /\ visits' = [visits EXCEPT !["compensate"] = visits["compensate"] + 1]
    BY DEF Enter
  <2>2. "compensate" \in WorkStates
    BY DEF WorkStates
  <2> QED
    BY <1>1, <1>6, <2>1, <2>2
<1>8. EventKey' = <<"compensate", 1, 1>> /\ <<state, visits[state]>>' = <<"compensate", 1>>
  BY <1>7 DEF EventKey
<1>9. LeadsOn'
  <2>1. Cap' >= 1
    BY <1>2, CapNext DEF RetryTask
  <2>2. <<"compensate", 1>> # <<s, v>>
    OBVIOUS
  <2>3. v <= 3
    BY <1>1
  <2>4. Follows(x, EventKey)'
    BY <1>8, <2>1, <2>2, <2>3 DEF Follows, RowShown
  <2>5. attempt' = IF <<s, v>> = <<state, visits[state]>>' THEN n + 1 ELSE 1
    BY <1>7, <1>8, <2>2
  <2> QED
    BY <1>1, <1>2, <2>4, <2>5, LeadsNext
<1>10. Len(observations') \in DOMAIN observations' /\ observations'[Len(observations')] = x
  BY <1>1, <1>2, AttemptLast
<1>11. Backward(m + 1)'
  <2>1. cause' = [key |-> <<s, v, n>>, event |-> event]
    BY <1>1
  <2>2. cause'.key = <<s, v, n>> /\ cause'.event = event
    BY <2>1
  <2>3. x.resolution = "failed" /\ x.key = <<s, v, n>> /\ x.event = event
    BY DEF RowShown
  <2> HIDE DEF x
  <2>4. CauseShown'
    BY <1>10, <2>2, <2>3 DEF CauseShown
  <2>5. <<s, v, n>> \in RowKeys
    BY <1>1 DEF RowKeys
  <2>6. cause' = [key |-> PlannedVisit(m + 1)'.last, event |-> PlannedVisit(m + 1)'.event]
    BY <1>5, <2>1
  <2> QED
    BY <1>4, <1>5, <1>7, <2>2, <2>4, <2>5, <2>6 DEF Backward
<1>12. terminal' = Running /\ 0 \in Nat
  OBVIOUS
<1>13. state' # "compensate" =>
         \A i \in DOMAIN observations' : observations'[i].resolution # "failed"
  BY <1>7
<1> QED
  BY <1>2, <1>5, <1>7, <1>9, <1>11, <1>12, <1>13, WalksOn

(* A failure that ends the run. *)
LEMMA HaltStep ==
  ASSUME NEW m, NEW s, NEW v, NEW n, NEW event, Stands(m, s, v, n, event, "failed"),
         event.outcome # "success", ~ShouldRetry(event),
         ~(model = "compensating" /\ s \in {"apply", "publish"}), UNCHANGED cause,
         terminal' = IF s = "compensate"
                     THEN Terminal("compensation-failed", "compensation-failed",
                                   observations', <<s, v, n>>, event.outcome)
                     ELSE Terminal("failed", FailureReason(event), observations',
                                   <<s, v, n>>, event.outcome)
  PROVE  RetryInv'
<1>1. /\ RetryTask /\ PastVisits(m) /\ observations \in Seq(Shown) /\ m \in Nat
      /\ s = state /\ v = visits[state] /\ (Forward(m) \/ Backward(m))
  BY DEF Stands
<1>2. /\ Recorded(m, s, v, n, event, "failed")' /\ LedgerGrows /\ RetryTask'
      /\ observations' \in Seq(Shown) /\ Chained' /\ ~Repeated(s, v, n)'
      /\ FailureReason(event)' = FailureReason(event)
  BY DEF Stands, Attempted
<1>3. terminal'.terminal \in {"compensation-failed", "failed"}
  BY DEF Terminal
<1>4. Reference' = ReferenceRun'
  BY <1>3, ReferenceNext
<1>5. model' = model
  BY <1>2 DEF LedgerGrows
<1>6. ReferenceRun' = <<observations', terminal'>>
  <2>1. CASE Forward(m)
    <3>1. Here(m, s, v) /\ s # "compensate"
      BY <1>1, <2>1 DEF Forward
    <3>2. Here(m, s, v)'
      BY <1>1, <1>2, <3>1, PlaceStays
    <3>3. ~(model' = "compensating" /\ m > 0)
      <4>1. SUFFICES ASSUME model = "compensating", m > 0 PROVE FALSE
        BY <1>5, <4>1
      <4>2. /\ Agenda = Route(model, Branch) /\ m + 1 \in 1 .. Len(Agenda)
        BY <1>1, <3>1, HereIs
      <4>3. Agenda = <<<<"prepare", 1>>, <<"apply", 1>>, <<"publish", 1>>>>
        BY <4>1, <4>2 DEF Route
      <4>4. Agenda[m + 1] = <<s, v>>
        BY <3>1 DEF Here
      <4>5. Len(Agenda) = 3 /\ Agenda[2][1] = "apply" /\ Agenda[3][1] = "publish"
            /\ Agenda[m + 1][1] = s
        BY <4>3, <4>4
      <4>6. m + 1 \in {2, 3}
        BY <1>1, <4>1, <4>2, <4>5
      <4>7. s \in {"apply", "publish"}
        BY <4>5, <4>6
      <4> QED
        BY <4>1, <4>7
    <3>4. ReferenceRun' = <<observations', Terminal("failed", FailureReason(event),
                                                    observations', <<s, v, n>>,
                                                    event.outcome)>>
      BY <1>2, <3>2, <3>3, EndsFailedNext DEF EndsFailed, Terminal
    <3> QED
      BY <3>1, <3>4
  <2>2. CASE Backward(m)
    <3>1. /\ s = "compensate" /\ v = 1 /\ model = "compensating" /\ m > 1
          /\ PlannedVisit(m).status = "failure" /\ \A j \in 1 .. m - 1 : ~EndsWith(j)
      BY <1>1, <2>2 DEF Backward
    <3>2. m \in 1 .. m /\ \A j \in 1 .. m - 1 : j \in 1 .. m
      BY <1>1, <3>1
    <3>3. /\ PlannedVisit(m)' = PlannedVisit(m) /\ \A j \in 1 .. m - 1 : ~EndsWith(j)'
      BY <1>1, <1>2, <3>1, <3>2, PlaceStays
    <3>4. Recorded(m, "compensate", 1, n, event, "failed")' /\ ~Repeated("compensate", 1, n)'
          /\ model' = "compensating" /\ PlannedVisit(m)'.status = "failure"
      BY <1>2, <1>5, <3>1, <3>3
    <3>5. Resolves(event, "failed")
      BY DEF Resolves
    <3>6. ReferenceRun' = <<observations', Terminal("compensation-failed",
                                   "compensation-failed", observations', <<"compensate", 1, n>>,
                                   event.outcome)>>
      BY <3>1, <3>3, <3>4, <3>5, EndsUndoneNext DEF EndsUndone, Terminal, Resolves
    <3> QED
      BY <3>1, <3>6
  <2> QED
    BY <1>1, <2>1, <2>2
<1>7. RetryDone'
  BY <1>3, <1>4, <1>6 DEF RetryDone
<1>8. terminal' # Running
  BY <1>3 DEF Running
<1> QED
  BY <1>2, <1>7, <1>8, WalkOver

(* A visit that fails. *)
LEMMA FailStep ==
  ASSUME RetryInv, FailVisit
  PROVE  RetryInv'
<1>1. terminal = Running
  BY DEF FailVisit
<1>2. PICK event \in Events(state) :
       /\ event.outcome # "success" /\ ~ShouldRetry(event)
       /\ Found(event, "failed")
       /\ IF model = "compensating" /\ state \in {"apply", "publish"}
          THEN /\ cause' = [key |-> EventKey, event |-> event]
               /\ Enter("compensate")
               /\ UNCHANGED terminal
          ELSE /\ IF state = "compensate"
                  THEN Halt(Terminal("compensation-failed", "compensation-failed",
                                     observations', EventKey, event.outcome))
                  ELSE Halt(Terminal("failed", FailureReason(event),
                                     observations', EventKey, event.outcome))
               /\ UNCHANGED cause
  BY DEF FailVisit
<1>3. PICK m, s, v, n : Stands(m, s, v, n, event, "failed")
  BY <1>1, <1>2, StandsAt
<1>4. s = state /\ EventKey = <<s, v, n>>
  BY <1>3 DEF Stands
<1>5. CASE model = "compensating" /\ state \in {"apply", "publish"}
  BY <1>1, <1>2, <1>3, <1>4, <1>5, BackStep
<1>6. CASE ~(model = "compensating" /\ state \in {"apply", "publish"})
  <2>1. /\ UNCHANGED cause
        /\ terminal' = IF s = "compensate"
                       THEN Terminal("compensation-failed", "compensation-failed",
                                     observations', <<s, v, n>>, event.outcome)
                       ELSE Terminal("failed", FailureReason(event), observations',
                                     <<s, v, n>>, event.outcome)
    BY <1>2, <1>4, <1>6 DEF Halt
  <2> QED
    BY <1>2, <1>3, <1>4, <1>6, <2>1, HaltStep
<1> QED
  BY <1>5, <1>6

(* A success after which the workflow goes on. *)
LEMMA OnStep ==
  ASSUME NEW m, NEW s, NEW v, NEW n, NEW event, Stands(m, s, v, n, event, "succeeded"),
         terminal = Running, event.outcome = "success",
         NEW t, ~Nowhere(t), t = Onward(s, visits["work"], event), Forward(m), Enter(t),
         UNCHANGED <<cause, terminal>>
  PROVE  RetryInv'
<1> DEFINE x == RowShown(s, v, n, event, "succeeded")
<1>1. /\ RetryTask /\ PastVisits(m) /\ observations \in Seq(Shown) /\ m \in Nat
      /\ s = state /\ v = visits[state]
      /\ s \in WorkStates /\ v \in 1 .. 3 /\ n \in Nat \ {0}
      /\ visits \in [WorkStates -> Nat]
  BY DEF Stands
<1>2. /\ Recorded(m, s, v, n, event, "succeeded")' /\ LedgerGrows /\ RetryTask' /\ Cap' = Cap
      /\ observations' = Append(observations, x) /\ Cap \in Nat
      /\ observations' \in Seq(Shown) /\ Chained' /\ (Repeated(s, v, n)' <=> ShouldRetry(event))
  BY DEF Stands, Attempted
<1>3. ~Repeated(s, v, n)'
  BY <1>2 DEF ShouldRetry
<1>4. Here(m, s, v) /\ visits = RouteVisits(model, Branch, m + 1) /\ s # "compensate"
  BY <1>1 DEF Forward
<1>5. Here(m, s, v)' /\ visits = RouteVisits(model', Branch', m + 1) /\ model' = model
  <2>1. Here(m, s, v)' /\ RouteVisits(model', Branch', m + 1) = RouteVisits(model, Branch, m + 1)
    BY <1>1, <1>2, <1>4, PlaceStays
  <2> QED
    BY <1>2, <1>4, <2>1 DEF LedgerGrows
<1>6. WhereTo(m, s, event)' = t
  <2>1. Onward(s, visits["work"], event)
          = Onward(s, RouteVisits(model', Branch', m + 1)["work"], event)
    BY <1>5
  <2>3. PICK w : w = RouteVisits(model', Branch', m + 1)["work"]
    OBVIOUS
  <2>4. WhereTo(m, s, event)' = Onward(s, w, event)'
    BY <2>3 DEF WhereTo, Onward
  <2>5. Onward(s, w, event)' = Onward(s, w, event)
    BY <1>5 DEF Onward
  <2> QED
    BY <2>1, <2>3, <2>4, <2>5
<1>7. GoesTo(m, s, v, t)'
  <2>1. ~Nowhere(WhereTo(m, s, event))' => GoesTo(m, s, v, WhereTo(m, s, event))'
    BY <1>2, <1>3, <1>5, GoesForwardNext DEF GoesForward
  <2> QED
    BY <1>6, <2>1 DEF GoesTo, Nowhere
<1> DEFINE W == RouteVisits(model', Branch', m + 2)
<1>8. PICK w : w = W[t]
  OBVIOUS
<1>9. /\ W = [visits EXCEPT ![t] = @ + 1] /\ W \in [WorkStates -> 0 .. 3]
      /\ t \in WorkStates \ {"compensate"} /\ w \in 1 .. 3
      /\ <<t, w>> # <<s, v>>
      /\ Here(m + 1, t, w)' /\ Walking(m + 1, t, w, 0)'
  BY <1>5, <1>7, <1>8 DEF GoesTo
<1> HIDE DEF W, x
<1>10. state' = t /\ attempt' = 0 + 1 /\ visits' = W
  <2>1. visits' = [visits EXCEPT ![t] = @ + 1] /\ state' = t /\ attempt' = 1
    BY DEF Enter
  <2> QED
    BY <1>9, <2>1
<1>11. visits'[t] = w /\ visits' \in [WorkStates -> Nat]
  BY <1>8, <1>9, <1>10
<1>12. Forward(m + 1)'
  <2>1. Here(m + 1, state, visits[state])'
    BY <1>9, <1>10, <1>11
  <2>2. (m + 1) + 1 = m + 2
    BY <1>1
  <2>3. visits' = RouteVisits(model', Branch', (m + 1) + 1)
    BY <1>10, <2>2 DEF W
  <2> QED
    BY <1>9, <1>10, <2>1, <2>3 DEF Forward
<1>13. EventKey' = <<t, w, 1>> /\ <<state, visits[state]>>' = <<t, w>>
  BY <1>10, <1>11 DEF EventKey
<1>14. LeadsOn'
  <2>1. Cap' >= 1
    BY <1>2, CapNext DEF RetryTask
  <2>2. v <= 3
    BY <1>1
  <2>3. <<t, w>> # <<s, v>> /\ t # "compensate"
    BY <1>9
  <2>4. Follows(x, EventKey)'
    BY <1>4, <1>13, <2>1, <2>2, <2>3 DEF Follows, RowShown, x
  <2>5. attempt' = IF <<s, v>> = <<state, visits[state]>>' THEN n + 1 ELSE 1
    BY <1>10, <1>13, <2>3
  <2> QED
    BY <1>1, <1>2, <2>4, <2>5, LeadsNext DEF x
<1>15. state' # "compensate" =>
         \A i \in DOMAIN observations' : observations'[i].resolution # "failed"
  <2>1. \A i \in DOMAIN observations' : i \in DOMAIN observations \/ observations'[i] = x
    BY <1>1, <1>2, AttemptLast
  <2>2. \A i \in DOMAIN observations : observations'[i] = observations[i]
    BY <1>1, <1>2, AttemptLast
  <2>3. x.resolution = "succeeded"
    BY DEF x, RowShown
  <2>4. \A i \in DOMAIN observations : observations[i].resolution # "failed"
    BY <1>4 DEF Stands
  <2> QED
    BY <2>1, <2>2, <2>3, <2>4
<1>16. terminal' = Running /\ 0 \in Nat
  OBVIOUS
<1> QED
  BY <1>2, <1>9, <1>10, <1>11, <1>12, <1>14, <1>15, <1>16, WalksOn

(* How a workflow ends that succeeds. *)
WellEnd(event, seen, k) ==
  IF event.directive = "repeat"
  THEN Terminal("cycle-limit", "cycle-bound-exceeded", seen, k, "success")
  ELSE Terminal("complete", "workflow-complete", seen, k, "success")

(* The last success of a workflow. *)
LEMMA EndStep ==
  ASSUME NEW m, NEW s, NEW v, NEW n, NEW event, Stands(m, s, v, n, event, "succeeded"),
         event.outcome = "success", Nowhere(Onward(s, visits["work"], event)), Forward(m),
         UNCHANGED cause,
         terminal' = WellEnd(event, observations', <<s, v, n>>)
  PROVE  RetryInv'
<1> DEFINE x == RowShown(s, v, n, event, "succeeded")
<1>1. /\ RetryTask /\ PastVisits(m) /\ observations \in Seq(Shown) /\ m \in Nat
      /\ s = state /\ v = visits[state]
  BY DEF Stands
<1>2. /\ Recorded(m, s, v, n, event, "succeeded")' /\ LedgerGrows /\ RetryTask'
      /\ observations' = Append(observations, x)
      /\ observations' \in Seq(Shown) /\ Chained' /\ (Repeated(s, v, n)' <=> ShouldRetry(event))
  BY DEF Stands, Attempted
<1>3. ~Repeated(s, v, n)'
  BY <1>2 DEF ShouldRetry
<1>4. Here(m, s, v) /\ visits = RouteVisits(model, Branch, m + 1) /\ s # "compensate"
  BY <1>1 DEF Forward
<1>5. Here(m, s, v)' /\ visits = RouteVisits(model', Branch', m + 1) /\ model' = model
  <2>1. Here(m, s, v)' /\ RouteVisits(model', Branch', m + 1) = RouteVisits(model, Branch, m + 1)
    BY <1>1, <1>2, <1>4, PlaceStays
  <2> QED
    BY <1>2, <1>4, <2>1 DEF LedgerGrows
<1>6. Nowhere(WhereTo(m, s, event)')
  <2>1. PICK w : w = RouteVisits(model', Branch', m + 1)["work"]
    OBVIOUS
  <2>2. WhereTo(m, s, event)' = Onward(s, w, event)'
    BY <2>1 DEF WhereTo, Onward
  <2>3. Onward(s, w, event)' = Onward(s, w, event)
    BY <1>5 DEF Onward
  <2>4. Nowhere(Onward(s, w, event))
    BY <1>5, <2>1
  <2> QED
    BY <2>2, <2>3, <2>4
<1>7. m + 1 = Len(Agenda') \/ event.directive = "finish"
  <2>1. Recorded(m, s, v, n, event, "succeeded")' /\ ~Repeated(s, v, n)' /\ Here(m, s, v)'
    BY <1>2, <1>3, <1>5
  <2>2. Nowhere(WhereTo(m, s, event))'
    BY <1>6 DEF Nowhere
  <2> QED
    BY <2>1, <2>2, GoesForwardNext DEF GoesForward
<1>8. terminal'.terminal \in {"cycle-limit", "complete"}
  BY DEF Terminal, WellEnd
<1>9. Reference' = ReferenceRun'
  BY <1>8, ReferenceNext
<1>10. ReferenceRun' = <<observations', terminal'>>
  BY <1>2, <1>3, <1>5, <1>7, EndsWellNext DEF EndsWell, Terminal, WellEnd
<1>11. \A i \in DOMAIN observations' : observations'[i].resolution # "failed"
  <2>1. \A i \in DOMAIN observations' : i \in DOMAIN observations \/ observations'[i] = x
    BY <1>1, <1>2, AttemptLast
  <2>2. \A i \in DOMAIN observations : observations'[i] = observations[i]
    BY <1>1, <1>2, AttemptLast
  <2>3. x.resolution = "succeeded"
    BY DEF RowShown
  <2>4. \A i \in DOMAIN observations : observations[i].resolution # "failed"
    BY <1>4 DEF Stands
  <2> HIDE DEF x
  <2> QED
    BY <2>1, <2>2, <2>3, <2>4
<1>12. RetryDone'
  BY <1>8, <1>9, <1>10, <1>11 DEF RetryDone
<1>13. terminal' # Running
  BY <1>8 DEF Running
<1> QED
  BY <1>2, <1>12, <1>13, WalkOver

(* A compensation that succeeds. *)
LEMMA UndoneStep ==
  ASSUME NEW m, NEW s, NEW v, NEW n, NEW event, Stands(m, s, v, n, event, "succeeded"),
         event.outcome = "success", Backward(m), UNCHANGED cause,
         terminal' = Terminal("compensated", "compensation-complete", observations',
                              cause.key, cause.event.outcome)
  PROVE  RetryInv'
<1> DEFINE x == RowShown(s, v, n, event, "succeeded")
<1>1. /\ RetryTask /\ PastVisits(m) /\ observations \in Seq(Shown) /\ m \in Nat
      /\ s = state /\ v = visits[state]
  BY DEF Stands
<1>2. /\ Recorded(m, s, v, n, event, "succeeded")' /\ LedgerGrows /\ RetryTask'
      /\ observations' = Append(observations, x)
      /\ observations' \in Seq(Shown) /\ Chained' /\ (Repeated(s, v, n)' <=> ShouldRetry(event))
  BY DEF Stands, Attempted
<1>3. ~Repeated(s, v, n)'
  BY <1>2 DEF ShouldRetry
<1>4. /\ s = "compensate" /\ v = 1 /\ model = "compensating" /\ m > 1
      /\ PlannedVisit(m).status = "failure" /\ \A j \in 1 .. m - 1 : ~EndsWith(j)
      /\ cause = [key |-> PlannedVisit(m).last, event |-> PlannedVisit(m).event]
      /\ cause.key \in RowKeys /\ CauseShown
  BY <1>1 DEF Backward
<1>5. m \in 1 .. m /\ \A j \in 1 .. m - 1 : j \in 1 .. m
  BY <1>1, <1>4
<1>6. /\ PlannedVisit(m)' = PlannedVisit(m) /\ \A j \in 1 .. m - 1 : ~EndsWith(j)'
  BY <1>1, <1>2, <1>4, <1>5, PlaceStays
<1>7. Recorded(m, "compensate", 1, n, event, "succeeded")' /\ ~Repeated("compensate", 1, n)'
      /\ model' = "compensating" /\ PlannedVisit(m)'.status = "failure"
  BY <1>2, <1>3, <1>4, <1>6 DEF LedgerGrows
<1>8. Resolves(event, "succeeded")
  BY DEF Resolves
<1>9. ReferenceRun' = <<observations', Terminal("compensated", "compensation-complete",
                            observations', PlannedVisit(m)'.last,
                            PlannedVisit(m)'.event.outcome)>>
  BY <1>4, <1>6, <1>7, <1>8, EndsUndoneNext DEF EndsUndone, Terminal, Resolves
<1>10. terminal'.terminal = "compensated"
       /\ terminal'.state = cause.key[1] /\ terminal'.visit = cause.key[2]
       /\ terminal'.attempt = cause.key[3] /\ terminal'.outcome = cause.event.outcome
  BY DEF Terminal
<1>11. ReferenceRun' = <<observations', terminal'>>
  BY <1>4, <1>6, <1>9
<1>12. Reference' = ReferenceRun'
  BY <1>10, ReferenceNext
<1>13. \E i \in DOMAIN observations' :
         /\ observations'[i].resolution = "failed"
         /\ observations'[i].key = <<terminal'.state, terminal'.visit, terminal'.attempt>>
         /\ observations'[i].event.outcome = terminal'.outcome
  <2>1. PICK i \in DOMAIN observations :
          /\ observations[i].resolution = "failed"
          /\ observations[i].key = cause.key /\ observations[i].event = cause.event
    BY <1>4 DEF CauseShown
  <2>2. i \in DOMAIN observations' /\ observations'[i] = observations[i]
    BY <1>1, <1>2, AttemptLast
  <2>3. cause.key = <<cause.key[1], cause.key[2], cause.key[3]>>
    BY <1>4 DEF RowKeys
  <2> QED
    BY <1>10, <2>1, <2>2, <2>3
<1>14. RetryDone'
  BY <1>10, <1>11, <1>12, <1>13 DEF RetryDone
<1>15. terminal' # Running
  BY <1>10 DEF Running
<1> QED
  BY <1>2, <1>14, <1>15, WalkOver

(* A visit that succeeds. *)
LEMMA SucceedStep ==
  ASSUME RetryInv, Succeed
  PROVE  RetryInv'
<1>1. terminal = Running /\ UNCHANGED cause
  BY DEF Succeed
<1>2. PICK event \in Events(state) :
       /\ event.outcome = "success"
       /\ Found(event, "succeeded")
       /\ IF Successor(event) # ""
          THEN Enter(Successor(event)) /\ UNCHANGED terminal
          ELSE Halt(
            IF state = "compensate"
            THEN Terminal("compensated", "compensation-complete", observations',
                          cause.key, cause.event.outcome)
            ELSE IF event.directive = "repeat"
            THEN Terminal("cycle-limit", "cycle-bound-exceeded", observations',
                          EventKey, "success")
            ELSE Terminal("complete", "workflow-complete", observations', EventKey,
                          "success"))
  BY DEF Succeed
<1>3. PICK m, s, v, n : Stands(m, s, v, n, event, "succeeded")
  BY <1>1, <1>2, StandsAt
<1>4. s = state /\ EventKey = <<s, v, n>> /\ (Forward(m) \/ Backward(m))
  BY <1>3 DEF Stands
<1>5. Successor(event) = Onward(s, visits["work"], event)
  BY <1>4 DEF Successor, Onward
<1>6. CASE Forward(m)
  <2>1. state # "compensate"
    BY <1>6 DEF Forward
  <2>2. CASE Successor(event) # ""
    <3>1. PICK t : t = Successor(event)
      OBVIOUS
    <3>2. ~Nowhere(t) /\ t = Onward(s, visits["work"], event) /\ Enter(t)
          /\ UNCHANGED <<cause, terminal>>
      BY <1>1, <1>2, <1>5, <2>2, <3>1 DEF Nowhere
    <3> QED
      BY <1>1, <1>2, <1>3, <1>6, <3>2, OnStep
  <2>3. CASE Successor(event) = ""
    <3>1. terminal' = WellEnd(event, observations', <<s, v, n>>)
      BY <1>2, <1>4, <2>1, <2>3 DEF Halt, WellEnd
    <3>2. Nowhere(Onward(s, visits["work"], event))
      BY <1>5, <2>3 DEF Nowhere
    <3> QED
      BY <1>1, <1>2, <1>3, <1>6, <3>1, <3>2, EndStep
  <2> QED
    BY <2>2, <2>3
<1>7. CASE Backward(m)
  <2>1. state = "compensate"
    BY <1>7 DEF Backward
  <2>2. Successor(event) = ""
    BY <2>1 DEF Successor
  <2>3. terminal' = Terminal("compensated", "compensation-complete", observations',
                             cause.key, cause.event.outcome)
    BY <1>2, <2>1, <2>2 DEF Halt
  <2> QED
    BY <1>1, <1>2, <1>3, <1>7, <2>3, UndoneStep
<1> QED
  BY <1>4, <1>6, <1>7

(* The report is the reference's, an attempt is repeated exactly while the  *)
(* policy allows, and a compensation answers for the failure that caused    *)
(* it.                                                                      *)
THEOREM RetriesRight == RetrySpec => []RetryRight
<1>1. RetryInv /\ [RetryNext]_retryVars => RetryInv'
  <2> SUFFICES ASSUME RetryInv, [RetryNext]_retryVars PROVE RetryInv'
    OBVIOUS
  <2>1. CASE Missing
    BY <2>1, MissingStep
  <2>2. CASE Retry
    BY <2>2, RetryStep
  <2>3. CASE FailVisit
    BY <2>3, FailStep
  <2>4. CASE Succeed
    BY <2>4, SucceedStep
  <2>5. CASE UNCHANGED retryVars
    BY <2>5, RetryStutter
  <2> QED
    BY <2>1, <2>2, <2>3, <2>4, <2>5 DEF RetryNext
<1> QED
  BY <1>1, RetryInvStart, RetryInvRight, PTL DEF RetrySpec

(***************************************************************************)
(* ProcessDelta: DeltaRight.                                               *)
(***************************************************************************)
(* The pairs of PIDs in order. *)
LowerPids(S) == {p \in S \X S : p[1] < p[2]}

(* S, from its least to its largest element. *)
Climbs(z, S) ==
  /\ Cardinality(S) \in Nat /\ z \in Seq(S) /\ Len(z) = Cardinality(S)
  /\ DOMAIN z = 1 .. Len(z)
  /\ \A k \in 1 .. Len(z) : z[k] \in S
  /\ \A x \in S : \E k \in 1 .. Len(z) : z[k] = x
  /\ \A i, j \in 1 .. Len(z) : i < j <=> z[i] < z[j]
  /\ \A i, j \in 1 .. Len(z) : z[i] = z[j] => i = j

(* The ranking of PIDs is in order. *)
LEMMA PidsRise ==
  ASSUME NEW S \in SUBSET Pids
  PROVE  Climbs(Ranked(S, <), S)
<1> DEFINE R == LowerPids(S)
           B(y, x) == y < x
           e(k) == CHOOSE z \in S : Cardinality({y \in S : B(y, z)}) = k - 1
           place == Ranked(S, <)
<1>1. IsFiniteSet(S) /\ \A x \in S : x \in Nat
  BY DeltaAssumption, FS_Subset
<1>2. Ordering(S, R)
  BY <1>1 DEF Ordering, LowerPids
<1>3. place = [k \in 1 .. Cardinality(S) |-> e(k)]
  BY DEF Ranked
<1>4. \A z \in S : {y \in S : B(y, z)} = Ahead(S, R, z)
  BY DEF Ahead, LowerPids
<1>5. \A x, y \in S : x < y <=> <<x, y>> \in R
  BY DEF LowerPids
<1> HIDE DEF B, place, R
<1>6. ASSUME NEW k \in 1 .. Cardinality(S)
      PROVE  e(k) \in S /\ Cardinality(Ahead(S, R, e(k))) = k - 1
  <2>1. PICK w \in S : Cardinality(Ahead(S, R, w)) = k - 1
    BY <1>1, <1>2, RankTaken
  <2>2. Cardinality({y \in S : B(y, w)}) = k - 1
    BY <1>4, <2>1
  <2>3. e(k) \in S /\ Cardinality({y \in S : B(y, e(k))}) = k - 1
    BY <2>2
  <2> QED
    BY <1>4, <2>3
<1> HIDE DEF e
<1>7. Ranks(place, S, R)
  BY <1>3, <1>6 DEF Ranks
<1>8. InOrder(place, S, R)
  BY <1>1, <1>2, <1>7, PlacesInOrder
<1>9. \A k \in 1 .. Len(place) : place[k] \in S
  BY <1>8, ElementOfSeq DEF InOrder
<1>10. DOMAIN place = 1 .. Len(place)
  BY <1>8 DEF InOrder
<1> QED
  BY <1>5, <1>8, <1>9, <1>10 DEF InOrder, Climbs, place

(* The known processes of a side, and of either. *)
Sure(side) == Valid(side) \ UnknownPids
Either == Sure("before") \cup Sure("after")
AllPids == Ranked(Either, <)

(* What the primary derivation finds of a PID. *)
Of(p) == IF p \notin Sure("before") THEN <<Started(p)>>
         ELSE IF p \notin Sure("after") THEN <<Exited(p)>>
         ELSE Transition(p)

(* What may happen to a PID. *)
Happens == {Exited(p) : p \in Pids} \cup {Started(p) : p \in Pids}
             \cup {Changed(p) : p \in Pids}

(* One event, if it is selected. *)
One(e) == IF Selected(e) THEN <<e>> ELSE <<>>

(* What is reported of a list is a list. *)
LEMMA ReportedType ==
  ASSUME NEW T, NEW u \in Seq(T)
  PROVE  [i \in DOMAIN u |-> One(u[i])] \in Seq(Lists(T)) /\ Reported(u) \in Lists(T)
<1> DEFINE f == [i \in DOMAIN u |-> One(u[i])]
<1>1. DOMAIN u = 1 .. Len(u) /\ Len(u) \in Nat /\ \A i \in DOMAIN u : u[i] \in T
  OBVIOUS
<1>2. \A e \in T : <<e>> \in Lists(T) /\ <<>> \in Lists(T)
  BY DEF Lists
<1>3. \A e \in T : One(e) \in Lists(T)
  BY <1>2 DEF One
<1>4. f \in [1 .. Len(u) -> Lists(T)]
  BY <1>1, <1>3
<1>5. f \in Seq(Lists(T))
  BY <1>1, <1>4
<1>6. Reported(u) = FlattenSeq(f)
  BY DEF Reported, One
<1> HIDE DEF f
<1>7. Reported(u) \in Lists(T)
  BY <1>5, <1>6, FlattenType
<1> QED
  BY <1>5, <1>7 DEF f

(* Nothing is reported of nothing, and one event after the others. *)
LEMMA ReportedGoes ==
  ASSUME NEW T, NEW u \in Seq(T), NEW e \in T
  PROVE  Reported(Append(u, e)) = Reported(u) \o One(e)
<1> DEFINE v == Append(u, e)
           f == [i \in DOMAIN u |-> One(u[i])]
           g == [i \in DOMAIN v |-> One(v[i])]
<1>1. /\ v \in Seq(T) /\ Len(v) = Len(u) + 1 /\ v[Len(u) + 1] = e /\ Len(u) \in Nat
      /\ \A i \in 1 .. Len(u) : v[i] = u[i]
      /\ DOMAIN u = 1 .. Len(u) /\ DOMAIN v = 1 .. Len(u) + 1
  OBVIOUS
<1>2. Reported(u) = FlattenSeq(f) /\ Reported(v) = FlattenSeq(g)
  BY DEF Reported, One
<1>3. f \in Seq(Lists(T))
  BY ReportedType
<1> HIDE DEF v
<1>4. g \in Seq(Lists(T))
  BY <1>1, ReportedType
<1>5. One(e) \in Lists(T)
  <2>1. <<e>> \in Lists(T) /\ <<>> \in Lists(T)
    BY DEF Lists
  <2> QED
    BY <2>1 DEF One
<1>6. Len(f) = Len(u) /\ Len(g) = Len(u) + 1
  BY <1>1, <1>3, <1>4
<1>7. /\ \A i \in 1 .. Len(u) : f[i] = One(u[i])
      /\ \A i \in 1 .. Len(u) + 1 : g[i] = One(v[i])
  BY <1>1
<1> DEFINE h == Append(f, One(e))
<1> HIDE DEF f, g
<1>8. h \in Seq(Lists(T)) /\ Len(h) = Len(u) + 1 /\ h[Len(u) + 1] = One(e)
      /\ \A i \in 1 .. Len(u) : h[i] = f[i]
  BY <1>1, <1>3, <1>5, <1>6
<1> HIDE DEF h
<1>9. ASSUME NEW i \in 1 .. Len(g) PROVE h[i] = g[i]
  <2>1. CASE i \in 1 .. Len(u)
    BY <1>1, <1>6, <1>7, <1>8, <2>1
  <2>2. CASE i = Len(u) + 1
    BY <1>1, <1>6, <1>7, <1>8, <2>2
  <2> QED
    BY <1>1, <1>6, <2>1, <2>2
<1>10. h = g
  BY <1>4, <1>6, <1>8, <1>9, SeqEqual
<1>11. FlattenSeq(h) = FlattenSeq(f) \o One(e)
  BY <1>3, <1>5, FlattenAppend DEF h
<1> QED
  BY <1>2, <1>10, <1>11 DEF v

(* A sequence of one or two events. *)
LEMMA FewEvents ==
  ASSUME NEW T, NEW u \in Seq(T), NEW a \in T, NEW b \in T
  PROVE  /\ <<>> \in Seq(T) /\ <<a>> \in Seq(T) /\ <<a, b>> \in Seq(T)
         /\ u \o <<>> = u
         /\ u \o <<a>> = Append(u, a)
         /\ u \o <<a, b>> = Append(Append(u, a), b)
         /\ Append(u, a) \in Seq(T)
<1>1. /\ <<>> \in Seq(T) /\ <<a>> \in Seq(T) /\ <<a, b>> \in Seq(T) /\ Append(u, a) \in Seq(T)
      /\ Len(<<a>>) = 1 /\ Len(<<a, b>>) = 2 /\ Len(u) \in Nat
      /\ u \o <<>> = u /\ u \o <<a>> = Append(u, a)
  OBVIOUS
<1> DEFINE v == u \o <<a, b>>
           x == Append(Append(u, a), b)
<1>2. v \in Seq(T) /\ Len(v) = Len(u) + 2
  BY <1>1
<1>3. x \in Seq(T) /\ Len(x) = Len(u) + 2
  BY <1>1
<1>4. ASSUME NEW i \in 1 .. Len(u) + 2 PROVE v[i] = x[i]
  <2>1. CASE i \in 1 .. Len(u)
    BY <1>1, <2>1
  <2>2. CASE i = Len(u) + 1
    <3>1. v[i] = <<a, b>>[1]
      BY <1>1, <2>2
    <3>2. x[i] = a
      BY <1>1, <2>2
    <3> QED
      BY <3>1, <3>2
  <2>3. CASE i = Len(u) + 2
    <3>1. v[i] = <<a, b>>[2]
      BY <1>1, <2>3
    <3>2. x[i] = b
      BY <1>1, <2>3
    <3> QED
      BY <3>1, <3>2
  <2> QED
    BY <1>1, <2>1, <2>2, <2>3
<1> HIDE DEF v, x
<1>5. v = x
  BY <1>2, <1>3, <1>4, SeqEqual
<1> QED
  BY <1>1, <1>5 DEF v, x

(* Concatenation is associative. *)
LEMMA Associates ==
  ASSUME NEW T, NEW r \in Seq(T), NEW x \in Seq(T), NEW y \in Seq(T)
  PROVE  (r \o x) \o y = r \o (x \o y)
<1> DEFINE v == (r \o x) \o y
           z == r \o (x \o y)
<1>1. v \in Seq(T) /\ z \in Seq(T) /\ Len(v) = Len(z) /\ r \o x \in Seq(T) /\ x \o y \in Seq(T)
      /\ Len(r) \in Nat /\ Len(x) \in Nat /\ Len(y) \in Nat
      /\ Len(r \o x) = Len(r) + Len(x) /\ Len(x \o y) = Len(x) + Len(y)
      /\ Len(v) = Len(r) + Len(x) + Len(y)
  OBVIOUS
<1>2. ASSUME NEW i \in 1 .. Len(v) PROVE v[i] = z[i]
  <2>1. CASE i <= Len(r)
    BY <1>1, <2>1
  <2>2. CASE i > Len(r) /\ i <= Len(r) + Len(x)
    <3>1. v[i] = (r \o x)[i]
      BY <1>1, <2>2
    <3>2. (r \o x)[i] = x[i - Len(r)]
      BY <1>1, <2>2
    <3>3. z[i] = (x \o y)[i - Len(r)]
      BY <1>1, <2>2
    <3>4. (x \o y)[i - Len(r)] = x[i - Len(r)]
      BY <1>1, <2>2
    <3> QED
      BY <3>1, <3>2, <3>3, <3>4
  <2>3. CASE i > Len(r) + Len(x)
    <3>1. v[i] = y[i - (Len(r) + Len(x))]
      BY <1>1, <2>3
    <3>3. z[i] = (x \o y)[i - Len(r)]
      BY <1>1, <2>3
    <3>4. (x \o y)[i - Len(r)] = y[i - Len(r) - Len(x)]
      BY <1>1, <2>3
    <3>5. i - (Len(r) + Len(x)) = i - Len(r) - Len(x)
      BY <1>1
    <3> QED
      BY <3>1, <3>3, <3>4, <3>5
  <2> QED
    BY <1>1, <2>1, <2>2, <2>3
<1> HIDE DEF v, z
<1>3. v = z
  BY <1>1, <1>2, SeqEqual
<1> QED
  BY <1>3 DEF v, z

(* Nothing is reported of nothing. *)
LEMMA ReportedNothing == Reported(<<>>) = <<>>
<1> DEFINE f == [i \in DOMAIN <<>> |-> One(<<>>[i])]
<1>1. Reported(<<>>) = FlattenSeq(f)
  BY DEF Reported, One
<1>2. <<>> \in Seq({}) /\ DOMAIN <<>> = {}
  OBVIOUS
<1>3. f \in Seq(Lists({}))
  BY <1>2, ReportedType
<1>4. DOMAIN f = {}
  BY <1>2
<1> HIDE DEF f
<1>5. f = <<>>
  BY <1>3, <1>4
<1> QED
  BY <1>1, <1>5, FlattenEmpty

(* What two more events add. *)
TwoMore(u, a, b) == Reported(u \o <<a, b>>) = Reported(u) \o (One(a) \o One(b))

(* What is reported of one or two events, alone and after others. *)
LEMMA ReportedFew ==
  ASSUME NEW T, NEW u \in Seq(T), NEW a \in T, NEW b \in T
  PROVE  /\ Reported(<<a>>) = One(a)
         /\ Reported(<<a, b>>) = One(a) \o One(b)
         /\ Reported(u \o <<a>>) = Reported(u) \o One(a)
         /\ TwoMore(u, a, b)
<1>1. One(a) \in Seq(T) /\ One(b) \in Seq(T) /\ <<>> \in Seq(T)
  BY FewEvents DEF One
<1>2. Reported(<<a>>) = One(a)
  <2>1. Reported(Append(<<>>, a)) = <<>> \o One(a)
    BY <1>1, ReportedGoes, ReportedNothing
  <2>2. Append(<<>>, a) = <<a>> /\ <<>> \o One(a) = One(a)
    BY <1>1
  <2> QED
    BY <2>1, <2>2
<1>3. \A v \in Seq(T) : Reported(v) \in Seq(T)
  BY ReportedType DEF Lists
<1>4. \A v \in Seq(T) : Reported(v \o <<a, b>>) = (Reported(v) \o One(a)) \o One(b)
  <2>1. SUFFICES ASSUME NEW v \in Seq(T)
                 PROVE  Reported(v \o <<a, b>>) = (Reported(v) \o One(a)) \o One(b)
    OBVIOUS
  <2>2. v \o <<a, b>> = Append(Append(v, a), b) /\ Append(v, a) \in Seq(T)
    BY FewEvents
  <2>3. Reported(Append(Append(v, a), b)) = Reported(Append(v, a)) \o One(b)
    BY <2>2, ReportedGoes
  <2>4. Reported(Append(v, a)) = Reported(v) \o One(a)
    BY ReportedGoes
  <2> QED
    BY <2>2, <2>3, <2>4
<1>5. Reported(<<a, b>>) = One(a) \o One(b)
  <2>1. Reported(<<>> \o <<a, b>>) = (<<>> \o One(a)) \o One(b)
    BY <1>1, <1>4, ReportedNothing
  <2>2. <<>> \o <<a, b>> = <<a, b>> /\ <<>> \o One(a) = One(a)
    <3>1. <<a, b>> \in Seq(T)
      BY FewEvents
    <3> QED
      BY <1>1, <3>1
  <2> QED
    BY <2>1, <2>2
<1>6. Reported(u \o <<a>>) = Reported(u) \o One(a)
  <2>1. u \o <<a>> = Append(u, a)
    BY FewEvents
  <2>2. Reported(Append(u, a)) = Reported(u) \o One(a)
    BY ReportedGoes
  <2> QED
    BY <2>1, <2>2
<1>7. (Reported(u) \o One(a)) \o One(b) = Reported(u) \o (One(a) \o One(b))
  <2> DEFINE r == Reported(u)
             x == One(a)
             y == One(b)
  <2>1. r \in Seq(T) /\ x \in Seq(T) /\ y \in Seq(T)
    BY <1>1, <1>3
  <2> HIDE DEF r, x, y
  <2>2. (r \o x) \o y = r \o (x \o y)
    BY <2>1, Associates
  <2> QED
    BY <2>2 DEF r, x, y
<1>8. Reported(u \o <<a, b>>) = (Reported(u) \o One(a)) \o One(b)
  BY <1>4
<1>9. TwoMore(u, a, b)
  BY <1>7, <1>8, Zenon DEF TwoMore
<1> QED
  BY <1>2, <1>5, <1>6, <1>9

(* Two events are reported one after the other. *)
LEMMA ReportedTwo ==
  ASSUME NEW T, NEW a \in T, NEW b \in T
  PROVE  Reported(<<a, b>>) = One(a) \o One(b)
<1>1. <<>> \in Seq(T)
  OBVIOUS
<1> QED
  BY <1>1, ReportedFew, Zenon

(* Two more events are reported after the others. *)
LEMMA ReportedTwoMore ==
  ASSUME NEW T, NEW u \in Seq(T), NEW a \in T, NEW b \in T
  PROVE  Reported(u \o <<a, b>>) = Reported(u) \o (One(a) \o One(b))
<1>1. TwoMore(u, a, b)
  BY ReportedFew
<1> QED
  BY <1>1 DEF TwoMore

(* What is reported of a PID. *)
Share(p) ==
  IF p \notin Sure("before") THEN One(Started(p))
  ELSE IF p \notin Sure("after") THEN One(Exited(p))
  ELSE IF snapshot.before[p].start # snapshot.after[p].start
  THEN One(Exited(p)) \o One(Started(p))
  ELSE IF Changed(p).changed # {} THEN One(Changed(p)) ELSE <<>>

(* The share of a PID is what is reported of its events. *)
LEMMA OfIs ==
  ASSUME NEW p \in Pids, NEW u \in Seq(Happens)
  PROVE  /\ Of(p) \in Seq(Happens)
         /\ Reported(Of(p)) = Share(p)
         /\ Reported(u \o Of(p)) = Reported(u) \o Share(p)
<1> DEFINE x == Exited(p)
           s == Started(p)
           c == Changed(p)
<1>1. x \in Happens /\ s \in Happens /\ c \in Happens
  BY DEF Happens
<1>2. /\ Of(p) = IF p \notin Sure("before") THEN <<s>>
                 ELSE IF p \notin Sure("after") THEN <<x>>
                 ELSE IF snapshot.before[p].start # snapshot.after[p].start THEN <<x, s>>
                 ELSE IF c.changed # {} THEN <<c>> ELSE <<>>
      /\ Share(p) = IF p \notin Sure("before") THEN One(s)
                    ELSE IF p \notin Sure("after") THEN One(x)
                    ELSE IF snapshot.before[p].start # snapshot.after[p].start
                    THEN One(x) \o One(s)
                    ELSE IF c.changed # {} THEN One(c) ELSE <<>>
  BY DEF Of, Transition, Share
<1> HIDE DEF x, s, c
<1>3. /\ Reported(<<s>>) = One(s) /\ Reported(u \o <<s>>) = Reported(u) \o One(s)
      /\ Reported(<<x>>) = One(x) /\ Reported(u \o <<x>>) = Reported(u) \o One(x)
      /\ Reported(<<c>>) = One(c) /\ Reported(u \o <<c>>) = Reported(u) \o One(c)
      /\ Reported(<<x, s>>) = One(x) \o One(s)
      /\ Reported(u \o <<x, s>>) = Reported(u) \o (One(x) \o One(s))
  <2>1. Reported(<<s>>) = One(s) /\ Reported(u \o <<s>>) = Reported(u) \o One(s)
    BY <1>1, ReportedFew, Zenon
  <2>2. Reported(<<x>>) = One(x) /\ Reported(u \o <<x>>) = Reported(u) \o One(x)
    BY <1>1, ReportedFew, Zenon
  <2>3. Reported(<<c>>) = One(c) /\ Reported(u \o <<c>>) = Reported(u) \o One(c)
    BY <1>1, ReportedFew, Zenon
  <2>4. /\ Reported(<<x, s>>) = One(x) \o One(s)
        /\ Reported(u \o <<x, s>>) = Reported(u) \o (One(x) \o One(s))
    <3>1. x \in Happens /\ s \in Happens
      BY <1>1
    <3>2. Reported(<<x, s>>) = One(x) \o One(s)
      BY <3>1, ReportedTwo, Zenon
    <3>3. Reported(u \o <<x, s>>) = Reported(u) \o (One(x) \o One(s))
      BY <3>1, ReportedTwoMore, Zenon
    <3> QED
      BY <3>2, <3>3
  <2> QED
    BY <2>1, <2>2, <2>3, <2>4
<1>4. <<s>> \in Seq(Happens) /\ <<x>> \in Seq(Happens) /\ <<c>> \in Seq(Happens)
      /\ <<x, s>> \in Seq(Happens) /\ <<>> \in Seq(Happens) /\ u \o <<>> = u
  BY <1>1, FewEvents
<1>5. Reported(u) \in Seq(Happens) /\ Reported(u) \o <<>> = Reported(u)
  <2>1. Reported(u) \in Seq(Happens)
    BY ReportedType DEF Lists
  <2> QED
    BY <2>1
<1> HIDE DEF Sure
<1>6. CASE p \notin Sure("before")
  BY <1>2, <1>3, <1>4, <1>6, Zenon
<1>7. CASE p \in Sure("before") /\ p \notin Sure("after")
  BY <1>2, <1>3, <1>4, <1>7, Zenon
<1>8. CASE p \in Sure("before") /\ p \in Sure("after")
           /\ snapshot.before[p].start # snapshot.after[p].start
  BY <1>2, <1>3, <1>4, <1>8, Zenon
<1>9. CASE p \in Sure("before") /\ p \in Sure("after")
           /\ snapshot.before[p].start = snapshot.after[p].start /\ c.changed # {}
  BY <1>2, <1>3, <1>4, <1>9, Zenon
<1>10. CASE p \in Sure("before") /\ p \in Sure("after")
           /\ snapshot.before[p].start = snapshot.after[p].start /\ c.changed = {}
  BY <1>2, <1>4, <1>5, <1>10, ReportedNothing, Zenon
<1> QED
  BY <1>6, <1>7, <1>8, <1>9, <1>10

(* What the first m of z come to, each with its share of w. *)
StageOf(z, w, m) == FlattenSeq([i \in 1 .. m |-> w[z[i]]])

Stages(z, w, T) ==
  /\ StageOf(z, w, 0) = <<>>
  /\ \A m \in 0 .. Len(z) : StageOf(z, w, m) \in Seq(T)
  /\ \A m \in 1 .. Len(z) : StageOf(z, w, m) = StageOf(z, w, m - 1) \o w[z[m]]

(* Each place adds its share. *)
LEMMA StageGoes ==
  ASSUME NEW S, NEW T, NEW z \in Seq(S), NEW w, \A p \in S : w[p] \in Seq(T)
  PROVE  Stages(z, w, T)
<1> DEFINE f(m) == [i \in 1 .. m |-> w[z[i]]]
           L == Lists(T)
<1>1. Len(z) \in Nat /\ \A i \in 1 .. Len(z) : z[i] \in S
  BY ElementOfSeq
<1>2. \A i \in 1 .. Len(z) : w[z[i]] \in L
  BY <1>1 DEF Lists
<1> HIDE DEF L
<1>3. \A m \in 0 .. Len(z) : f(m) \in Seq(L) /\ Len(f(m)) = m
  <2>1. SUFFICES ASSUME NEW m \in 0 .. Len(z) PROVE f(m) \in Seq(L) /\ Len(f(m)) = m
    OBVIOUS
  <2>2. m \in Nat /\ f(m) \in [1 .. m -> L]
    BY <1>1, <1>2
  <2> QED
    BY <2>2
<1>4. \A m \in 0 .. Len(z) : StageOf(z, w, m) = FlattenSeq(f(m))
  BY DEF StageOf
<1>5. f(0) = <<>>
  BY <1>1, <1>3
<1>6. ASSUME NEW m \in 1 .. Len(z)
      PROVE  StageOf(z, w, m) = StageOf(z, w, m - 1) \o w[z[m]]
  <2>1. m \in Nat /\ m - 1 \in 0 .. Len(z) /\ m \in 0 .. Len(z)
    BY <1>1
  <2>2. f(m - 1) \in Seq(L) /\ f(m) \in Seq(L) /\ Len(f(m - 1)) = m - 1 /\ Len(f(m)) = m
    BY <1>3, <2>1
  <2>3. w[z[m]] \in L /\ (\A i \in 1 .. m - 1 : f(m - 1)[i] = w[z[i]])
        /\ (\A i \in 1 .. m : f(m)[i] = w[z[i]])
    BY <1>2
  <2> DEFINE a == f(m - 1)
             b == f(m)
             x == w[z[m]]
             c == Append(a, x)
  <2>4. a \in Seq(L) /\ b \in Seq(L) /\ Len(a) = m - 1 /\ Len(b) = m /\ x \in L
        /\ \A i \in 1 .. m - 1 : a[i] = b[i]
    BY <2>2, <2>3
  <2>5. b[m] = x
    BY <2>1, <2>3
  <2> HIDE DEF a, b, x
  <2>6. c \in Seq(L) /\ Len(c) = m /\ \A i \in 1 .. m : c[i] = b[i]
    BY <2>1, <2>4, <2>5
  <2> HIDE DEF c
  <2>7. c = b
    BY <2>4, <2>6, SeqEqual
  <2>8. FlattenSeq(c) = FlattenSeq(a) \o x
    BY <2>4, FlattenAppend DEF L, c
  <2>9. FlattenSeq(b) = FlattenSeq(a) \o x
    BY <2>7, <2>8
  <2> QED
    BY <1>4, <2>1, <2>9 DEF a, b, x
<1>7. \A m \in 0 .. Len(z) : FlattenSeq(f(m)) \in L
  <2> HIDE DEF f
  <2> QED
    BY <1>3, FlattenType DEF L
<1>8. StageOf(z, w, 0) = <<>>
  <2>1. StageOf(z, w, 0) = FlattenSeq(f(0))
    BY Zenon DEF StageOf
  <2> QED
    BY <1>5, <2>1, FlattenEmpty, Zenon
<1> QED
  BY <1>4, <1>6, <1>7, <1>8 DEF L, Lists, Stages

(* What is reported of every PID. *)
Shares == [p \in Pids |-> Share(p)]

(* Known processes have PIDs. *)
LEMMA EitherPids ==
  /\ Sure("before") \in SUBSET Pids /\ Sure("after") \in SUBSET Pids
  /\ Either \in SUBSET Pids
BY DEF Sure, Either, Valid

(* The PIDs of the primary derivation are in order. *)
LEMMA AllPidsRise == Climbs(AllPids, Either)
<1>1. Either \in SUBSET Pids
  BY EitherPids
<1> HIDE DEF Either
<1>2. Climbs(Ranked(Either, <), Either)
  BY <1>1, PidsRise
<1> QED
  BY <1>2, Zenon DEF AllPids

(* Every share is a list of events. *)
LEMMA SharesType == \A p \in Pids : Shares[p] \in Seq(Happens) /\ Shares[p] = Reported(Of(p))
                                     /\ Of(p) \in Seq(Happens)
<1>1. SUFFICES ASSUME NEW p \in Pids
               PROVE  Share(p) \in Seq(Happens) /\ Share(p) = Reported(Of(p))
                      /\ Of(p) \in Seq(Happens)
  BY DEF Shares
<1>2. <<>> \in Seq(Happens)
  OBVIOUS
<1>3. Share(p) = Reported(Of(p)) /\ Of(p) \in Seq(Happens)
  BY <1>2, OfIs
<1>4. Reported(Of(p)) \in Seq(Happens)
  BY <1>3, ReportedType DEF Lists
<1> QED
  BY <1>3, <1>4

(* The primary derivation reports the shares of all PIDs in order. *)
LEMMA PrimaryIs == PrimaryEvents = StageOf(AllPids, Shares, Len(AllPids))
<1> DEFINE z == AllPids
           N == Len(z)
           D == [p \in Pids |-> Of(p)]
<1>1. z \in Seq(Pids) /\ N \in Nat /\ DOMAIN z = 1 .. N
  <2>1. Climbs(z, Either)
    BY AllPidsRise
  <2> HIDE DEF z
  <2>2. z \in Seq(Either) /\ Either \subseteq Pids /\ DOMAIN z = 1 .. N
    BY <2>1, EitherPids DEF Climbs
  <2> HIDE DEF Either
  <2>3. Len(z) \in Nat /\ \A i \in 1 .. Len(z) : z[i] \in Pids
    BY <2>2, ElementOfSeq
  <2>4. z = [i \in 1 .. Len(z) |-> z[i]]
    BY <2>2
  <2> QED
    BY <2>2, <2>3, <2>4
<1>2. PrimaryEvents = Reported(FlattenSeq([i \in DOMAIN z |-> Of(z[i])]))
  BY Zenon DEF PrimaryEvents, AllPids, Either, Sure, Of
<1> HIDE DEF z
<1>3. \A i \in 1 .. N : z[i] \in Pids
  BY <1>1, ElementOfSeq
<1>4. \A p \in Pids : D[p] \in Seq(Happens) /\ D[p] = Of(p)
  BY SharesType
<1>5. \A p \in Pids : Shares[p] \in Seq(Happens)
  BY SharesType
<1>6. [i \in DOMAIN z |-> Of(z[i])] = [i \in 1 .. N |-> D[z[i]]]
  BY <1>1, <1>3
<1>7. PrimaryEvents = Reported(StageOf(z, D, N))
  BY <1>2, <1>6 DEF StageOf
<1> HIDE DEF D
<1>8. /\ StageOf(z, D, 0) = <<>>
      /\ \A m \in 0 .. Len(z) : StageOf(z, D, m) \in Seq(Happens)
      /\ \A m \in 1 .. Len(z) : StageOf(z, D, m) = StageOf(z, D, m - 1) \o D[z[m]]
  <2>1. \A p \in Pids : D[p] \in Seq(Happens)
    BY <1>4
  <2>2. Stages(z, D, Happens)
    BY <1>1, <2>1, StageGoes, Zenon
  <2> QED
    BY <2>2 DEF Stages
<1>9. /\ StageOf(z, Shares, 0) = <<>>
      /\ \A m \in 1 .. Len(z) : StageOf(z, Shares, m) = StageOf(z, Shares, m - 1) \o Shares[z[m]]
  <2>1. Stages(z, Shares, Happens)
    BY <1>1, <1>5, StageGoes, Zenon
  <2> QED
    BY <2>1 DEF Stages
<1> DEFINE good == {m \in 0 .. N : Reported(StageOf(z, D, m)) = StageOf(z, Shares, m)}
<1>10. 0 \in good
  BY <1>1, <1>8, <1>9, ReportedNothing
<1>11. ASSUME NEW m \in 1 .. N, m - 1 \in good PROVE m \in good
  <2> DEFINE u == StageOf(z, D, m - 1)
             p == z[m]
  <2>1. m - 1 \in 0 .. Len(z) /\ m \in 0 .. N
    BY <1>1
  <2>2. u \in Seq(Happens) /\ StageOf(z, D, m) = u \o D[p]
    BY <1>8, <2>1
  <2>3. p \in Pids /\ D[p] = Of(p) /\ Shares[p] = Share(p)
    BY <1>3, <1>4 DEF Shares
  <2>4. StageOf(z, Shares, m) = StageOf(z, Shares, m - 1) \o Shares[p]
    BY <1>9
  <2>5. Reported(u) = StageOf(z, Shares, m - 1)
    BY <1>11
  <2> HIDE DEF u, p
  <2>6. Reported(u \o Of(p)) = Reported(u) \o Share(p)
    BY <2>2, <2>3, OfIs
  <2>7. Reported(StageOf(z, D, m)) = StageOf(z, Shares, m)
    BY <2>2, <2>3, <2>4, <2>5, <2>6, Zenon
  <2> QED
    BY <2>1, <2>7
<1> HIDE DEF good
<1>12. N \in good
  <2> HIDE DEF N
  <2>1. \A k \in 1 .. N : k - 1 \in good => k \in good
    BY <1>11
  <2>2. 0 .. N \subseteq good
    BY <1>1, <1>10, <2>1, Induction
  <2> QED
    BY <1>1, <2>2
<1>13. Reported(StageOf(z, D, N)) = StageOf(z, Shares, N)
  BY <1>12 DEF good
<1> QED
  BY <1>7, <1>13 DEF z

------------------------------------------------------------------------------
(* The loop has taken the first m PIDs of z. *)
Merged(m, l, r, e, b, a, z, w) ==
  /\ l \in 1 .. Len(b) + 1 /\ r \in 1 .. Len(a) + 1
  /\ e = StageOf(z, w, m)
  /\ \A k \in 1 .. Len(b) : k < l <=> \E i \in 1 .. m : z[i] = b[k]
  /\ \A k \in 1 .. Len(a) : k < r <=> \E i \in 1 .. m : z[i] = a[k]

(* The next PID, against the heads of the lists. *)
NextIs(m, l, r, b, a, z, K1, K2) ==
  /\ m + 1 \in 1 .. Len(z)
  /\ z[m + 1] \in K1 => l <= Len(b) /\ z[m + 1] = b[l]
  /\ z[m + 1] \in K2 => r <= Len(a) /\ z[m + 1] = a[r]
  /\ l <= Len(b) => z[m + 1] <= b[l]
  /\ r <= Len(a) => z[m + 1] <= a[r]

(* The next PID is the first one that is left. *)
LEMMA NextTaken ==
  ASSUME NEW K1 \in SUBSET Nat, NEW K2 \in SUBSET Nat, NEW b, NEW a, NEW z,
         Climbs(b, K1), Climbs(a, K2), Climbs(z, K1 \cup K2),
         NEW m \in 0 .. Len(z), NEW l, NEW r, NEW e, NEW w,
         Merged(m, l, r, e, b, a, z, w),
         l <= Len(b) \/ r <= Len(a)
  PROVE  NextIs(m, l, r, b, a, z, K1, K2)
<1>1. /\ Len(b) \in Nat /\ Len(a) \in Nat /\ Len(z) \in Nat /\ m \in Nat
      /\ l \in 1 .. Len(b) + 1 /\ r \in 1 .. Len(a) + 1
      /\ m <= Len(z)
  BY DEF Climbs, Merged
<1>2. /\ \A k \in 1 .. Len(b) : b[k] \in K1 /\ b[k] \in Nat
      /\ \A k \in 1 .. Len(a) : a[k] \in K2 /\ a[k] \in Nat
      /\ \A k \in 1 .. Len(z) : z[k] \in K1 \cup K2 /\ z[k] \in Nat
  BY DEF Climbs
<1>3. ASSUME l <= Len(b)
      PROVE  \E i \in 1 .. Len(z) : i > m /\ z[i] = b[l]
  <2>1. l \in 1 .. Len(b) /\ ~(l < l)
    BY <1>1, <1>3
  <2>2. PICK i \in 1 .. Len(z) : z[i] = b[l]
    BY <1>2, <2>1 DEF Climbs
  <2>3. ~(i \in 1 .. m)
    BY <2>1, <2>2 DEF Merged
  <2> QED
    BY <1>1, <2>2, <2>3
<1>4. ASSUME r <= Len(a)
      PROVE  \E i \in 1 .. Len(z) : i > m /\ z[i] = a[r]
  <2>1. r \in 1 .. Len(a) /\ ~(r < r)
    BY <1>1, <1>4
  <2>2. PICK i \in 1 .. Len(z) : z[i] = a[r]
    BY <1>2, <2>1 DEF Climbs
  <2>3. ~(i \in 1 .. m)
    BY <2>1, <2>2 DEF Merged
  <2> QED
    BY <1>1, <2>2, <2>3
<1>5. m + 1 \in 1 .. Len(z)
  BY <1>1, <1>3, <1>4
<1> DEFINE q == z[m + 1]
<1>6. ASSUME NEW i \in 1 .. Len(z), i > m PROVE q <= z[i]
  <2>1. CASE i = m + 1
    BY <1>2, <1>5, <2>1
  <2>2. CASE m + 1 < i
    <3>1. z[m + 1] < z[i]
      BY <1>5, <2>2 DEF Climbs
    <3> QED
      BY <1>2, <1>5, <3>1
  <2> QED
    BY <1>1, <1>6, <2>1, <2>2
<1>7. q \in Nat /\ \A i \in 1 .. m : z[i] # q
  <2>1. \A i \in 1 .. m : i \in 1 .. Len(z) /\ i # m + 1
    BY <1>1
  <2> QED
    BY <1>2, <1>5, <2>1 DEF Climbs
<1> HIDE DEF q
<1>8. l <= Len(b) => q <= b[l]
  BY <1>3, <1>6
<1>9. r <= Len(a) => q <= a[r]
  BY <1>4, <1>6
<1>10. ASSUME q \in K1 PROVE l <= Len(b) /\ q = b[l]
  <2>1. PICK k \in 1 .. Len(b) : b[k] = q
    BY <1>10 DEF Climbs
  <2>2. ~(k < l)
    BY <1>7, <2>1 DEF Merged
  <2>3. l <= Len(b) /\ (k = l \/ l < k) /\ l \in 1 .. Len(b)
    BY <1>1, <2>1, <2>2
  <2>4. ~(l < k)
    <3>1. SUFFICES ASSUME l < k PROVE FALSE
      OBVIOUS
    <3>2. b[l] < b[k]
      BY <2>1, <2>3, <3>1 DEF Climbs
    <3> QED
      BY <1>2, <1>7, <1>8, <2>1, <2>3, <3>2
  <2> QED
    BY <2>1, <2>3, <2>4
<1>11. ASSUME q \in K2 PROVE r <= Len(a) /\ q = a[r]
  <2>1. PICK k \in 1 .. Len(a) : a[k] = q
    BY <1>11 DEF Climbs
  <2>2. ~(k < r)
    BY <1>7, <2>1 DEF Merged
  <2>3. r <= Len(a) /\ (k = r \/ r < k) /\ r \in 1 .. Len(a)
    BY <1>1, <2>1, <2>2
  <2>4. ~(r < k)
    <3>1. SUFFICES ASSUME r < k PROVE FALSE
      OBVIOUS
    <3>2. a[r] < a[k]
      BY <2>1, <2>3, <3>1 DEF Climbs
    <3> QED
      BY <1>2, <1>7, <1>9, <2>1, <2>3, <3>2
  <2> QED
    BY <2>1, <2>3, <2>4
<1> QED
  BY <1>5, <1>8, <1>9, <1>10, <1>11 DEF q, NextIs

(* It is taken. *)
LEMMA TakeNext ==
  ASSUME NEW K1 \in SUBSET Nat, NEW K2 \in SUBSET Nat, NEW b, NEW a, NEW z,
         Climbs(b, K1), Climbs(a, K2), Climbs(z, K1 \cup K2),
         NEW m \in 0 .. Len(z), NEW l, NEW r, NEW e, NEW w, NEW T,
         Merged(m, l, r, e, b, a, z, w), Stages(z, w, T),
         l <= Len(b) \/ r <= Len(a),
         NEW l2, NEW r2, NEW q, q = z[m + 1],
         (q \in K1 /\ l2 = l + 1) \/ (q \notin K1 /\ l2 = l),
         (q \in K2 /\ r2 = r + 1) \/ (q \notin K2 /\ r2 = r)
  PROVE  m + 1 \in 0 .. Len(z) /\ Merged(m + 1, l2, r2, e \o w[q], b, a, z, w)
<1>1. /\ Len(b) \in Nat /\ Len(a) \in Nat /\ Len(z) \in Nat /\ m \in Nat
      /\ l \in 1 .. Len(b) + 1 /\ r \in 1 .. Len(a) + 1
  BY DEF Climbs, Merged
<1>2. /\ m + 1 \in 1 .. Len(z)
      /\ q \in K1 => l <= Len(b) /\ q = b[l]
      /\ q \in K2 => r <= Len(a) /\ q = a[r]
  <2>1. NextIs(m, l, r, b, a, z, K1, K2)
    BY NextTaken
  <2> QED
    BY <2>1 DEF NextIs
<1>3. e \o w[q] = StageOf(z, w, m + 1)
  <2> DEFINE n == m + 1
  <2>1. \A k \in 1 .. Len(z) : StageOf(z, w, k) = StageOf(z, w, k - 1) \o w[z[k]]
    BY Zenon DEF Stages
  <2>2. n \in 1 .. Len(z) /\ n - 1 = m /\ z[n] = q
    BY <1>1, <1>2
  <2>3. e = StageOf(z, w, m)
    BY DEF Merged
  <2> HIDE DEF n
  <2>4. StageOf(z, w, n) = e \o w[q]
    BY <2>1, <2>2, <2>3, Zenon
  <2> QED
    BY <2>4 DEF n
<1>4. 1 .. m + 1 = (1 .. m) \cup {m + 1}
  BY <1>1
<1>5. \A x : (\E i \in 1 .. m + 1 : z[i] = x) <=> (\E i \in 1 .. m : z[i] = x) \/ x = q
  BY <1>4
<1>6. l2 \in 1 .. Len(b) + 1 /\ r2 \in 1 .. Len(a) + 1
  BY <1>1, <1>2
<1>7. ASSUME NEW k \in 1 .. Len(b) PROVE k < l2 <=> \E i \in 1 .. m + 1 : z[i] = b[k]
  <2>1. b[k] \in K1 /\ (k < l <=> \E i \in 1 .. m : z[i] = b[k])
    BY DEF Climbs, Merged
  <2>2. CASE q \in K1
    <3>1. b[k] = q <=> k = l
      <4>1. l \in 1 .. Len(b) /\ q = b[l]
        BY <1>1, <1>2, <2>2
      <4> QED
        BY <4>1 DEF Climbs
    <3>2. k < l2 <=> k < l \/ k = l
      BY <1>1, <2>2
    <3> QED
      BY <1>5, <2>1, <3>1, <3>2
  <2>3. CASE q \notin K1
    BY <1>5, <2>1, <2>3
  <2> QED
    BY <2>2, <2>3
<1>8. ASSUME NEW k \in 1 .. Len(a) PROVE k < r2 <=> \E i \in 1 .. m + 1 : z[i] = a[k]
  <2>1. a[k] \in K2 /\ (k < r <=> \E i \in 1 .. m : z[i] = a[k])
    BY DEF Climbs, Merged
  <2>2. CASE q \in K2
    <3>1. a[k] = q <=> k = r
      <4>1. r \in 1 .. Len(a) /\ q = a[r]
        BY <1>1, <1>2, <2>2
      <4> QED
        BY <4>1 DEF Climbs
    <3>2. k < r2 <=> k < r \/ k = r
      BY <1>1, <2>2
    <3> QED
      BY <1>5, <2>1, <3>1, <3>2
  <2>3. CASE q \notin K2
    BY <1>5, <2>1, <2>3
  <2> QED
    BY <2>2, <2>3
<1>9. m + 1 \in 0 .. Len(z)
  BY <1>1, <1>2
<1> QED
  BY <1>3, <1>6, <1>7, <1>8, <1>9 DEF Merged

(* When both lists are at their end, all is taken. *)
LEMMA AllTaken ==
  ASSUME NEW K1 \in SUBSET Nat, NEW K2 \in SUBSET Nat, NEW b, NEW a, NEW z,
         Climbs(b, K1), Climbs(a, K2), Climbs(z, K1 \cup K2),
         NEW m \in 0 .. Len(z), NEW l, NEW r, NEW e, NEW w,
         Merged(m, l, r, e, b, a, z, w),
         ~(l <= Len(b)), ~(r <= Len(a))
  PROVE  m = Len(z)
<1>1. /\ Len(b) \in Nat /\ Len(a) \in Nat /\ Len(z) \in Nat /\ m \in Nat
      /\ l \in 1 .. Len(b) + 1 /\ r \in 1 .. Len(a) + 1
  BY DEF Climbs, Merged
<1>2. SUFFICES ASSUME m < Len(z) PROVE FALSE
  BY <1>1
<1> DEFINE N == Len(z)
           x == z[N]
<1>3. N \in 1 .. N /\ x \in K1 \cup K2
  BY <1>1, <1>2 DEF Climbs
<1>4. \E i \in 1 .. m : z[i] = x
  <2>1. CASE x \in K1
    <3>1. PICK k \in 1 .. Len(b) : b[k] = x
      BY <2>1 DEF Climbs
    <3>2. k < l
      BY <1>1, <3>1
    <3> QED
      BY <3>1, <3>2 DEF Merged
  <2>2. CASE x \in K2
    <3>1. PICK k \in 1 .. Len(a) : a[k] = x
      BY <2>2 DEF Climbs
    <3>2. k < r
      BY <1>1, <3>1
    <3> QED
      BY <3>1, <3>2 DEF Merged
  <2> QED
    BY <1>3, <2>1, <2>2
<1>5. PICK i \in 1 .. m : z[i] = x
  BY <1>4
<1>6. i \in 1 .. N /\ i # N
  BY <1>1, <1>2, <1>5
<1> QED
  BY <1>3, <1>5, <1>6 DEF Climbs

------------------------------------------------------------------------------
DeltaTyped ==
  /\ snapshot \in [before : [Pids -> Observations(BeforeTicks)],
                   after : [Pids -> Observations(AfterTicks)]]
  /\ selection \in Selections
  /\ rows = [before |-> Rows("before"), after |-> Rows("after")]

(* The loop is the primary derivation, cut short. *)
DeltaInv ==
  /\ DeltaTyped
  /\ \E m \in 0 .. Len(AllPids) :
       Merged(m, left, right, events, rows.before, rows.after, AllPids, Shares)

(* The rows of the reference are in order. *)
LEMMA RowsRise ==
  ASSUME DeltaTyped
  PROVE  /\ Sure("before") \in SUBSET Nat /\ Sure("after") \in SUBSET Nat
         /\ Climbs(rows.before, Sure("before")) /\ Climbs(rows.after, Sure("after"))
         /\ Climbs(AllPids, Sure("before") \cup Sure("after"))
<1>1. Sure("before") \in SUBSET Pids /\ Sure("after") \in SUBSET Pids /\ Pids \in SUBSET Nat
  BY EitherPids, DeltaAssumption
<1>2. Rows("before") = Ranked(Sure("before"), <) /\ Rows("after") = Ranked(Sure("after"), <)
  BY Zenon DEF Rows, Sure
<1> HIDE DEF Sure
<1>3. Climbs(Ranked(Sure("before"), <), Sure("before"))
      /\ Climbs(Ranked(Sure("after"), <), Sure("after"))
  <2>1. Climbs(Ranked(Sure("before"), <), Sure("before"))
    BY <1>1, PidsRise, Zenon
  <2>2. Climbs(Ranked(Sure("after"), <), Sure("after"))
    BY <1>1, PidsRise, Zenon
  <2> QED
    BY <2>1, <2>2, Zenon
<1>4. Climbs(Rows("before"), Sure("before")) /\ Climbs(Rows("after"), Sure("after"))
  BY <1>2, <1>3, Zenon
<1>5. rows.before = Rows("before") /\ rows.after = Rows("after")
  BY DEF DeltaTyped
<1>6. Climbs(AllPids, Sure("before") \cup Sure("after"))
  BY AllPidsRise DEF Either
<1> QED
  BY <1>1, <1>4, <1>5, <1>6

(* The stages of the primary derivation. *)
LEMMA AllStages == Stages(AllPids, Shares, Happens)
<1>1. AllPids \in Seq(Either) /\ Either \subseteq Pids
  BY AllPidsRise, EitherPids DEF Climbs
<1>2. \A p \in Either : Shares[p] \in Seq(Happens)
  BY <1>1, SharesType
<1> QED
  BY <1>1, <1>2, StageGoes, Zenon

(* At first nothing has been taken. *)
LEMMA DeltaInvStart == DeltaInit => DeltaInv
<1>1. SUFFICES ASSUME DeltaInit PROVE DeltaInv
  OBVIOUS
<1>2. DeltaTyped /\ left = 1 /\ right = 1 /\ events = <<>>
  BY <1>1 DEF DeltaInit, DeltaTyped
<1>3. /\ Climbs(rows.before, Sure("before")) /\ Climbs(rows.after, Sure("after"))
      /\ Climbs(AllPids, Sure("before") \cup Sure("after"))
  BY <1>2, RowsRise
<1>4. Len(rows.before) \in Nat /\ Len(rows.after) \in Nat /\ Len(AllPids) \in Nat
  BY <1>3 DEF Climbs
<1>5. events = StageOf(AllPids, Shares, 0)
  BY <1>2, AllStages DEF Stages
<1>6. 0 \in 0 .. Len(AllPids)
  BY <1>4
<1>7. Merged(0, left, right, events, rows.before, rows.after, AllPids, Shares)
  BY <1>2, <1>4, <1>5 DEF Merged
<1> QED
  BY <1>2, <1>6, <1>7 DEF DeltaInv

(* What the shares are, in the next state too. *)
LEMMA SharesNext == (Shares = [p \in Pids |-> Share(p)])'
<1>1. Shares = [p \in Pids |-> Share(p)]
  BY DEF Shares
<1> QED
  BY <1>1, PTL

(* A ranking of PIDs, spelled out. *)
PidPlaces(S) == [k \in 1 .. Cardinality(S) |->
                CHOOSE x \in S : Cardinality({y \in S : y < x}) = k - 1]

(* What the PIDs are, in the next state too. *)
LEMMA AllPidsNext == (AllPids = PidPlaces(Either))'
<1>1. AllPids = PidPlaces(Either)
  BY Zenon DEF AllPids, Ranked, PidPlaces
<1> QED
  BY <1>1, PTL

(* What the rows are, in the next state too. *)
LEMMA RowsNext ==
  /\ (Rows("before") = PidPlaces(Sure("before")))'
  /\ (Rows("after") = PidPlaces(Sure("after")))'
<1>1. Rows("before") = PidPlaces(Sure("before")) /\ Rows("after") = PidPlaces(Sure("after"))
  BY Zenon DEF Rows, Sure, Ranked, PidPlaces
<1> QED
  BY <1>1, PTL

(* The snapshots do not change. *)
LEMMA SureStays ==
  ASSUME snapshot' = snapshot
  PROVE  \A s : Sure(s)' = Sure(s)
<1>1. \A s : Valid(s)' = Valid(s)
  BY DEF Valid
<1>2. UnknownPids' = UnknownPids
  <2>1. Suppressed' = Suppressed
    BY <1>1 DEF Suppressed, Valid
  <2> QED
    BY <2>1 DEF UnknownPids
<1> QED
  BY <1>1, <1>2 DEF Sure

(* So the shares and the orders do not change either. *)
LEMMA SharesStay ==
  ASSUME snapshot' = snapshot, selection' = selection
  PROVE  /\ AllPids' = AllPids /\ Shares' = Shares
         /\ Rows("before")' = Rows("before") /\ Rows("after")' = Rows("after")
<1>1. Sure("before")' = Sure("before") /\ Sure("after")' = Sure("after")
  BY SureStays
<1>2. Either' = Either
  BY <1>1 DEF Either
<1>3. AllPids' = AllPids
  <2>1. AllPids = PidPlaces(Either)
    BY Zenon DEF AllPids, Ranked, PidPlaces
  <2> QED
    BY <1>2, <2>1, AllPidsNext
<1>4. Rows("before")' = Rows("before") /\ Rows("after")' = Rows("after")
  <2>1. Rows("before") = PidPlaces(Sure("before")) /\ Rows("after") = PidPlaces(Sure("after"))
    BY Zenon DEF Rows, Sure, Ranked, PidPlaces
  <2> QED
    BY <1>1, <2>1, RowsNext
<1>5. \A p : Exited(p)' = Exited(p) /\ Started(p)' = Started(p) /\ Changed(p)' = Changed(p)
  BY DEF Exited, Started, Changed, Event
<1>6. \A e : Selected(e)' = Selected(e)
  BY DEF Selected, Crosses
<1>7. ASSUME NEW p PROVE Share(p)' = Share(p)
  BY <1>1, <1>5, <1>6 DEF Share, One
<1>8. Shares' = Shares
  BY <1>7, SharesNext DEF Shares
<1> QED
  BY <1>3, <1>4, <1>8

(* One step of the merge: the PIDs that it takes from each side, and what it reports. *)
LEMMA MergeTakes ==
  ASSUME DeltaInv, snapshot' = snapshot, selection' = selection, rows' = rows,
         HasLeft \/ HasRight,
         NEW m \in 0 .. Len(AllPids),
         Merged(m, left, right, events, rows.before, rows.after, AllPids, Shares),
         NEW q, q = AllPids[m + 1],
         (q \in Sure("before") /\ left' = left + 1) \/ (q \notin Sure("before") /\ left' = left),
         (q \in Sure("after") /\ right' = right + 1) \/ (q \notin Sure("after") /\ right' = right),
         events' = events \o Shares[q]
  PROVE  DeltaInv'
<1> DEFINE K1 == Sure("before")
           K2 == Sure("after")
           b == rows.before
           a == rows.after
           z == AllPids
           w == Shares
<1>1. /\ K1 \in SUBSET Nat /\ K2 \in SUBSET Nat
      /\ Climbs(b, K1) /\ Climbs(a, K2) /\ Climbs(z, K1 \cup K2)
  BY RowsRise DEF DeltaInv
<1>2. Stages(z, w, Happens)
  BY AllStages
<1>3. left <= Len(b) \/ right <= Len(a)
  BY DEF HasLeft, HasRight
<1>4. AllPids' = z /\ Shares' = w
      /\ Rows("before")' = Rows("before") /\ Rows("after")' = Rows("after")
  BY SharesStay
<1>5. DeltaTyped'
  BY <1>4 DEF DeltaInv, DeltaTyped
<1>6. /\ (q \in K1 /\ left' = left + 1) \/ (q \notin K1 /\ left' = left)
      /\ (q \in K2 /\ right' = right + 1) \/ (q \notin K2 /\ right' = right)
      /\ m \in 0 .. Len(z) /\ Merged(m, left, right, events, b, a, z, w) /\ q = z[m + 1]
  OBVIOUS
<1> HIDE DEF K1, K2, b, a, z, w
<1>7. m + 1 \in 0 .. Len(z) /\ Merged(m + 1, left', right', events \o w[q], b, a, z, w)
  BY <1>1, <1>2, <1>3, <1>6, TakeNext
<1>8. rows'.before = b /\ rows'.after = a /\ events' = events \o w[q]
  BY DEF a, b, w
<1>9. (\E n \in 0 .. Len(AllPids) :
         Merged(n, left, right, events, rows.before, rows.after, AllPids, Shares))'
  BY <1>4, <1>7, <1>8
<1> QED
  BY <1>5, <1>9 DEF DeltaInv

(* What is reported of a PID, by the case that the loop is in. *)
LEMMA SharesAre ==
  ASSUME NEW p \in Pids
  PROVE  /\ p \in Sure("before") /\ p \notin Sure("after")
              => Shares[p] = Reported(<<Exited(p)>>)
         /\ p \notin Sure("before") => Shares[p] = Reported(<<Started(p)>>)
         /\ p \in Sure("before") /\ p \in Sure("after")
              => Shares[p] = Reported(Transition(p))
<1>1. Shares[p] = Reported(Of(p))
  BY SharesType
<1> QED
  BY <1>1 DEF Of

(* Where the loop is, and which PID is next. *)
LEMMA MergeFacts ==
  ASSUME DeltaInv, HasLeft \/ HasRight
  PROVE  \E m \in 0 .. Len(AllPids) :
           /\ Merged(m, left, right, events, rows.before, rows.after, AllPids, Shares)
           /\ AllPids[m + 1] \in Pids
           /\ AllPids[m + 1] \in Nat
           /\ AllPids[m + 1] \in Sure("before") \cup Sure("after")
           /\ AllPids[m + 1] \in Sure("before") => HasLeft /\ AllPids[m + 1] = Old
           /\ AllPids[m + 1] \in Sure("after") => HasRight /\ AllPids[m + 1] = New
           /\ HasLeft => AllPids[m + 1] <= Old /\ Old \in Nat
           /\ HasRight => AllPids[m + 1] <= New /\ New \in Nat
<1> DEFINE K1 == Sure("before")
           K2 == Sure("after")
           b == rows.before
           a == rows.after
           z == AllPids
           w == Shares
<1>1. /\ K1 \in SUBSET Nat /\ K2 \in SUBSET Nat
      /\ Climbs(b, K1) /\ Climbs(a, K2) /\ Climbs(z, K1 \cup K2)
      /\ K1 \subseteq Pids /\ K2 \subseteq Pids
  BY RowsRise, EitherPids DEF DeltaInv
<1>2. PICK m \in 0 .. Len(z) : Merged(m, left, right, events, b, a, z, w)
  BY DEF DeltaInv
<1>3. (HasLeft <=> left <= Len(b)) /\ (HasRight <=> right <= Len(a)) /\ Old = b[left] /\ New = a[right]
  BY DEF HasLeft, HasRight, Old, New
<1> HIDE DEF K1, K2, b, a, z, w
<1>4. left <= Len(b) \/ right <= Len(a)
  BY <1>3
<1>5. /\ m + 1 \in 1 .. Len(z)
      /\ z[m + 1] \in K1 => left <= Len(b) /\ z[m + 1] = b[left]
      /\ z[m + 1] \in K2 => right <= Len(a) /\ z[m + 1] = a[right]
      /\ left <= Len(b) => z[m + 1] <= b[left]
      /\ right <= Len(a) => z[m + 1] <= a[right]
  <2>1. NextIs(m, left, right, b, a, z, K1, K2)
    BY <1>1, <1>2, <1>4, NextTaken
  <2> QED
    BY <2>1 DEF NextIs
<1>6. z[m + 1] \in K1 \cup K2
  BY <1>1, <1>5 DEF Climbs
<1>7. /\ left <= Len(b) => b[left] \in Nat
      /\ right <= Len(a) => a[right] \in Nat
  <2>1. left \in 1 .. Len(b) + 1 /\ right \in 1 .. Len(a) + 1 /\ Len(b) \in Nat /\ Len(a) \in Nat
    BY <1>1, <1>2 DEF Merged, Climbs
  <2>2. (left <= Len(b) => left \in 1 .. Len(b)) /\ (right <= Len(a) => right \in 1 .. Len(a))
    BY <2>1
  <2> QED
    BY <1>1, <2>2 DEF Climbs
<1>8. z[m + 1] \in Pids /\ z[m + 1] \in Nat
  BY <1>1, <1>6
<1> QED
  BY <1>2, <1>3, <1>5, <1>6, <1>7, <1>8 DEF K1, K2, b, a, z, w

(* The heads of the lists are known. *)
LEMMA SidesSure ==
  ASSUME DeltaInv
  PROVE  /\ HasLeft => Old \in Sure("before")
         /\ HasRight => New \in Sure("after")
<1>1. Climbs(rows.before, Sure("before")) /\ Climbs(rows.after, Sure("after"))
  BY RowsRise DEF DeltaInv
<1>2. PICK m : Merged(m, left, right, events, rows.before, rows.after, AllPids, Shares)
  BY DEF DeltaInv
<1>3. /\ left \in 1 .. Len(rows.before) + 1 /\ right \in 1 .. Len(rows.after) + 1
      /\ Len(rows.before) \in Nat /\ Len(rows.after) \in Nat
  BY <1>1, <1>2 DEF Merged, Climbs
<1>4. /\ HasLeft => left \in 1 .. Len(rows.before)
      /\ HasRight => right \in 1 .. Len(rows.after)
  BY <1>3 DEF HasLeft, HasRight
<1> QED
  BY <1>1, <1>4 DEF Climbs, Old, New

(* Every step takes the next PID from the sides that know it. *)
LEMMA DeltaInvStep == DeltaInv /\ [DeltaNext]_deltaVars => DeltaInv'
<1> SUFFICES ASSUME DeltaInv, [DeltaNext]_deltaVars PROVE DeltaInv'
  OBVIOUS
<1>1. CASE UNCHANGED deltaVars
  <2>1. /\ snapshot' = snapshot /\ selection' = selection /\ rows' = rows
        /\ left' = left /\ right' = right /\ events' = events
    BY <1>1 DEF deltaVars
  <2>2. AllPids' = AllPids /\ Shares' = Shares
        /\ Rows("before")' = Rows("before") /\ Rows("after")' = Rows("after")
    BY <2>1, SharesStay
  <2> QED
    BY <2>1, <2>2 DEF DeltaInv, DeltaTyped
<1>2. CASE DeltaNext
  <2>1. HasLeft \/ HasRight
    BY <1>2 DEF DeltaNext, MergeExited, MergeStarted, MergeBoth
  <2>2. PICK m \in 0 .. Len(AllPids) :
           /\ Merged(m, left, right, events, rows.before, rows.after, AllPids, Shares)
           /\ AllPids[m + 1] \in Pids
           /\ AllPids[m + 1] \in Nat
           /\ AllPids[m + 1] \in Sure("before") \cup Sure("after")
           /\ AllPids[m + 1] \in Sure("before") => HasLeft /\ AllPids[m + 1] = Old
           /\ AllPids[m + 1] \in Sure("after") => HasRight /\ AllPids[m + 1] = New
           /\ HasLeft => AllPids[m + 1] <= Old /\ Old \in Nat
           /\ HasRight => AllPids[m + 1] <= New /\ New \in Nat
    BY <2>1, MergeFacts
  <2> DEFINE q == AllPids[m + 1]
  <2>3. /\ q \in Pids /\ q \in Nat /\ q \in Sure("before") \cup Sure("after")
        /\ q \in Sure("before") => HasLeft /\ q = Old
        /\ q \in Sure("after") => HasRight /\ q = New
        /\ HasLeft => q <= Old /\ Old \in Nat
        /\ HasRight => q <= New /\ New \in Nat
    BY <2>2
  <2>4. q = AllPids[m + 1]
    OBVIOUS
  <2> HIDE DEF q
  <2>5. /\ q \in Sure("before") /\ q \notin Sure("after")
              => Shares[q] = Reported(<<Exited(q)>>)
        /\ q \notin Sure("before") => Shares[q] = Reported(<<Started(q)>>)
        /\ q \in Sure("before") /\ q \in Sure("after")
              => Shares[q] = Reported(Transition(q))
    BY <2>3, SharesAre
  <2> DEFINE B == q \in Sure("before")
             A == q \in Sure("after")
  <2>6. SUFFICES /\ snapshot' = snapshot /\ selection' = selection /\ rows' = rows
                 /\ (B /\ left' = left + 1) \/ (~B /\ left' = left)
                 /\ (A /\ right' = right + 1) \/ (~A /\ right' = right)
                 /\ events' = events \o Shares[q]
    BY <2>1, <2>2, <2>4, MergeTakes
  <2>7. CASE MergeExited
    <3>1. HasLeft /\ (HasRight => Old < New) /\ events' = events \o Reported(<<Exited(Old)>>)
          /\ left' = left + 1 /\ snapshot' = snapshot /\ selection' = selection
          /\ rows' = rows /\ right' = right
      BY <2>7 DEF MergeExited, Emit
    <3>2. ~A
      BY <2>3, <3>1
    <3>3. B /\ q = Old
      BY <2>3, <3>2
    <3> HIDE DEF A, B
    <3>4. Shares[q] = Reported(<<Exited(Old)>>)
      BY <2>5, <3>2, <3>3, Zenon DEF A, B
    <3> QED
      BY <3>1, <3>2, <3>3, <3>4
  <2>8. CASE MergeStarted
    <3>1. HasRight /\ (HasLeft => New < Old) /\ events' = events \o Reported(<<Started(New)>>)
          /\ right' = right + 1 /\ snapshot' = snapshot /\ selection' = selection
          /\ rows' = rows /\ left' = left
      BY <2>8 DEF MergeStarted, Emit
    <3>2. ~B
      BY <2>3, <3>1
    <3>3. A /\ q = New
      BY <2>3, <3>2
    <3> HIDE DEF A, B
    <3>4. Shares[q] = Reported(<<Started(New)>>)
      BY <2>5, <3>2, <3>3, Zenon DEF A, B
    <3> QED
      BY <3>1, <3>2, <3>3, <3>4
  <2>9. CASE MergeBoth
    <3>1. HasLeft /\ HasRight /\ Old = New /\ events' = events \o Reported(Transition(Old))
          /\ left' = left + 1 /\ right' = right + 1 /\ snapshot' = snapshot
          /\ selection' = selection /\ rows' = rows
      BY <2>9 DEF MergeBoth, Emit
    <3>2. q = Old
      BY <2>3, <3>1
    <3>3. A /\ B
      <4>1. Old \in Sure("before") /\ New \in Sure("after")
        BY <3>1, SidesSure
      <4> QED
        BY <3>1, <3>2, <4>1
    <3> HIDE DEF A, B
    <3>4. Shares[q] = Reported(Transition(Old))
      BY <2>5, <3>2, <3>3, Zenon DEF A, B
    <3> QED
      BY <3>1, <3>3, <3>4
  <2> QED
    BY <1>2, <2>7, <2>8, <2>9 DEF DeltaNext
<1> QED
  BY <1>1, <1>2

(* What may be known of a process, and tables of them. *)
Displayed == {AbsentProcess} \cup {snapshot.before[p] : p \in Pids} \cup {snapshot.after[p] : p \in Pids}
PidTables == [Pids -> Displayed]

(* An event that may be reported. *)
Sound(e) ==
  /\ e.pid \in Pids \ UnknownPids
  /\ e.event = "started" => e.after.start \in BeforeTicks + 1 .. AfterTicks
  /\ e.after \in Displayed

(* A PID's exit precedes its reuse, and nothing else happens to it twice. *)
MayFollow(x, e) == x.pid = e.pid => x.event = "exited" /\ e.event = "started"

Orderly(E) ==
  /\ \A i \in 1 .. Len(E) : Sound(E[i])
  /\ \A i, j \in 1 .. Len(E) : j < i => MayFollow(E[j], E[i])

(* The tables that the events lead through. *)
Replayed(t, E) ==
  /\ t \in [0 .. Len(E) -> PidTables] /\ t[0] = Known("before")
  /\ \A i \in 1 .. Len(E) : t[i] = Apply(t[i - 1], E[i]) /\ t[i - 1][E[i].pid] = E[i].before

LeadsTo(E, M) == \E t : Replayed(t, E) /\ t[Len(E)] = M

(* Events about P that lead to M. *)
Told(E, M, P) ==
  /\ E \in Seq(Happens) /\ Orderly(E) /\ M \in PidTables
  /\ \A i \in 1 .. Len(E) : E[i].pid \in P
  /\ selection = "all-changes" => LeadsTo(E, M)

(* An event leads from a table to a table. *)
LEMMA ApplyType ==
  ASSUME NEW M \in PidTables, NEW e, Sound(e)
  PROVE  Apply(M, e) \in PidTables
BY DEF PidTables, Apply, Sound

(* One more event is replayed. *)
LEMMA LeadsFurther ==
  ASSUME NEW T, NEW E \in Seq(T), NEW e \in T, NEW M \in PidTables, LeadsTo(E, M),
         Sound(e), M[e.pid] = e.before
  PROVE  LeadsTo(Append(E, e), Apply(M, e))
<1> DEFINE N == Len(E)
           F == Append(E, e)
<1>1. PICK t : Replayed(t, E) /\ t[N] = M
  BY DEF LeadsTo
<1>2. N \in Nat /\ Len(F) = N + 1 /\ F[N + 1] = e /\ \A i \in 1 .. N : F[i] = E[i]
  OBVIOUS
<1> DEFINE X == Apply(M, e)
<1>3. X \in PidTables
  BY ApplyType
<1> HIDE DEF N, F, X
<1> DEFINE s == [i \in 0 .. N + 1 |-> IF i = N + 1 THEN X ELSE t[i]]
<1>4. t \in [0 .. N -> PidTables] /\ t[0] = Known("before")
      /\ \A i \in 1 .. N : t[i] = Apply(t[i - 1], E[i]) /\ t[i - 1][E[i].pid] = E[i].before
  BY <1>1 DEF Replayed, N
<1>5. s \in [0 .. N + 1 -> PidTables]
  <2>1. ASSUME NEW i \in 0 .. N + 1 PROVE (IF i = N + 1 THEN X ELSE t[i]) \in PidTables
    <3>1. i # N + 1 => i \in 0 .. N
      BY <1>2
    <3> QED
      BY <1>3, <1>4, <3>1
  <2> QED
    BY <2>1
<1>6. /\ s[N + 1] = X /\ s[0] = t[0]
      /\ \A i \in 0 .. N : s[i] = t[i]
  BY <1>2
<1> HIDE DEF s
<1>7. ASSUME NEW i \in 1 .. N + 1
      PROVE  s[i] = Apply(s[i - 1], F[i]) /\ s[i - 1][F[i].pid] = F[i].before
  <2>1. CASE i = N + 1
    <3>1. s[i] = X /\ F[i] = e /\ s[i - 1] = M
      <4>1. i - 1 = N /\ N \in 0 .. N
        BY <1>2, <2>1
      <4> QED
        BY <1>1, <1>2, <1>6, <2>1, <4>1
    <3> QED
      BY <3>1 DEF X
  <2>2. CASE i # N + 1
    <3>1. i \in 1 .. N /\ i \in 0 .. N /\ i - 1 \in 0 .. N
      BY <1>2, <2>2
    <3>2. s[i] = t[i] /\ s[i - 1] = t[i - 1] /\ F[i] = E[i]
      BY <1>2, <1>6, <3>1
    <3> QED
      BY <1>4, <3>1, <3>2
  <2> QED
    BY <2>1, <2>2
<1>8. Replayed(s, F)
  BY <1>2, <1>4, <1>5, <1>6, <1>7 DEF Replayed
<1>9. s[Len(F)] = X
  BY <1>2, <1>6
<1>10. LeadsTo(F, X)
  BY <1>8, <1>9 DEF LeadsTo
<1> QED
  BY <1>10 DEF F, X

(* F holds nothing but E's events and e. *)
AddsOnly(F, E, e) == \A i \in 1 .. Len(F) : (\E j \in 1 .. Len(E) : F[i] = E[j]) \/ F[i] = e

(* One more event is told, if it is selected. *)
LEMMA ToldOne ==
  ASSUME NEW E, NEW M, NEW P, Told(E, M, P), NEW e \in Happens, Sound(e), M[e.pid] = e.before,
         \A i \in 1 .. Len(E) : MayFollow(E[i], e)
  PROVE  /\ Told(E \o One(e), Apply(M, e), P \cup {e.pid})
         /\ AddsOnly(E \o One(e), E, e)
<1> DEFINE X == Apply(M, e)
<1>1. X \in PidTables /\ E \in Seq(Happens) /\ Len(E) \in Nat
  BY ApplyType DEF Told
<1>2. CASE Selected(e)
  <2> DEFINE F == Append(E, e)
  <2>1. E \o One(e) = F
    BY <1>1, <1>2 DEF One
  <2>2. F \in Seq(Happens) /\ Len(F) = Len(E) + 1 /\ F[Len(E) + 1] = e
        /\ \A i \in 1 .. Len(E) : F[i] = E[i]
    BY <1>1
  <2>3. selection = "all-changes" => LeadsTo(F, X)
    <3>1. SUFFICES ASSUME selection = "all-changes" PROVE LeadsTo(F, X)
      OBVIOUS
    <3>2. LeadsTo(E, M) /\ M \in PidTables
      BY <3>1 DEF Told
    <3> QED
      BY <1>1, <3>2, LeadsFurther, Zenon
  <2> HIDE DEF F, X
  <2>4. \A i \in 1 .. Len(F) : (i \in 1 .. Len(E) /\ F[i] = E[i]) \/ (i = Len(E) + 1 /\ F[i] = e)
    BY <1>1, <2>2
  <2>5. \A i \in 1 .. Len(F) : Sound(F[i]) /\ F[i].pid \in P \cup {e.pid}
    BY <2>4 DEF Told, Orderly
  <2>6. ASSUME NEW i \in 1 .. Len(F), NEW j \in 1 .. Len(F), j < i PROVE MayFollow(F[j], F[i])
    <3>1. j \in 1 .. Len(E) /\ F[j] = E[j]
      BY <1>1, <2>2, <2>6
    <3>2. CASE i \in 1 .. Len(E) /\ F[i] = E[i]
      BY <2>6, <3>1, <3>2 DEF Told, Orderly
    <3>3. CASE F[i] = e
      BY <3>1, <3>3
    <3> QED
      BY <2>4, <3>2, <3>3
  <2>7. Orderly(F)
    BY <2>5, <2>6 DEF Orderly
  <2>8. Told(F, X, P \cup {e.pid})
    BY <1>1, <2>2, <2>3, <2>5, <2>7 DEF Told
  <2>9. AddsOnly(F, E, e)
    BY <2>4 DEF AddsOnly
  <2> QED
    BY <2>1, <2>8, <2>9, Zenon DEF X
<1>3. CASE ~Selected(e)
  <2>1. E \o One(e) = E
    BY <1>1, <1>3 DEF One
  <2>2. selection # "all-changes"
    BY <1>3 DEF Selected
  <2>3. Told(E, X, P \cup {e.pid})
    BY <1>1, <2>2 DEF Told
  <2>4. AddsOnly(E, E, e)
    BY DEF AddsOnly
  <2> QED
    BY <2>1, <2>3, <2>4, Zenon
<1> QED
  BY <1>2, <1>3

(* What the snapshots say of a PID. *)
LEMMA SnapshotsSay ==
  ASSUME DeltaTyped, NEW p \in Pids
  PROVE  /\ p \in Either => p \notin UnknownPids
         /\ p \in Sure("before") => snapshot.before[p] \in Projections(BeforeTicks)
         /\ p \in Sure("after") => snapshot.after[p] \in Projections(AfterTicks)
         /\ p \in Either /\ p \notin Sure("before") => snapshot.before[p] = AbsentProcess
         /\ p \in Either /\ p \notin Sure("after") => snapshot.after[p] = AbsentProcess
         /\ p \in Sure("after")
              /\ (p \notin Sure("before") \/ snapshot.before[p].start # snapshot.after[p].start)
              => snapshot.after[p].start \in BeforeTicks + 1 .. AfterTicks
         /\ p \notin Either => Known("before")[p] = Known("after")[p]
         /\ p \in Either => /\ Known("before")[p] = snapshot.before[p]
                            /\ Known("after")[p] = snapshot.after[p]
         /\ Known("before")[p] \in Displayed /\ Known("after")[p] \in Displayed
<1> DEFINE o == snapshot.before[p]
           n == snapshot.after[p]
<1>1. o \in Observations(BeforeTicks) /\ n \in Observations(AfterTicks)
  BY DEF DeltaTyped
<1>2. /\ p \in Valid("before") <=> o.is = "valid"
      /\ p \in Valid("after") <=> n.is = "valid"
  BY DEF Valid
<1>3. /\ o = AbsentProcess \/ o = Unknown \/ o \in Projections(BeforeTicks)
      /\ n = AbsentProcess \/ n = Unknown \/ n \in Projections(AfterTicks)
  BY <1>1 DEF Observations
<1>4. /\ AbsentProcess.is = "absent" /\ Unknown.is = "unknown"
      /\ \A t : \A x \in Projections(t) : x.is = "valid" /\ x.start \in 1 .. t
  BY DEF AbsentProcess, Unknown, Projections
<1>5. p \notin UnknownPids => o # Unknown /\ n # Unknown /\ p \notin Suppressed
  BY DEF UnknownPids
<1>6. Known("before")[p] = (IF p \in UnknownPids THEN AbsentProcess ELSE o)
      /\ Known("after")[p] = (IF p \in UnknownPids THEN AbsentProcess ELSE n)
  BY DEF Known
<1>7. /\ p \in Sure("before") <=> p \in Valid("before") /\ p \notin UnknownPids
      /\ p \in Sure("after") <=> p \in Valid("after") /\ p \notin UnknownPids
      /\ p \in Either <=> p \in Sure("before") \/ p \in Sure("after")
  BY DEF Sure, Either
<1>8. AbsentProcess \in Displayed /\ o \in Displayed /\ n \in Displayed
  BY DEF Displayed
<1>9. p \in Suppressed <=> /\ p \in Valid("after")
                           /\ n.start <= BeforeTicks
                           /\ p \in Valid("before") => o.start # n.start
  BY DEF Suppressed
<1> HIDE DEF o, n
<1>10. p \in Sure("after") /\ (p \notin Sure("before") \/ o.start # n.start)
         => n.start \in BeforeTicks + 1 .. AfterTicks
  <2>1. SUFFICES ASSUME p \in Sure("after"), p \notin Sure("before") \/ o.start # n.start
                 PROVE  n.start \in BeforeTicks + 1 .. AfterTicks
    OBVIOUS
  <2>2. n.start \in 1 .. AfterTicks
    BY <1>2, <1>3, <1>4, <1>7, <2>1
  <2>3. ~(n.start <= BeforeTicks)
    BY <1>5, <1>7, <1>9, <2>1
  <2> QED
    BY <2>2, <2>3, DeltaAssumption
<1> HIDE DEF Sure, Either, Valid
<1>11. /\ p \in Either => p \notin UnknownPids
       /\ p \in Sure("before") => o \in Projections(BeforeTicks)
       /\ p \in Sure("after") => n \in Projections(AfterTicks)
       /\ p \in Either /\ p \notin Sure("before") => o = AbsentProcess
       /\ p \in Either /\ p \notin Sure("after") => n = AbsentProcess
  BY <1>2, <1>3, <1>4, <1>5, <1>7
<1>12. p \notin Either => Known("before")[p] = Known("after")[p]
  BY <1>2, <1>3, <1>4, <1>5, <1>6, <1>7
<1>13. p \in Either => Known("before")[p] = o /\ Known("after")[p] = n
  BY <1>6, <1>11
<1>14. Known("before")[p] \in Displayed /\ Known("after")[p] \in Displayed
  BY <1>6, <1>8
<1> QED
  BY <1>10, <1>11, <1>12, <1>13, <1>14 DEF o, n

(* A process that did not change is what it was. *)
LEMMA UnchangedIs ==
  ASSUME DeltaTyped, NEW p \in Pids, p \in Sure("before"), p \in Sure("after"),
         snapshot.before[p].start = snapshot.after[p].start, Changed(p).changed = {}
  PROVE  snapshot.before[p] = snapshot.after[p]
<1> DEFINE o == snapshot.before[p]
           n == snapshot.after[p]
<1>1. o \in Projections(BeforeTicks) /\ n \in Projections(AfterTicks)
  BY SnapshotsSay
<1>2. \A f \in Fields : o.value[f] = n.value[f]
  BY DEF Changed, Event
<1>3. o.start = n.start
  OBVIOUS
<1> HIDE DEF o, n
<1>4. o.value \in [Fields -> Nat] /\ n.value \in [Fields -> Nat]
  BY <1>1, DeltaAssumption DEF Projections
<1>5. o.value = n.value
  BY <1>2, <1>4
<1>6. o.is = "valid" /\ n.is = "valid"
  BY <1>1 DEF Projections
<1>7. o = [is |-> o.is, start |-> o.start, value |-> o.value]
      /\ n = [is |-> n.is, start |-> n.start, value |-> n.value]
  BY <1>1 DEF Projections
<1>8. o = n
  BY <1>3, <1>5, <1>6, <1>7, Zenon
<1> QED
  BY <1>8 DEF o, n

(* The events of one PID. *)
LEMMA EventsAre ==
  ASSUME DeltaTyped, NEW p \in Either
  PROVE  /\ Exited(p) \in Happens /\ Started(p) \in Happens /\ Changed(p) \in Happens
         /\ p \in Pids /\ p \in Pids \ UnknownPids
         /\ Exited(p).pid = p /\ Exited(p).event = "exited"
         /\ Exited(p).before = snapshot.before[p] /\ Exited(p).after = AbsentProcess
         /\ Started(p).pid = p /\ Started(p).event = "started"
         /\ Started(p).before = AbsentProcess /\ Started(p).after = snapshot.after[p]
         /\ Changed(p).pid = p /\ Changed(p).event = "changed"
         /\ Changed(p).before = snapshot.before[p] /\ Changed(p).after = snapshot.after[p]
         /\ Sound(Exited(p)) /\ Sound(Changed(p))
<1>1. p \in Pids /\ p \notin UnknownPids
  <2>1. p \in Pids
    BY EitherPids
  <2> QED
    BY <2>1, SnapshotsSay
<1>2. Exited(p) \in Happens /\ Started(p) \in Happens /\ Changed(p) \in Happens
  BY <1>1 DEF Happens
<1>3. /\ Exited(p).pid = p /\ Exited(p).event = "exited"
      /\ Exited(p).before = snapshot.before[p] /\ Exited(p).after = AbsentProcess
      /\ Started(p).pid = p /\ Started(p).event = "started"
      /\ Started(p).before = AbsentProcess /\ Started(p).after = snapshot.after[p]
      /\ Changed(p).pid = p /\ Changed(p).event = "changed"
      /\ Changed(p).before = snapshot.before[p] /\ Changed(p).after = snapshot.after[p]
  BY DEF Exited, Started, Changed, Event
<1>4. AbsentProcess \in Displayed /\ snapshot.after[p] \in Displayed
  BY <1>1 DEF Displayed
<1> QED
  BY <1>1, <1>2, <1>3, <1>4 DEF Sound

(* The events of one more PID are told. *)
LEMMA ToldShare ==
  ASSUME DeltaTyped, NEW E, NEW M, NEW P, Told(E, M, P), NEW p \in Either, p \notin P,
         M[p] = Known("before")[p]
  PROVE  Told(E \o Share(p), [M EXCEPT ![p] = Known("after")[p]], P \cup {p})
<1> DEFINE x == Exited(p)
           s == Started(p)
           c == Changed(p)
           o == snapshot.before[p]
           n == snapshot.after[p]
           G == [M EXCEPT ![p] = n]
<1>1. /\ x \in Happens /\ s \in Happens /\ c \in Happens
      /\ p \in Pids /\ p \in Pids \ UnknownPids
      /\ x.pid = p /\ x.event = "exited" /\ x.before = o /\ x.after = AbsentProcess
      /\ s.pid = p /\ s.event = "started" /\ s.before = AbsentProcess /\ s.after = n
      /\ c.pid = p /\ c.event = "changed" /\ c.before = o /\ c.after = n
      /\ Sound(x) /\ Sound(c)
  BY EventsAre
<1>2. /\ p \notin Sure("before") => o = AbsentProcess
      /\ p \notin Sure("after") => n = AbsentProcess
      /\ p \in Sure("after") /\ (p \notin Sure("before") \/ o.start # n.start) => Sound(s)
      /\ M[p] = o /\ Known("after")[p] = n
      /\ p \in Sure("before") \/ p \in Sure("after")
  <2>1. n \in Displayed
    BY <1>1 DEF Displayed
  <2>2. /\ p \notin Sure("before") => o = AbsentProcess
        /\ p \notin Sure("after") => n = AbsentProcess
        /\ p \in Sure("after") /\ (p \notin Sure("before") \/ o.start # n.start)
             => n.start \in BeforeTicks + 1 .. AfterTicks
        /\ Known("before")[p] = o /\ Known("after")[p] = n
    BY <1>1, SnapshotsSay
  <2>3. p \in Sure("before") \/ p \in Sure("after")
    BY DEF Either
  <2> QED
    BY <1>1, <2>1, <2>2, <2>3 DEF Sound
<1>3. Share(p) = IF p \notin Sure("before") THEN One(s)
                 ELSE IF p \notin Sure("after") THEN One(x)
                 ELSE IF o.start # n.start THEN One(x) \o One(s)
                 ELSE IF c.changed # {} THEN One(c) ELSE <<>>
  BY DEF Share
<1>4. M \in PidTables /\ E \in Seq(Happens) /\ \A i \in 1 .. Len(E) : E[i].pid # p
  BY DEF Told
<1>5. p \in Sure("before") /\ p \in Sure("after") /\ o.start = n.start /\ c.changed = {} => o = n
  BY <1>1, UnchangedIs
<1>6. \A e : e.pid = p => \A i \in 1 .. Len(E) : MayFollow(E[i], e)
  BY <1>4 DEF MayFollow
<1> HIDE DEF x, s, c, o, n, G
<1>7. SUFFICES Told(E \o Share(p), G, P \cup {p})
  BY <1>2 DEF G
<1>8. CASE p \notin Sure("before")
  <2>1. Sound(s) /\ M[s.pid] = s.before
    BY <1>1, <1>2, <1>8
  <2>2. Told(E \o One(s), Apply(M, s), P \cup {s.pid})
    BY <1>1, <1>6, <2>1, ToldOne
  <2>3. Apply(M, s) = G
    BY <1>1 DEF Apply, G
  <2> QED
    BY <1>1, <1>3, <1>8, <2>2, <2>3, Zenon
<1>9. CASE p \in Sure("before") /\ p \notin Sure("after")
  <2>1. M[x.pid] = x.before
    BY <1>1, <1>2
  <2>2. Told(E \o One(x), Apply(M, x), P \cup {x.pid})
    BY <1>1, <1>6, <2>1, ToldOne
  <2>3. Apply(M, x) = G
    BY <1>1, <1>2, <1>9 DEF Apply, G
  <2>4. Share(p) = One(x)
    BY <1>3, <1>9, Zenon
  <2> QED
    BY <1>1, <2>2, <2>3, <2>4, Zenon
<1>10. CASE p \in Sure("before") /\ p \in Sure("after") /\ o.start # n.start
  <2> DEFINE F == E \o One(x)
             X == Apply(M, x)
  <2>1. M[x.pid] = x.before
    BY <1>1, <1>2
  <2>2. Told(F, X, P \cup {x.pid}) /\ AddsOnly(F, E, x)
    BY <1>1, <1>6, <2>1, ToldOne
  <2>3. X[p] = AbsentProcess /\ [X EXCEPT ![p] = n] = G
    BY <1>1, <1>4 DEF Apply, G, PidTables
  <2>7. One(x) \in Seq(Happens) /\ One(s) \in Seq(Happens)
    BY <1>1 DEF One
  <2>8. (E \o One(x)) \o One(s) = E \o (One(x) \o One(s))
    BY <1>4, <2>7, Associates
  <2>9. Share(p) = One(x) \o One(s)
    BY <1>3, <1>10, Zenon
  <2> HIDE DEF X
  <2>4. Sound(s) /\ X[s.pid] = s.before
    BY <1>1, <1>2, <1>10, <2>3
  <2>10. E \o Share(p) = F \o One(s)
    BY <2>8, <2>9, Zenon
  <2> HIDE DEF F
  <2>5. \A i \in 1 .. Len(F) : MayFollow(F[i], s)
    BY <1>1, <1>4, <2>2 DEF MayFollow, AddsOnly
  <2>6. Told(F \o One(s), Apply(X, s), (P \cup {x.pid}) \cup {s.pid})
    BY <1>1, <2>2, <2>4, <2>5, ToldOne
  <2>11. Apply(X, s) = G
    BY <1>1, <2>3 DEF Apply
  <2>12. (P \cup {x.pid}) \cup {s.pid} = P \cup {p}
    BY <1>1
  <2> QED
    BY <2>6, <2>10, <2>11, <2>12, Zenon
<1>11. CASE p \in Sure("before") /\ p \in Sure("after") /\ o.start = n.start /\ c.changed # {}
  <2>1. M[c.pid] = c.before
    BY <1>1, <1>2
  <2>2. Told(E \o One(c), Apply(M, c), P \cup {c.pid})
    BY <1>1, <1>6, <2>1, ToldOne
  <2>3. Apply(M, c) = G
    BY <1>1 DEF Apply, G
  <2>4. Share(p) = One(c)
    BY <1>3, <1>11, Zenon
  <2> QED
    BY <1>1, <2>2, <2>3, <2>4, Zenon
<1>12. CASE p \in Sure("before") /\ p \in Sure("after") /\ o.start = n.start /\ c.changed = {}
  <2>1. Share(p) = <<>>
    BY <1>3, <1>12, Zenon
  <2>2. G = M
    BY <1>1, <1>2, <1>4, <1>5, <1>12 DEF G, PidTables
  <2>3. E \o <<>> = E
    BY <1>4
  <2>4. Told(E, M, P \cup {p})
    BY DEF Told
  <2> QED
    BY <2>1, <2>2, <2>3, <2>4, Zenon
<1> QED
  BY <1>2, <1>8, <1>9, <1>10, <1>11, <1>12

------------------------------------------------------------------------------
(* The table once the first m PIDs have been dealt with. *)
Among(m) == {p \in Pids : \E i \in 1 .. m : AllPids[i] = p}
Mixed(m) == [p \in Pids |-> IF p \in Among(m) THEN Known("after")[p] ELSE Known("before")[p]]

(* What the primary derivation reports is told. *)
LEMMA StagesTold ==
  ASSUME DeltaTyped
  PROVE  \A m \in 0 .. Len(AllPids) : Told(StageOf(AllPids, Shares, m), Mixed(m), Among(m))
<1> DEFINE z == AllPids
           N == Len(z)
           good == {m \in 0 .. N : Told(StageOf(z, Shares, m), Mixed(m), Among(m))}
<1>1. /\ N \in Nat /\ \A i \in 1 .. N : z[i] \in Either /\ z[i] \in Pids
      /\ \A i, j \in 1 .. N : z[i] = z[j] => i = j
  BY AllPidsRise, EitherPids DEF Climbs
<1>2. \A m : Mixed(m) \in PidTables
  <2>1. \A p \in Pids : Known("before")[p] \in Displayed /\ Known("after")[p] \in Displayed
    BY SnapshotsSay
  <2> QED
    BY <2>1 DEF Mixed, PidTables
<1>3. /\ StageOf(z, Shares, 0) = <<>>
      /\ \A m \in 1 .. N : StageOf(z, Shares, m) = StageOf(z, Shares, m - 1) \o Shares[z[m]]
  BY AllStages, Zenon DEF Stages
<1> HIDE DEF z
<1>4. 0 \in good
  <2>1. Mixed(0) = Known("before")
    BY DEF Mixed, Among, Known
  <2>2. LeadsTo(<<>>, Mixed(0))
    <3> DEFINE t == [i \in {0} |-> Mixed(0)]
    <3>1. Replayed(t, <<>>)
      BY <1>2, <2>1 DEF Replayed
    <3>2. t[Len(<<>>)] = Mixed(0)
      OBVIOUS
    <3> HIDE DEF t
    <3> QED
      BY <3>1, <3>2 DEF LeadsTo
  <2>3. Told(<<>>, Mixed(0), Among(0))
    BY <1>2, <2>2 DEF Told, Orderly
  <2> QED
    BY <1>1, <1>3, <2>3
<1>5. ASSUME NEW m \in 1 .. N, m - 1 \in good PROVE m \in good
  <2> DEFINE p == z[m]
             E == StageOf(z, Shares, m - 1)
             M == Mixed(m - 1)
             P == Among(m - 1)
  <2>1. Told(E, M, P)
    BY <1>5
  <2>2. p \in Either /\ p \in Pids
    BY <1>1
  <2>3. p \notin P
    <3>1. SUFFICES ASSUME NEW i \in 1 .. m - 1, z[i] = p PROVE FALSE
      BY DEF Among, z
    <3>2. i \in 1 .. N /\ i # m
      BY <1>1
    <3> QED
      BY <1>1, <3>1, <3>2
  <2>4. M[p] = Known("before")[p]
    BY <2>2, <2>3 DEF Mixed
  <2>5. Among(m) = P \cup {p}
    <3>1. 1 .. m = (1 .. m - 1) \cup {m}
      BY <1>1
    <3> QED
      BY <2>2, <3>1 DEF Among, z
  <2>6. Mixed(m) = [M EXCEPT ![p] = Known("after")[p]]
    BY <2>2, <2>5 DEF Mixed
  <2>7. StageOf(z, Shares, m) = E \o Share(p)
    <3>1. Shares[p] = Share(p)
      BY <2>2 DEF Shares
    <3> QED
      BY <1>3, <3>1
  <2> HIDE DEF p, E, M, P
  <2>8. Told(E \o Share(p), [M EXCEPT ![p] = Known("after")[p]], P \cup {p})
    BY <2>1, <2>2, <2>3, <2>4, ToldShare
  <2>9. Told(StageOf(z, Shares, m), Mixed(m), Among(m))
    BY <2>5, <2>6, <2>7, <2>8, Zenon
  <2>10. m \in 0 .. N
    BY <1>1
  <2> QED
    BY <2>9, <2>10
<1> HIDE DEF good
<1>6. 0 .. N \subseteq good
  <2> HIDE DEF N
  <2>1. \A k \in 1 .. N : k - 1 \in good => k \in good
    BY <1>5
  <2> QED
    BY <1>1, <1>4, <2>1, Induction
<1> QED
  BY <1>6 DEF good, z

(* The tables of the property, which are a recursive function. *)
TablesOf(E) ==
  CHOOSE f : f = [i \in 0 .. Len(E) |-> IF i = 0 THEN Known("before") ELSE Apply(f[i - 1], E[i])]

(* A recursive function is the tables that the events lead through. *)
LEMMA TablesAre ==
  ASSUME NEW T, NEW E \in Seq(T), NEW t, Replayed(t, E)
  PROVE  \A i \in 0 .. Len(E) : TablesOf(E)[i] = t[i]
<1> DEFINE N == Len(E)
           f == TablesOf(E)
           K == Known("before")
           Equals(g) == g = [i \in 0 .. N |-> IF i = 0 THEN K ELSE Apply(g[i - 1], E[i])]
<1>1. N \in Nat
  OBVIOUS
<1>2. t \in [0 .. N -> PidTables] /\ t[0] = K /\ \A i \in 1 .. N : t[i] = Apply(t[i - 1], E[i])
  BY DEF Replayed
<1> HIDE DEF N, K
<1>3. Equals(t)
  <2>1. t = [i \in 0 .. N |-> t[i]]
    BY <1>2
  <2>2. ASSUME NEW i \in 0 .. N PROVE t[i] = IF i = 0 THEN K ELSE Apply(t[i - 1], E[i])
    <3>1. i = 0 \/ i \in 1 .. N
      BY <1>1
    <3> QED
      BY <1>2, <3>1
  <2> QED
    BY <2>1, <2>2
<1>4. f = CHOOSE g : Equals(g)
  BY DEF TablesOf, N, K
<1> HIDE DEF f
<1>5. Equals(f)
  <2> HIDE DEF Equals
  <2> QED
    BY <1>3, <1>4, Zenon
<1>6. \A i \in 0 .. N : f[i] = IF i = 0 THEN K ELSE Apply(f[i - 1], E[i])
  BY <1>5, Zenon
<1> DEFINE good == {i \in 0 .. N : f[i] = t[i]}
<1>7. 0 \in good
  BY <1>1, <1>2, <1>6
<1>8. ASSUME NEW k \in 1 .. N, k - 1 \in good PROVE k \in good
  <2>1. k \in 0 .. N /\ k # 0
    BY <1>1
  <2>2. f[k] = Apply(f[k - 1], E[k]) /\ f[k - 1] = t[k - 1]
    BY <1>6, <1>8, <2>1
  <2>3. f[k] = t[k]
    BY <1>2, <2>2
  <2> QED
    BY <2>1, <2>3
<1> HIDE DEF good
<1>9. 0 .. N \subseteq good
  <2>1. \A k \in 1 .. N : k - 1 \in good => k \in good
    BY <1>8
  <2> QED
    BY <1>1, <1>7, <2>1, Induction
<1> QED
  BY <1>9 DEF good, f, N

(* When all PIDs have been dealt with, the table is that of the later snapshot. *)
LEMMA AllMixed ==
  ASSUME DeltaTyped
  PROVE  Mixed(Len(AllPids)) = Known("after")
<1> DEFINE N == Len(AllPids)
<1>1. ASSUME NEW p \in Either PROVE \E i \in 1 .. N : AllPids[i] = p
  BY AllPidsRise DEF Climbs
<1>2. ASSUME NEW p \in Pids
      PROVE  (IF p \in Among(N) THEN Known("after")[p] ELSE Known("before")[p])
               = Known("after")[p]
  <2>1. CASE p \in Either
    <3>1. p \in Among(N)
      BY <1>1, <2>1 DEF Among
    <3> QED
      BY <3>1
  <2>2. CASE p \notin Either
    BY <2>2, SnapshotsSay
  <2> QED
    BY <2>1, <2>2
<1>3. Known("after") = [p \in Pids |-> Known("after")[p]]
  BY DEF Known
<1> QED
  BY <1>2, <1>3 DEF Mixed

(* The invariant implies the property. *)
LEMMA DeltaInvRight == DeltaInv => DeltaRight
<1>1. SUFFICES ASSUME DeltaInv, ~HasLeft, ~HasRight
               PROVE
                 /\ events = PrimaryEvents
                 /\ \A i \in DOMAIN events :
                      /\ events[i].pid \notin UnknownPids
                      /\ events[i].event = "started"
                           => events[i].after.start \in BeforeTicks + 1 .. AfterTicks
                      /\ \A j \in 1 .. i - 1 : events[j].pid = events[i].pid =>
                           events[j].event = "exited" /\ events[i].event = "started"
                 /\ selection = "all-changes" =>
                      /\ \A i \in DOMAIN events :
                           TablesOf(events)[i - 1][events[i].pid] = events[i].before
                      /\ TablesOf(events)[Len(events)] = Known("after")
  BY Zenon DEF DeltaRight, TablesOf
<1>2. DeltaTyped
  BY <1>1 DEF DeltaInv
<1>3. PICK m \in 0 .. Len(AllPids) :
        Merged(m, left, right, events, rows.before, rows.after, AllPids, Shares)
  BY <1>1 DEF DeltaInv
<1>4. m = Len(AllPids)
  <2>1. ~(left <= Len(rows.before)) /\ ~(right <= Len(rows.after))
    BY <1>1 DEF HasLeft, HasRight
  <2>2. /\ Sure("before") \in SUBSET Nat /\ Sure("after") \in SUBSET Nat
        /\ Climbs(rows.before, Sure("before")) /\ Climbs(rows.after, Sure("after"))
        /\ Climbs(AllPids, Sure("before") \cup Sure("after"))
    BY <1>2, RowsRise
  <2> QED
    BY <1>3, <2>1, <2>2, AllTaken
<1>5. events = StageOf(AllPids, Shares, Len(AllPids))
  BY <1>3, <1>4 DEF Merged
<1>6. events = PrimaryEvents
  BY <1>5, PrimaryIs, Zenon
<1>7. Len(AllPids) \in 0 .. Len(AllPids)
  BY <1>3, <1>4
<1> DEFINE M == Mixed(Len(AllPids))
           P == Among(Len(AllPids))
<1>8. Told(events, M, P)
  BY <1>2, <1>5, <1>7, StagesTold
<1>9. M = Known("after")
  BY <1>2, AllMixed
<1> HIDE DEF M, P
<1>10. events \in Seq(Happens) /\ DOMAIN events = 1 .. Len(events) /\ Len(events) \in Nat
  BY <1>8 DEF Told
<1>11. ASSUME NEW i \in 1 .. Len(events)
       PROVE  /\ events[i].pid \notin UnknownPids
              /\ events[i].event = "started"
                   => events[i].after.start \in BeforeTicks + 1 .. AfterTicks
              /\ \A j \in 1 .. i - 1 : events[j].pid = events[i].pid =>
                   events[j].event = "exited" /\ events[i].event = "started"
  <2>1. Sound(events[i])
    BY <1>8 DEF Told, Orderly
  <2>2. ASSUME NEW j \in 1 .. i - 1, events[j].pid = events[i].pid
        PROVE  events[j].event = "exited" /\ events[i].event = "started"
    <3>1. j \in 1 .. Len(events) /\ j < i
      BY <1>10
    <3>2. MayFollow(events[j], events[i])
      BY <1>8, <3>1 DEF Told, Orderly
    <3> QED
      BY <2>2, <3>2 DEF MayFollow
  <2> QED
    BY <2>1, <2>2 DEF Sound
<1>12. ASSUME selection = "all-changes"
       PROVE  /\ \A i \in 1 .. Len(events) :
                   TablesOf(events)[i - 1][events[i].pid] = events[i].before
              /\ TablesOf(events)[Len(events)] = Known("after")
  <2>1. PICK t : Replayed(t, events) /\ t[Len(events)] = M
    BY <1>8, <1>12 DEF Told, LeadsTo
  <2>2. \A i \in 0 .. Len(events) : TablesOf(events)[i] = t[i]
    BY <1>10, <2>1, TablesAre
  <2>3. ASSUME NEW i \in 1 .. Len(events)
        PROVE  TablesOf(events)[i - 1][events[i].pid] = events[i].before
    <3>1. i - 1 \in 0 .. Len(events)
      BY <1>10
    <3>2. t[i - 1][events[i].pid] = events[i].before
      BY <2>1 DEF Replayed
    <3> QED
      BY <2>2, <3>1, <3>2
  <2>4. Len(events) \in 0 .. Len(events)
    BY <1>10
  <2> QED
    BY <1>9, <2>1, <2>2, <2>3, <2>4
<1> QED
  BY <1>6, <1>10, <1>11, <1>12

(* Both derivations report the same events: they are about known PIDs only, *)
(* a PID's exit precedes its reuse, and all of them lead from one snapshot  *)
(* to the other.                                                            *)
THEOREM DeltasRight == DeltaSpec => []DeltaRight
<1> QED
  BY DeltaInvStart, DeltaInvStep, DeltaInvRight, PTL DEF DeltaSpec
================================================================================
