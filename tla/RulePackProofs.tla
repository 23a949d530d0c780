--------------------------- MODULE RulePackProofs ---------------------------
(***************************************************************************)
(* Proofs about RulePack for every directory and every number of edits:    *)
(* what is loaded is what the manifest lists, and verify accepts exactly   *)
(* the manifests that create has written to the end.                       *)
(***************************************************************************)
EXTENDS RulePack, FiniteSetTheorems, SequenceTheorems, TLAPS

PartialOf(U) == UNION {[S -> Contents] : S \in SUBSET U}
Partial == PartialOf(Files)
Manifests == [entries : Partial, ragged : BOOLEAN, whole : BOOLEAN, exact : BOOLEAN]
Elements(s) == {s[k] : k \in 1 .. Len(s)}

TypeOK ==
  /\ files \in [Paths -> Contents \cup {"absent"}]
  /\ manifest \in Manifests /\ m \in Manifests
  /\ writer \in {"idle", "walk", "write"}
  /\ reader \in {"idle", "hash", "verified", "load", "loaded", "refused", "failed"}
  /\ todo \in Seq(Files) /\ left \in Seq(Paths)
  /\ hashes \in Partial /\ loaded \in PartialOf(Paths)
  /\ steady \in BOOLEAN /\ touched \subseteq Paths

\* Entries e are the files of the directory as they are.
IsDirectory(e) == DOMAIN e = Present /\ Present # {} /\ \A f \in Present : e[f] = files[f]

\* Undisturbed, the walk has hashed what it has hashed as it still is, and has the rest
\* before it; what is about to be written is the directory.
WalkInv ==
  /\ steady => /\ writer = "walk" /\ Present # {}
               /\ DOMAIN hashes \cup Elements(todo) = Present
               /\ \A f \in DOMAIN hashes : hashes[f] = files[f]
  /\ writer = "write" => ~manifest.whole /\ (manifest.exact => IsDirectory(hashes))

\* A manifest M of the directory as it is lists all of it if it is whole, and not all of
\* it if it is not.
Exact(M) ==
  M.exact => IF M.whole THEN ~M.ragged /\ IsDirectory(M.entries)
             ELSE DOMAIN M.entries \subseteq Present /\ DOMAIN M.entries # Present

\* Verify has compared what it has gone past and nobody has touched since.
VerifyInv ==
  /\ reader = "hash" =>
       /\ Exact(m) /\ Elements(left) \subseteq DOMAIN m.entries
       /\ \A f \in DOMAIN m.entries \ touched : f \in Elements(left) \/ files[f] = m.entries[f]
  /\ reader \in {"verified", "load", "loaded"} =>
       \A f \in Files \ touched : /\ f \in Present <=> f \in DOMAIN m.entries
                                  /\ f \in Present => files[f] = m.entries[f]

\* The load has what it has read, and has the rest before it.
LoadInv ==
  /\ reader \in {"hash", "verified"} => loaded = << >>
  /\ reader = "loaded" => left = << >>
  /\ reader \in {"load", "loaded"} =>
       \A f \in Lower \ touched : /\ f \in Present <=> f \in DOMAIN loaded \cup Elements(left)
                                  /\ f \in DOMAIN loaded => loaded[f] = files[f]

IInv == TypeOK /\ WalkInv /\ Exact(manifest) /\ VerifyInv /\ LoadInv /\ VerifiesExactlyWhole
----------------------------------------------------------------------------
LEMMA PathFacts ==
  /\ Files \in SUBSET Paths /\ Paths \in SUBSET Paths /\ Root \in Paths \ Files
  /\ Lower \subseteq Files /\ Files \cap (Nested \cup {Root}) = {}
BY FilesAssumption DEF Paths

(* Paths in their order, and files one after the other.                    *)

\* Every set of paths has an enumeration in their order: a path comes at the place
\* that the number of paths up to it tells.
LEMMA Enumeration ==
  ASSUME NEW S \in SUBSET Paths
  PROVE  \E s \in [1 .. Cardinality(S) -> S] : \A i, j \in DOMAIN s : i < j => s[i] < s[j]
<1> DEFINE n == Cardinality(S)
           UpTo(x) == {y \in S : y <= x}
           rank == [x \in S |-> Cardinality(UpTo(x))]
<1>1. IsFiniteSet(S) /\ S \subseteq Nat /\ n \in Nat
  BY FilesAssumption, FS_Subset, FS_CardinalityType
<1>2. ASSUME NEW x \in S PROVE IsFiniteSet(UpTo(x)) /\ rank[x] \in 1 .. n
  <2>1. UpTo(x) \in SUBSET S /\ x \in UpTo(x)
    BY <1>1
  <2>2. IsFiniteSet(UpTo(x)) /\ Cardinality(UpTo(x)) <= n
    BY <1>1, <2>1, FS_Subset
  <2>3. Cardinality(UpTo(x)) \in Nat /\ Cardinality(UpTo(x)) # 0
    BY <2>1, <2>2, FS_CardinalityType, FS_EmptySet
  <2> QED
    BY <1>1, <2>2, <2>3
<1>3. ASSUME NEW x \in S, NEW y \in S, x < y PROVE rank[x] < rank[y]
  <2>0. x \in Nat /\ y \in Nat /\ \A z \in S : z \in Nat
    BY <1>1
  <2>6. \A z \in S : z <= x => z <= y
    BY <2>0, <1>3
  <2>1. UpTo(x) \in SUBSET UpTo(y)
    BY <2>6
  <2>2. y \in UpTo(y) /\ y \notin UpTo(x)
    BY <1>1, <1>3
  <2>3. Cardinality(UpTo(x)) <= Cardinality(UpTo(y))
        /\ (Cardinality(UpTo(x)) = Cardinality(UpTo(y)) => UpTo(x) = UpTo(y))
    BY <1>2, <2>1, FS_Subset
  <2>4. rank[x] = Cardinality(UpTo(x)) /\ rank[y] = Cardinality(UpTo(y))
    OBVIOUS
  <2>5. rank[x] \in Nat /\ rank[y] \in Nat
    BY <1>1, <1>2
  <2> HIDE DEF rank, UpTo
  <2> QED
    BY <2>2, <2>3, <2>4, <2>5
<1>4. \A k \in 1 .. n : \E x \in S : rank[x] = k
  <2>1. rank \in [S -> 1 .. n]
    BY <1>2
  <2>2. \A x, y \in S : rank[x] = rank[y] => x = y
    <3> HIDE DEF rank
    <3> QED
      BY <1>1, <1>3, <2>1
  <2> HIDE DEF rank
  <2>3. rank \in Injection(S, 1 .. n)
    BY <2>1, <2>2 DEF Injection, IsInjective
  <2>4. IsFiniteSet(1 .. n) /\ Cardinality(1 .. n) = n
    BY <1>1, FS_Interval
  <2>5. rank \in Surjection(S, 1 .. n)
    BY <2>3, <2>4, FS_Injection
  <2> QED
    BY <2>5 DEF Surjection
<1> DEFINE s == [k \in 1 .. n |-> CHOOSE x \in S : rank[x] = k]
<1>5. \A k \in 1 .. n : s[k] \in S /\ rank[s[k]] = k
  BY <1>4
<1>6. s \in [1 .. n -> S]
  BY <1>5
<1> HIDE DEF s, rank
<1>7. ASSUME NEW i \in 1 .. n, NEW j \in 1 .. n, i < j PROVE s[i] < s[j]
  <2>1. s[i] \in S /\ s[j] \in S /\ rank[s[i]] = i /\ rank[s[j]] = j
    BY <1>5
  <2>2. s[i] \in Nat /\ s[j] \in Nat
    BY <1>1, <2>1
  <2>3. i \in Int /\ j \in Int
    OBVIOUS
  <2>4. ~(s[j] < s[i]) /\ s[i] # s[j]
    BY <1>3, <1>7, <2>1, <2>3
  <2> QED
    BY <2>2, <2>4
<1> QED
  BY <1>6, <1>7

LEMMA SortedFacts ==
  ASSUME NEW U \in SUBSET Paths, NEW S \in SUBSET U
  PROVE  /\ Sorted(S) \in Seq(U) /\ Elements(Sorted(S)) = S
         /\ Len(Sorted(S)) \in Nat
         /\ \A i, j \in 1 .. Len(Sorted(S)) : i # j => Sorted(S)[i] # Sorted(S)[j]
<1> DEFINE s == Sorted(S)
           n == Cardinality(S)
<1>1. IsFiniteSet(S) /\ S \subseteq Nat /\ n \in Nat
  BY FilesAssumption, FS_Subset, FS_CardinalityType
<1>2. s \in [1 .. n -> S] /\ \A i, j \in DOMAIN s : i < j => s[i] < s[j]
  BY Enumeration DEF Sorted
<1> HIDE DEF s
<1>3. s \in Seq(U) /\ Len(s) = n
  <2>1. s \in [1 .. n -> U]
    BY <1>2
  <2> QED
    BY <1>1, <2>1, SeqDef
<1>4. ASSUME NEW i \in 1 .. n, NEW j \in 1 .. n, i # j PROVE s[i] # s[j]
  <2>1. DOMAIN s = 1 .. n /\ s[i] \in Nat /\ s[j] \in Nat
    BY <1>1, <1>2
  <2>2. i < j \/ j < i
    BY <1>4
  <2> QED
    BY <1>2, <2>1, <2>2
<1>5. s \in Injection(1 .. n, S)
  BY <1>2, <1>4 DEF Injection, IsInjective
<1>6. Cardinality(1 .. n) = n
  BY <1>1, FS_Interval
<1>7. s \in Surjection(1 .. n, S)
  BY <1>1, <1>5, <1>6, FS_Injection
<1>8. {s[k] : k \in 1 .. n} = S
  BY <1>2, <1>7 DEF Surjection
<1> QED
  BY <1>1, <1>3, <1>4, <1>8 DEF Elements, s

LEMMA Pops ==
  ASSUME NEW U, NEW s \in Seq(U), s # << >>
  PROVE  /\ Head(s) \in U /\ Tail(s) \in Seq(U)
         /\ Elements(s) = {Head(s)} \cup Elements(Tail(s))
<1>1. Len(s) \in Nat \ {0} /\ DOMAIN s = 1 .. Len(s)
  BY EmptySeq, LenProperties
<1>2. /\ Head(s) \in U /\ Tail(s) \in Seq(U) /\ Head(s) = s[1]
      /\ Len(Tail(s)) = Len(s) - 1 /\ \A i \in 1 .. Len(Tail(s)) : Tail(s)[i] = s[i + 1]
  BY HeadTailProperties
<1>3. \A k \in 1 .. Len(s) : k = 1 \/ (k - 1 \in 1 .. Len(Tail(s)) /\ s[k] = Tail(s)[k - 1])
  BY <1>1, <1>2
<1>4. \A k \in 1 .. Len(Tail(s)) : k + 1 \in 1 .. Len(s)
  BY <1>1, <1>2
<1> QED
  BY <1>1, <1>2, <1>3, <1>4 DEF Elements

LEMMA Empty ==
  /\ \A U : << >> \in Seq(U) /\ << >> \in PartialOf(U)
  /\ << >> \in Partial /\ Elements(<< >>) = {} /\ DOMAIN << >> = {}
<1>1. DOMAIN << >> = {} /\ Len(<< >>) = 0
  OBVIOUS
<1>2. << >> \in [{} -> Contents]
  OBVIOUS
<1>3. \A U : << >> \in Seq(U)
  OBVIOUS
<1>4. \A U : << >> \in PartialOf(U)
  BY <1>2 DEF PartialOf
<1> QED
  BY <1>1, <1>3, <1>4 DEF Elements, Partial
----------------------------------------------------------------------------
(* Entries and manifests as the steps change them.                         *)

LEMMA PartialFacts ==
  ASSUME NEW U, NEW e \in PartialOf(U)
  PROVE  DOMAIN e \in SUBSET U /\ \A f \in DOMAIN e : e[f] \in Contents
<1>1. PICK S \in SUBSET U : e \in [S -> Contents]
  BY DEF PartialOf
<1> QED
  BY <1>1

LEMMA PartOf ==
  ASSUME NEW S \in SUBSET Files, NEW e, \A f \in S : e[f] \in Contents
  PROVE  [f \in S |-> e[f]] \in Partial
<1>1. [f \in S |-> e[f]] \in [S -> Contents]
  OBVIOUS
<1> QED
  BY <1>1 DEF Partial, PartialOf

\* Reading f adds it to what has been read, with what it holds.
LEMMA Reads ==
  ASSUME TypeOK, NEW U \in SUBSET Paths, NEW e \in PartialOf(U), NEW f \in U, files[f] # "absent"
  PROVE  Read(e, f) \in PartialOf(U)
<1> DEFINE S == DOMAIN e \cup {f}
           r == [g \in S |-> IF g = f THEN files[f] ELSE e[g]]
<1>1. S \in SUBSET U
  BY PartialFacts
<1>2. \A g \in S : r[g] \in Contents
  BY PartialFacts DEF TypeOK
<1>3. r \in [S -> Contents]
  BY <1>2
<1>4. r \in PartialOf(U)
  BY <1>1, <1>3 DEF PartialOf
<1> QED
  BY <1>4 DEF Read

LEMMA ReadFacts ==
  ASSUME NEW e, NEW f
  PROVE  /\ DOMAIN Read(e, f) = DOMAIN e \cup {f} /\ Read(e, f)[f] = files[f]
         /\ \A g \in DOMAIN e : g # f => Read(e, f)[g] = e[g]
BY DEF Read

LEMMA Fields ==
  ASSUME NEW M \in Manifests
  PROVE  /\ M.entries \in Partial /\ M.ragged \in BOOLEAN /\ M.whole \in BOOLEAN
         /\ M.exact \in BOOLEAN
BY DEF Manifests

LEMMA Changed ==
  ASSUME NEW M \in Manifests
  PROVE  /\ LET N == [M EXCEPT !.entries = << >>]
            IN  /\ N \in Manifests /\ N.entries = << >>
                /\ N.ragged = M.ragged /\ N.whole = M.whole /\ N.exact = M.exact
         /\ \A x \in BOOLEAN :
              LET N == [M EXCEPT !.exact = x]
              IN  /\ N \in Manifests /\ N.entries = M.entries
                  /\ N.ragged = M.ragged /\ N.whole = M.whole /\ N.exact = x
<1> QED
  BY Empty DEF Manifests

LEMMA Nothing ==
  /\ NoManifest \in Manifests /\ NoManifest.entries = << >>
  /\ ~NoManifest.ragged /\ ~NoManifest.whole /\ ~NoManifest.exact
<1>1. /\ NoManifest.entries = << >>
      /\ ~NoManifest.ragged /\ ~NoManifest.whole /\ ~NoManifest.exact
  BY DEF NoManifest
<1>2. NoManifest \in Manifests
  BY Empty, Zenon DEF NoManifest, Manifests
<1> QED
  BY <1>1, <1>2
----------------------------------------------------------------------------
(* The invariant holds at first and is kept by every step.                 *)

LEMMA InitInv == Init => IInv
<1> SUFFICES ASSUME Init PROVE IInv
  OBVIOUS
<1> USE Empty, Nothing DEF Init
<1>1. TypeOK
  BY DEF TypeOK
<1> QED
  BY <1>1 DEF IInv, WalkInv, Exact, VerifyInv, LoadInv, VerifiesExactlyWhole

\* A manifest that is being written lacks the last of the paths at least.
LEMMA WrittenPart ==
  ASSUME TypeOK, WritePart
  PROVE  /\ manifest' \in Manifests
         /\ manifest'.whole = manifest.whole /\ manifest'.exact = manifest.exact
         /\ DOMAIN manifest'.entries \subseteq DOMAIN hashes
         /\ DOMAIN manifest'.entries # DOMAIN hashes
<1> DEFINE s == Sorted(DOMAIN hashes)
<1>0. manifest \in Manifests /\ hashes \in Partial
  BY DEF TypeOK
<1>1. PICK n \in 0 .. Len(s) - 1, ragged \in BOOLEAN :
        manifest' = [manifest EXCEPT !.entries = [f \in {s[k] : k \in 1 .. n} |-> hashes[f]],
                                     !.ragged = ragged]
  BY DEF WritePart
<1> DEFINE some == {s[k] : k \in 1 .. n}
<1>2. /\ Len(s) \in Nat /\ {s[k] : k \in 1 .. Len(s)} = DOMAIN hashes
      /\ \A i, j \in 1 .. Len(s) : i # j => s[i] # s[j]
  BY <1>0, SortedFacts, PartialFacts, PathFacts DEF Elements, Partial
<1> HIDE DEF s
<1>3. some \subseteq DOMAIN hashes
  BY <1>2
<1>4. s[Len(s)] \in DOMAIN hashes /\ s[Len(s)] \notin some
  BY <1>2
<1>5. [f \in some |-> hashes[f]] \in Partial
  <2>1. DOMAIN hashes \in SUBSET Files /\ \A f \in DOMAIN hashes : hashes[f] \in Contents
    BY <1>0, PartialFacts DEF Partial
  <2> QED
    BY <1>3, <2>1, PartOf
<1> DEFINE e == [f \in some |-> hashes[f]]
<1>6. e \in Partial /\ manifest' = [manifest EXCEPT !.entries = e, !.ragged = ragged]
      /\ DOMAIN e = some
  BY <1>1, <1>5
<1> HIDE DEF some, e
<1>7. manifest' \in Manifests
  BY <1>0, <1>6 DEF Manifests
<1>8. manifest'.entries = e
  BY <1>0, <1>6 DEF Manifests
<1>9. manifest'.whole = manifest.whole
  BY <1>0, <1>6 DEF Manifests
<1>10. manifest'.exact = manifest.exact
  BY <1>0, <1>6 DEF Manifests
<1> QED
  BY <1>3, <1>4, <1>6, <1>7, <1>8, <1>9, <1>10

\* Emptying the manifest leaves none of it, and WriteManifest leaves all of it.
LEMMA Truncated ==
  ASSUME TypeOK, TruncateManifest
  PROVE  /\ manifest' \in Manifests /\ manifest'.entries = << >>
         /\ ~manifest'.whole /\ manifest'.exact = steady
<1>1. manifest' = [NoManifest EXCEPT !.exact = steady] /\ steady \in BOOLEAN
  BY DEF TypeOK, TruncateManifest
<1>2. manifest' \in Manifests /\ manifest'.entries = << >>
  BY <1>1, Nothing DEF Manifests
<1>3. ~manifest'.whole
  BY <1>1, Nothing DEF Manifests
<1>4. manifest'.exact = steady
  BY <1>1, Nothing DEF Manifests
<1> QED
  BY <1>2, <1>3, <1>4

LEMMA Written ==
  ASSUME TypeOK, WriteManifest
  PROVE  /\ manifest' \in Manifests /\ manifest'.entries = hashes
         /\ ~manifest'.ragged /\ manifest'.whole /\ manifest'.exact = manifest.exact
<1> DEFINE N == [manifest EXCEPT !.entries = hashes, !.ragged = FALSE, !.whole = TRUE]
<1>1. manifest' = N /\ manifest \in Manifests /\ hashes \in Partial
  BY DEF TypeOK, WriteManifest
<1>2. N \in Manifests /\ N.entries = hashes
  BY <1>1 DEF Manifests
<1>3. ~N.ragged /\ N.whole
  BY <1>1 DEF Manifests
<1>4. N.exact = manifest.exact
  BY <1>1 DEF Manifests
<1> HIDE DEF N
<1> QED
  BY <1>1, <1>2, <1>3, <1>4

LEMMA NextType == IInv /\ [Next]_vars => TypeOK'
<1> SUFFICES ASSUME IInv, [Next]_vars PROVE TypeOK'
  OBVIOUS
<1>0. /\ TypeOK /\ manifest \in Manifests /\ m \in Manifests /\ hashes \in Partial
      /\ loaded \in PartialOf(Paths) /\ touched \subseteq Paths
      /\ Present \in SUBSET Files /\ RuleFiles \in SUBSET Paths /\ Files \in SUBSET Paths
      /\ Root \in Paths
  BY FilesAssumption DEF IInv, TypeOK, Present, RuleFiles, Paths
<1>1. ASSUME NEW f \in Paths, Edit(f) PROVE TypeOK'
  <2>1. files' \in [Paths -> Contents \cup {"absent"}]
    BY <1>0, <1>1, ContentsAssumption DEF Edit, TypeOK
  <2>2. manifest' \in Manifests /\ m' \in Manifests
    BY <1>0, <1>1, Changed DEF Edit
  <2> QED
    BY <1>0, <1>1, <2>1, <2>2 DEF Edit, TypeOK, creator
<1>2. CASE Create
  BY <1>0, <1>2, SortedFacts, Empty DEF Create, TypeOK, Walked, verifier
<1>3. CASE HashForManifest
  <2>1. Head(todo) \in Files /\ Tail(todo) \in Seq(Files)
    BY <1>3, Pops DEF HashForManifest, IInv, TypeOK
  <2>2. todo' \in Seq(Files) /\ hashes' \in Partial /\ writer' \in {"idle", "walk", "write"}
    <3>1. files[Head(todo)] # "absent" => Read(hashes, Head(todo)) \in PartialOf(Files)
      BY <1>0, <2>1, Reads, PathFacts DEF Partial
    <3> QED
      BY <1>0, <1>3, <2>1, <3>1, Empty DEF HashForManifest, TypeOK, Partial
  <2> QED
    BY <1>0, <1>3, <2>2 DEF HashForManifest, TypeOK, verifier
<1>4. CASE TruncateManifest
  <2>1. manifest' \in Manifests
    BY <1>0, <1>4, Truncated
  <2> QED
    BY <1>0, <1>4, <2>1 DEF TruncateManifest, TypeOK, verifier
<1>5. CASE WritePart
  <2>3. manifest' \in Manifests
    BY <1>0, <1>5, WrittenPart
  <2> QED
    BY <1>0, <1>5, <2>3 DEF WritePart, TypeOK, creator, verifier
<1>6. CASE WriteManifest
  <2>1. manifest' \in Manifests
    BY <1>0, <1>6, Written
  <2> QED
    BY <1>0, <1>6, <2>1, Empty DEF WriteManifest, TypeOK, verifier
<1>7. CASE StopCreate
  BY <1>0, <1>7, Empty DEF StopCreate, TypeOK, verifier
<1>8. CASE Verify
  <2>3. [manifest EXCEPT !.entries = << >>] \in Manifests
    BY <1>0, Changed
  <2>1. m' \in Manifests
    BY <1>0, <1>8, <2>3 DEF Verify
  <2>2. left' \in Seq(Paths)
    <3>1. manifest.entries \in PartialOf(Files)
      BY <1>0, Fields DEF Partial
    <3>2. DOMAIN manifest.entries \in SUBSET Paths
      BY <3>1, PartialFacts, PathFacts
    <3> QED
      <4>1. Sorted(DOMAIN manifest.entries) \in Seq(Paths)
        BY <3>2, SortedFacts, PathFacts
      <4> QED
        BY <1>8, <4>1, Empty DEF Verify
  <2> QED
    BY <1>0, <1>8, <2>1, <2>2, Empty DEF Verify, TypeOK, creator
<1>9. CASE VerifyManifestEntry
  <2>3. [m EXCEPT !.entries = << >>] \in Manifests
    BY <1>0, Changed
  <2>1. m' \in Manifests
    BY <1>0, <1>9, <2>3 DEF VerifyManifestEntry
  <2>2. left' \in Seq(Paths)
    <3>1. left # << >> /\ left \in Seq(Paths) => Tail(left) \in Seq(Paths)
      BY Pops
    <3> QED
      BY <1>0, <1>9, <3>1, Empty DEF VerifyManifestEntry, TypeOK
  <2> QED
    BY <1>0, <1>9, <2>1, <2>2, Empty DEF VerifyManifestEntry, TypeOK, creator
<1>10. CASE VerifyNoUnlistedYAML
  <2>3. [m EXCEPT !.entries = << >>] \in Manifests
    BY <1>0, Changed
  <2>1. m' \in Manifests
    BY <1>0, <1>10, <2>3 DEF VerifyNoUnlistedYAML
  <2> QED
    BY <1>0, <1>10, <2>1 DEF VerifyNoUnlistedYAML, TypeOK, creator
<1>11. CASE LoadDir
  BY <1>0, <1>11, SortedFacts DEF LoadDir, TypeOK, creator
<1>12. CASE LoadFile
  <2>1. /\ Head(left) \in Paths /\ Tail(left) \in Seq(Paths)
        /\ files[Head(left)] # "absent" => Read(loaded, Head(left)) \in PartialOf(Paths)
    BY <1>0, <1>12, Pops, Reads, PathFacts DEF LoadFile, TypeOK
  <2>2. left' \in Seq(Paths) /\ loaded' \in PartialOf(Paths) /\ m' \in Manifests
    BY <1>0, <1>12, <2>1, Empty, Nothing DEF LoadFile
  <2>3. reader' \in {"load", "failed"} /\ touched' \subseteq Paths
    BY <1>0, <1>12 DEF LoadFile
  <2> QED
    BY <1>0, <1>12, <2>2, <2>3 DEF LoadFile, TypeOK, creator
<1>13. CASE Loaded
  BY <1>0, <1>13 DEF Loaded, TypeOK, creator
<1>14. CASE UNCHANGED vars
  BY <1>0, <1>14 DEF vars, TypeOK, creator, verifier
<1> QED
  BY <1>1, <1>2, <1>3, <1>4, <1>5, <1>6, <1>7, <1>8, <1>9, <1>10, <1>11, <1>12, <1>13, <1>14
  DEF Next, CreateStep, ReadStep

LEMMA NextWalk == IInv /\ [Next]_vars => WalkInv'
<1> SUFFICES ASSUME IInv, [Next]_vars PROVE WalkInv'
  OBVIOUS
<1>0. /\ TypeOK /\ WalkInv /\ manifest \in Manifests /\ hashes \in Partial
      /\ Present \in SUBSET Files
  BY DEF IInv, TypeOK, Present
<1>P. (\A f \in Files : files'[f] = files[f]) => Present' = Present
  BY DEF Present
<1>1. ASSUME NEW f \in Paths, Edit(f) PROVE WalkInv'
  <2>1. manifest'.whole = manifest.whole /\ ~manifest'.exact
    BY <1>0, <1>1, Changed DEF Edit
  <2> QED
    BY <1>0, <1>1, <2>1 DEF Edit, WalkInv, creator
<1>2. CASE Create
  BY <1>0, <1>P, <1>2, SortedFacts, PathFacts, Empty DEF Create, Walked, WalkInv
<1>3. CASE HashForManifest
  <2>1. todo \in Seq(Files) /\ todo # << >>
    BY <1>0, <1>3 DEF HashForManifest, TypeOK
  <2>2. Head(todo) \in Files /\ Elements(todo) = {Head(todo)} \cup Elements(Tail(todo))
    BY <2>1, Pops
  <2>3. CASE files[Head(todo)] = "absent"
    <3>1. Head(todo) \notin Present
      BY <2>3 DEF Present
    <3>2. ~steady
      BY <1>0, <2>2, <3>1 DEF WalkInv
    <3> QED
      BY <1>3, <2>3, <3>2 DEF HashForManifest, WalkInv
  <2>4. CASE files[Head(todo)] # "absent"
    <3>1. /\ hashes' = Read(hashes, Head(todo))
          /\ todo' = Tail(todo) /\ UNCHANGED <<files, writer, steady>> /\ writer = "walk"
      BY <1>3, <2>4 DEF HashForManifest
    <3>2. /\ DOMAIN hashes' = DOMAIN hashes \cup {Head(todo)}
          /\ hashes'[Head(todo)] = files[Head(todo)]
          /\ \A g \in DOMAIN hashes : g # Head(todo) => hashes'[g] = hashes[g]
      BY <3>1, ReadFacts, Zenon
    <3> QED
      BY <1>0, <1>P, <2>2, <3>1, <3>2 DEF WalkInv
  <2> QED
    BY <2>3, <2>4
<1>4. CASE TruncateManifest
  <2>1. ~manifest'.whole /\ manifest'.exact = steady
    BY <1>0, <1>4, Truncated
  <2>3. steady => IsDirectory(hashes)
    BY <1>0, <1>4, Empty DEF TruncateManifest, WalkInv, IsDirectory
  <2>4. hashes' = hashes /\ \A f \in Files : files'[f] = files[f]
    BY <1>0, <1>4, PathFacts DEF TruncateManifest, TypeOK
  <2> QED
    BY <1>0, <1>4, <1>P, <2>1, <2>3, <2>4 DEF TruncateManifest, WalkInv, IsDirectory
<1>5. CASE WritePart
  <2>1. manifest'.whole = manifest.whole /\ manifest'.exact = manifest.exact
    BY <1>0, <1>5, WrittenPart
  <2> QED
    BY <1>0, <1>P, <1>5, <2>1 DEF WritePart, WalkInv, IsDirectory, creator
<1>6. CASE WriteManifest \/ StopCreate
  BY <1>0, <1>6 DEF WriteManifest, StopCreate, WalkInv
<1>7. CASE UNCHANGED <<files, manifest, creator, steady>>
  BY <1>0, <1>P, <1>7 DEF WalkInv, IsDirectory, creator
<1> QED
  BY <1>1, <1>2, <1>3, <1>4, <1>5, <1>6, <1>7 DEF Next, CreateStep, ReadStep, vars, creator,
     Verify, VerifyManifestEntry, VerifyNoUnlistedYAML, LoadDir, LoadFile, Loaded

LEMMA NextManifest == IInv /\ [Next]_vars => Exact(manifest)'
<1> SUFFICES ASSUME IInv, [Next]_vars PROVE Exact(manifest)'
  OBVIOUS
<1>0. /\ TypeOK /\ WalkInv /\ Exact(manifest) /\ manifest \in Manifests /\ hashes \in Partial
  BY DEF IInv, TypeOK
<1>P. (\A f \in Files : files'[f] = files[f]) => Present' = Present
  BY DEF Present
<1>1. ASSUME NEW f \in Paths, Edit(f) PROVE Exact(manifest)'
  <2>1. ~manifest'.exact
    BY <1>0, <1>1, Changed DEF Edit
  <2> QED
    BY <2>1 DEF Exact
<1>2. CASE TruncateManifest
  <2>1. manifest'.exact = steady /\ ~manifest'.whole /\ manifest'.entries = << >>
    BY <1>0, <1>2, Truncated
  <2>2. \A f \in Files : files'[f] = files[f]
    BY <1>0, <1>2, PathFacts DEF TruncateManifest, TypeOK
  <2> QED
    BY <1>0, <1>P, <1>2, <2>1, <2>2, Empty DEF TruncateManifest, WalkInv, Exact
<1>3. CASE WritePart
  <2>1. /\ manifest'.whole = manifest.whole /\ manifest'.exact = manifest.exact
        /\ DOMAIN manifest'.entries \subseteq DOMAIN hashes
        /\ DOMAIN manifest'.entries # DOMAIN hashes
    BY <1>0, <1>3, WrittenPart
  <2> QED
    BY <1>0, <1>P, <1>3, <2>1 DEF WritePart, WalkInv, Exact, IsDirectory
<1>4. CASE WriteManifest
  <2>1. manifest'.exact = manifest.exact /\ ~manifest'.ragged /\ manifest'.entries = hashes
        /\ manifest'.whole
    BY <1>0, <1>4, Written
  <2> QED
    BY <1>0, <1>P, <1>4, <2>1 DEF WriteManifest, WalkInv, Exact, IsDirectory
<1>5. CASE UNCHANGED <<files, manifest>>
  BY <1>0, <1>P, <1>5 DEF Exact, IsDirectory
<1> QED
  BY <1>1, <1>2, <1>3, <1>4, <1>5 DEF Next, CreateStep, ReadStep, vars, creator,
     Create, HashForManifest, StopCreate,
     Verify, VerifyManifestEntry, VerifyNoUnlistedYAML, LoadDir, LoadFile, Loaded

LEMMA NextVerify == IInv /\ [Next]_vars => VerifyInv' /\ VerifiesExactlyWhole'
<1> SUFFICES ASSUME IInv, [Next]_vars PROVE VerifyInv' /\ VerifiesExactlyWhole'
  OBVIOUS
<1>0. /\ TypeOK /\ VerifyInv /\ VerifiesExactlyWhole /\ Exact(manifest)
      /\ manifest \in Manifests /\ m \in Manifests /\ touched \subseteq Paths
      /\ left \in Seq(Paths) /\ files \in [Paths -> Contents \cup {"absent"}]
  BY DEF IInv, TypeOK
<1>P. /\ (\A f \in Files : files'[f] = files[f]) => Present' = Present
      /\ \A f \in Files : /\ f \in Present <=> files[f] # "absent"
                          /\ f \in Present' <=> files'[f] # "absent"
      /\ Present \in SUBSET Files
  BY DEF Present
<1>E. /\ DOMAIN m.entries \in SUBSET Files
      /\ \A f \in DOMAIN m.entries : m.entries[f] # "absent"
  BY <1>0, Fields, PartialFacts, ContentsAssumption DEF Partial
<1>1. ASSUME NEW f \in Paths, Edit(f) PROVE VerifyInv' /\ VerifiesExactlyWhole'
  <2>1. /\ m'.entries = m.entries /\ ~m'.exact
        /\ UNCHANGED <<reader, left>> /\ touched' = touched \cup {f}
    BY <1>0, <1>1 DEF Edit, Manifests
  <2>2. \A g \in Files \ {f} : files'[g] = files[g] /\ (g \in Present' <=> g \in Present)
    BY <1>0, <1>1, <1>P DEF Edit
  <2> QED
    BY <1>0, <1>E, <2>1, <2>2 DEF VerifyInv, VerifiesExactlyWhole, Exact
<1>2. CASE Verify
  <2>1. CASE manifest.ragged \/ DOMAIN manifest.entries = {}
    <3>1. m'.whole = manifest.whole /\ m'.exact = manifest.exact /\ reader' = "refused"
      BY <1>0, <1>2, <2>1 DEF Verify, Manifests
    <3> QED
      BY <1>0, <2>1, <3>1 DEF VerifyInv, VerifiesExactlyWhole, Exact, IsDirectory
  <2>2. CASE ~(manifest.ragged \/ DOMAIN manifest.entries = {})
    <3>1. m' = manifest /\ reader' = "hash" /\ left' = Sorted(DOMAIN manifest.entries)
          /\ UNCHANGED files
      BY <1>2, <2>2 DEF Verify
    <3>2. Elements(left') = DOMAIN m'.entries
      BY <1>0, <3>1, SortedFacts, Fields, PartialFacts, PathFacts DEF Partial
    <3> QED
      BY <1>0, <1>P, <3>1, <3>2 DEF VerifyInv, VerifiesExactlyWhole, Exact, IsDirectory
  <2> QED
    BY <2>1, <2>2
<1>3. CASE VerifyManifestEntry
  <2>0. left \in Seq(Paths) /\ left # << >> /\ Elements(left) \subseteq DOMAIN m.entries
    BY <1>0, <1>3 DEF VerifyManifestEntry, VerifyInv
  <2>1. /\ Head(left) \in Files /\ Elements(left) = {Head(left)} \cup Elements(Tail(left))
        /\ Head(left) \in DOMAIN m.entries
    BY <2>0, <1>E, Pops
  <2>2. CASE files[Head(left)] # m.entries[Head(left)]
    <3>1. m'.whole = m.whole /\ m'.exact = m.exact /\ reader' = "refused"
      BY <1>0, <1>3, <2>2 DEF VerifyManifestEntry, Manifests
    <3>2. m.exact => ~m.whole
      BY <1>0, <1>3, <2>1, <2>2 DEF VerifyManifestEntry, VerifyInv, Exact, IsDirectory
    <3> QED
      BY <3>1, <3>2 DEF VerifyInv, VerifiesExactlyWhole
  <2>3. CASE files[Head(left)] = m.entries[Head(left)]
    <3>1. /\ reader = "hash" /\ UNCHANGED <<reader, m, files>> /\ left' = Tail(left)
          /\ touched' = touched \ {Head(left)}
      BY <1>3, <2>3 DEF VerifyManifestEntry
    <3> QED
      BY <1>0, <1>P, <2>1, <2>3, <3>1 DEF VerifyInv, VerifiesExactlyWhole, Exact, IsDirectory
  <2> QED
    BY <2>2, <2>3
<1>4. CASE VerifyNoUnlistedYAML
  <2>0. reader = "hash" /\ left = << >> /\ UNCHANGED files
    BY <1>4 DEF VerifyNoUnlistedYAML
  <2>1. CASE Unlisted = {}
    <3>1. reader' = "verified" /\ touched' = touched \cap DOMAIN m.entries /\ UNCHANGED m
      BY <1>4, <2>1 DEF VerifyNoUnlistedYAML
    <3>2. Present \subseteq DOMAIN m.entries
      BY <2>1 DEF Unlisted
    <3>3. \A f \in DOMAIN m.entries \ touched : files[f] = m.entries[f]
      BY <1>0, <2>0, Empty DEF VerifyInv
    <3>4. m.exact => m.whole
      BY <1>0, <2>0, <3>2 DEF VerifyInv, Exact
    <3> QED
      BY <1>P, <1>E, <2>0, <3>1, <3>2, <3>3, <3>4 DEF VerifyInv, VerifiesExactlyWhole
  <2>2. CASE Unlisted # {}
    <3>1. m'.whole = m.whole /\ m'.exact = m.exact /\ reader' = "refused"
      BY <1>0, <1>4, <2>2 DEF VerifyNoUnlistedYAML, Manifests
    <3>2. m.exact => ~m.whole
      BY <1>0, <2>0, <2>2 DEF Unlisted, VerifyInv, Exact, IsDirectory
    <3> QED
      BY <3>1, <3>2 DEF VerifyInv, VerifiesExactlyWhole
  <2> QED
    BY <2>1, <2>2
<1>5. CASE LoadDir
  BY <1>0, <1>P, <1>5 DEF LoadDir, VerifyInv, VerifiesExactlyWhole
<1>6. CASE LoadFile
  <2>1. CASE reader' = "failed"
    BY <2>1 DEF VerifyInv, VerifiesExactlyWhole
  <2>2. CASE reader' # "failed"
    BY <1>0, <1>P, <1>6, <2>2 DEF LoadFile, VerifyInv, VerifiesExactlyWhole
  <2> QED
    BY <2>1, <2>2
<1>7. CASE Loaded
  BY <1>0, <1>P, <1>7 DEF Loaded, VerifyInv, VerifiesExactlyWhole
<1>8. CASE TruncateManifest
  <2>1. \A f \in Files : files'[f] = files[f]
    BY <1>0, <1>8, PathFacts DEF TruncateManifest
  <2> QED
    BY <1>0, <1>P, <1>E, <1>8, <2>1, PathFacts DEF TruncateManifest, VerifyInv,
       VerifiesExactlyWhole, Exact, IsDirectory, verifier
<1>9. CASE UNCHANGED <<files, verifier, touched>>
  BY <1>0, <1>P, <1>9 DEF VerifyInv, VerifiesExactlyWhole, Exact, IsDirectory, verifier
<1> QED
  BY <1>1, <1>2, <1>3, <1>4, <1>5, <1>6, <1>7, <1>8, <1>9 DEF Next, CreateStep, ReadStep, vars, verifier,
     Create, HashForManifest, WritePart, WriteManifest, StopCreate

LEMMA NextLoad == IInv /\ [Next]_vars => LoadInv'
<1> SUFFICES ASSUME IInv, [Next]_vars PROVE LoadInv'
  OBVIOUS
<1>0. /\ TypeOK /\ LoadInv /\ loaded \in PartialOf(Paths) /\ left \in Seq(Paths)
      /\ files \in [Paths -> Contents \cup {"absent"}] /\ Lower \subseteq Files
  BY FilesAssumption DEF IInv, TypeOK
<1>P. /\ (\A f \in Files : files'[f] = files[f]) => Present' = Present
      /\ \A f \in Files : /\ f \in Present <=> files[f] # "absent"
                          /\ f \in Present' <=> files'[f] # "absent"
      /\ Present \in SUBSET Files
  BY DEF Present
<1>1. ASSUME NEW f \in Paths, Edit(f) PROVE LoadInv'
  <2>1. UNCHANGED <<reader, left, loaded>> /\ touched' = touched \cup {f}
    BY <1>1 DEF Edit
  <2>2. \A g \in Files \ {f} : files'[g] = files[g] /\ (g \in Present' <=> g \in Present)
    BY <1>0, <1>1, <1>P DEF Edit
  <2> QED
    BY <1>0, <2>1, <2>2 DEF LoadInv
<1>2. CASE Verify
  BY <1>2 DEF Verify, LoadInv
<1>3. CASE VerifyManifestEntry \/ VerifyNoUnlistedYAML
  BY <1>0, <1>3 DEF VerifyManifestEntry, VerifyNoUnlistedYAML, LoadInv
<1>4. CASE LoadDir
  <2>1. CASE reader' = "failed"
    BY <2>1 DEF LoadInv
  <2>2. CASE reader' # "failed"
    <3>1. left' = Sorted(RuleFiles) /\ reader = "verified" /\ reader' = "load"
          /\ UNCHANGED <<files, loaded, touched>>
      BY <1>4, <2>2 DEF LoadDir
    <3>2. Elements(left') \cap Lower = Present \cap Lower
      <4>1. RuleFiles \in SUBSET Paths
        BY PathFacts DEF RuleFiles, Paths
      <4>2. Elements(left') = RuleFiles
        BY <3>1, <4>1, SortedFacts, PathFacts
      <4>3. RuleFiles \cap Lower = Present \cap Lower
        BY <1>P, PathFacts DEF RuleFiles
      <4> QED
        BY <4>2, <4>3
    <3>3. loaded = << >>
      BY <1>0, <3>1 DEF LoadInv
    <3> QED
      BY <1>P, <3>1, <3>2, <3>3, Empty DEF LoadInv
  <2> QED
    BY <2>1, <2>2
<1>5. CASE LoadFile
  <2>1. CASE reader' = "failed"
    BY <2>1 DEF LoadInv
  <2>2. CASE reader' # "failed"
    <3>1. /\ reader = "load" /\ left # << >> /\ left' = Tail(left)
          /\ files[Head(left)] = "absent" => Head(left) = Root /\ loaded' = loaded
          /\ files[Head(left)] # "absent" => loaded' = Read(loaded, Head(left))
          /\ UNCHANGED <<reader, touched, files>>
      BY <1>5, <2>2 DEF LoadFile, LoadFails
    <3>2. Head(left) \in Paths /\ Elements(left) = {Head(left)} \cup Elements(Tail(left))
      BY <1>0, <3>1, Pops
    <3>3. CASE files[Head(left)] = "absent"
      BY <1>0, <1>P, <3>1, <3>2, <3>3, PathFacts DEF LoadInv
    <3>4. CASE files[Head(left)] # "absent"
      <4>1. /\ DOMAIN loaded' = DOMAIN loaded \cup {Head(left)}
            /\ loaded'[Head(left)] = files[Head(left)]
            /\ \A g \in DOMAIN loaded : g # Head(left) => loaded'[g] = loaded[g]
        <5>1. loaded' = Read(loaded, Head(left))
          BY <3>1, <3>4
        <5> QED
          BY <5>1, ReadFacts, Zenon
      <4> QED
        BY <1>0, <1>P, <3>1, <3>2, <4>1 DEF LoadInv
    <3> QED
      BY <3>3, <3>4
  <2> QED
    BY <2>1, <2>2
<1>6. CASE Loaded
  BY <1>0, <1>P, <1>6 DEF Loaded, LoadInv
<1>7. CASE TruncateManifest
  <2>1. \A f \in Files : files'[f] = files[f]
    BY <1>0, <1>7, PathFacts DEF TruncateManifest
  <2> QED
    BY <1>0, <1>P, <1>7, <2>1, PartialFacts DEF TruncateManifest, LoadInv, verifier
<1>8. CASE UNCHANGED <<files, verifier, touched>>
  BY <1>0, <1>P, <1>8 DEF LoadInv, verifier
<1> QED
  BY <1>1, <1>2, <1>3, <1>4, <1>5, <1>6, <1>7, <1>8 DEF Next, CreateStep, ReadStep, vars, verifier,
     Create, HashForManifest, WritePart, WriteManifest, StopCreate

THEOREM Invariance == Spec => []IInv
<1>1. IInv /\ [Next]_vars => IInv'
  BY NextType, NextWalk, NextManifest, NextVerify, NextLoad DEF IInv
<1> QED
  BY InitInv, <1>1, PTL DEF Spec
----------------------------------------------------------------------------
\* Of a directory that stays as it was, verify accepts exactly the manifests that create
\* has written to the end, whatever was killed when.
THEOREM AcceptsExactlyWhole == Spec => []VerifiesExactlyWhole
<1>1. IInv => VerifiesExactlyWhole
  BY DEF IInv
<1> QED
  BY Invariance, <1>1, PTL

\* Of the files not named MANIFEST.yaml, what is loaded is what the manifest lists, but
\* for the files edited after verify had looked at them.
THEOREM LoadsAsListed == Spec => []LoadedAsListed
<1>1. IInv => LoadedAsListed
  <2> SUFFICES ASSUME IInv, reader = "loaded", NEW f \in Lower \ touched
               PROVE  /\ f \in DOMAIN loaded <=> f \in DOMAIN m.entries
                      /\ f \in DOMAIN loaded => loaded[f] = m.entries[f]
    BY DEF LoadedAsListed
  <2>1. f \in Files \ touched
    BY FilesAssumption
  <2>2. /\ f \in Present <=> f \in DOMAIN m.entries
        /\ f \in Present => files[f] = m.entries[f]
    BY <2>1 DEF IInv, VerifyInv
  <2>3. /\ f \in Present <=> f \in DOMAIN loaded
        /\ f \in DOMAIN loaded => loaded[f] = files[f]
    BY Empty DEF IInv, LoadInv
  <2> QED
    BY <2>2, <2>3
<1> QED
  BY Invariance, <1>1, PTL
=============================================================================
