---------------------------- MODULE FilesProofs ----------------------------
(***************************************************************************)
(* Theorems about the changes to a file system under a VFS (Files), for    *)
(* any names, any depth of directories, any place of the Build volume and  *)
(* any set of paths that are written and listed.                           *)
(***************************************************************************)
EXTENDS Files, SequenceTheorems, TLAPS

-----------------------------------------------------------------------------
(* Paths *)

\* A path is a sequence of names.
LEMMA Steps ==
    ASSUME NEW s \in Path
    PROVE  /\ Len(s) \in Nat /\ DOMAIN s = 1 .. Len(s)
           /\ \A i \in 1 .. Len(s) : s[i] \in ToSet(Names)
  BY LenProperties, ElementOfSeq DEF Path

\* Paths with the same names are the same.
LEMMA SamePath ==
    ASSUME NEW s \in Path, NEW t \in Path, Len(s) = Len(t),
           \A i \in 1 .. Len(s) : s[i] = t[i]
    PROVE  s = t
  BY SeqEqual DEF Path

\* The first n names of a path.
LEMMA Cut ==
    ASSUME NEW t \in Path, NEW n \in 0 .. Len(t)
    PROVE  /\ SubSeq(t, 1, n) \in Path /\ Len(SubSeq(t, 1, n)) = n
           /\ \A i \in 1 .. n : SubSeq(t, 1, n)[i] = t[i]
  <1>1. /\ Len(t) \in Nat /\ n \in Nat /\ n <= Len(t)
        /\ \A i \in 1 .. n : t[i] \in ToSet(Names)
    BY Steps
  <1> DEFINE c == SubSeq(t, 1, n)
  <1>2. /\ c \in Seq(ToSet(Names)) /\ Len(c) = IF 1 <= n THEN n - 1 + 1 ELSE 0
        /\ \A i \in 1 .. n - 1 + 1 : c[i] = t[1 + i - 1]
    <2>1. 1 \in Int /\ n \in Int
      BY <1>1
    <2> QED BY <1>1, <2>1, SubSeqProperties
  <1> HIDE DEF c
  <1>3. Len(c) = n
    BY <1>1, <1>2
  <1>4. ASSUME NEW i \in 1 .. n PROVE c[i] = t[i]
    <2>1. i \in 1 .. n - 1 + 1 /\ 1 + i - 1 = i
      BY <1>1
    <2> QED BY <1>2, <2>1
  <1> QED BY <1>2, <1>3, <1>4 DEF c, Path

\* IsPrefix, by the names.
LEMMA PrefixMeans ==
    ASSUME NEW s \in Path, NEW t \in Path
    PROVE  IsPrefix(s, t) <=> /\ Len(s) <= Len(t)
                              /\ \A i \in 1 .. Len(s) : s[i] = t[i]
  <1>1. Len(s) \in Nat /\ Len(t) \in Nat
    BY Steps
  <1> SUFFICES ASSUME Len(s) <= Len(t)
               PROVE  SubSeq(s, 1, Len(s)) = SubSeq(t, 1, Len(s))
                        <=> \A i \in 1 .. Len(s) : s[i] = t[i]
    BY DEF IsPrefix
  <1> DEFINE a == SubSeq(s, 1, Len(s))
             b == SubSeq(t, 1, Len(s))
  <1>2. a \in Path /\ Len(a) = Len(s) /\ \A i \in 1 .. Len(s) : a[i] = s[i]
    BY <1>1, Cut
  <1>3. b \in Path /\ Len(b) = Len(s) /\ \A i \in 1 .. Len(s) : b[i] = t[i]
    BY <1>1, Cut
  <1> HIDE DEF a, b
  <1>4. a = b => \A i \in 1 .. Len(s) : s[i] = t[i]
    BY <1>2, <1>3
  <1>5. (\A i \in 1 .. Len(s) : s[i] = t[i]) => a = b
    BY <1>2, <1>3, SamePath
  <1> QED BY <1>4, <1>5 DEF a, b

\* The prefixes of a path are in a row.
LEMMA PrefixOrder ==
    ASSUME NEW s \in Path, NEW t \in Path
    PROVE  /\ IsPrefix(s, s)
           /\ IsPrefix(s, t) /\ IsPrefix(t, s) => s = t
           /\ \A u \in Path : IsPrefix(s, t) /\ IsPrefix(t, u) => IsPrefix(s, u)
           /\ \A u \in Path : IsPrefix(s, u) /\ IsPrefix(t, u) /\ Len(s) <= Len(t)
                                 => IsPrefix(s, t)
           /\ \A u \in Path : IsPrefix(s, u) /\ IsPrefix(t, u)
                                 => IsPrefix(s, t) \/ IsPrefix(t, s)
           /\ IsPrefix(s, t) => Len(s) <= Len(t)
  <1>1. Len(s) \in Nat /\ Len(t) \in Nat
    BY Steps
  <1>2. IsPrefix(s, s)
    BY <1>1, PrefixMeans
  <1>3. ASSUME IsPrefix(s, t), IsPrefix(t, s) PROVE s = t
    <2>1. Len(s) = Len(t) /\ \A i \in 1 .. Len(s) : s[i] = t[i]
      BY <1>1, <1>3, PrefixMeans
    <2> QED BY <2>1, SamePath
  <1>4. ASSUME NEW u \in Path, IsPrefix(s, t), IsPrefix(t, u) PROVE IsPrefix(s, u)
    <2>1. /\ Len(u) \in Nat /\ Len(s) <= Len(t) /\ Len(t) <= Len(u)
          /\ \A i \in 1 .. Len(s) : s[i] = t[i]
          /\ \A i \in 1 .. Len(t) : t[i] = u[i]
      BY <1>4, PrefixMeans, Steps
    <2>2. ASSUME NEW i \in 1 .. Len(s) PROVE s[i] = u[i]
      <3>1. i \in 1 .. Len(t)
        BY <1>1, <2>1
      <3> QED BY <2>1, <3>1
    <2>3. Len(s) <= Len(u)
      BY <1>1, <2>1
    <2> QED BY <2>2, <2>3, PrefixMeans
  <1>5. ASSUME NEW a \in Path, NEW b \in Path, NEW u \in Path,
               IsPrefix(a, u), IsPrefix(b, u), Len(a) <= Len(b)
        PROVE  IsPrefix(a, b)
    <2>1. /\ Len(a) \in Nat /\ Len(b) \in Nat
          /\ \A i \in 1 .. Len(a) : a[i] = u[i]
          /\ \A i \in 1 .. Len(b) : b[i] = u[i]
      BY <1>5, PrefixMeans, Steps
    <2>2. ASSUME NEW i \in 1 .. Len(a) PROVE a[i] = b[i]
      <3>1. i \in 1 .. Len(b)
        BY <1>5, <2>1
      <3> QED BY <2>1, <3>1
    <2> QED BY <1>5, <2>2, PrefixMeans
  <1>6. Len(s) <= Len(t) \/ Len(t) <= Len(s)
    BY <1>1
  <1>7. IsPrefix(s, t) => Len(s) <= Len(t)
    BY PrefixMeans
  <1> QED BY <1>2, <1>3, <1>4, <1>5, <1>6, <1>7

\* Prefixes are the paths IsPrefix puts above.
LEMMA PrefixesAre ==
    ASSUME NEW t \in Path, NEW s
    PROVE  s \in Prefixes(t) <=> s \in Path /\ IsPrefix(s, t)
  <1>1. Len(t) \in Nat
    BY Steps
  <1>2. ASSUME NEW n \in 0 .. Len(t), s = SubSeq(t, 1, n)
        PROVE  s \in Path /\ IsPrefix(s, t)
    <2>1. /\ s \in Path /\ Len(s) = n /\ \A i \in 1 .. n : s[i] = t[i]
      BY <1>2, Cut
    <2>2. n <= Len(t)
      BY <1>1
    <2> QED BY <2>1, <2>2, PrefixMeans
  <1>3. ASSUME s \in Path, IsPrefix(s, t) PROVE \E n \in 0 .. Len(t) : s = SubSeq(t, 1, n)
    <2>1. /\ Len(s) \in Nat /\ Len(s) <= Len(t)
          /\ \A i \in 1 .. Len(s) : s[i] = t[i]
      BY <1>3, PrefixMeans, Steps
    <2> DEFINE c == SubSeq(t, 1, Len(s))
    <2>2. Len(s) \in 0 .. Len(t)
      BY <1>1, <2>1
    <2>3. c \in Path /\ Len(c) = Len(s) /\ \A i \in 1 .. Len(s) : c[i] = t[i]
      BY <2>2, Cut
    <2> HIDE DEF c
    <2>4. s = c
      <3>1. \A i \in 1 .. Len(s) : s[i] = c[i]
        BY <2>1, <2>3
      <3> QED BY <1>3, <2>3, <3>1, SamePath
    <2> QED BY <2>2, <2>4 DEF c
  <1> QED BY <1>2, <1>3 DEF Prefixes

\* A name in a directory.
LEMMA ChildOf ==
    ASSUME NEW x \in Path, NEW n \in ToSet(Names)
    PROVE  /\ Append(x, n) \in Path /\ Append(x, n) # << >>
           /\ Len(Append(x, n)) = Len(x) + 1 /\ IsPrefix(x, Append(x, n))
           /\ \A s \in Path : IsPrefix(s, Append(x, n)) <=> IsPrefix(s, x) \/ s = Append(x, n)
  <1> DEFINE c == Append(x, n)
  <1>1. /\ c \in Path /\ c # << >> /\ Len(c) = Len(x) + 1
        /\ \A i \in 1 .. Len(x) : c[i] = x[i]
    BY AppendProperties DEF Path
  <1>2. Len(x) \in Nat
    BY Steps
  <1> HIDE DEF c
  <1>3. IsPrefix(x, c)
    BY <1>1, <1>2, PrefixMeans
  <1>4. ASSUME NEW s \in Path, IsPrefix(s, c), s # c PROVE IsPrefix(s, x)
    <2>1. Len(s) \in Nat /\ Len(s) <= Len(x) + 1
      BY <1>1, <1>4, PrefixMeans, Steps
    <2>2. Len(s) # Len(x) + 1
      BY <1>1, <1>4, PrefixMeans, SamePath
    <2>3. Len(s) <= Len(x)
      BY <1>2, <2>1, <2>2
    <2> QED BY <1>1, <1>3, <1>4, <2>3, PrefixOrder
  <1>5. ASSUME NEW s \in Path, IsPrefix(s, x) PROVE IsPrefix(s, c)
    BY <1>1, <1>3, <1>5, PrefixOrder
  <1>6. IsPrefix(c, c)
    BY <1>1, PrefixOrder
  <1> QED BY <1>1, <1>3, <1>4, <1>5, <1>6 DEF c

\* The directory a path is in.
LEMMA FrontOf ==
    ASSUME NEW p \in Path, p # << >>
    PROVE  /\ Front(p) \in Path /\ Last(p) \in ToSet(Names)
           /\ Append(Front(p), Last(p)) = p
           /\ \A s \in Path : IsPrefix(s, p) <=> IsPrefix(s, Front(p)) \/ s = p
           /\ ~IsPrefix(p, Front(p))
  <1>1. Len(p) \in Nat \ {0} /\ \A i \in 1 .. Len(p) : p[i] \in ToSet(Names)
    BY Steps, EmptySeq DEF Path
  <1>2. Len(p) - 1 \in 0 .. Len(p)
    BY <1>1
  <1> DEFINE f == SubSeq(p, 1, Len(p) - 1)
             e == p[Len(p)]
  <1>3. f \in Path /\ Len(f) = Len(p) - 1 /\ \A i \in 1 .. Len(p) - 1 : f[i] = p[i]
    BY <1>2, Cut
  <1>4. e \in ToSet(Names)
    BY <1>1
  <1>5. Front(p) = f /\ Last(p) = e
    BY DEF Front, Last
  <1> HIDE DEF f
  <1>6. Append(f, e) = p
    <2> DEFINE c == Append(f, e)
    <2>1. /\ c \in Path /\ Len(c) = Len(f) + 1
          /\ \A i \in 1 .. Len(f) : c[i] = f[i]
          /\ c[Len(f) + 1] = e
      BY <1>3, <1>4, AppendProperties DEF Path
    <2> HIDE DEF c
    <2>2. Len(c) = Len(p)
      BY <1>1, <1>3, <2>1
    <2>3. ASSUME NEW i \in 1 .. Len(c) PROVE c[i] = p[i]
      <3>1. CASE i = Len(p)
        BY <1>1, <1>3, <2>1, <3>1
      <3>2. CASE i # Len(p)
        <4>1. i \in 1 .. Len(p) - 1
          BY <1>1, <2>2, <3>2
        <4> QED BY <1>3, <2>1, <4>1
      <3> QED BY <3>1, <3>2
    <2>4. c = p
      BY <2>1, <2>2, <2>3, SamePath
    <2> QED BY <2>4 DEF c
  <1> HIDE DEF e
  <1>7. \A s \in Path : IsPrefix(s, p) <=> IsPrefix(s, f) \/ s = p
    <2>1. \A s \in Path : IsPrefix(s, Append(f, e)) <=> IsPrefix(s, f) \/ s = Append(f, e)
      BY <1>3, <1>4, ChildOf
    <2> QED BY <1>6, <2>1
  <1>8. ~IsPrefix(p, f)
    BY <1>1, <1>3, PrefixMeans
  <1> QED BY <1>3, <1>4, <1>5, <1>6, <1>7, <1>8

\* Renaming p to q moves what is below p, and renaming q to p moves it back.
LEMMA TakenBelow ==
    ASSUME NEW p \in Path, NEW q \in Path, NEW r \in Path, IsPrefix(p, r)
    PROVE  /\ Taken(p, q, r) \in Path /\ IsPrefix(q, Taken(p, q, r))
           /\ Len(Taken(p, q, r)) = Len(q) + (Len(r) - Len(p))
           /\ \A i \in 1 .. Len(r) - Len(p) : Taken(p, q, r)[Len(q) + i] = r[Len(p) + i]
  <1>1. /\ Len(p) \in Nat /\ Len(q) \in Nat /\ Len(r) \in Nat /\ Len(p) <= Len(r)
        /\ \A i \in 1 .. Len(r) : r[i] \in ToSet(Names)
    BY Steps, PrefixMeans
  <1> DEFINE rest == SubSeq(r, Len(p) + 1, Len(r))
             t    == q \o rest
             n    == Len(r) - Len(p)
  <1>2. rest \in Path /\ Len(rest) = n /\ \A i \in 1 .. n : rest[i] = r[Len(p) + i]
    <2>1. /\ rest \in Seq(ToSet(Names))
          /\ Len(rest) = IF Len(p) + 1 <= Len(r) THEN Len(r) - (Len(p) + 1) + 1 ELSE 0
          /\ \A i \in 1 .. Len(r) - (Len(p) + 1) + 1 : rest[i] = r[(Len(p) + 1) + i - 1]
      <3>1. /\ Len(p) + 1 \in Int /\ Len(r) \in Int
            /\ \A i \in Len(p) + 1 .. Len(r) : r[i] \in ToSet(Names)
        BY <1>1
      <3> QED BY <3>1, SubSeqProperties
    <2> HIDE DEF rest
    <2>2. Len(rest) = n
      BY <1>1, <2>1
    <2>3. ASSUME NEW i \in 1 .. n PROVE rest[i] = r[Len(p) + i]
      <3>1. i \in 1 .. Len(r) - (Len(p) + 1) + 1 /\ (Len(p) + 1) + i - 1 = Len(p) + i
        BY <1>1
      <3> QED BY <2>1, <3>1
    <2> QED BY <2>1, <2>2, <2>3 DEF Path
  <1> HIDE DEF rest
  <1>3. n \in Nat
    BY <1>1
  <1> HIDE DEF n
  <1>4. /\ t \in Path /\ Len(t) = Len(q) + n
        /\ \A i \in 1 .. Len(q) + n : t[i] = IF i <= Len(q) THEN q[i] ELSE rest[i - Len(q)]
    BY <1>2, ConcatProperties DEF Path
  <1> HIDE DEF t
  <1>5. IsPrefix(q, t)
    <2>1. ASSUME NEW i \in 1 .. Len(q) PROVE q[i] = t[i]
      <3>1. i \in 1 .. Len(q) + n /\ i <= Len(q)
        BY <1>1, <1>3
      <3> QED BY <1>4, <3>1
    <2>2. Len(q) <= Len(t)
      BY <1>1, <1>3, <1>4
    <2> QED BY <1>4, <2>1, <2>2, PrefixMeans
  <1>6. ASSUME NEW i \in 1 .. n PROVE t[Len(q) + i] = r[Len(p) + i]
    <2>1. /\ Len(q) + i \in 1 .. Len(q) + n /\ ~(Len(q) + i <= Len(q))
          /\ (Len(q) + i) - Len(q) = i
      BY <1>1, <1>3
    <2> QED BY <1>2, <1>4, <2>1
  <1>7. Taken(p, q, r) = t
    BY DEF Taken, t, rest
  <1> QED BY <1>4, <1>5, <1>6, <1>7 DEF n

\* A rename and its reverse take a path back.
LEMMA TakenBack ==
    ASSUME NEW p \in Path, NEW q \in Path, NEW r \in Path, IsPrefix(p, r)
    PROVE  Taken(q, p, Taken(p, q, r)) = r
  <1> DEFINE t == Taken(p, q, r)
             n == Len(r) - Len(p)
             b == Taken(q, p, t)
  <1>1. /\ Len(p) \in Nat /\ Len(q) \in Nat /\ Len(r) \in Nat /\ Len(p) <= Len(r)
        /\ \A i \in 1 .. Len(p) : p[i] = r[i]
    BY Steps, PrefixMeans
  <1>2. /\ t \in Path /\ IsPrefix(q, t) /\ Len(t) = Len(q) + n
        /\ \A i \in 1 .. n : t[Len(q) + i] = r[Len(p) + i]
    BY TakenBelow
  <1> HIDE DEF t
  <1>3. /\ b \in Path /\ IsPrefix(p, b) /\ Len(b) = Len(p) + (Len(t) - Len(q))
        /\ \A i \in 1 .. Len(t) - Len(q) : b[Len(p) + i] = t[Len(q) + i]
    BY <1>2, TakenBelow
  <1> HIDE DEF b
  <1>4. Len(t) - Len(q) = n /\ Len(b) = Len(r)
    BY <1>1, <1>2, <1>3
  <1>5. ASSUME NEW i \in 1 .. Len(b) PROVE b[i] = r[i]
    <2>1. CASE i <= Len(p)
      <3>1. i \in 1 .. Len(p)
        BY <1>1, <2>1
      <3>2. b[i] = p[i]
        BY <1>3, <3>1, PrefixMeans
      <3> QED BY <1>1, <3>1, <3>2
    <2>2. CASE i > Len(p)
      <3> DEFINE j == i - Len(p)
      <3>1. j \in 1 .. n /\ i = Len(p) + j
        BY <1>1, <1>4, <2>2
      <3> HIDE DEF j
      <3>2. b[Len(p) + j] = t[Len(q) + j] /\ t[Len(q) + j] = r[Len(p) + j]
        BY <1>2, <1>3, <1>4, <3>1
      <3> QED BY <3>1, <3>2
    <2>3. i \in Nat
      BY <1>1, <1>4
    <2> QED BY <1>1, <2>1, <2>2, <2>3
  <1>6. b = r
    BY <1>3, <1>4, <1>5, SamePath
  <1> QED BY <1>6 DEF b, t

\* A rename keeps what is above what.
LEMMA TakenInOrder ==
    ASSUME NEW p \in Path, NEW q \in Path, NEW r \in Path, NEW s \in Path,
           IsPrefix(p, s), IsPrefix(s, r)
    PROVE  IsPrefix(Taken(p, q, s), Taken(p, q, r))
  <1> DEFINE a == Taken(p, q, s)
             b == Taken(p, q, r)
  <1>1. IsPrefix(p, r)
    BY PrefixOrder
  <1>2. /\ Len(p) \in Nat /\ Len(q) \in Nat /\ Len(s) \in Nat /\ Len(r) \in Nat
        /\ Len(p) <= Len(s) /\ Len(s) <= Len(r)
        /\ \A i \in 1 .. Len(s) : s[i] = r[i]
    BY Steps, PrefixMeans
  <1>3. /\ a \in Path /\ IsPrefix(q, a) /\ Len(a) = Len(q) + (Len(s) - Len(p))
        /\ \A i \in 1 .. Len(s) - Len(p) : a[Len(q) + i] = s[Len(p) + i]
    BY ZenonT(40), TakenBelow
  <1>4. /\ b \in Path /\ IsPrefix(q, b) /\ Len(b) = Len(q) + (Len(r) - Len(p))
        /\ \A i \in 1 .. Len(r) - Len(p) : b[Len(q) + i] = r[Len(p) + i]
    BY ZenonT(40), <1>1, TakenBelow
  <1> HIDE DEF a, b
  <1>5. Len(a) <= Len(b)
    BY <1>2, <1>3, <1>4
  <1>6. ASSUME NEW i \in 1 .. Len(a) PROVE a[i] = b[i]
    <2>1. CASE i <= Len(q)
      <3>1. i \in 1 .. Len(q)
        BY <1>2, <1>3, <2>1
      <3>2. q[i] = a[i] /\ q[i] = b[i]
        BY <1>3, <1>4, <3>1, PrefixMeans
      <3> QED BY <3>2
    <2>2. CASE i > Len(q)
      <3> DEFINE j == i - Len(q)
      <3>1. j \in 1 .. Len(s) - Len(p) /\ j \in 1 .. Len(r) - Len(p) /\ i = Len(q) + j
        BY <1>2, <1>3, <2>2
      <3> HIDE DEF j
      <3>2. a[Len(q) + j] = s[Len(p) + j] /\ b[Len(q) + j] = r[Len(p) + j]
        BY <1>3, <1>4, <3>1
      <3>3. Len(p) + j \in 1 .. Len(s)
        BY <1>2, <3>1
      <3> QED BY <1>2, <3>1, <3>2, <3>3
    <2>3. i \in Nat
      BY <1>2, <1>3
    <2> QED BY <1>2, <2>1, <2>2, <2>3
  <1> QED BY <1>3, <1>4, <1>5, <1>6, PrefixMeans DEF a, b

-----------------------------------------------------------------------------
(* The tree *)

\* What is on the disk is in directories, and the Build volume is there.
Tree ==
    /\ DOMAIN disk \subseteq Path
    /\ \A r \in DOMAIN disk : \A s \in Path : IsPrefix(s, r) /\ s # r => IsDir(s)
    /\ IsDir(BuildRoot)

FilesInv ==
    /\ Tree
    /\ moved \subseteq Places
    /\ cut \in Path \union {Nowhere}
    /\ DOMAIN listings \subseteq Listable
    /\ ListingsFresh

\* The constants are paths.
LEMMA BuildRootIs == BuildRoot \in Path /\ Places \subseteq Path /\ Listable \subseteq Path
  BY VfsAssumption, FilesAssumption

LEMMA NowhereIsNoPath == Nowhere \notin Path
  <1> SUFFICES ASSUME Nowhere \in Path PROVE FALSE
    OBVIOUS
  <1>1. Len(Nowhere) = 1 /\ Nowhere[1] = "nowhere"
    BY DEF Nowhere
  <1>2. Nowhere[1] \in ToSet(Names)
    BY <1>1, Steps
  <1> QED BY <1>1, <1>2, VfsAssumption

\* invalidate_path stops at the Build volume's root only below it.
LEMMA AffectedAre ==
    ASSUME NEW t \in Path, NEW x
    PROVE  x \in Affected(t) <=> /\ x \in Path /\ IsPrefix(x, t)
                                 /\ IsPrefix(BuildRoot, t) => IsPrefix(BuildRoot, x)
  <1>1. BuildRoot \in Path
    BY BuildRootIs
  <1>2. x \in Prefixes(t) <=> x \in Path /\ IsPrefix(x, t)
    BY PrefixesAre
  <1>3. ASSUME x \in Path, IsPrefix(x, t)
        PROVE  IsPrefix(BuildRoot, x) => IsPrefix(BuildRoot, t)
    BY <1>1, <1>3, PrefixOrder
  <1>4. Volume(x) = Volume(t) <=> (IsPrefix(BuildRoot, x) <=> IsPrefix(BuildRoot, t))
    BY DEF Volume
  <1> QED BY <1>2, <1>3, <1>4 DEF Affected, Upward

\* A place is in a directory that invalidating it reaches.
LEMMA PlaceFacts ==
    ASSUME NEW p \in Places
    PROVE  /\ p \in Path /\ p # << >> /\ p # BuildRoot /\ ~IsPrefix(p, BuildRoot)
           /\ p \in Affected(p)
           /\ \A x \in Path, n \in ToSet(Names) : Append(x, n) = p => x \in Affected(p)
  <1>1. p \in Path /\ BuildRoot \in Path /\ ~IsPrefix(p, BuildRoot)
    BY BuildRootIs, FilesAssumption
  <1>2. p # << >>
    <2> SUFFICES ASSUME p = << >> PROVE IsPrefix(p, BuildRoot)
      BY <1>1
    <2>1. Len(p) = 0 /\ Len(BuildRoot) \in Nat
      BY <1>1, Steps
    <2> QED BY <1>1, <2>1, PrefixMeans
  <1>3. p # BuildRoot
    BY <1>1, PrefixOrder
  <1>4. p \in Affected(p)
    BY <1>1, PrefixOrder, AffectedAre
  <1>5. ASSUME NEW x \in Path, NEW n \in ToSet(Names), Append(x, n) = p
        PROVE  x \in Affected(p)
    <2>1. IsPrefix(x, p)
      BY <1>5, ChildOf
    <2>2. IsPrefix(BuildRoot, p) => IsPrefix(BuildRoot, x)
      BY <1>1, <1>3, <1>5, ChildOf
    <2> QED BY <1>1, <2>1, <2>2, AffectedAre
  <1> QED BY <1>1, <1>2, <1>3, <1>4, <1>5

\* A listing depends on what is in the directory and on nothing else.
LEMMA ChildrenSame ==
    ASSUME NEW x, IsDir(x)' <=> IsDir(x),
           IsDir(x) => \A n \in ToSet(Names) :
                          Append(x, n) \in DOMAIN disk' <=> Append(x, n) \in DOMAIN disk
    PROVE  Children(x)' = Children(x)
  <1>1. CASE IsDir(x)
    <2> DEFINE all == {Append(x, n) : n \in ToSet(Names)}
    <2>1. all \cap DOMAIN disk' = all \cap DOMAIN disk
      BY <1>1
    <2>2. Listing(x, all \cap DOMAIN disk') = Listing(x, all \cap DOMAIN disk)
      BY <2>1
    <2> QED BY <1>1, <2>2 DEF Children
  <1>2. CASE ~IsDir(x)
    BY <1>2 DEF Children
  <1> QED BY <1>1, <1>2

\* Listings stay fresh when those that change are dropped.
LEMMA FreshKept ==
    ASSUME ListingsFresh, moved \subseteq moved', cut # Nowhere => cut' = cut,
           DOMAIN listings' \subseteq DOMAIN listings,
           \A x \in DOMAIN listings' :
              /\ listings'[x] = listings[x]
              /\ \/ Children(x)' = Children(x)
                 \/ \E m \in moved' : IsStrictPrefix(m, x)
                 \/ cut' # Nowhere /\ IsPrefix(x, cut')
    PROVE  ListingsFresh'
  <1> SUFFICES ASSUME NEW x \in DOMAIN listings'
               PROVE  \/ listings'[x] = Children(x)'
                      \/ \E m \in moved' : IsStrictPrefix(m, x)
                      \/ cut' # Nowhere /\ IsPrefix(x, cut')
    BY DEF ListingsFresh
  <1>1. \/ listings[x] = Children(x)
        \/ \E m \in moved : IsStrictPrefix(m, x)
        \/ cut # Nowhere /\ IsPrefix(x, cut)
    BY DEF ListingsFresh
  <1> QED BY <1>1

-----------------------------------------------------------------------------
(* The actions *)

\* Making the directories f needs, and perhaps a file t in it.
LEMMA Growing ==
    ASSUME Tree, NEW f \in Path, NEW n \in ToSet(Names), NEW t, t = Append(f, n), ~IsDir(t),
           \A q \in Prefixes(f) : q \in DOMAIN disk => IsDir(q),
           NEW new \in SUBSET {t},
           DOMAIN disk' = DOMAIN disk \union Prefixes(f) \union new,
           \A r \in Prefixes(f) : disk'[r] = "dir",
           \A r \in new : disk'[r] = "file",
           \A r \in DOMAIN disk \ (Prefixes(f) \union new) : disk'[r] = disk[r]
    PROVE  /\ Tree'
           /\ \A x \in Path : x \notin Affected(t) \/ x = t => Children(x)' = Children(x)
  <1>1. /\ t \in Path /\ BuildRoot \in Path
        /\ \A s \in Path : IsPrefix(s, t) <=> IsPrefix(s, f) \/ s = t
    BY ChildOf, BuildRootIs
  <1>2. \A s : s \in Prefixes(f) <=> s \in Path /\ IsPrefix(s, f)
    BY PrefixesAre
  <1>3. t \notin Prefixes(f)
    <2>1. Len(t) = Len(f) + 1 /\ Len(f) \in Nat
      BY ChildOf, Steps
    <2>2. IsPrefix(t, f) => Len(t) <= Len(f)
      BY <1>1, PrefixOrder
    <2> QED BY <1>2, <2>1, <2>2
  <1>4. ASSUME NEW r PROVE IsDir(r)' <=> IsDir(r) \/ r \in Prefixes(f)
    <2>1. CASE r \in Prefixes(f)
      BY <2>1 DEF IsDir
    <2>2. CASE r \in new
      <3>1. r = t /\ disk'[r] = "file"
        BY <2>2
      <3> QED BY <1>3, <3>1 DEF IsDir
    <2>3. CASE r \notin Prefixes(f) \union new
      <3>1. r \in DOMAIN disk' <=> r \in DOMAIN disk
        BY <2>3
      <3>2. r \in DOMAIN disk => disk'[r] = disk[r]
        BY <2>3
      <3> QED BY <2>3, <3>1, <3>2 DEF IsDir
    <2> QED BY <2>1, <2>2, <2>3
  <1>5. Tree'
    <2>1. DOMAIN disk' \subseteq Path
      BY <1>1, <1>2 DEF Tree
    <2>2. ASSUME NEW r \in DOMAIN disk', NEW s \in Path, IsPrefix(s, r), s # r
          PROVE  IsDir(s)'
      <3>1. CASE r \in Prefixes(f)
        <4>1. r \in Path /\ IsPrefix(r, f)
          BY <1>2, <3>1
        <4>2. s \in Prefixes(f)
          BY <1>2, <2>2, <4>1, PrefixOrder
        <4> QED BY <1>4, <4>2
      <3>2. CASE r = t
        BY <1>1, <1>2, <1>4, <2>2, <3>2
      <3>3. CASE r \in DOMAIN disk
        BY <1>4, <2>2, <3>3 DEF Tree
      <3> QED BY <3>1, <3>2, <3>3
    <2>3. IsDir(BuildRoot)'
      BY <1>4 DEF Tree
    <2> QED BY <2>1, <2>2, <2>3 DEF Tree
  <1>6. ASSUME NEW x \in Path, x \notin Affected(t) \/ x = t
        PROVE  Children(x)' = Children(x)
    <2>1. CASE x = t
      <3>1. ~IsDir(x) /\ ~IsDir(x)'
        BY <1>3, <1>4, <2>1
      <3> QED BY <3>1 DEF Children
    <2>2. CASE ~IsPrefix(x, t)
      <3>1. x \notin Prefixes(f)
        BY <1>1, <1>2, <2>2
      <3>2. ASSUME NEW m \in ToSet(Names)
            PROVE  Append(x, m) \in DOMAIN disk' <=> Append(x, m) \in DOMAIN disk
        <4>1. Append(x, m) \in Path /\ IsPrefix(x, Append(x, m))
          BY ChildOf
        <4>2. ~IsPrefix(Append(x, m), t)
          BY <1>1, <2>2, <4>1, PrefixOrder
        <4>3. Append(x, m) \notin Prefixes(f) /\ Append(x, m) # t
          BY <1>1, <1>2, <4>1, <4>2, PrefixOrder
        <4> QED BY <4>3
      <3>3. IsDir(x)' <=> IsDir(x)
        BY <1>4, <3>1
      <3> QED BY <3>2, <3>3, ChildrenSame
    <2>3. CASE x # t /\ IsPrefix(x, t)
      <3>1. IsPrefix(BuildRoot, t) /\ ~IsPrefix(BuildRoot, x)
        BY <1>1, <1>6, <2>3, AffectedAre
      <3>2. IsPrefix(x, BuildRoot) /\ x # BuildRoot
        BY <1>1, <2>3, <3>1, PrefixOrder
      <3>3. IsDir(x) /\ IsDir(x)'
        BY <1>4, <3>2 DEF Tree, IsDir
      <3>4. ASSUME NEW m \in ToSet(Names), Append(x, m) \in DOMAIN disk'
            PROVE  Append(x, m) \in DOMAIN disk
        <4> DEFINE c == Append(x, m)
        <4>1. c \in Path /\ \A s \in Path : IsPrefix(s, c) <=> IsPrefix(s, x) \/ s = c
          BY ChildOf
        <4> HIDE DEF c
        <4>2. CASE c \in Prefixes(f) \union new
          <5>1. IsPrefix(c, t)
            BY <1>1, <1>2, <4>1, <4>2
          <5>2. IsPrefix(c, BuildRoot)
            BY <1>1, <3>1, <4>1, <5>1, PrefixOrder
          <5> QED BY <4>1, <5>2 DEF Tree, IsDir, c
        <4>3. CASE c \notin Prefixes(f) \union new
          BY <3>4, <4>3 DEF c
        <4> QED BY <4>2, <4>3
      <3>5. \A m \in ToSet(Names) :
               Append(x, m) \in DOMAIN disk' <=> Append(x, m) \in DOMAIN disk
        BY <3>4
      <3> QED BY <3>3, <3>5, ChildrenSame
    <2> QED BY <2>1, <2>2, <2>3
  <1> QED BY <1>5, <1>6

\* A file that is written, with the directories it needs.
LEMMA Writing ==
    ASSUME Tree, NEW f \in Path, NEW n \in ToSet(Names), NEW t, t = Append(f, n), ~IsDir(t),
           \A q \in Prefixes(f) : q \in DOMAIN disk => IsDir(q),
           disk' \in {With(disk, Prefixes(f), "dir"),
                      With(With(disk, Prefixes(f), "dir"), {t}, "file")}
    PROVE  /\ Tree'
           /\ \A x \in Path : x \notin Affected(t) \/ x = t => Children(x)' = Children(x)
  <1> DEFINE made == With(disk, Prefixes(f), "dir")
  <1>1. /\ DOMAIN made = DOMAIN disk \union Prefixes(f)
        /\ \A r \in Prefixes(f) : made[r] = "dir"
        /\ \A r \in DOMAIN disk \ Prefixes(f) : made[r] = disk[r]
    BY DEF With
  <1>2. t \notin Prefixes(f)
    <2>1. t \in Path /\ Len(t) = Len(f) + 1 /\ Len(f) \in Nat
      BY ChildOf, Steps
    <2>2. IsPrefix(t, f) => Len(t) <= Len(f)
      BY <2>1, PrefixOrder
    <2> QED BY <2>1, <2>2, PrefixesAre
  <1> HIDE DEF made
  <1>3. CASE disk' = made
    <2> DEFINE new == {}
    <2>1. /\ DOMAIN disk' = DOMAIN disk \union Prefixes(f) \union new
          /\ \A r \in Prefixes(f) : disk'[r] = "dir"
          /\ \A r \in new : disk'[r] = "file"
          /\ \A r \in DOMAIN disk \ (Prefixes(f) \union new) : disk'[r] = disk[r]
          /\ new \in SUBSET {t}
      BY <1>1, <1>3
    <2> HIDE DEF new
    <2> QED BY <2>1, Growing
  <1>4. CASE disk' = With(made, {t}, "file")
    <2>1. /\ DOMAIN disk' = DOMAIN made \union {t} /\ disk'[t] = "file"
          /\ \A r \in DOMAIN made \ {t} : disk'[r] = made[r]
      BY <1>4 DEF With
    <2> DEFINE new == {t}
    <2>2. /\ DOMAIN disk' = DOMAIN disk \union Prefixes(f) \union new
          /\ \A r \in Prefixes(f) : disk'[r] = "dir"
          /\ \A r \in new : disk'[r] = "file"
          /\ \A r \in DOMAIN disk \ (Prefixes(f) \union new) : disk'[r] = disk[r]
          /\ new \in SUBSET {t}
      BY <1>1, <1>2, <2>1
    <2> HIDE DEF new
    <2> QED BY <2>2, Growing
  <1> QED BY <1>3, <1>4 DEF made

\* Each action keeps the invariant.
LEMMA WriteDataForkKeeps ==
    ASSUME FilesInv, NEW p \in Places, WriteDataFork(p)
    PROVE  FilesInv'
  <1>1. /\ p \in Path /\ p # << >> /\ Tree /\ Listable \subseteq Path
    BY PlaceFacts, BuildRootIs DEF FilesInv
  <1>2. Front(p) \in Path /\ Last(p) \in ToSet(Names) /\ p = Append(Front(p), Last(p))
    BY <1>1, FrontOf
  <1>3. /\ ~IsDir(p) /\ \A q \in Prefixes(Front(p)) : q \in DOMAIN disk => IsDir(q)
        /\ disk' = With(With(disk, Prefixes(Front(p)), "dir"), {p}, "file")
        /\ listings' = Without(Affected(p)) /\ UNCHANGED <<moved, cut>>
    BY DEF WriteDataFork, CanMake, WithParents
  <1>4. Tree' /\ \A x \in Path : x \notin Affected(p) => Children(x)' = Children(x)
    BY <1>1, <1>2, <1>3, Writing
  <1>5. /\ DOMAIN listings' = DOMAIN listings \ Affected(p)
        /\ \A x \in DOMAIN listings' : listings'[x] = listings[x]
    BY <1>3 DEF Without
  <1>6. ListingsFresh'
    BY <1>1, <1>3, <1>4, <1>5, FreshKept DEF FilesInv
  <1> QED BY <1>3, <1>4, <1>5, <1>6 DEF FilesInv

LEMMA WriteFailsKeeps ==
    ASSUME FilesInv, NEW p \in Places, WriteFails(p)
    PROVE  FilesInv'
  <1>1. /\ p \in Path /\ p # << >> /\ Tree /\ Listable \subseteq Path
    BY PlaceFacts, BuildRootIs DEF FilesInv
  <1>2. Front(p) \in Path /\ Last(p) \in ToSet(Names) /\ p = Append(Front(p), Last(p))
    BY <1>1, FrontOf
  <1>3. /\ ~IsDir(p) /\ \A q \in Prefixes(Front(p)) : q \in DOMAIN disk => IsDir(q)
        /\ disk' \in {With(disk, Prefixes(Front(p)), "dir"),
                      With(With(disk, Prefixes(Front(p)), "dir"), {p}, "file")}
        /\ cut = Nowhere /\ cut' = p /\ UNCHANGED <<listings, moved>>
    BY DEF WriteFails, CanMake, WithParents, Undisturbed
  <1>4. Tree' /\ \A x \in Path : x \notin Affected(p) => Children(x)' = Children(x)
    BY <1>1, <1>2, <1>3, Writing
  <1>5. cut' # Nowhere
    BY <1>1, <1>3, NowhereIsNoPath
  <1>6. \A x \in Path : Children(x)' = Children(x) \/ IsPrefix(x, cut')
    BY <1>1, <1>3, <1>4, AffectedAre
  <1>7. DOMAIN listings \subseteq Path
    BY <1>1 DEF FilesInv
  <1>8. ListingsFresh'
    BY <1>3, <1>5, <1>6, <1>7, FreshKept DEF FilesInv
  <1> QED BY <1>1, <1>3, <1>4, <1>8 DEF FilesInv

LEMMA DeleteKeeps ==
    ASSUME FilesInv, NEW p \in Places, Delete(p)
    PROVE  FilesInv'
  <1>1. /\ p \in Path /\ p # BuildRoot /\ p \in Affected(p)
        /\ Tree /\ Listable \subseteq Path
        /\ \A x \in Path, n \in ToSet(Names) : Append(x, n) = p => x \in Affected(p)
    BY PlaceFacts, BuildRootIs DEF FilesInv
  <1>2. /\ \A r \in DOMAIN disk : IsPrefix(p, r) => r = p
        /\ DOMAIN disk' = DOMAIN disk \ {p}
        /\ \A r \in DOMAIN disk \ {p} : disk'[r] = disk[r]
        /\ listings' = Without(Affected(p)) /\ UNCHANGED <<moved, cut>>
    BY DEF Delete, Below
  <1>3. \A r : r # p => (IsDir(r)' <=> IsDir(r))
    BY <1>2 DEF IsDir
  <1>4. Tree'
    <2>1. ASSUME NEW r \in DOMAIN disk', NEW s \in Path, IsPrefix(s, r), s # r
          PROVE  IsDir(s)'
      <3>1. r \in DOMAIN disk
        BY <1>2
      <3>2. IsDir(s)
        BY <1>1, <2>1, <3>1 DEF Tree
      <3>3. s # p
        BY <1>2, <2>1, <3>1
      <3> QED BY <1>3, <3>2, <3>3
    <2>2. DOMAIN disk' \subseteq Path /\ IsDir(BuildRoot)'
      BY <1>1, <1>2, <1>3 DEF Tree
    <2> QED BY <2>1, <2>2 DEF Tree
  <1>5. ASSUME NEW x \in Path, x \notin Affected(p) PROVE Children(x)' = Children(x)
    <2>1. IsDir(x)' <=> IsDir(x)
      BY <1>1, <1>3, <1>5
    <2>2. \A n \in ToSet(Names) : Append(x, n) # p
      BY <1>1, <1>5
    <2>3. \A n \in ToSet(Names) :
             Append(x, n) \in DOMAIN disk' <=> Append(x, n) \in DOMAIN disk
      BY <1>2, <2>2
    <2> QED BY <2>1, <2>3, ChildrenSame
  <1>6. /\ DOMAIN listings' = DOMAIN listings \ Affected(p)
        /\ \A x \in DOMAIN listings' : listings'[x] = listings[x]
    BY <1>2 DEF Without
  <1>7. DOMAIN listings \subseteq Path
    BY <1>1 DEF FilesInv
  <1>8. ListingsFresh'
    BY <1>2, <1>5, <1>6, <1>7, FreshKept DEF FilesInv
  <1> QED BY <1>2, <1>4, <1>6, <1>8 DEF FilesInv

\* Where everything is after a rename.
LEMMA Renaming ==
    ASSUME Tree, NEW p \in Places, NEW q \in Places, Rename(p, q)
    PROVE  /\ \A r \in DOMAIN disk : IsPrefix(q, r) => r = q
           /\ \A r \in Path : r \in DOMAIN disk' <=>
                 IF IsPrefix(q, r) THEN Taken(q, p, r) \in DOMAIN disk
                 ELSE r \in DOMAIN disk /\ ~IsPrefix(p, r)
           /\ \A r \in Path : IsDir(r)' <=>
                 IF IsPrefix(q, r) THEN IsDir(Taken(q, p, r))
                 ELSE IsDir(r) /\ ~IsPrefix(p, r)
           /\ DOMAIN disk' \subseteq Path
  <1> DEFINE gone  == {Taken(p, q, s) : s \in Below(p)}
  <1>1. p \in Path /\ q \in Path
    BY BuildRootIs
  <1>2. /\ p \in DOMAIN disk
        /\ q \in DOMAIN disk => Below(q) = {q}
        /\ DOMAIN disk' = gone \union (DOMAIN disk \ Below(p))
        /\ \A r \in DOMAIN disk' :
              disk'[r] = IF IsPrefix(q, r) THEN disk[Taken(q, p, r)] ELSE disk[r]
    BY DEF Rename, CanRename
  <1>3. ASSUME NEW r \in DOMAIN disk, IsPrefix(q, r) PROVE r = q
    <2>1. CASE q \in DOMAIN disk
      <3>1. Below(q) = {q}
        BY <1>2, <2>1
      <3> QED BY <1>3, <3>1 DEF Below
    <2>2. CASE q \notin DOMAIN disk
      BY <1>1, <1>3, <2>2 DEF Tree, IsDir
    <2> QED BY <2>1, <2>2
  <1>4. \A r \in Below(p) : r \in Path /\ IsPrefix(p, r) /\ r \in DOMAIN disk
    BY DEF Below, Tree
  <1>5. ASSUME NEW r \in Path
        PROVE  r \in gone <=> IsPrefix(q, r) /\ Taken(q, p, r) \in DOMAIN disk
    <2>1. ASSUME NEW s \in Below(p), r = Taken(p, q, s)
          PROVE  IsPrefix(q, r) /\ Taken(q, p, r) \in DOMAIN disk
      <3>1. s \in Path /\ IsPrefix(p, s) /\ s \in DOMAIN disk
        BY <1>4
      <3>2. IsPrefix(q, Taken(p, q, s)) /\ Taken(q, p, Taken(p, q, s)) = s
        BY <1>1, <3>1, TakenBelow, TakenBack
      <3> QED BY <2>1, <3>1, <3>2
    <2>2. ASSUME IsPrefix(q, r), Taken(q, p, r) \in DOMAIN disk
          PROVE  r \in gone
      <3> DEFINE s == Taken(q, p, r)
      <3>1. s \in DOMAIN disk /\ IsPrefix(p, s) /\ Taken(p, q, s) = r
        BY <1>1, <2>2, TakenBelow, TakenBack
      <3> HIDE DEF s
      <3>2. s \in Below(p)
        BY <3>1 DEF Below
      <3> QED BY <3>1, <3>2
    <2> QED BY <2>1, <2>2
  <1>6. gone \subseteq Path
    <2>1. ASSUME NEW s \in Below(p) PROVE Taken(p, q, s) \in Path
      BY <1>1, <1>4, TakenBelow
    <2> QED BY <2>1
  <1>7. Taken(q, p, q) = p
    <2>1. /\ Taken(q, p, q) \in Path /\ IsPrefix(p, Taken(q, p, q))
          /\ Len(Taken(q, p, q)) = Len(p) + (Len(q) - Len(q))
      BY <1>1, PrefixOrder, TakenBelow
    <2>2. Len(p) \in Nat /\ Len(q) \in Nat
      BY <1>1, Steps
    <2>3. Len(Taken(q, p, q)) = Len(p)
      BY <2>1, <2>2
    <2> QED BY <1>1, <2>1, <2>3, PrefixMeans, SamePath
  <1>8. q \in gone
    <2>1. IsPrefix(q, q)
      BY <1>1, PrefixOrder
    <2>2. Taken(q, p, q) \in DOMAIN disk
      BY <1>2, <1>7
    <2> HIDE DEF gone
    <2> QED BY <1>1, <1>5, <2>1, <2>2
  <1> HIDE DEF gone
  <1>9. ASSUME NEW r \in Path
        PROVE  /\ r \in DOMAIN disk' <=>
                     IF IsPrefix(q, r) THEN Taken(q, p, r) \in DOMAIN disk
                     ELSE r \in DOMAIN disk /\ ~IsPrefix(p, r)
               /\ IsDir(r)' <=>
                     IF IsPrefix(q, r) THEN IsDir(Taken(q, p, r))
                     ELSE IsDir(r) /\ ~IsPrefix(p, r)
    <2>1. CASE IsPrefix(q, r)
      <3>1. r \in DOMAIN disk' <=> r \in gone
        BY <1>2, <1>3, <1>8, <2>1
      <3>2. r \in DOMAIN disk' <=> Taken(q, p, r) \in DOMAIN disk
        BY <1>5, <2>1, <3>1
      <3>3. r \in DOMAIN disk' => disk'[r] = disk[Taken(q, p, r)]
        BY <1>2, <2>1
      <3> QED BY <2>1, <3>1, <3>2, <3>3 DEF IsDir
    <2>2. CASE ~IsPrefix(q, r)
      <3>1. r \notin gone
        BY <1>5, <2>2
      <3>2. r \in DOMAIN disk' <=> r \in DOMAIN disk /\ ~IsPrefix(p, r)
        BY <1>2, <3>1 DEF Below
      <3>3. r \in DOMAIN disk' => disk'[r] = disk[r]
        BY <1>2, <2>2
      <3> QED BY <2>2, <3>2, <3>3 DEF IsDir
    <2> QED BY <2>1, <2>2
  <1>10. DOMAIN disk' \subseteq Path
    BY <1>2, <1>6 DEF Tree
  <1> QED BY <1>3, <1>9, <1>10

\* A rename leaves everything in a directory.
LEMMA RenameKeepsTree ==
    ASSUME Tree, NEW p \in Places, NEW q \in Places, Rename(p, q)
    PROVE  Tree'
  <1>1. /\ p \in Path /\ q \in Path /\ BuildRoot \in Path /\ q # << >>
        /\ ~IsPrefix(p, BuildRoot) /\ ~IsPrefix(q, BuildRoot)
    BY PlaceFacts, BuildRootIs
  <1>2. /\ ~IsPrefix(p, q) /\ IsDir(Front(q))
    BY DEF Rename, CanRename
  <1>3. /\ \A r \in Path : r \in DOMAIN disk' <=>
              IF IsPrefix(q, r) THEN Taken(q, p, r) \in DOMAIN disk
              ELSE r \in DOMAIN disk /\ ~IsPrefix(p, r)
        /\ \A r \in Path : IsDir(r)' <=>
              IF IsPrefix(q, r) THEN IsDir(Taken(q, p, r))
              ELSE IsDir(r) /\ ~IsPrefix(p, r)
        /\ DOMAIN disk' \subseteq Path
    BY Renaming
  <1>4. ASSUME NEW r \in DOMAIN disk', NEW s \in Path, IsPrefix(s, r), s # r
        PROVE  IsDir(s)'
    <2>1. r \in Path
      BY <1>3
    <2>2. CASE IsPrefix(q, s)
      <3>1. IsPrefix(q, r) /\ Taken(q, p, r) \in DOMAIN disk
        BY <1>1, <1>3, <1>4, <2>1, <2>2, PrefixOrder
      <3>2. Taken(q, p, s) \in Path /\ IsPrefix(Taken(q, p, s), Taken(q, p, r))
        BY <1>1, <1>4, <2>1, <2>2, TakenBelow, TakenInOrder
      <3>3. Taken(q, p, s) # Taken(q, p, r)
        <4>1. Taken(p, q, Taken(q, p, s)) = s /\ Taken(p, q, Taken(q, p, r)) = r
          BY <1>1, <2>1, <2>2, <3>1, TakenBack
        <4> QED BY <1>4, <4>1
      <3>4. IsDir(Taken(q, p, s))
        BY <3>1, <3>2, <3>3 DEF Tree
      <3> QED BY <1>3, <2>2, <3>4
    <2>3. CASE ~IsPrefix(q, s) /\ IsPrefix(q, r)
      <3>1. IsPrefix(s, q) /\ s # q
        BY <1>1, <1>4, <2>1, <2>3, PrefixOrder
      <3>2. Front(q) \in Path /\ IsPrefix(s, Front(q))
        BY <1>1, <3>1, FrontOf
      <3>3. IsDir(s)
        BY <1>2, <3>2 DEF Tree, IsDir
      <3>4. ~IsPrefix(p, s)
        BY <1>1, <1>2, <3>1, PrefixOrder
      <3> QED BY <1>3, <2>3, <3>3, <3>4
    <2>4. CASE ~IsPrefix(q, s) /\ ~IsPrefix(q, r)
      <3>1. r \in DOMAIN disk /\ ~IsPrefix(p, r)
        BY <1>3, <2>1, <2>4
      <3>2. IsDir(s)
        BY <1>4, <3>1 DEF Tree
      <3>3. ~IsPrefix(p, s)
        BY <1>1, <1>4, <2>1, <3>1, PrefixOrder
      <3> QED BY <1>3, <2>4, <3>2, <3>3
    <2> QED BY <2>2, <2>3, <2>4
  <1>5. IsDir(BuildRoot)'
    BY <1>1, <1>3 DEF Tree
  <1> QED BY <1>3, <1>4, <1>5 DEF Tree

LEMMA RenameKeeps ==
    ASSUME FilesInv, NEW p \in Places, NEW q \in Places, Rename(p, q)
    PROVE  FilesInv'
  <1>1. /\ p \in Path /\ q \in Path /\ Tree /\ Listable \subseteq Path
        /\ p \in Affected(p) /\ q \in Affected(q)
        /\ \A x \in Path, n \in ToSet(Names) : Append(x, n) = p => x \in Affected(p)
        /\ \A x \in Path, n \in ToSet(Names) : Append(x, n) = q => x \in Affected(q)
    BY PlaceFacts, BuildRootIs DEF FilesInv
  <1>2. /\ listings' = Without(Affected(p) \union Affected(q))
        /\ moved' = IF IsDir(p) THEN {p, q} ELSE moved
        /\ IsDir(p) => moved = {} \/ moved = {p, q}
        /\ cut' = cut
    BY DEF Rename, DroppedByRename, Undisturbed
  <1>3. Tree'
    BY <1>1, RenameKeepsTree
  <1>4. /\ \A r \in DOMAIN disk : IsPrefix(q, r) => r = q
        /\ \A r \in Path : r \in DOMAIN disk' <=>
              IF IsPrefix(q, r) THEN Taken(q, p, r) \in DOMAIN disk
              ELSE r \in DOMAIN disk /\ ~IsPrefix(p, r)
        /\ \A r \in Path : IsDir(r)' <=>
              IF IsPrefix(q, r) THEN IsDir(Taken(q, p, r))
              ELSE IsDir(r) /\ ~IsPrefix(p, r)
    BY <1>1, Renaming
  <1>5. ASSUME NEW x \in Path, x \notin Affected(p) \union Affected(q)
        PROVE  \/ Children(x)' = Children(x)
               \/ \E m \in moved' : IsStrictPrefix(m, x)
    <2>1. x # p /\ x # q
      BY <1>1, <1>5
    <2>2. CASE ~IsPrefix(p, x) /\ ~IsPrefix(q, x)
      <3>1. IsDir(x)' <=> IsDir(x)
        BY <1>4, <2>2
      <3>2. ASSUME NEW n \in ToSet(Names)
            PROVE  Append(x, n) \in DOMAIN disk' <=> Append(x, n) \in DOMAIN disk
        <4>1. /\ Append(x, n) \in Path
              /\ \A s \in Path : IsPrefix(s, Append(x, n)) <=> IsPrefix(s, x) \/ s = Append(x, n)
          BY ChildOf
        <4>2. ~IsPrefix(p, Append(x, n)) /\ ~IsPrefix(q, Append(x, n))
          BY <1>1, <1>5, <2>2, <4>1
        <4> QED BY <1>4, <4>1, <4>2
      <3> QED BY <3>1, <3>2, ChildrenSame
    <2>3. CASE IsDir(p) /\ (IsPrefix(p, x) \/ IsPrefix(q, x))
      BY <1>2, <2>1, <2>3 DEF IsStrictPrefix
    <2>4. CASE ~IsDir(p) /\ IsPrefix(q, x)
      <3>1. ~IsDir(x)
        BY <1>4, <2>1, <2>4 DEF IsDir
      <3>2. /\ Taken(q, p, x) \in Path /\ IsPrefix(p, Taken(q, p, x))
            /\ Taken(p, q, Taken(q, p, x)) = x
        BY <1>1, <2>4, TakenBelow, TakenBack
      <3>3. ~IsDir(Taken(q, p, x))
        <4>1. CASE Taken(q, p, x) = p
          BY <2>4, <4>1
        <4>2. CASE Taken(q, p, x) # p
          BY <1>1, <2>4, <3>2, <4>2 DEF Tree, IsDir
        <4> QED BY <4>1, <4>2
      <3>4. ~IsDir(x)'
        BY <1>4, <2>4, <3>3
      <3> QED BY <3>1, <3>4 DEF Children
    <2>5. CASE ~IsDir(p) /\ ~IsPrefix(q, x) /\ IsPrefix(p, x)
      <3>1. ~IsDir(x)
        BY <1>1, <2>1, <2>5 DEF Tree, IsDir
      <3>2. ~IsDir(x)'
        BY <1>4, <2>5
      <3> QED BY <3>1, <3>2 DEF Children
    <2> QED BY <2>2, <2>3, <2>4, <2>5
  <1>6. /\ DOMAIN listings' = DOMAIN listings \ (Affected(p) \union Affected(q))
        /\ \A x \in DOMAIN listings' : listings'[x] = listings[x]
    BY <1>2 DEF Without
  <1>7. DOMAIN listings \subseteq Path
    BY <1>1 DEF FilesInv
  <1>8. moved \subseteq moved'
    BY <1>2
  <1>9. ListingsFresh'
    BY <1>2, <1>5, <1>6, <1>7, <1>8, FreshKept DEF FilesInv
  <1>10. moved' \subseteq Places
    BY <1>2 DEF FilesInv
  <1> QED BY <1>2, <1>3, <1>6, <1>9, <1>10 DEF FilesInv

\* A sidecar is beside its file.
LEMMA SidecarIs ==
    ASSUME NEW p \in Sided
    PROVE  /\ p \in Path /\ p # << >> /\ Front(p) \in Path
           /\ \A s \in Path : IsPrefix(s, p) <=> IsPrefix(s, Front(p)) \/ s = p
           /\ Side[Last(p)] \in ToSet(Names)
           /\ Sidecar(p) = Append(Front(p), Side[Last(p)])
           /\ Sidecar(p) \in Path
           /\ \A s \in Path : IsPrefix(s, Sidecar(p)) <=> IsPrefix(s, Front(p)) \/ s = Sidecar(p)
  <1>1. p \in Path /\ p # << >>
    BY PlaceFacts DEF Sided
  <1>2. /\ Front(p) \in Path
        /\ \A s \in Path : IsPrefix(s, p) <=> IsPrefix(s, Front(p)) \/ s = p
    BY <1>1, FrontOf
  <1>3. Side[Last(p)] \in ToSet(Names) /\ Sidecar(p) = Append(Front(p), Side[Last(p)])
    BY FilesAssumption DEF Sided, Sidecar
  <1> QED BY <1>1, <1>2, <1>3, ChildOf

LEMMA SidecarFailsKeeps ==
    ASSUME FilesInv, NEW p \in Sided, SidecarFails(p)
    PROVE  FilesInv'
  <1> DEFINE f == Front(p)
             t == Sidecar(p)
             n == Side[Last(p)]
  <1>1. f \in Path /\ n \in ToSet(Names) /\ t \in Path /\ t = Append(f, n)
    BY SidecarIs
  <1>2. /\ ~IsDir(t) /\ \A q \in Prefixes(f) : q \in DOMAIN disk => IsDir(q)
        /\ disk' \in {With(disk, Prefixes(f), "dir"),
                      With(With(disk, Prefixes(f), "dir"), {t}, "file")}
        /\ cut = Nowhere /\ cut' = t /\ UNCHANGED <<listings, moved>>
    BY DEF SidecarFails, CanMake, Readable, IsFile, IsDir, WithParents, Undisturbed
  <1> HIDE DEF f, t, n
  <1>3. Tree /\ DOMAIN listings \subseteq Path
    BY BuildRootIs DEF FilesInv
  <1>4. Tree' /\ \A x \in Path : x \notin Affected(t) => Children(x)' = Children(x)
    BY <1>1, <1>2, <1>3, Writing
  <1>5. cut' # Nowhere
    BY <1>1, <1>2, NowhereIsNoPath
  <1>6. \A x \in Path : Children(x)' = Children(x) \/ IsPrefix(x, cut')
    BY <1>1, <1>2, <1>4, AffectedAre
  <1>7. ListingsFresh'
    BY <1>2, <1>3, <1>5, <1>6, FreshKept DEF FilesInv
  <1> QED BY <1>1, <1>2, <1>4, <1>7 DEF FilesInv

LEMMA WriteMetadataKeeps ==
    ASSUME FilesInv, NEW p \in Sided, NEW entry, WriteMetadata(p, entry)
    PROVE  FilesInv'
  <1>1. /\ p \in Places /\ p \in Path /\ p # << >> /\ p # BuildRoot /\ BuildRoot \in Path
        /\ Tree /\ Listable \subseteq Path
    BY PlaceFacts, BuildRootIs DEF FilesInv, Sided
  <1>2. listings' = Without(Affected(p)) /\ UNCHANGED <<moved, cut>>
    BY DEF WriteMetadata
  <1>3. /\ DOMAIN listings' = DOMAIN listings \ Affected(p)
        /\ \A x \in DOMAIN listings' : listings'[x] = listings[x]
    BY <1>2 DEF Without
  <1>4. DOMAIN listings \subseteq Path
    BY <1>1 DEF FilesInv
  <1>5. CASE SetAttribute(p, entry)
    <2>1. disk' = disk
      BY <1>5 DEF SetAttribute
    <2>2. Tree' /\ \A x : Children(x)' = Children(x)
      BY <1>1, <2>1 DEF Tree, IsDir, Children
    <2>3. ListingsFresh'
      BY <1>2, <1>3, <2>2, FreshKept DEF FilesInv
    <2> QED BY <1>2, <1>3, <2>2, <2>3 DEF FilesInv
  <1>6. CASE WriteSidecarEntry(p, entry)
    <2> DEFINE f == Front(p)
               t == Sidecar(p)
    <2>1. /\ f \in Path /\ \A s \in Path : IsPrefix(s, p) <=> IsPrefix(s, f) \/ s = p
      BY SidecarIs
    <2>2. Side[Last(p)] \in ToSet(Names) /\ t = Append(f, Side[Last(p)])
      BY SidecarIs
    <2>3. /\ t \in Path /\ \A s \in Path : IsPrefix(s, t) <=> IsPrefix(s, f) \/ s = t
      BY SidecarIs
    <2>4. /\ ~IsDir(t) /\ \A q \in Prefixes(f) : q \in DOMAIN disk => IsDir(q)
          /\ disk' = With(With(disk, Prefixes(f), "dir"), {t}, "file")
      BY <1>6 DEF WriteSidecarEntry, CanMake, Readable, IsFile, IsDir, WithParents
    <2> HIDE DEF f, t
    <2>5. Tree' /\ \A x \in Path : x \notin Affected(t) \/ x = t => Children(x)' = Children(x)
      BY <1>1, <2>1, <2>2, <2>4, Writing
    <2>6. ASSUME NEW x \in Path, x \notin Affected(p)
          PROVE  x \notin Affected(t) \/ x = t
      BY <1>1, <2>1, <2>3, <2>6, AffectedAre
    <2>7. ListingsFresh'
      BY <1>2, <1>3, <1>4, <2>5, <2>6, FreshKept DEF FilesInv
    <2> QED BY <1>2, <1>3, <2>5, <2>7 DEF FilesInv
  <1> QED BY <1>5, <1>6 DEF WriteMetadata

LEMMA ListKeeps ==
    ASSUME FilesInv, NEW p \in Listable, List(p)
    PROVE  FilesInv'
  <1>1. /\ listings' = With(listings, {p}, Children(p)) /\ UNCHANGED <<disk, moved, cut>>
    BY DEF List
  <1>2. /\ DOMAIN listings' = DOMAIN listings \union {p} /\ listings'[p] = Children(p)
        /\ \A x \in DOMAIN listings \ {p} : listings'[x] = listings[x]
    BY <1>1 DEF With
  <1>3. Tree' /\ \A x : Children(x)' = Children(x)
    BY <1>1 DEF FilesInv, Tree, IsDir, Children
  <1>4. ListingsFresh'
    BY <1>1, <1>2, <1>3 DEF FilesInv, ListingsFresh
  <1> QED BY <1>1, <1>2, <1>3, <1>4 DEF FilesInv

LEMMA FilesInit == Init => FilesInv
  <1> SUFFICES ASSUME Init PROVE FilesInv
    OBVIOUS
  <1>1. /\ DOMAIN disk = Prefixes(BuildRoot) /\ \A r \in DOMAIN disk : disk[r] = "dir"
        /\ DOMAIN listings = {} /\ moved = {} /\ cut = Nowhere
    BY DEF Init
  <1>2. \A s : s \in Prefixes(BuildRoot) <=> s \in Path /\ IsPrefix(s, BuildRoot)
    BY BuildRootIs, PrefixesAre
  <1>3. Tree
    BY <1>1, <1>2, BuildRootIs, PrefixOrder DEF Tree, IsDir
  <1> QED BY <1>1, <1>3 DEF FilesInv, ListingsFresh

LEMMA FilesStep == FilesInv /\ [Next]_vars => FilesInv'
  <1> SUFFICES ASSUME FilesInv, [Next]_vars PROVE FilesInv'
    OBVIOUS
  <1>1. ASSUME NEW p \in Listable, List(p) PROVE FilesInv'
    BY <1>1, ListKeeps
  <1>2. ASSUME NEW p \in Places, WriteDataFork(p) PROVE FilesInv'
    BY <1>2, WriteDataForkKeeps
  <1>3. ASSUME NEW p \in Places, WriteFails(p) PROVE FilesInv'
    BY <1>3, WriteFailsKeeps
  <1>4. ASSUME NEW p \in Places, Delete(p) PROVE FilesInv'
    BY <1>4, DeleteKeeps
  <1>5. ASSUME NEW p \in Places, NEW q \in Places, Rename(p, q) PROVE FilesInv'
    BY <1>5, RenameKeeps
  <1>6. ASSUME NEW p \in Sided, NEW entry \in {ResourceFork, FinderInfo},
               WriteMetadata(p, entry)
        PROVE  FilesInv'
    BY <1>6, WriteMetadataKeeps
  <1>7. ASSUME NEW p \in Sided, SidecarFails(p) PROVE FilesInv'
    BY <1>7, SidecarFailsKeeps
  <1>8. CASE UNCHANGED vars
    BY <1>8 DEF vars, FilesInv, Tree, IsDir, ListingsFresh, Children
  <1> QED BY <1>1, <1>2, <1>3, <1>4, <1>5, <1>6, <1>7, <1>8 DEF Next

-----------------------------------------------------------------------------
(* The theorems *)

\* The inductive invariant: what is on the disk is in directories, the Build
\* volume's among them, and the listings are fresh (Node, invalidate_path).
THEOREM FilesInvariant == Spec => []FilesInv
  <1> QED BY FilesInit, FilesStep, PTL DEF Spec

\* A cached listing is what is on the disk, for any names, volumes and places
\* (VFS.invalidate_path and its callers).
THEOREM ListingsAreFresh == Spec => []ListingsFresh
  <1>1. FilesInv => ListingsFresh
    BY DEF FilesInv
  <1> QED BY <1>1, FilesInvariant, PTL

\* Metadata that can be read of a file stays, and goes along when the file or
\* its directory is renamed, until the file is deleted, another is renamed onto
\* it, or a write of its sidecar fails half way (Node, AppleDouble).
THEOREM MetadataStays == Spec => MetadataKept
  <1> DEFINE Kept(m) == \/ m \in attributes' \union entries'
                        \/ Delete(m[1]) \/ SidecarFails(m[1])
                        \/ \E p \in Places : Rename(p, m[1])
                        \/ \E p, q \in Places :
                              /\ Rename(p, q) /\ IsPrefix(p, m[1])
                              /\ <<Taken(p, q, m[1]), m[2]>> \in attributes' \union entries'
  <1>1. ASSUME Next, NEW m \in attributes \union entries PROVE Kept(m)
    <2>1. ASSUME NEW p \in Listable, List(p) PROVE Kept(m)
      BY <2>1 DEF List
    <2>2. ASSUME NEW p \in Places, WriteDataFork(p) \/ WriteFails(p) PROVE Kept(m)
      BY <2>2 DEF WriteDataFork, WriteFails
    <2>3. ASSUME NEW p \in Places, Delete(p) PROVE Kept(m)
      <3>1. attributes' = attributes \ Of(attributes, {p}) /\ entries' = entries
        BY <2>3 DEF Delete
      <3>2. m[1] # p => m \in attributes' \union entries'
        BY <3>1 DEF Of
      <3> QED BY <2>3, <3>2
    <2>4. ASSUME NEW p \in Places, NEW q \in Places, Rename(p, q) PROVE Kept(m)
      <3> DEFINE below  == Of(attributes, Below(p))
                 inside == {e \in entries : IsStrictPrefix(p, e[1])}
      <3>1. /\ attributes' = ((attributes \ Of(attributes, {q})) \ below)
                              \union {<<Taken(p, q, e[1]), e[2]>> : e \in below}
            /\ entries' = (entries \ inside)
                           \union {<<Taken(p, q, e[1]), e[2]>> : e \in inside}
        BY <2>4 DEF Rename, Carried
      <3>2. CASE m \in below
        <4>1. IsPrefix(p, m[1])
          BY <3>2 DEF Of, Below
        <4>2. <<Taken(p, q, m[1]), m[2]>> \in attributes'
          BY <3>1, <3>2
        <4> QED BY <2>4, <4>1, <4>2
      <3>3. CASE m \in inside
        <4>1. IsPrefix(p, m[1])
          BY <3>3 DEF IsStrictPrefix
        <4>2. <<Taken(p, q, m[1]), m[2]>> \in entries'
          BY <3>1, <3>3
        <4> QED BY <2>4, <4>1, <4>2
      <3>4. CASE m \in Of(attributes, {q})
        BY <2>4, <3>4 DEF Of
      <3>5. CASE m \notin below \union inside \union Of(attributes, {q})
        <4>1. m \in attributes' \union entries'
          BY <3>1, <3>5
        <4> QED BY <4>1
      <3> QED BY <3>2, <3>3, <3>4, <3>5
    <2>5. ASSUME NEW p \in Sided, SidecarFails(p) PROVE Kept(m)
      <3>1. attributes' = attributes /\ \A e \in entries : e[1] # p => e \in entries'
        BY <2>5 DEF SidecarFails, Of
      <3> QED BY <2>5, <3>1
    <2>6. ASSUME NEW p \in Sided, NEW entry \in {ResourceFork, FinderInfo},
                 WriteMetadata(p, entry)
          PROVE  Kept(m)
      BY <2>6 DEF WriteMetadata, SetAttribute, WriteSidecarEntry
    <2> QED BY <1>1, <2>1, <2>2, <2>3, <2>4, <2>5, <2>6 DEF Next
  <1>2. [Next]_vars => [\A m \in attributes \union entries : Kept(m)]_vars
    BY <1>1
  <1> QED BY <1>2, PTL DEF Spec, MetadataKept
=============================================================================
