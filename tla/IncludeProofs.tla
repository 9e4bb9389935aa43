--------------------------- MODULE IncludeProofs ---------------------------
(***************************************************************************)
(* Theorems about the search behind #include (Include) and the namings of  *)
(* a node (Vfs), for any names, any file systems, any place of the Build   *)
(* volume, any search paths and any requests.                              *)
(***************************************************************************)
EXTENDS Include, FilesProofs, FiniteSetTheorems, WellFoundedInduction

-----------------------------------------------------------------------------
(* Least numbers, and induction up to one *)

LEMMA LeastOf ==
    ASSUME NEW S \in SUBSET Nat, S # {}
    PROVE  \E n \in S : \A m \in S : n <= m
  <1>1. \E n \in S : \A m \in S : ~(<<m, n>> \in OpToRel(<, Nat))
    BY WFMin, NatLessThanWellFounded
  <1>2. \A m, n \in Nat : <<m, n>> \notin OpToRel(<, Nat) => n <= m
    BY DEF OpToRel
  <1> QED BY <1>1, <1>2

LEMMA LeastIsMin ==
    ASSUME NEW S \in SUBSET Nat, S # {}
    PROVE  Min(S) \in S /\ \A m \in S : Min(S) <= m
  <1>1. \E n \in S : \A m \in S : n <= m
    BY LeastOf
  <1> DEFINE c == CHOOSE n \in S : \A m \in S : n <= m
  <1>2. c \in S /\ \A m \in S : c <= m
    BY <1>1, Zenon
  <1> QED BY <1>2 DEF Min

LEMMA UpTo ==
    ASSUME NEW N \in Nat, NEW S, 0 \in S,
           \A n \in 1 .. N : n - 1 \in S => n \in S
    PROVE  \A n \in 0 .. N : n \in S
  <1> DEFINE B == {n \in 0 .. N : n \notin S}
  <1>1. B \in SUBSET Nat
    OBVIOUS
  <1> SUFFICES ASSUME B # {}
               PROVE  FALSE
    OBVIOUS
  <1>2. PICK n \in B : \A m \in B : n <= m
    BY <1>1, LeastOf
  <1>3. n \in 1 .. N /\ n - 1 \in 0 .. N /\ ~(n <= n - 1)
    BY <1>2
  <1>4. n - 1 \in S
    BY <1>2, <1>3
  <1> QED BY <1>2, <1>3, <1>4

-----------------------------------------------------------------------------
(* A file system *)

LEMMA NodesArePaths == Nowhere \notin Path /\ Above \notin Path
  <1>1. ASSUME NEW s \in Path, Len(s) = 1
        PROVE  s[1] \notin {"nowhere", "above"}
    <2>1. 1 \in 1 .. Len(s)
      BY <1>1
    <2>2. s[1] \in ToSet(Names)
      BY <2>1, Steps
    <2>3. \A n \in ToSet(Names) : n \notin {"nowhere", "above"}
      BY VfsAssumption
    <2> QED BY <2>2, <2>3
  <1> QED BY <1>1 DEF Nowhere, Above

\* A disk is a tree with the Build volume and the source in it.
LEMMA DiskIs ==
    ASSUME disk \in Disks
    PROVE  /\ DOMAIN disk \subseteq Path
           /\ \A p \in DOMAIN disk : IsDir(p) \/ IsFile(p)
           /\ \A p \in DOMAIN disk : \A q \in Path : IsPrefix(q, p) /\ q # p => IsDir(q)
           /\ IsDir(BuildRoot) /\ IsFile(MainFile)
           /\ Nowhere \notin DOMAIN disk /\ Above \notin DOMAIN disk
           /\ \A p : ~(IsDir(p) /\ IsFile(p))
  <1>1. FileSystem(disk)
    BY IncludeAssumption
  <1>2. ASSUME NEW p \in DOMAIN disk, NEW q \in Path, IsPrefix(q, p), q # p
        PROVE  IsDir(q)
    <2>1. q \in Prefixes(p) \ {p}
      BY <1>1, <1>2, PrefixesAre DEF FileSystem
    <2> QED BY <1>1, <2>1 DEF FileSystem, IsDir
  <1> QED BY <1>1, <1>2, NodesArePaths DEF FileSystem, IsDir, IsFile

\* The roots of the volumes.
LEMMA RootsAre ==
    ASSUME NEW p \in Path
    PROVE  /\ IsRoot(p) <=> p = BuildRoot \/ p = << >>
           /\ BuildRoot \in Path /\ BuildRoot # << >> /\ << >> \in Path
           /\ Volume(BuildRoot) = "Build" /\ Volume(<< >>) = "Host"
           /\ Volume(p) \in {"Build", "Host"}
           /\ Root("Build") = BuildRoot /\ Root("Host") = << >>
           /\ Volume(p) = "Build" <=> IsPrefix(BuildRoot, p)
  <1>1. BuildRoot \in Path /\ BuildRoot # << >> /\ << >> \in Path
    BY VfsAssumption DEF Path
  <1>2. IsPrefix(BuildRoot, BuildRoot)
    BY <1>1, PrefixOrder
  <1>3. ~IsPrefix(BuildRoot, << >>)
    <2>1. Len(BuildRoot) \in Nat /\ Len(BuildRoot) # 0
      BY <1>1, Steps, EmptySeq DEF Path
    <2>2. ~(Len(BuildRoot) <= Len(<< >>))
      BY <2>1
    <2> QED BY <1>1, <2>2, PrefixMeans
  <1>4. "Build" # "Host"
    OBVIOUS
  <1> QED BY <1>1, <1>2, <1>3, <1>4 DEF IsRoot, Root, Volume

\* A child and its directory.
LEMMA ChildIs ==
    ASSUME NEW p \in Path, NEW n \in ToSet(Names)
    PROVE  LET c == Append(p, n)
           IN  /\ c \in Path /\ c # << >> /\ Front(c) = p /\ Last(c) = n
               /\ IsPrefix(p, c) /\ c # p /\ Len(c) = Len(p) + 1
               /\ c # BuildRoot => Volume(c) = Volume(p)
               /\ IsRoot(c) <=> c = BuildRoot
  <1> DEFINE c == Append(p, n)
  <1>1. /\ c \in Path /\ c # << >> /\ Len(c) = Len(p) + 1 /\ IsPrefix(p, c)
        /\ \A s \in Path : IsPrefix(s, c) <=> IsPrefix(s, p) \/ s = c
    BY ChildOf
  <1>2. c[Len(p) + 1] = n /\ Len(p) \in Nat
    BY Steps
  <1> HIDE DEF c
  <1>3. Last(c) = n
    BY <1>1, <1>2 DEF Last
  <1>4. Front(c) = p
    <2>1. Len(c) - 1 = Len(p) /\ Len(p) \in 0 .. Len(c)
      BY <1>1, <1>2
    <2>2. /\ Front(c) \in Path /\ Len(Front(c)) = Len(p)
          /\ \A i \in 1 .. Len(p) : Front(c)[i] = c[i]
      BY <1>1, <2>1, Cut DEF Front
    <2>3. \A i \in 1 .. Len(p) : p[i] = c[i]
      BY <1>1, PrefixMeans
    <2> QED BY <2>2, <2>3, SamePath
  <1>5. c # p
    BY <1>1, <1>2
  <1>6. c # BuildRoot => Volume(c) = Volume(p)
    BY <1>1, RootsAre DEF Volume
  <1>7. IsRoot(c) <=> c = BuildRoot
    BY <1>1, RootsAre
  <1> QED BY <1>1, <1>3, <1>4, <1>5, <1>6, <1>7 DEF c

\* The directory of what is no root: in the same volume, and there if the
\* path is.
LEMMA ParentIs ==
    ASSUME disk \in Disks, NEW p \in Path, ~IsRoot(p)
    PROVE  /\ p # << >> /\ p # BuildRoot
           /\ Parent(p) = Front(p) /\ Front(p) \in Path
           /\ Last(p) \in ToSet(Names) /\ Append(Front(p), Last(p)) = p
           /\ Volume(Front(p)) = Volume(p) /\ NameOf(p) = Last(p)
           /\ Len(Front(p)) = Len(p) - 1 /\ Len(p) \in Nat \ {0}
           /\ p \in DOMAIN disk => IsDir(Front(p))
  <1>1. p # << >> /\ p # BuildRoot
    BY RootsAre
  <1>2. /\ Front(p) \in Path /\ Last(p) \in ToSet(Names)
        /\ Append(Front(p), Last(p)) = p
    BY <1>1, FrontOf
  <1>3. /\ Volume(Front(p)) = Volume(p) /\ Len(p) = Len(Front(p)) + 1
        /\ IsPrefix(Front(p), p) /\ Front(p) # p
    <2> DEFINE f == Front(p)
               e == Last(p)
    <2>1. f \in Path /\ e \in ToSet(Names) /\ Append(f, e) = p
      BY <1>2
    <2> HIDE DEF f, e
    <2>2. Volume(p) = Volume(f) /\ Len(p) = Len(f) + 1 /\ IsPrefix(f, p) /\ p # f
      BY <1>1, <2>1, ChildIs
    <2> QED BY <2>2 DEF f
  <1>4. Len(Front(p)) \in Nat
    BY <1>2, Steps
  <1>5. p \in DOMAIN disk => IsDir(Front(p))
    BY <1>2, <1>3, DiskIs
  <1>6. Parent(p) = Front(p) /\ NameOf(p) = Last(p)
    BY DEF Parent, NameOf
  <1> QED BY <1>1, <1>2, <1>3, <1>4, <1>5, <1>6

\* The children of a name, by their places in the order of names.
LEMMA NamedAre ==
    ASSUME disk \in Disks, NEW p \in Path, NEW name
    PROVE  /\ ChildrenNamed(p, name) \in SUBSET Nat
           /\ \A i : i \in ChildrenNamed(p, name)
                <=> /\ i \in DOMAIN Names /\ IsDir(p)
                    /\ Append(p, Names[i]) \in DOMAIN disk
                    /\ Append(p, Names[i]) # BuildRoot
                    /\ Fold[Names[i]] = Fold[name]
           /\ \A i \in DOMAIN Names : i \in Nat /\ Names[i] \in ToSet(Names)
           /\ \A n \in ToSet(Names) : \E i \in DOMAIN Names : Names[i] = n
  <1>1. /\ \A i \in DOMAIN Names : i \in Nat /\ Names[i] \in ToSet(Names)
        /\ \A n \in ToSet(Names) : \E i \in DOMAIN Names : Names[i] = n
    BY VfsAssumption, LenProperties DEF ToSet
  <1>2. ASSUME NEW i \in DOMAIN Names
        PROVE  i \in ChildrenNamed(p, name)
                <=> /\ IsDir(p)
                    /\ Append(p, Names[i]) \in DOMAIN disk
                    /\ Append(p, Names[i]) # BuildRoot
                    /\ Fold[Names[i]] = Fold[name]
    <2> DEFINE c == Append(p, Names[i])
    <2>1. /\ c \in Path /\ Last(c) = Names[i] /\ (IsRoot(c) <=> c = BuildRoot)
      BY <1>1, ChildIs
    <2>2. Names[i] # NoName
      BY <1>1, VfsAssumption
    <2>3. NameOf(c) # NoName /\ Fold[NameOf(c)] = Fold[name]
            <=> c # BuildRoot /\ Fold[Names[i]] = Fold[name]
      BY <2>1, <2>2 DEF NameOf
    <2>4. i \in ChildrenNamed(p, name)
            <=> IsDir(p) /\ c \in DOMAIN disk
                /\ NameOf(c) # NoName /\ Fold[NameOf(c)] = Fold[name]
      BY DEF ChildrenNamed
    <2> QED BY <2>3, <2>4
  <1>3. ChildrenNamed(p, name) \subseteq DOMAIN Names
    BY DEF ChildrenNamed
  <1> QED BY <1>1, <1>2, <1>3

\* The first of some children.
LEMMA FirstIs ==
    ASSUME disk \in Disks, NEW p \in Path, NEW name,
           NEW places \in SUBSET ChildrenNamed(p, name), NEW c,
           c = FirstChild(p, places)
    PROVE  /\ c # Nowhere <=> places # {}
           /\ c # Nowhere =>
                 /\ IsDir(p) /\ c \in DOMAIN disk /\ c \in Path
                 /\ ~IsRoot(c) /\ Front(c) = p /\ Fold[Last(c)] = Fold[name]
                 /\ Volume(c) = Volume(p) /\ Len(c) = Len(p) + 1
                 /\ IsPrefix(p, c)
                 /\ \E i \in places : c = Append(p, Names[i])
  <1>1. CASE places = {}
    BY <1>1 DEF FirstChild
  <1>2. CASE places # {}
    <2> DEFINE i == Min(places)
               a == Append(p, Names[i])
    <2>1. places \in SUBSET Nat
      BY NamedAre
    <2>2. i \in places
      BY <1>2, <2>1, LeastIsMin
    <2>3. c = a
      BY <1>2 DEF FirstChild
    <2> HIDE DEF i
    <2>4. /\ IsDir(p) /\ a \in DOMAIN disk /\ a # BuildRoot
          /\ Fold[Names[i]] = Fold[name] /\ Names[i] \in ToSet(Names)
      BY <2>2, NamedAre
    <2>5. /\ a \in Path /\ Front(a) = p /\ Last(a) = Names[i]
          /\ IsPrefix(p, a) /\ Len(a) = Len(p) + 1
          /\ Volume(a) = Volume(p) /\ ~IsRoot(a)
      BY <2>4, ChildIs
    <2>6. a # Nowhere
      BY <2>5, NodesArePaths
    <2> HIDE DEF a
    <2>7. a = Append(p, Names[i])
      BY DEF a
    <2> QED BY <1>2, <2>2, <2>3, <2>4, <2>5, <2>6, <2>7
  <1> QED BY <1>1, <1>2

\* The child a name is looked up as.
LEMMA NamedIs ==
    ASSUME disk \in Disks, NEW p \in Path, NEW name, NEW c,
           c = FirstNamed(p, name), c # Nowhere
    PROVE  /\ IsDir(p) /\ c \in DOMAIN disk /\ c \in Path
           /\ ~IsRoot(c) /\ Front(c) = p /\ Fold[Last(c)] = Fold[name]
           /\ Volume(c) = Volume(p) /\ Len(c) = Len(p) + 1
           /\ IsPrefix(p, c)
  <1> DEFINE places == ChildrenNamed(p, name)
  <1>1. c = FirstChild(p, places)
    BY DEF FirstNamed
  <1>2. places \in SUBSET ChildrenNamed(p, name)
    OBVIOUS
  <1> HIDE DEF places
  <1> QED BY <1>1, <1>2, FirstIs

-----------------------------------------------------------------------------
(* Walks *)

\* The nodes on the way of an HFS path, one for each component.
LEMMA HFSTurns ==
    ASSUME NEW start, NEW parts \in Seq(Parts)
    PROVE  \E at : /\ at[0] = start
                   /\ \A n \in 1 .. Len(parts) :
                         at[n] = Component(at[n - 1], parts[n])
                   /\ WalkHFS(start, parts) = at[Len(parts)]
  <1> DEFINE N == Len(parts)
             Turns(g, k) == g = [n \in 0 .. k |->
                                   IF n = 0 THEN start
                                   ELSE Component(g[n - 1], parts[n])]
             at == CHOOSE g : Turns(g, N)
  <1>1. N \in Nat
    BY LenProperties
  <1> HIDE DEF N
  <1>2. \E g : Turns(g, N)
    <2> DEFINE S == {k \in 0 .. N : \E g : Turns(g, k)}
    <2>1. 0 \in S
      <3> DEFINE g == [n \in 0 .. 0 |-> start]
      <3>1. Turns(g, 0)
        OBVIOUS
      <3> HIDE DEF g
      <3> QED BY <1>1, <3>1
    <2>2. ASSUME NEW k \in 1 .. N, k - 1 \in S
          PROVE  k \in S
      <3>1. PICK f : Turns(f, k - 1)
        BY <2>2
      <3> DEFINE end == Component(f[k - 1], parts[k])
                 g == [n \in 0 .. k |-> IF n = k THEN end ELSE f[n]]
      <3>2. k \in Nat /\ k # 0 /\ \A n \in 0 .. k : n = k \/ n \in 0 .. k - 1
        BY <1>1
      <3>3. \A n \in 0 .. k - 1 :
               f[n] = IF n = 0 THEN start ELSE Component(f[n - 1], parts[n])
        BY <3>1
      <3>4. g[k] = end /\ \A n \in 0 .. k - 1 : g[n] = f[n]
        BY <3>2
      <3> HIDE DEF end
      <3>5. \A n \in 0 .. k :
               g[n] = IF n = 0 THEN start ELSE Component(g[n - 1], parts[n])
        <4> TAKE n \in 0 .. k
        <4>1. n # 0 => n - 1 \in 0 .. k - 1
          BY <3>2
        <4>2. CASE n = k
          BY <3>2, <3>4, <4>1, <4>2 DEF end
        <4>3. CASE n \in 0 .. k - 1
          BY <3>3, <3>4, <4>1, <4>3
        <4> QED BY <3>2, <4>2, <4>3
      <3>6. Turns(g, k)
        BY <3>5
      <3> HIDE DEF g
      <3> QED BY <3>2, <3>6
    <2> HIDE DEF S
    <2>3. \A k \in 0 .. N : k \in S
      BY <1>1, <2>1, <2>2, UpTo
    <2>4. N \in S
      BY <1>1, <2>3
    <2> QED BY <2>4 DEF S
  <1>3. Turns(at, N)
    BY <1>2, Zenon
  <1>4. WalkHFS(start, parts) = at[N]
    BY DEF WalkHFS, N
  <1> HIDE DEF at
  <1>5. /\ at[0] = start
        /\ \A n \in 1 .. N : at[n] = Component(at[n - 1], parts[n])
    BY <1>1, <1>3
  <1> QED BY <1>4, <1>5, Zenon DEF N

\* The nodes on the way of a slash path.
LEMMA SlashTurns ==
    ASSUME NEW start, NEW components \in Seq(Parts)
    PROVE  \E at : /\ at[0] = start
                   /\ \A n \in 1 .. Len(components) :
                         at[n] = Step(start, at[n - 1], components[n])
                   /\ WalkSlash(start, components) = at[Len(components)]
  <1> DEFINE N == Len(components)
             Turns(g, k) == g = [n \in 0 .. k |->
                                   IF n = 0 THEN start
                                   ELSE Step(start, g[n - 1], components[n])]
             at == CHOOSE g : Turns(g, N)
  <1>1. N \in Nat
    BY LenProperties
  <1> HIDE DEF N
  <1>2. \E g : Turns(g, N)
    <2> DEFINE S == {k \in 0 .. N : \E g : Turns(g, k)}
    <2>1. 0 \in S
      <3> DEFINE g == [n \in 0 .. 0 |-> start]
      <3>1. Turns(g, 0)
        OBVIOUS
      <3> HIDE DEF g
      <3> QED BY <1>1, <3>1
    <2>2. ASSUME NEW k \in 1 .. N, k - 1 \in S
          PROVE  k \in S
      <3>1. PICK f : Turns(f, k - 1)
        BY <2>2
      <3> DEFINE end == Step(start, f[k - 1], components[k])
                 g == [n \in 0 .. k |-> IF n = k THEN end ELSE f[n]]
      <3>2. k \in Nat /\ k # 0 /\ \A n \in 0 .. k : n = k \/ n \in 0 .. k - 1
        BY <1>1
      <3>3. \A n \in 0 .. k - 1 :
               f[n] = IF n = 0 THEN start ELSE Step(start, f[n - 1], components[n])
        BY <3>1
      <3>4. g[k] = end /\ \A n \in 0 .. k - 1 : g[n] = f[n]
        BY <3>2
      <3> HIDE DEF end
      <3>5. \A n \in 0 .. k :
               g[n] = IF n = 0 THEN start ELSE Step(start, g[n - 1], components[n])
        <4> TAKE n \in 0 .. k
        <4>1. n # 0 => n - 1 \in 0 .. k - 1
          BY <3>2
        <4>2. CASE n = k
          BY <3>2, <3>4, <4>1, <4>2 DEF end
        <4>3. CASE n \in 0 .. k - 1
          BY <3>3, <3>4, <4>1, <4>3
        <4> QED BY <3>2, <4>2, <4>3
      <3>6. Turns(g, k)
        BY <3>5
      <3> HIDE DEF g
      <3> QED BY <3>2, <3>6
    <2> HIDE DEF S
    <2>3. \A k \in 0 .. N : k \in S
      BY <1>1, <2>1, <2>2, UpTo
    <2>4. N \in S
      BY <1>1, <2>3
    <2> QED BY <2>4 DEF S
  <1>3. Turns(at, N)
    BY <1>2, Zenon
  <1>4. WalkSlash(start, components) = at[N]
    BY DEF WalkSlash, N
  <1> HIDE DEF at
  <1>5. /\ at[0] = start
        /\ \A n \in 1 .. N : at[n] = Step(start, at[n - 1], components[n])
    BY <1>1, <1>3
  <1> QED BY <1>4, <1>5, Zenon DEF N

-----------------------------------------------------------------------------
(* The invariant: the file that is remembered is none of the directories *)

SearchInv ==
    /\ disk \in Disks
    /\ last \in Path \union {Nowhere}
    /\ ~IsDir(last)

\* A path that is no directory is the root of no volume.
LEMMA NoRoot ==
    ASSUME disk \in Disks, NEW p \in Path
    PROVE  /\ IsRoot(p) => IsDir(p)
           /\ ~IsRoot(MainFile) /\ MainFile \in Path
  <1>1. IsDir(BuildRoot) /\ IsFile(MainFile) /\ \A r : ~(IsDir(r) /\ IsFile(r))
    BY DiskIs
  <1>2. IsDir(<< >>)
    <2>1. /\ << >> \in Path /\ BuildRoot \in Path /\ << >> # BuildRoot
          /\ BuildRoot \in DOMAIN disk
      BY <1>1, RootsAre DEF IsDir
    <2>2. IsPrefix(<< >>, BuildRoot)
      BY <2>1, PrefixMeans, Steps
    <2> QED BY <2>1, <2>2, DiskIs
  <1>3. MainFile \in Path
    BY IncludeAssumption
  <1>4. \A q \in Path : IsRoot(q) => IsDir(q)
    BY <1>1, <1>2, RootsAre
  <1> QED BY <1>1, <1>3, <1>4

-----------------------------------------------------------------------------
(* HFS paths *)

\* Where an HFS path of a volume can be on its way.
Within(volume) ==
    {Nowhere, Above} \union {p \in DOMAIN disk : Volume(p) = volume}

LEMMA ComponentKeeps ==
    ASSUME disk \in Disks, NEW volume, NEW p \in Within(volume), NEW part
    PROVE  Component(p, part) \in Within(volume)
  <1>1. CASE p \in {Nowhere, Above}
    BY <1>1 DEF Component
  <1>2. CASE p \notin {Nowhere, Above}
    <2>1. p \in DOMAIN disk /\ p \in Path /\ Volume(p) = volume
      BY <1>2, DiskIs DEF Within
    <2>2. ~IsRoot(p) => Parent(p) \in Within(volume)
      <3> SUFFICES ASSUME ~IsRoot(p)
                   PROVE  Parent(p) \in Within(volume)
        OBVIOUS
      <3>1. /\ Parent(p) = Front(p) /\ Volume(Front(p)) = Volume(p)
            /\ IsDir(Front(p))
        BY <2>1, ParentIs
      <3> QED BY <2>1, <3>1 DEF Within, IsDir
    <2>3. FirstNamed(p, part) \in Within(volume)
      <3>1. \/ FirstNamed(p, part) = Nowhere
            \/ /\ FirstNamed(p, part) \in DOMAIN disk
               /\ Volume(FirstNamed(p, part)) = Volume(p)
        BY <2>1, NamedIs
      <3> QED BY <2>1, <3>1 DEF Within
    <2> QED BY <1>2, <2>2, <2>3 DEF Component, Within
  <1> QED BY <1>1, <1>2

LEMMA WalkKeeps ==
    ASSUME disk \in Disks, NEW volume, NEW start \in Within(volume),
           NEW parts \in Seq(Parts)
    PROVE  WalkHFS(start, parts) \in Within(volume)
  <1>1. PICK at : /\ at[0] = start
                  /\ \A n \in 1 .. Len(parts) :
                        at[n] = Component(at[n - 1], parts[n])
                  /\ WalkHFS(start, parts) = at[Len(parts)]
    BY HFSTurns
  <1> DEFINE S == {n \in 0 .. Len(parts) : at[n] \in Within(volume)}
  <1>2. Len(parts) \in Nat
    BY LenProperties
  <1>3. 0 \in S
    BY <1>1, <1>2
  <1>4. ASSUME NEW n \in 1 .. Len(parts), n - 1 \in S
        PROVE  n \in S
    <2>1. at[n - 1] \in Within(volume)
      BY <1>4
    <2>2. Component(at[n - 1], parts[n]) \in Within(volume)
      BY <2>1, ComponentKeeps
    <2>3. at[n] \in Within(volume)
      BY <1>1, <2>2
    <2> QED BY <1>2, <2>3
  <1> HIDE DEF S
  <1>5. \A n \in 0 .. Len(parts) : n \in S
    BY <1>2, <1>3, <1>4, UpTo
  <1>6. Len(parts) \in S
    BY <1>2, <1>5
  <1> QED BY <1>1, <1>6 DEF S

LEMMA VolumeKept == SearchInv => KeepsVolume
  <1> SUFFICES ASSUME SearchInv, NEW path \in Colons,
                      ResolveHFS(path, Parent(MainFile)) \notin {Nowhere, Above}
               PROVE  LET node == ResolveHFS(path, Parent(MainFile))
                      IN  /\ node \in DOMAIN disk
                          /\ Volume(node) = IF path.leading = 0 THEN path.volume
                                            ELSE "Build"
    BY DEF KeepsVolume
  <1> DEFINE volume == IF path.leading = 0 THEN path.volume ELSE "Build"
             start  == IF path.leading = 0 THEN Root(path.volume) ELSE Parent(MainFile)
             climb  == IF path.leading < 2 THEN << >>
                       ELSE [i \in 1 .. path.leading - 1 |-> ".."]
  <1>1. disk \in Disks
    BY DEF SearchInv
  <1>2. /\ path.leading \in Nat /\ path.parts \in Seq(Parts)
        /\ path.leading = 0 => path.volume \in {"Build", "Host"}
    BY IncludeAssumption
  <1>3. climb \o path.parts \in Seq(Parts)
    <2>1. ".." \in Parts
      BY DEF Parts
    <2>2. climb \in Seq(Parts)
      <3>1. CASE path.leading < 2
        BY <3>1
      <3>2. CASE ~(path.leading < 2)
        <4>1. path.leading - 1 \in Nat
          BY <1>2, <3>2
        <4>2. climb = [i \in 1 .. path.leading - 1 |-> ".."]
          BY <3>2
        <4>3. [i \in 1 .. path.leading - 1 |-> ".."] \in Seq(Parts)
          BY <2>1, <4>1, IsASeq
        <4> QED BY <4>2, <4>3
      <3> QED BY <3>1, <3>2
    <2> HIDE DEF climb
    <2> QED BY <1>2, <2>2, ConcatProperties
  <1>4. start \in Within(volume)
    <2>1. CASE path.leading = 0
      <3>1. /\ Root(path.volume) \in Path /\ Volume(Root(path.volume)) = path.volume
            /\ IsRoot(Root(path.volume))
        <4>1. \A v \in {"Build", "Host"} :
                 Root(v) \in Path /\ Volume(Root(v)) = v /\ IsRoot(Root(v))
          <5>1. /\ BuildRoot \in Path /\ << >> \in Path
                /\ Volume(BuildRoot) = "Build" /\ Volume(<< >>) = "Host"
                /\ Root("Build") = BuildRoot /\ Root("Host") = << >>
            BY VfsAssumption, RootsAre
          <5> QED BY <5>1 DEF IsRoot
        <4> QED BY <1>2, <2>1, <4>1
      <3>2. Root(path.volume) \in DOMAIN disk
        BY <1>1, <3>1, NoRoot DEF IsDir
      <3> QED BY <2>1, <3>1, <3>2 DEF Within
    <2>2. CASE path.leading # 0
      <3>1. MainFile \in Path /\ ~IsRoot(MainFile) /\ MainFile \in DOMAIN disk
        BY <1>1, NoRoot, DiskIs, IncludeAssumption DEF IsFile
      <3>2. /\ Parent(MainFile) = Front(MainFile) /\ IsDir(Front(MainFile))
            /\ Volume(Front(MainFile)) = Volume(MainFile)
        BY <1>1, <3>1, ParentIs
      <3> QED BY <2>2, <3>2, IncludeAssumption DEF Within, IsDir
    <2> QED BY <2>1, <2>2
  <1>5. ResolveHFS(path, Parent(MainFile)) = WalkHFS(start, climb \o path.parts)
    BY DEF ResolveHFS
  <1> HIDE DEF start, climb, volume
  <1>6. ResolveHFS(path, Parent(MainFile)) \in Within(volume)
    BY <1>1, <1>3, <1>4, <1>5, WalkKeeps
  <1> QED BY <1>6 DEF Within, volume

-----------------------------------------------------------------------------
(* Where is looked *)

Asked(fullsearch, dependent) ==
    IF fullsearch THEN << >> ELSE <<Front(Including(dependent))>>

Sought(fullsearch, dependent) ==
    Asked(fullsearch, dependent) \o UserPaths \o SystemPaths

OfUser(fullsearch, dependent) ==
    Len(Asked(fullsearch, dependent)) + 1
      .. Len(Asked(fullsearch, dependent)) + Len(UserPaths)

\* Three sequences, one after the other.
LEMMA Joined ==
    ASSUME NEW S, NEW x \in Seq(S), NEW y \in Seq(S), NEW z \in Seq(S)
    PROVE  /\ x \o (y \o z) = (x \o y) \o z
           /\ (x \o y) \o z \in Seq(S)
           /\ Len((x \o y) \o z) = Len(x) + Len(y) + Len(z)
           /\ \A i \in 1 .. Len(x) + Len(y) + Len(z) :
                 ((x \o y) \o z)[i] = IF i <= Len(x) THEN x[i]
                                      ELSE IF i <= Len(x) + Len(y) THEN y[i - Len(x)]
                                      ELSE z[i - (Len(x) + Len(y))]
  <1>1. Len(x) \in Nat /\ Len(y) \in Nat /\ Len(z) \in Nat
    BY LenProperties
  <1>3. x \o (y \o z) = (x \o y) \o z
    BY ConcatAssociative, SMTT(30)
  <1> DEFINE front == x \o y
  <1>2. /\ front \in Seq(S) /\ Len(front) = Len(x) + Len(y)
        /\ \A i \in 1 .. Len(x) + Len(y) :
              front[i] = IF i <= Len(x) THEN x[i] ELSE y[i - Len(x)]
    BY ConcatProperties
  <1> HIDE DEF front
  <1>4. /\ front \o z \in Seq(S) /\ Len(front \o z) = Len(front) + Len(z)
        /\ \A i \in 1 .. Len(front) + Len(z) :
              (front \o z)[i] = IF i <= Len(front) THEN front[i]
                                ELSE z[i - Len(front)]
    <2>1. front \in Seq(S)
      BY <1>2
    <2> QED BY <2>1, ConcatProperties
  <1>5. ASSUME NEW i \in 1 .. Len(x) + Len(y) + Len(z)
        PROVE  (front \o z)[i] = IF i <= Len(x) THEN x[i]
                                 ELSE IF i <= Len(x) + Len(y) THEN y[i - Len(x)]
                                 ELSE z[i - (Len(x) + Len(y))]
    <2>1. i \in Nat /\ (i <= Len(x) => i <= Len(x) + Len(y))
      BY <1>1
    <2>2. i <= Len(x) + Len(y) => i \in 1 .. Len(x) + Len(y)
      BY <1>1
    <2>3. (front \o z)[i] = IF i <= Len(x) + Len(y) THEN front[i]
                            ELSE z[i - (Len(x) + Len(y))]
      BY <1>1, <1>2, <1>4
    <2> QED BY <1>2, <2>1, <2>2, <2>3
  <1> QED BY <1>2, <1>3, <1>4, <1>5 DEF front

\* The roots of a search are the places in their order, but for the user's
\* that do not exist.
LEMMA RootsOfSearch ==
    ASSUME SearchInv, NEW fullsearch \in BOOLEAN, NEW dependent \in Dependents
    PROVE  LET roots  == SearchRoots(fullsearch, dependent)
               places == Sought(fullsearch, dependent)
           IN  /\ Len(places) \in Nat
               /\ DOMAIN places = 1 .. Len(places) /\ DOMAIN roots = 1 .. Len(places)
               /\ \A i \in 1 .. Len(places) :
                     /\ places[i] \in Path
                     /\ roots[i] = IF /\ i \in OfUser(fullsearch, dependent)
                                      /\ places[i] \notin DOMAIN disk
                                   THEN Nowhere ELSE places[i]
  <1> DEFINE roots  == SearchRoots(fullsearch, dependent)
             places == Sought(fullsearch, dependent)
             beside == Asked(fullsearch, dependent)
             users  == [i \in DOMAIN UserPaths |->
                           IF UserPaths[i] \in DOMAIN disk THEN UserPaths[i] ELSE Nowhere]
             Node   == Path \union {Nowhere}
  <1>1. /\ UserPaths \in Seq(Path) /\ SystemPaths \in Seq(Path)
        /\ UserPaths \in Seq(Node) /\ SystemPaths \in Seq(Node)
        /\ Len(UserPaths) \in Nat /\ DOMAIN UserPaths = 1 .. Len(UserPaths)
        /\ \A i \in 1 .. Len(UserPaths) : UserPaths[i] \in Path
        /\ \A i \in 1 .. Len(SystemPaths) : SystemPaths[i] \in Path
        /\ Len(SystemPaths) \in Nat
    <2>1. UserPaths \in Seq(Path) /\ SystemPaths \in Seq(Path)
      BY IncludeAssumption
    <2>2. Seq(Path) \subseteq Seq(Node)
      OBVIOUS
    <2> QED BY <2>1, <2>2, LenProperties, ElementOfSeq
  <1>2. /\ users \in Seq(Node) /\ Len(users) = Len(UserPaths)
        /\ \A i \in 1 .. Len(UserPaths) :
              users[i] = IF UserPaths[i] \in DOMAIN disk THEN UserPaths[i] ELSE Nowhere
    <2>1. users = [i \in 1 .. Len(UserPaths) |->
                     IF UserPaths[i] \in DOMAIN disk THEN UserPaths[i] ELSE Nowhere]
      BY <1>1
    <2>2. \A i \in 1 .. Len(UserPaths) :
             (IF UserPaths[i] \in DOMAIN disk THEN UserPaths[i] ELSE Nowhere) \in Node
      BY <1>1
    <2> HIDE DEF users, Node
    <2>3. users \in [1 .. Len(UserPaths) -> Node]
      BY <2>1, <2>2
    <2>4. users \in Seq(Node) /\ Len(users) = Len(UserPaths)
      BY <1>1, <2>3
    <2> QED BY <2>1, <2>4
  <1> HIDE DEF users
  <1>3. /\ Including(dependent) \in Path /\ ~IsRoot(Including(dependent))
        /\ disk \in Disks
    <2>1. /\ disk \in Disks /\ MainFile \in Path /\ last \in Path \union {Nowhere}
          /\ ~IsDir(last)
      BY IncludeAssumption DEF SearchInv
    <2>2. ~IsRoot(MainFile) /\ (last \in Path => ~IsRoot(last))
      BY <2>1, NoRoot
    <2>3. \/ Including(dependent) = MainFile
          \/ Including(dependent) = last /\ last # Nowhere
      BY DEF Including
    <2> QED BY <2>1, <2>2, <2>3
  <1>4. /\ Parent(Including(dependent)) = Front(Including(dependent))
        /\ Front(Including(dependent)) \in Path
    BY <1>3, ParentIs
  <1>5. beside \in Seq(Path) /\ beside \in Seq(Node)
    <2> DEFINE f == Front(Including(dependent))
    <2>1. f \in Path /\ beside = IF fullsearch THEN << >> ELSE <<f>>
      BY <1>4 DEF Asked
    <2> HIDE DEF f, beside
    <2>2. <<f>> \in Seq(Path) /\ <<f>> \in Seq(Node)
      BY <2>1
    <2> HIDE DEF Node
    <2>3. << >> \in Seq(Path) /\ << >> \in Seq(Node)
      BY EmptySeq
    <2> QED BY <2>1, <2>2, <2>3
  <1>6. roots = beside \o (users \o SystemPaths)
    BY <1>3, <1>4 DEF SearchRoots, Asked, Configured, users
  <1>7. places = (beside \o UserPaths) \o SystemPaths
    BY DEF Sought
  <1> HIDE DEF Node, beside, places, roots
  <1> DEFINE a == Len(beside)
             b == Len(UserPaths)
             c == Len(SystemPaths)
  <1>8. a \in Nat /\ b \in Nat /\ c \in Nat
    BY <1>1, <1>5, LenProperties
  <1>9. /\ places \in Seq(Path) /\ Len(places) = a + b + c
        /\ \A i \in 1 .. a + b + c :
              places[i] = IF i <= a THEN beside[i]
                          ELSE IF i <= a + b THEN UserPaths[i - a]
                          ELSE SystemPaths[i - (a + b)]
    BY <1>1, <1>5, <1>7, Joined
  <1>10. /\ roots \in Seq(Node) /\ Len(roots) = a + b + c
         /\ \A i \in 1 .. a + b + c :
               roots[i] = IF i <= a THEN beside[i]
                          ELSE IF i <= a + b THEN users[i - a]
                          ELSE SystemPaths[i - (a + b)]
    <2>1. roots = (beside \o users) \o SystemPaths
      <3>1. users \in Seq(Node) /\ SystemPaths \in Seq(Node) /\ beside \in Seq(Node)
        BY <1>1, <1>2, <1>5
      <3>2. beside \o (users \o SystemPaths) = (beside \o users) \o SystemPaths
        BY <3>1, ConcatAssociative, SMTT(30)
      <3> QED BY <1>6, <3>2
    <2> HIDE DEF a, c
    <2>2. /\ (beside \o users) \o SystemPaths \in Seq(Node)
          /\ Len((beside \o users) \o SystemPaths) = a + b + c
          /\ \A i \in 1 .. a + b + c :
                ((beside \o users) \o SystemPaths)[i] =
                          IF i <= a THEN beside[i]
                          ELSE IF i <= a + b THEN users[i - a]
                          ELSE SystemPaths[i - (a + b)]
      <3>1. users \in Seq(Node) /\ SystemPaths \in Seq(Node) /\ beside \in Seq(Node)
        BY <1>1, <1>2, <1>5
      <3>2. Len(users) = b /\ Len(beside) = a /\ Len(SystemPaths) = c
        BY <1>2 DEF a, c
      <3> HIDE DEF b
      <3>3. LET s == (beside \o users) \o SystemPaths
                l == Len(beside)
                m == Len(users)
            IN  /\ s \in Seq(Node) /\ Len(s) = l + m + Len(SystemPaths)
                /\ \A i \in 1 .. l + m + Len(SystemPaths) :
                      s[i] = IF i <= l THEN beside[i]
                             ELSE IF i <= l + m THEN users[i - l]
                             ELSE SystemPaths[i - (l + m)]
        BY <3>1, Joined
      <3> QED BY <3>2, <3>3
    <2> QED BY <2>1, <2>2
  <1>11. DOMAIN places = 1 .. Len(places) /\ DOMAIN roots = 1 .. Len(places)
    BY <1>9, <1>10, LenProperties
  <1>12. Len(places) \in Nat /\ \A i \in 1 .. Len(places) : places[i] \in Path
    BY <1>9, LenProperties, ElementOfSeq
  <1>13. ASSUME NEW i \in 1 .. Len(places)
         PROVE  roots[i] = IF i \in OfUser(fullsearch, dependent) /\ places[i] \notin DOMAIN disk
                           THEN Nowhere ELSE places[i]
    <2>1. OfUser(fullsearch, dependent) = a + 1 .. a + b
      BY DEF OfUser, beside
    <2> HIDE DEF a, b, c
    <2>2. i \in a + 1 .. a + b <=> ~(i <= a) /\ i <= a + b
      BY <1>8, <1>9
    <2>3. i \in 1 .. a + b + c
      BY <1>9
    <2>4. ~(i <= a) /\ i <= a + b => i - a \in 1 .. b
      BY <1>8, <2>3
    <2>5. ~(i <= a) /\ i <= a + b =>
             users[i - a] = IF UserPaths[i - a] \in DOMAIN disk
                            THEN UserPaths[i - a] ELSE Nowhere
      BY <1>2, <2>4 DEF b
    <2> QED BY <1>9, <1>10, <2>1, <2>2, <2>3, <2>5
  <1> QED BY <1>11, <1>12, <1>13 DEF roots, places

\* The first node there is, if there is one.
LEMMA FirstOfIs ==
    ASSUME NEW N \in Nat, NEW nodes, DOMAIN nodes = 1 .. N
    PROVE  /\ FirstOf(nodes) = Nowhere => \A i \in 1 .. N : nodes[i] = Nowhere
           /\ FirstOf(nodes) # Nowhere =>
                 \E i \in 1 .. N : /\ nodes[i] = FirstOf(nodes)
                                   /\ \A j \in 1 .. i - 1 : nodes[j] = Nowhere
  <1> DEFINE there == {i \in 1 .. N : nodes[i] # Nowhere}
  <1>1. FirstOf(nodes) = IF there = {} THEN Nowhere ELSE nodes[Min(there)]
    BY DEF FirstOf
  <1>2. CASE there = {}
    BY <1>1, <1>2
  <1>3. CASE there # {}
    <2>1. there \in SUBSET Nat
      OBVIOUS
    <2> DEFINE i == Min(there)
    <2> HIDE DEF there
    <2>2. i \in there /\ \A m \in there : i <= m
      BY <1>3, <2>1, LeastIsMin
    <2>3. FirstOf(nodes) = nodes[i]
      BY <1>1, <1>3
    <2> HIDE DEF i
    <2>4. i \in 1 .. N /\ nodes[i] # Nowhere
      BY <2>2 DEF there
    <2>5. \A j \in 1 .. i - 1 : nodes[j] = Nowhere
      <3>1. \A j \in 1 .. i - 1 : j \in 1 .. N /\ ~(i <= j)
        BY <2>4
      <3> QED BY <2>2, <3>1 DEF there
    <2> QED BY <2>3, <2>4, <2>5
  <1> QED BY <1>2, <1>3

-----------------------------------------------------------------------------
(* Slash paths *)

\* Steps up and down, counted from one component to the next.
LEMMA Counted ==
    ASSUME NEW c, NEW k \in Nat
    PROVE  /\ Ups(c, k) \in Nat /\ Downs(c, k) \in Nat
           /\ k = 0 => Ups(c, k) = 0 /\ Downs(c, k) = 0
           /\ k # 0 =>
                /\ Ups(c, k) = IF c[k] = ".." THEN Ups(c, k - 1) + 1 ELSE Ups(c, k - 1)
                /\ Downs(c, k) = IF c[k] \notin {".", ".."} THEN Downs(c, k - 1) + 1
                                 ELSE Downs(c, k - 1)
  <1> DEFINE U(n) == {j \in 1 .. n : c[j] = ".."}
             D(n) == {j \in 1 .. n : c[j] \notin {".", ".."}}
  <1>1. ASSUME NEW n \in Nat
        PROVE  IsFiniteSet(U(n)) /\ IsFiniteSet(D(n))
    <2>1. IsFiniteSet(1 .. n)
      BY FS_Interval
    <2>2. U(n) \in SUBSET (1 .. n) /\ D(n) \in SUBSET (1 .. n)
      OBVIOUS
    <2> HIDE DEF U, D
    <2> QED BY <2>1, <2>2, FS_Subset
  <1>2. Ups(c, k) \in Nat /\ Downs(c, k) \in Nat
    <2>1. IsFiniteSet(U(k)) /\ IsFiniteSet(D(k))
      BY <1>1
    <2> QED BY <2>1, FS_CardinalityType DEF Ups, Downs
  <1>3. k = 0 => Ups(c, k) = 0 /\ Downs(c, k) = 0
    <2>1. k = 0 => U(k) = {} /\ D(k) = {}
      OBVIOUS
    <2>2. Cardinality({}) = 0
      BY FS_EmptySet
    <2> QED BY <2>1, <2>2, Zenon DEF Ups, Downs
  <1>4. ASSUME k # 0
        PROVE  /\ Ups(c, k) = IF c[k] = ".." THEN Ups(c, k - 1) + 1 ELSE Ups(c, k - 1)
               /\ Downs(c, k) = IF c[k] \notin {".", ".."} THEN Downs(c, k - 1) + 1
                                ELSE Downs(c, k - 1)
    <2>1. /\ U(k) = IF c[k] = ".." THEN U(k - 1) \union {k} ELSE U(k - 1)
          /\ D(k) = IF c[k] \notin {".", ".."} THEN D(k - 1) \union {k} ELSE D(k - 1)
      <3>1. \A j : j \in 1 .. k <=> j \in 1 .. k - 1 \/ j = k
        BY <1>4
      <3> QED BY <3>1
    <2>2. k \notin U(k - 1) /\ k \notin D(k - 1)
      OBVIOUS
    <2>3. IsFiniteSet(U(k - 1)) /\ IsFiniteSet(D(k - 1))
      <3>1. k - 1 \in Nat
        BY <1>4
      <3> QED BY <1>1, <3>1
    <2>4. Ups(c, k) = Cardinality(U(k)) /\ Ups(c, k - 1) = Cardinality(U(k - 1))
      BY DEF Ups
    <2>5. Downs(c, k) = Cardinality(D(k)) /\ Downs(c, k - 1) = Cardinality(D(k - 1))
      BY DEF Downs
    <2> HIDE DEF U, D
    <2>6. /\ Cardinality(U(k - 1) \union {k}) = Cardinality(U(k - 1)) + 1
          /\ Cardinality(D(k - 1) \union {k}) = Cardinality(D(k - 1)) + 1
      BY <2>2, <2>3, FS_AddElement
    <2> QED BY <2>1, <2>4, <2>5, <2>6
  <1> QED BY <1>2, <1>3, <1>4

\* What is upward of a path.
LEMMA UpwardIs ==
    ASSUME NEW p \in Path, NEW root
    PROVE  root \in Upward(p) <=> /\ root \in Path /\ IsPrefix(root, p)
                                  /\ Volume(root) = Volume(p)
  BY PrefixesAre DEF Upward

\* One component leads to a node below the root, as deep as it says.
LEMMA StepIs ==
    ASSUME disk \in Disks, NEW root, NEW p \in DOMAIN disk, root \in Upward(p),
           NEW component, NEW c, c = Step(root, p, component), c # Nowhere
    PROVE  /\ c \in DOMAIN disk /\ root \in Upward(c)
           /\ Len(c) = IF component = "." THEN Len(p)
                       ELSE IF component = ".." THEN Len(p) - 1 ELSE Len(p) + 1
  <1>1. p \in Path /\ p # Nowhere
    BY DiskIs
  <1>2. CASE component = "."
    BY <1>1, <1>2 DEF Step
  <1>3. CASE component = ".."
    <2>1. /\ ~IsRoot(p) /\ root \in Upward(Parent(p)) /\ c = Parent(p)
      BY <1>1, <1>3, Zenon DEF Step
    <2>2. /\ Parent(p) = Front(p) /\ Len(Front(p)) = Len(p) - 1
          /\ IsDir(Front(p))
      BY <1>1, <2>1, ParentIs
    <2> QED BY <1>3, <2>1, <2>2 DEF IsDir
  <1>4. CASE component \notin {".", ".."}
    <2>1. c = FirstNamed(p, component)
      BY <1>1, <1>4 DEF Step
    <2>2. /\ c \in DOMAIN disk /\ c \in Path /\ Volume(c) = Volume(p)
          /\ Len(c) = Len(p) + 1 /\ IsPrefix(p, c)
      BY <1>1, <2>1, NamedIs
    <2>3. root \in Path /\ IsPrefix(root, p) /\ Volume(root) = Volume(p)
      BY <1>1, UpwardIs
    <2>4. IsPrefix(root, c)
      BY <1>1, <2>2, <2>3, PrefixOrder
    <2>5. root \in Upward(c)
      BY <2>2, <2>3, <2>4, UpwardIs
    <2> QED BY <1>4, <2>2, <2>5
  <1> QED BY <1>2, <1>3, <1>4

\* Where a slash path leads from a directory, if it leads anywhere.
LEMMA SlashIs ==
    ASSUME disk \in Disks, NEW root, IsDir(root), NEW components \in Seq(Parts),
           NEW c, c = WalkSlash(root, components), c # Nowhere
    PROVE  LET n == Len(components)
           IN  /\ c \in DOMAIN disk /\ root \in Upward(c)
               /\ Len(c) = Len(root) + Downs(components, n) - Ups(components, n)
               /\ \A k \in 1 .. n : Ups(components, k) <= Downs(components, k)
  <1> DEFINE N == Len(components)
             U(k) == Ups(components, k)
             D(k) == Downs(components, k)
  <1>1. PICK at : /\ at[0] = root
                  /\ \A n \in 1 .. N : at[n] = Step(root, at[n - 1], components[n])
                  /\ c = at[N]
    BY SlashTurns
  <1>2. N \in Nat
    BY LenProperties
  <1>3. /\ root \in DOMAIN disk /\ root \in Path /\ Len(root) \in Nat
    BY DiskIs, Steps DEF IsDir
  <1>4. /\ \A k \in Nat : U(k) \in Nat /\ D(k) \in Nat
        /\ U(0) = 0 /\ D(0) = 0
    BY Counted
  <1> DEFINE Reached(k) == /\ at[k] \in DOMAIN disk /\ root \in Upward(at[k])
                           /\ Len(at[k]) = Len(root) + D(k) - U(k)
                           /\ \A j \in 1 .. k : U(j) <= D(j)
             S == {k \in 0 .. N : at[k] # Nowhere => Reached(k)}
  <1> HIDE DEF N, U, D
  <1>5. 0 \in S
    <2>1. root \in Upward(root)
      BY <1>3, PrefixOrder, UpwardIs
    <2>2. Len(root) = Len(root) + D(0) - U(0)
      <3>1. Len(root) \in Int /\ D(0) = 0 /\ U(0) = 0
        BY <1>3, <1>4
      <3> QED BY <3>1
    <2> QED BY <1>1, <1>2, <1>3, <2>1, <2>2
  <1>6. ASSUME NEW k \in 1 .. N, k - 1 \in S
        PROVE  k \in S
    <2> DEFINE p == at[k - 1]
               q == at[k]
               x == components[k]
    <2>1. q = Step(root, p, x)
      BY <1>1
    <2> SUFFICES ASSUME q # Nowhere
                 PROVE  Reached(k)
      BY <1>2
    <2>2. p # Nowhere
      BY <2>1 DEF Step
    <2>3. Reached(k - 1)
      BY <1>6, <2>2
    <2>4. /\ p \in DOMAIN disk /\ root \in Upward(p)
          /\ Len(p) = Len(root) + D(k - 1) - U(k - 1)
          /\ \A j \in 1 .. k - 1 : U(j) <= D(j)
      BY <2>3
    <2> HIDE DEF p, q, x
    <2>5. /\ q \in DOMAIN disk /\ root \in Upward(q)
          /\ Len(q) = IF x = "." THEN Len(p)
                      ELSE IF x = ".." THEN Len(p) - 1 ELSE Len(p) + 1
      BY <2>1, <2>4, StepIs
    <2>6. /\ U(k) = IF x = ".." THEN U(k - 1) + 1 ELSE U(k - 1)
          /\ D(k) = IF x \notin {".", ".."} THEN D(k - 1) + 1 ELSE D(k - 1)
          /\ k \in Nat /\ k - 1 \in Nat
      <3>1. k \in Nat /\ k # 0 /\ k - 1 \in Nat
        BY <1>2
      <3> QED BY <3>1, Counted DEF U, D, x
    <2>7. U(k) \in Nat /\ D(k) \in Nat /\ U(k - 1) \in Nat /\ D(k - 1) \in Nat
      BY <1>4, <2>6
    <2>8. Len(q) = Len(root) + D(k) - U(k)
      <3>1. /\ Len(root) \in Nat /\ ".." # "."
            /\ U(k) \in Nat /\ D(k) \in Nat /\ U(k - 1) \in Nat /\ D(k - 1) \in Nat
            /\ Len(p) = Len(root) + D(k - 1) - U(k - 1)
        BY <1>3, <2>4, <2>7
      <3>2. CASE x = "."
        <4>1. Len(q) = Len(p) /\ U(k) = U(k - 1) /\ D(k) = D(k - 1)
          BY <2>5, <2>6, <3>2
        <4> QED BY <3>1, <4>1
      <3>3. CASE x = ".."
        <4>1. Len(q) = Len(p) - 1 /\ U(k) = U(k - 1) + 1 /\ D(k) = D(k - 1)
          BY <2>5, <2>6, <3>3
        <4> QED BY <3>1, <4>1
      <3>4. CASE x \notin {".", ".."}
        <4>1. Len(q) = Len(p) + 1 /\ U(k) = U(k - 1) /\ D(k) = D(k - 1) + 1
          BY <2>5, <2>6, <3>4
        <4> QED BY <3>1, <4>1
      <3> QED BY <3>2, <3>3, <3>4
    <2>9. U(k) <= D(k)
      <3>1. q \in Path /\ IsPrefix(root, q)
        BY <2>5, DiskIs, UpwardIs
      <3>2. Len(root) <= Len(q)
        BY <1>3, <3>1, PrefixMeans
      <3> QED BY <1>3, <2>7, <2>8, <3>2
    <2>10. \A j \in 1 .. k : U(j) <= D(j)
      <3>1. \A j \in 1 .. k : j \in 1 .. k - 1 \/ j = k
        BY <2>6
      <3> QED BY <2>4, <2>9, <3>1
    <2> QED BY <2>5, <2>8, <2>10 DEF q
  <1> HIDE DEF S
  <1>7. \A k \in 0 .. N : k \in S
    BY <1>2, <1>5, <1>6, UpTo
  <1>8. N \in S
    BY <1>2, <1>7
  <1>9. Reached(N)
    BY <1>1, <1>8 DEF S
  <1> QED BY <1>1, <1>9 DEF N, U, D

LEMMA StaysConfined == SearchInv => Confined
  <1> SUFFICES ASSUME SearchInv, NEW components \in Slashed,
                      NEW fullsearch \in BOOLEAN, NEW dependent \in Dependents,
                      WalkSlashInclude(components, SearchRoots(fullsearch, dependent))
                        # Nowhere
               PROVE  LET roots == SearchRoots(fullsearch, dependent)
                          found == WalkSlashInclude(components, roots)
                          n     == Len(components)
                      IN  /\ IsFile(found)
                          /\ \A k \in 1 .. n : Ups(components, k) <= Downs(components, k)
                          /\ \E i \in DOMAIN roots :
                                /\ IsStrictPrefix(roots[i], found)
                                /\ Len(found) = Len(roots[i]) + Downs(components, n)
                                                              - Ups(components, n)
    BY DEF Confined
  <1> DEFINE roots == SearchRoots(fullsearch, dependent)
             found == WalkSlashInclude(components, roots)
             n     == Len(components)
             N     == Len(Sought(fullsearch, dependent))
  <1>1. disk \in Disks /\ components \in Seq(Parts)
    BY IncludeAssumption DEF SearchInv
  <1>2. N \in Nat /\ DOMAIN roots = 1 .. N
    BY RootsOfSearch
  <1> DEFINE nodes == [i \in DOMAIN roots |-> Walked(roots[i], components)]
  <1>3. found = FirstOf(nodes)
    BY DEF WalkSlashInclude
  <1> HIDE DEF roots, N, found
  <1>4. DOMAIN nodes = 1 .. N /\ \A i \in 1 .. N : nodes[i] = Walked(roots[i], components)
    BY <1>2
  <1> HIDE DEF nodes
  <1>5. PICK i \in 1 .. N : nodes[i] = found
    BY <1>2, <1>3, <1>4, FirstOfIs DEF found, roots
  <1> DEFINE root == roots[i]
  <1>6. found = Walked(root, components) /\ found # Nowhere
    BY <1>4, <1>5 DEF found, roots
  <1>7. /\ IsDir(root) /\ found = WalkSlash(root, components) /\ ~IsDir(found)
    BY <1>6 DEF Walked
  <1> HIDE DEF root
  <1>8. /\ found \in DOMAIN disk /\ root \in Upward(found)
        /\ Len(found) = Len(root) + Downs(components, n) - Ups(components, n)
        /\ \A k \in 1 .. n : Ups(components, k) <= Downs(components, k)
    BY <1>1, <1>6, <1>7, SlashIs
  <1>9. IsFile(found) /\ found \in Path /\ root # found
    BY <1>1, <1>7, <1>8, DiskIs
  <1>10. IsPrefix(root, found)
    BY <1>8, <1>9, UpwardIs
  <1>11. IsStrictPrefix(root, found)
    BY <1>9, <1>10 DEF IsStrictPrefix
  <1>12. root = roots[i] /\ i \in DOMAIN roots
    BY <1>2 DEF root
  <1> HIDE DEF n
  <1> QED BY <1>8, <1>9, <1>11, <1>12 DEF roots, found, n

-----------------------------------------------------------------------------
(* Names without a separator *)

\* p is a file at this place or in it, or the place itself where nothing is
\* and it is not one of the user's.
FoundIn(p, place, user) ==
    \/ IsFile(p) /\ place \in {p, Front(p)}
    \/ p \notin DOMAIN disk /\ place = p /\ ~user

\* The directory of what is there, or would be.
LEMMA FrontIs ==
    ASSUME disk \in Disks, NEW p \in DOMAIN disk, p # << >>
    PROVE  /\ Front(p) \in Path /\ IsDir(Front(p))
           /\ Last(p) \in ToSet(Names) /\ Append(Front(p), Last(p)) = p
  <1>1. p \in Path
    BY DiskIs
  <1>2. /\ Front(p) \in Path /\ Last(p) \in ToSet(Names)
        /\ Append(Front(p), Last(p)) = p
    BY <1>1, FrontOf
  <1>3. IsPrefix(Front(p), p) /\ Front(p) # p
    <2>1. IsPrefix(Front(p), Front(p)) /\ ~IsPrefix(p, Front(p))
      BY <1>1, <1>2, FrontOf, PrefixOrder
    <2>2. IsPrefix(p, p)
      BY <1>1, PrefixOrder
    <2> QED BY <1>1, <1>2, <2>1, <2>2, FrontOf
  <1>4. IsDir(Front(p))
    BY <1>1, <1>2, <1>3, DiskIs
  <1> QED BY <1>2, <1>4

\* A place has a name just if something of that name is found in it.
LEMMA MatchIs ==
    ASSUME disk \in Disks, NEW place \in Path, NEW user \in BOOLEAN, NEW root,
           root = IF user /\ place \notin DOMAIN disk THEN Nowhere ELSE place,
           NEW name, NEW m, m = Match(root, name)
    PROVE  /\ m # Nowhere => /\ m \in Path
                             /\ Called(m, name) /\ FoundIn(m, place, user)
           /\ m = Nowhere => \A p \in Path :
                                ~(Called(p, name) /\ FoundIn(p, place, user))
  <1>1. Nowhere \notin Path /\ ~IsDir(Nowhere)
    BY DiskIs, NodesArePaths DEF IsDir
  <1>2. CASE user /\ place \notin DOMAIN disk
    <2>1. root = Nowhere
      BY <1>2
    <2>2. m = Nowhere
      BY <1>1, <2>1, Zenon DEF Match
    <2>3. ASSUME NEW p \in Path, Called(p, name), FoundIn(p, place, user)
          PROVE  FALSE
      <3>1. p \in DOMAIN disk /\ place \in {p, Front(p)} /\ p # << >>
        BY <1>2, <2>3 DEF FoundIn, IsFile, Called
      <3>2. Front(p) \in DOMAIN disk
        BY <3>1, FrontIs DEF IsDir
      <3> QED BY <1>2, <3>1, <3>2
    <2> QED BY <2>2, <2>3
  <1>3. CASE IsDir(place)
    <2>1. root = place
      BY <1>3 DEF IsDir
    <2> DEFINE files == {i \in ChildrenNamed(place, name) :
                            ~IsDir(Append(place, Names[i]))}
    <2>2. m = FirstChild(place, files)
      BY <1>3, <2>1 DEF Match
    <2>3. files \in SUBSET ChildrenNamed(place, name)
      OBVIOUS
    <2>4. \A i \in files : ~IsDir(Append(place, Names[i]))
      OBVIOUS
    <2>5. \A i \in ChildrenNamed(place, name) :
             IsDir(Append(place, Names[i])) \/ i \in files
      OBVIOUS
    <2> HIDE DEF files
    <2>6. /\ m # Nowhere <=> files # {}
          /\ m # Nowhere =>
                /\ m \in DOMAIN disk /\ m \in Path /\ ~IsRoot(m)
                /\ Front(m) = place /\ Fold[Last(m)] = Fold[name]
                /\ \E i \in files : m = Append(place, Names[i])
      BY <2>2, <2>3, FirstIs
    <2>7. ASSUME m # Nowhere
          PROVE  m \in Path /\ Called(m, name) /\ FoundIn(m, place, user)
      <3>1. m \in Path /\ m \in DOMAIN disk /\ ~IsDir(m)
        BY <2>4, <2>6, <2>7
      <3>2. IsFile(m)
        BY <3>1, DiskIs
      <3>3. m # << >>
        BY <2>6, <2>7, RootsAre
      <3> QED BY <2>6, <2>7, <3>2, <3>3 DEF Called, FoundIn
    <2>8. ASSUME NEW p \in Path, Called(p, name), FoundIn(p, place, user), m = Nowhere
          PROVE  FALSE
      <3>1. ~IsFile(place) /\ place \in DOMAIN disk
        BY <1>3, DiskIs DEF IsDir
      <3>2. /\ IsFile(p) /\ place = Front(p)
            /\ p # << >> /\ Fold[Last(p)] = Fold[name]
        BY <2>8, <3>1 DEF FoundIn, Called
      <3>3. p \in DOMAIN disk /\ ~IsDir(p) /\ p # BuildRoot
        BY <3>2, DiskIs DEF IsFile
      <3>4. Last(p) \in ToSet(Names) /\ Append(place, Last(p)) = p
        <4>1. Last(p) \in ToSet(Names) /\ Append(Front(p), Last(p)) = p
          BY <3>2, <3>3, FrontIs
        <4> QED BY <3>2, <4>1
      <3>5. PICK i \in DOMAIN Names : Names[i] = Last(p)
        BY <3>4, NamedAre
      <3>6. Append(place, Names[i]) = p /\ Fold[Names[i]] = Fold[name]
        BY <3>2, <3>4, <3>5
      <3>7. i \in ChildrenNamed(place, name)
        BY <1>3, <3>3, <3>5, <3>6, NamedAre
      <3>8. i \in files
        BY <2>5, <3>3, <3>6, <3>7
      <3> QED BY <2>6, <2>8, <3>8
    <2> QED BY <2>7, <2>8
  <1>4. CASE ~IsDir(place) /\ ~(user /\ place \notin DOMAIN disk)
    <2>1. root = place /\ place # Nowhere /\ ~IsRoot(place) /\ ~IsDir(root)
      BY <1>1, <1>4, NoRoot
    <2>2. NameOf(place) = Last(place) /\ place # << >>
      BY <2>1, ParentIs
    <2>3. m = IF Fold[Last(place)] = Fold[name] THEN place ELSE Nowhere
      BY <2>1, <2>2 DEF Match
    <2>4. IsFile(place) \/ (place \notin DOMAIN disk /\ ~user)
      BY <1>4, DiskIs
    <2>5. m # Nowhere => m \in Path /\ Called(m, name) /\ FoundIn(m, place, user)
      BY <2>2, <2>3, <2>4 DEF Called, FoundIn
    <2>6. ASSUME NEW p \in Path, Called(p, name), FoundIn(p, place, user), m = Nowhere
          PROVE  FALSE
      <3>1. p # place
        BY <2>1, <2>3, <2>6 DEF Called
      <3>2. IsFile(p) /\ place = Front(p) /\ p # << >>
        BY <2>6, <3>1 DEF FoundIn, Called
      <3>3. IsDir(Front(p))
        BY <3>2, FrontIs DEF IsFile
      <3> QED BY <1>4, <3>2, <3>3
    <2> QED BY <2>5, <2>6
  <1> QED BY <1>2, <1>3, <1>4 DEF IsDir

LEMMA OrderKept == SearchInv => SearchOrder
  <1> SUFFICES ASSUME SearchInv, NEW name \in Plain,
                      NEW fullsearch \in BOOLEAN, NEW dependent \in Dependents
               PROVE  LET places == Sought(fullsearch, dependent)
                          Users  == OfUser(fullsearch, dependent)
                          In(p, i) ==
                             \/ IsFile(p) /\ places[i] \in {p, Front(p)}
                             \/ p \notin DOMAIN disk /\ places[i] = p /\ i \notin Users
                          Has(i) == \E p \in DOMAIN disk \union ToSet(places) :
                                       Called(p, name) /\ In(p, i)
                          found == FindPlain(name, SearchRoots(fullsearch, dependent))
                      IN  IF found = Nowhere
                          THEN \A i \in DOMAIN places : ~Has(i)
                          ELSE /\ Called(found, name)
                               /\ \E i \in DOMAIN places :
                                     In(found, i) /\ \A j \in 1 .. i - 1 : ~Has(j)
    BY Zenon DEF SearchOrder, Sought, Asked, OfUser, Including
  <1> DEFINE places == Sought(fullsearch, dependent)
             Users  == OfUser(fullsearch, dependent)
             In(p, i) == FoundIn(p, places[i], i \in Users)
             Has(i) == \E p \in DOMAIN disk \union ToSet(places) :
                          Called(p, name) /\ In(p, i)
             roots == SearchRoots(fullsearch, dependent)
             found == FindPlain(name, roots)
             nodes == [i \in DOMAIN roots |-> Match(roots[i], name)]
             N == Len(places)
  <1>1. disk \in Disks
    BY DEF SearchInv
  <1>2. /\ N \in Nat /\ DOMAIN places = 1 .. N /\ DOMAIN roots = 1 .. N
        /\ \A i \in 1 .. N :
              /\ places[i] \in Path
              /\ roots[i] = IF i \in Users /\ places[i] \notin DOMAIN disk
                            THEN Nowhere ELSE places[i]
    BY RootsOfSearch
  <1>3. found = FirstOf(nodes)
    BY DEF FindPlain
  <1> HIDE DEF roots, found, places, Users, N
  <1>4. DOMAIN nodes = 1 .. N /\ \A i \in 1 .. N : nodes[i] = Match(roots[i], name)
    BY <1>2
  <1> HIDE DEF nodes
  <1>5. DOMAIN disk \union ToSet(places) \subseteq Path
    BY <1>1, <1>2, DiskIs DEF ToSet
  <1>6. ASSUME NEW i \in 1 .. N
        PROVE  /\ nodes[i] # Nowhere => Called(nodes[i], name) /\ In(nodes[i], i)
               /\ nodes[i] = Nowhere => ~Has(i)
    <2> DEFINE user == i \in Users
               place == places[i]
               root == roots[i]
               m == nodes[i]
    <2>1. user \in BOOLEAN
      OBVIOUS
    <2>2. /\ place \in Path /\ m = Match(root, name)
          /\ root = IF user /\ place \notin DOMAIN disk THEN Nowhere ELSE place
      BY <1>2, <1>4
    <2> HIDE DEF user, place, root, m
    <2>3. /\ m # Nowhere => Called(m, name) /\ FoundIn(m, place, user)
          /\ m = Nowhere => \A p \in Path :
                               ~(Called(p, name) /\ FoundIn(p, place, user))
      BY <1>1, <2>1, <2>2, MatchIs
    <2> USE DEF user, place, m
    <2> QED BY <1>5, <2>3, Zenon
  <1> HIDE DEF Has, In
  <1>7. ASSUME found = Nowhere
        PROVE  \A i \in DOMAIN places : ~Has(i)
    <2>1. \A i \in 1 .. N : nodes[i] = Nowhere
      <3>1. N \in Nat /\ DOMAIN nodes = 1 .. N /\ FirstOf(nodes) = Nowhere
        BY <1>2, <1>3, <1>4, <1>7
      <3> QED BY <3>1, FirstOfIs
    <2> QED BY <1>2, <1>6, <2>1, Zenon
  <1>8. ASSUME found # Nowhere
        PROVE  /\ Called(found, name)
               /\ \E i \in DOMAIN places :
                     In(found, i) /\ \A j \in 1 .. i - 1 : ~Has(j)
    <2>1. PICK i \in 1 .. N : nodes[i] = found /\ \A j \in 1 .. i - 1 : nodes[j] = Nowhere
      BY <1>2, <1>3, <1>4, <1>8, FirstOfIs
    <2>2. \A j \in 1 .. i - 1 : j \in 1 .. N
      BY <1>2, <2>1
    <2>3. Called(found, name) /\ In(found, i)
      BY <1>6, <1>8, <2>1
    <2>4. \A j \in 1 .. i - 1 : ~Has(j)
      BY <1>6, <2>1, <2>2
    <2> QED BY <1>2, <2>1, <2>3, <2>4, Zenon
  <1> QED BY <1>7, <1>8, Zenon DEF found, places, roots, Users, Has, In, FoundIn

-----------------------------------------------------------------------------
(* The names a node is given lead back to it *)

\* A beginning of a path is there, and is a beginning.
LEMMA BeginningIs ==
    ASSUME disk \in Disks, NEW p \in DOMAIN disk, NEW k \in 0 .. Len(p), NEW s,
           s = SubSeq(p, 1, k)
    PROVE  /\ s \in DOMAIN disk /\ s \in Path /\ Len(s) = k /\ IsPrefix(s, p)
           /\ \A i \in 1 .. k : s[i] = p[i]
  <1>1. p \in Path /\ Len(p) \in Nat
    BY DiskIs, Steps
  <1>2. s \in Path /\ Len(s) = k /\ \A i \in 1 .. k : s[i] = p[i]
    BY <1>1, Cut
  <1>3. IsPrefix(s, p)
    <2>1. Len(s) <= Len(p)
      BY <1>1, <1>2
    <2> QED BY <1>1, <1>2, <2>1, PrefixMeans
  <1>4. s \in DOMAIN disk
    BY <1>1, <1>2, <1>3, DiskIs DEF IsDir
  <1> QED BY <1>2, <1>3, <1>4

\* A name on an unambiguous path leads to the next node on it.
LEMMA NextOnPath ==
    ASSUME disk \in Disks, NEW p \in DOMAIN disk, Unambiguous(p),
           NEW k \in 1 .. Len(p), ~IsRoot(SubSeq(p, 1, k))
    PROVE  /\ ChildrenNamed(SubSeq(p, 1, k - 1), p[k]) # {}
           /\ FirstNamed(SubSeq(p, 1, k - 1), p[k]) = SubSeq(p, 1, k)
  <1>1. p \in Path /\ Len(p) \in Nat /\ p[k] \in ToSet(Names)
    BY DiskIs, Steps
  <1> DEFINE f == SubSeq(p, 1, k - 1)
             s == SubSeq(p, 1, k)
             n == p[k]
  <1>2. /\ f \in DOMAIN disk /\ f \in Path /\ Len(f) = k - 1
        /\ \A i \in 1 .. k - 1 : f[i] = p[i]
    <2>1. k - 1 \in 0 .. Len(p)
      BY <1>1
    <2> QED BY <2>1, BeginningIs
  <1>3. /\ s \in DOMAIN disk /\ s \in Path /\ Len(s) = k
        /\ \A i \in 1 .. k : s[i] = p[i]
    <2>1. k \in 0 .. Len(p)
      BY <1>1
    <2> QED BY <2>1, BeginningIs
  <1>4. \A q \in DOMAIN disk :
           Len(q) = k /\ Front(q) = f /\ Fold[Last(q)] = Fold[n] => q = s
    BY DEF Unambiguous
  <1>5. ~IsRoot(s)
    OBVIOUS
  <1>6. n \in ToSet(Names)
    BY <1>1
  <1>7. k \in Nat /\ k # 0 /\ k - 1 \in Nat
    BY <1>1
  <1> HIDE DEF f, s
  <1>8. Append(f, n) = s
    <2> DEFINE a == Append(f, n)
    <2>1. /\ a \in Path /\ Len(a) = Len(f) + 1 /\ IsPrefix(f, a)
          /\ a[Len(f) + 1] = n
      <3>1. a[Len(f) + 1] = n
        BY <1>2, Steps
      <3> QED BY <1>2, <1>6, <3>1, ChildIs
    <2> HIDE DEF a
    <2>2. Len(a) = k /\ a[k] = n
      BY <1>2, <1>7, <2>1
    <2>3. \A i \in 1 .. k - 1 : a[i] = p[i]
      BY <1>2, <2>1, PrefixMeans
    <2>4. \A i \in 1 .. k : a[i] = s[i]
      <3>1. \A i \in 1 .. k : i \in 1 .. k - 1 \/ i = k
        BY <1>7
      <3> QED BY <1>3, <2>2, <2>3, <3>1
    <2>5. a = s
      BY <1>3, <2>1, <2>2, <2>4, SamePath
    <2> QED BY <2>5 DEF a
  <1> HIDE DEF n
  <1>9. s # BuildRoot
    BY <1>3, <1>5, RootsAre
  <1>10. IsDir(f)
    <2>1. Front(s) = f /\ s # << >>
      BY <1>2, <1>6, <1>8, ChildIs
    <2> QED BY <1>3, <2>1, FrontIs
  <1>11. PICK i \in DOMAIN Names : Names[i] = n
    BY <1>2, <1>6, NamedAre
  <1>12. i \in ChildrenNamed(f, n)
    BY <1>2, <1>3, <1>8, <1>9, <1>10, <1>11, NamedAre
  <1> DEFINE c == FirstNamed(f, n)
             places == ChildrenNamed(f, n)
  <1>13. c = FirstChild(f, places)
    BY DEF FirstNamed
  <1>14. places \in SUBSET ChildrenNamed(f, n) /\ places # {}
    BY <1>12
  <1> HIDE DEF c
  <1>15. c # Nowhere
    BY <1>2, <1>13, <1>14, FirstIs
  <1>16. /\ c \in DOMAIN disk /\ Front(c) = f /\ Fold[Last(c)] = Fold[n]
         /\ Len(c) = Len(f) + 1
    BY <1>2, <1>15, NamedIs DEF c
  <1>17. c = s
    BY <1>2, <1>4, <1>7, <1>16
  <1> QED BY <1>12, <1>17 DEF c, f, s, n

\* The name of a node in its directory leads to it.
LEMMA NameLeadsTo ==
    ASSUME disk \in Disks, NEW p \in DOMAIN disk, Unambiguous(p), ~IsRoot(p)
    PROVE  /\ ChildrenNamed(Front(p), Last(p)) # {}
           /\ FirstNamed(Front(p), Last(p)) = p
           /\ Last(p) # NoName
  <1>1. p \in Path /\ Len(p) \in Nat \ {0} /\ Last(p) \in ToSet(Names)
    BY DiskIs, ParentIs
  <1>2. SubSeq(p, 1, Len(p)) = p
    BY <1>1, SubSeqFull DEF Path
  <1>3. Len(p) \in 1 .. Len(p)
    BY <1>1
  <1>4. Front(p) = SubSeq(p, 1, Len(p) - 1) /\ Last(p) = p[Len(p)]
    BY DEF Front, Last
  <1>5. Last(p) # NoName
    BY <1>1, VfsAssumption
  <1>6. ~IsRoot(SubSeq(p, 1, Len(p)))
    BY <1>2
  <1>7. /\ ChildrenNamed(SubSeq(p, 1, Len(p) - 1), p[Len(p)]) # {}
        /\ FirstNamed(SubSeq(p, 1, Len(p) - 1), p[Len(p)]) = SubSeq(p, 1, Len(p))
    BY <1>3, <1>6, NextOnPath
  <1> QED BY <1>2, <1>4, <1>5, <1>7

\* Along the HFS path of a node, one directory after the other.
LEMMA HFSPathLeadsTo ==
    ASSUME disk \in Disks, NEW p \in DOMAIN disk, Unambiguous(p)
    PROVE  ResolveHFS(HFSPath(p), Nowhere) = p
  <1> DEFINE volume == Volume(p)
             root   == Root(volume)
             L      == Len(root)
             parts  == SubSeq(p, L + 1, Len(p))
             N      == Len(p) - L
  <1>1. p \in Path /\ Len(p) \in Nat /\ \A i \in 1 .. Len(p) : p[i] \in ToSet(Names)
    BY DiskIs, Steps
  <1>2. root \in Path /\ IsPrefix(root, p) /\ IsRoot(root)
    <2>1. CASE volume = "Build"
      BY <1>1, <2>1, RootsAre
    <2>2. CASE volume = "Host"
      <3>1. root = << >> /\ << >> \in Path /\ IsRoot(<< >>)
        BY <1>1, <2>2, RootsAre DEF IsRoot
      <3>2. IsPrefix(<< >>, p)
        BY <1>1, <3>1, PrefixMeans, Steps
      <3> QED BY <3>1, <3>2
    <2> QED BY <1>1, <2>1, <2>2, RootsAre
  <1>3. L \in Nat /\ L <= Len(p) /\ \A i \in 1 .. L : root[i] = p[i]
    BY <1>1, <1>2, PrefixMeans, Steps
  <1>4. ASSUME NEW k \in 1 .. Len(p), k > L
        PROVE  ~IsRoot(SubSeq(p, 1, k))
    <2> DEFINE s == SubSeq(p, 1, k)
    <2>1. s \in Path /\ Len(s) = k /\ IsPrefix(s, p)
      <3>1. k \in 0 .. Len(p)
        BY <1>1
      <3> QED BY <3>1, BeginningIs
    <2> HIDE DEF s
    <2>2. s # root /\ s # << >>
      <3>1. k # L /\ k # 0
        BY <1>3, <1>4
      <3> QED BY <2>1, <3>1
    <2>3. s = BuildRoot => root = BuildRoot
      BY <1>1, <2>1, RootsAre
    <2>4. ~IsRoot(s)
      BY <2>1, <2>2, <2>3, RootsAre
    <2> QED BY <2>4 DEF s
  <1>5. /\ parts \in Seq(ToSet(Names)) /\ Len(parts) = N
        /\ \A i \in 1 .. N : parts[i] = p[L + i]
    <2> HIDE DEF L
    <2>1. \A i \in L + 1 .. Len(p) : p[i] \in ToSet(Names)
      BY <1>1, <1>3
    <2>2. L + 1 \in Int /\ Len(p) \in Int
      BY <1>1, <1>3
    <2>3. /\ parts \in Seq(ToSet(Names))
          /\ Len(parts) = IF L + 1 <= Len(p) THEN Len(p) - (L + 1) + 1 ELSE 0
          /\ \A i \in 1 .. Len(p) - (L + 1) + 1 : parts[i] = p[(L + 1) + i - 1]
      BY <2>1, <2>2, SubSeqProperties
    <2> HIDE DEF parts
    <2>4. Len(p) - (L + 1) + 1 = N /\ (IF L + 1 <= Len(p) THEN N ELSE 0) = N
      BY <1>1, <1>3
    <2>5. \A i \in 1 .. N : (L + 1) + i - 1 = L + i
      BY <1>1, <1>3
    <2> QED BY <2>3, <2>4, <2>5
  <1>6. ResolveHFS(HFSPath(p), Nowhere) = WalkHFS(root, parts)
    <2> HIDE DEF parts
    <2>1. HFSPath(p) = [volume |-> volume, leading |-> 0, parts |-> parts]
      BY DEF HFSPath, Absolute, parts
    <2> HIDE DEF volume
    <2>2. ResolveHFS(HFSPath(p), Nowhere) = WalkHFS(Root(volume), << >> \o parts)
      BY <2>1 DEF ResolveHFS
    <2>3. << >> \o parts = parts
      BY <1>5, ConcatEmptySeq
    <2> QED BY <2>2, <2>3
  <1>7. N \in Nat
    BY <1>1, <1>3
  <1>8. parts \in Seq(Parts)
    <2> HIDE DEF parts
    <2>1. ToSet(Names) \subseteq Parts
      BY DEF Parts
    <2> QED BY <1>5, <2>1
  <1> HIDE DEF volume, root, parts, N, L
  <1>9. PICK at : /\ at[0] = root
                  /\ \A n \in 1 .. N : at[n] = Component(at[n - 1], parts[n])
                  /\ WalkHFS(root, parts) = at[N]
    <2>1. \E at : /\ at[0] = root
                  /\ \A n \in 1 .. Len(parts) :
                        at[n] = Component(at[n - 1], parts[n])
                  /\ WalkHFS(root, parts) = at[Len(parts)]
      BY <1>8, HFSTurns
    <2> QED BY <1>5, <2>1
  <1> DEFINE S == {k \in 0 .. N : at[k] = SubSeq(p, 1, L + k)}
  <1>10. 0 \in S
    <2> DEFINE s == SubSeq(p, 1, L)
    <2>1. L \in 0 .. Len(p)
      BY <1>1, <1>3
    <2>2. s \in Path /\ Len(s) = L /\ \A i \in 1 .. L : s[i] = p[i]
      BY <2>1, BeginningIs
    <2> HIDE DEF s
    <2>3. Len(root) = L
      BY DEF L
    <2>4. s = root
      BY <1>2, <1>3, <2>2, <2>3, SamePath
    <2>5. SubSeq(p, 1, L + 0) = root
      BY <1>3, <2>4 DEF s
    <2>6. at[0] = SubSeq(p, 1, L + 0) /\ 0 \in 0 .. N
      BY <1>7, <1>9, <2>5
    <2> HIDE DEF s
    <2> QED BY <2>6
  <1>11. ASSUME NEW k \in 1 .. N, k - 1 \in S
         PROVE  k \in S
    <2> DEFINE j == L + k
               f == SubSeq(p, 1, j - 1)
               s == SubSeq(p, 1, j)
    <2>1. /\ j \in 1 .. Len(p) /\ j > L /\ L + (k - 1) = j - 1
          /\ j - 1 \in 0 .. Len(p)
      BY <1>1, <1>3 DEF N
    <2>2. at[k - 1] = SubSeq(p, 1, L + (k - 1))
      BY <1>11
    <2>3. at[k - 1] = f
      BY <2>1, <2>2
    <2>4. parts[k] = p[j]
      BY <1>5
    <2> HIDE DEF j
    <2>5. ~IsRoot(s)
      BY <1>4, <2>1
    <2>6. FirstNamed(f, p[j]) = s
      BY <2>1, <2>5, NextOnPath
    <2>7. f \in Path
      BY <2>1, BeginningIs
    <2> HIDE DEF f, s
    <2>8. p[j] \notin {".", ".."}
      BY <1>1, <2>1, VfsAssumption
    <2>9. Component(f, p[j]) = s
      BY <2>6, <2>7, <2>8, NodesArePaths DEF Component
    <2>10. at[k] = s
      BY <1>9, <2>3, <2>4, <2>9
    <2> QED BY <1>7, <2>10 DEF s, j
  <1> HIDE DEF S
  <1>12. \A k \in 0 .. N : k \in S
    BY <1>7, <1>10, <1>11, UpTo
  <1>13. N \in S
    BY <1>7, <1>12
  <1>14. at[N] = SubSeq(p, 1, L + N)
    BY <1>13 DEF S
  <1>15. L + N = Len(p)
    BY <1>1, <1>3 DEF N
  <1>16. SubSeq(p, 1, Len(p)) = p
    BY <1>1, SubSeqFull DEF Path
  <1> QED BY <1>6, <1>9, <1>14, <1>15, <1>16

LEMMA NamesLead == SearchInv => NamesLeadBack
  <1> SUFFICES ASSUME SearchInv, NEW p \in DOMAIN disk, Unambiguous(p)
               PROVE  /\ ReadSpec(FileSpec(p)) = p
                      /\ FromFSSpec(FSSpec(p)) = p
                      /\ ResolveHFS(HFSPath(p), Nowhere) = p
    BY Zenon DEF NamesLeadBack
  <1>1. disk \in Disks /\ p \in Path
    BY DiskIs DEF SearchInv
  <1>2. CASE IsRoot(p)
    <2>1. NameOf(p) = NoName
      BY <1>2 DEF NameOf
    <2>2. FileSpec(p) = [parent |-> p, name |-> NoName]
      BY <1>2, <2>1 DEF FileSpec
    <2>3. ReadSpec(FileSpec(p)) = p
      BY <2>2 DEF ReadSpec
    <2>4. FSSpec(p) = [volume |-> Volume(p), parent |-> BuildRoot, name |-> NoName]
      BY <1>2, <2>1 DEF FSSpec
    <2>5. p = Root(Volume(p))
      BY <1>2 DEF IsRoot
    <2>6. SpecParent(FSSpec(p)) = p
      <3>1. Volume(BuildRoot) = "Build" /\ Root("Build") = BuildRoot
        BY <1>1, RootsAre
      <3> QED BY <2>4, <2>5, <3>1 DEF SpecParent
    <2>7. FromFSSpec(FSSpec(p)) = p
      BY <2>4, <2>6 DEF FromFSSpec
    <2> QED BY <1>1, <2>3, <2>7, HFSPathLeadsTo
  <1>3. CASE ~IsRoot(p)
    <2> DEFINE f == Front(p)
               n == Last(p)
    <2>1. ChildrenNamed(f, n) # {} /\ FirstNamed(f, n) = p /\ n # NoName
      BY <1>1, <1>3, NameLeadsTo
    <2>2. Parent(p) = f /\ NameOf(p) = n /\ f \in Path /\ Volume(f) = Volume(p)
      BY <1>1, <1>3, ParentIs
    <2> HIDE DEF f, n
    <2>3. FileSpec(p) = [parent |-> f, name |-> n]
      BY <1>3, <2>2 DEF FileSpec
    <2>4. ReadSpec(FileSpec(p)) = p
      BY <2>1, <2>3 DEF ReadSpec
    <2>5. FSSpec(p) = [volume |-> Volume(p), parent |-> f, name |-> n]
      BY <1>3, <2>2 DEF FSSpec
    <2>6. SpecParent(FSSpec(p)) = f
      BY <2>2, <2>5 DEF SpecParent
    <2>7. f # Nowhere
      BY <2>2, NodesArePaths
    <2>8. FromFSSpec(FSSpec(p)) = p
      BY <2>1, <2>5, <2>6, <2>7 DEF FromFSSpec
    <2> QED BY <1>1, <2>4, <2>8, HFSPathLeadsTo
  <1> QED BY <1>2, <1>3

-----------------------------------------------------------------------------
(* The search *)

LEMMA SearchStarts == SearchInit => SearchInv
  BY DiskIs DEF SearchInit, SearchInv, IsDir

\* What a name leads to is no directory.
LEMMA FoundIsNoDirectory ==
    ASSUME SearchInv, NEW name \in Plain, NEW fullsearch \in BOOLEAN,
           NEW dependent \in Dependents, NEW node,
           node = FindPlain(name, SearchRoots(fullsearch, dependent)), node # Nowhere
    PROVE  node \in Path /\ ~IsDir(node)
  <1> DEFINE roots == SearchRoots(fullsearch, dependent)
             places == Sought(fullsearch, dependent)
             nodes == [i \in DOMAIN roots |-> Match(roots[i], name)]
             N == Len(places)
  <1>1. disk \in Disks
    BY DEF SearchInv
  <1>2. /\ N \in Nat /\ DOMAIN roots = 1 .. N
        /\ \A i \in 1 .. N :
              /\ places[i] \in Path
              /\ roots[i] = IF /\ i \in OfUser(fullsearch, dependent)
                               /\ places[i] \notin DOMAIN disk
                            THEN Nowhere ELSE places[i]
    BY RootsOfSearch
  <1>3. node = FirstOf(nodes)
    BY DEF FindPlain
  <1> HIDE DEF roots, places, N
  <1>4. DOMAIN nodes = 1 .. N /\ \A i \in 1 .. N : nodes[i] = Match(roots[i], name)
    BY <1>2
  <1> HIDE DEF nodes
  <1>5. PICK i \in 1 .. N : nodes[i] = node
    BY <1>2, <1>3, <1>4, FirstOfIs
  <1> DEFINE user == i \in OfUser(fullsearch, dependent)
             place == places[i]
             root == roots[i]
  <1>6. user \in BOOLEAN
    OBVIOUS
  <1>7. /\ place \in Path /\ node = Match(root, name)
        /\ root = IF user /\ place \notin DOMAIN disk THEN Nowhere ELSE place
    BY <1>2, <1>4, <1>5
  <1> HIDE DEF user, place, root
  <1>8. node \in Path /\ FoundIn(node, place, user)
    BY <1>1, <1>6, <1>7, MatchIs
  <1>9. IsFile(node) \/ node \notin DOMAIN disk
    BY <1>8 DEF FoundIn
  <1> QED BY <1>1, <1>8, <1>9, DiskIs DEF IsDir

\* What is remembered was found: a file, or a place where nothing is.
LEMMA SearchStep == SearchInv /\ [SearchNext]_searchVars => SearchInv'
  <1> SUFFICES ASSUME SearchInv, [SearchNext]_searchVars
               PROVE  SearchInv'
    OBVIOUS
  <1>1. disk \in Disks
    BY DEF SearchInv
  <1>2. ASSUME NEW node, Remember(node), node \in Path, ~IsDir(node)
        PROVE  SearchInv'
    BY <1>1, <1>2 DEF Remember, SearchInv, IsDir
  <1>3. ASSUME NEW path \in Colons, LoadColons(path)
        PROVE  SearchInv'
    BY <1>3 DEF LoadColons, SearchInv, IsDir
  <1>4. ASSUME NEW components \in Slashed, NEW fullsearch \in BOOLEAN,
               NEW dependent \in Dependents,
               LoadSlashed(components, fullsearch, dependent)
        PROVE  SearchInv'
    <2> DEFINE node == WalkSlashInclude(components, SearchRoots(fullsearch, dependent))
    <2>1. Remember(node) /\ node # Nowhere
      BY <1>4 DEF LoadSlashed, Remember
    <2>2. IsFile(node)
      BY <2>1, StaysConfined DEF Confined
    <2> HIDE DEF node
    <2> QED BY <1>1, <1>2, <2>1, <2>2, DiskIs DEF IsFile
  <1>5. ASSUME NEW name \in Plain, NEW fullsearch \in BOOLEAN,
               NEW dependent \in Dependents,
               LoadPlain(name, fullsearch, dependent)
        PROVE  SearchInv'
    <2> DEFINE node == FindPlain(name, SearchRoots(fullsearch, dependent))
    <2>1. Remember(node) /\ node # Nowhere
      BY <1>5 DEF LoadPlain, Remember
    <2>2. node \in Path /\ ~IsDir(node)
      BY <2>1, FoundIsNoDirectory
    <2> HIDE DEF node
    <2> QED BY <1>2, <2>1, <2>2
  <1>6. CASE UNCHANGED searchVars
    BY <1>6 DEF searchVars, SearchInv, IsDir
  <1> QED BY <1>3, <1>4, <1>5, <1>6 DEF SearchNext

\* What is looked up from callback to callback starts from a file, or from a
\* place where nothing is, of one of the file systems considered.
THEOREM SearchInvariant == SearchSpec => []SearchInv
  BY SearchStarts, SearchStep, PTL DEF SearchSpec

\* On any disk, for any search paths and whatever was loaded before, a name is
\* found in the first of the places that has it, and is missing only when none
\* has it (_find_file, session.py).
THEOREM SearchInOrder == SearchSpec => []SearchOrder
  BY SearchInvariant, OrderKept, PTL

\* However long the path and however it mixes "..", an include never leaves
\* the search root it started from (_walk_slash_include, session.py).
THEOREM StaysBelowRoot == SearchSpec => []Confined
  BY SearchInvariant, StaysConfined, PTL

\* An HFS path of any length never crosses from one volume into the other
\* (resolve_hfs, vfs.py).
THEOREM VolumesApart == SearchSpec => []KeepsVolume
  BY SearchInvariant, VolumeKept, PTL

\* The three names of any node, as deep as it may be, lead back to it unless
\* a name on the way is there twice up to case (_spec, fsspec and hfs_path).
THEOREM NamesRoundTrip == SearchSpec => []NamesLeadBack
  BY SearchInvariant, NamesLead, PTL
=============================================================================
