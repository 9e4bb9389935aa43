------------------------------ MODULE Include ------------------------------
(***************************************************************************)
(* The search behind #include: CWFindAndLoadFile (pluginlib.py) and        *)
(* _find_file (session.py).  A relative include is first looked for beside *)
(* the file whose text was loaded last, which the session remembers from   *)
(* one callback to the next.  No callback of a session changes a file, so  *)
(* the disk is fixed; which disk it is is the initial state's choice.      *)
(***************************************************************************)
EXTENDS Vfs

CONSTANTS
    Disks,          \* the file systems considered
    MainFile,       \* files[0], the source
    UserPaths,      \* -I options, then the directory of the source
    SystemPaths,    \* -ir options, then the toolchain's
    Plain,          \* requests: names without "/" and ":"
    Slashed,        \* requests: the components between slashes
    Colons          \* requests: HFS paths

\* A component of a path, as it is written.
Parts == ToSet(Names) \union {".", ".."}

\* Directories hold what is on a disk; the source and its directory, the
\* Build volume's root, are there.
FileSystem(d) ==
    /\ DOMAIN d \subseteq Path
    /\ \A p \in DOMAIN d :
          /\ d[p] \in {"dir", "file"}
          /\ \A q \in Prefixes(p) \ {p} : q \in DOMAIN d /\ d[q] = "dir"
    /\ {BuildRoot, MainFile} \subseteq DOMAIN d
    /\ d[BuildRoot] = "dir" /\ d[MainFile] = "file"

ASSUME IncludeAssumption ==
    /\ \A d \in Disks : FileSystem(d)
    /\ MainFile \in Path /\ Volume(MainFile) = "Build"
    /\ UserPaths \in Seq(Path) /\ SystemPaths \in Seq(Path)
    /\ Plain \subseteq ToSet(Names) /\ Slashed \subseteq Seq(Parts)
    /\ \A c \in Colons :
          /\ c.leading \in Nat /\ c.parts \in Seq(Parts)
          /\ c.leading = 0 => c.volume \in {"Build", "Host"}

VARIABLES
    last,           \* _last_loaded_node
    loaded          \* history: the file whose text was loaded last

searchVars == <<disk, last, loaded>>

Dependents == {-1, 0}

SearchInit ==
    /\ disk \in Disks
    /\ last = Nowhere
    /\ loaded = Nowhere

-----------------------------------------------------------------------------
(* Where to look *)

\* The user's paths, Nowhere in the place of one that is left out as it does
\* not exist, and the system's whether they exist or not.
Configured ==
    [i \in DOMAIN UserPaths |->
        IF UserPaths[i] \in DOMAIN disk THEN UserPaths[i] ELSE Nowhere]
    \o SystemPaths

Including(dependent) ==
    IF dependent = 0 \/ last = Nowhere THEN MainFile ELSE last

\* Mutation: beside the main file, whatever was loaded since.
RootsOfMain(fullsearch, dependent) ==
    (IF fullsearch THEN << >> ELSE <<Parent(MainFile)>>) \o Configured

SearchRoots(fullsearch, dependent) ==
    (IF fullsearch \/ IsRoot(Including(dependent)) THEN << >>
     ELSE <<Parent(Including(dependent))>>) \o Configured

\* Mutation: ".." goes wherever it leads.
StepAnywhere(root, current, component) ==
    IF current = Nowhere THEN Nowhere
    ELSE IF component = "." THEN current
    ELSE IF component = ".." THEN Parent(current)
    ELSE FirstNamed(current, component)

\* One component of a slash path.  Leaving the root by ".." gives the root up.
Step(root, current, component) ==
    IF current = Nowhere THEN Nowhere
    ELSE IF component = "." THEN current
    ELSE IF component = ".."
    THEN IF ~IsRoot(current) /\ root \in Upward(Parent(current))
         THEN Parent(current) ELSE Nowhere
    ELSE FirstNamed(current, component)

\* Where the components lead from root, one after the other.
WalkSlash(root, components) ==
    LET at[n \in 0 .. Len(components)] ==
            IF n = 0 THEN root ELSE Step(root, at[n - 1], components[n])
    IN  at[Len(components)]

\* The file a path leads to from root.
Walked(root, components) ==
    IF IsDir(root) /\ ~IsDir(WalkSlash(root, components))
    THEN WalkSlash(root, components) ELSE Nowhere

\* The first of these nodes that is one.
FirstOf(nodes) ==
    LET there == {i \in DOMAIN nodes : nodes[i] # Nowhere}
    IN  IF there = {} THEN Nowhere ELSE nodes[Min(there)]

\* _walk_slash_include: the first root under which the path leads to a file.
WalkSlashInclude(components, roots) ==
    FirstOf([i \in DOMAIN roots |-> Walked(roots[i], components)])

\* A root that is no directory answers to its own name.
Match(root, name) ==
    IF IsDir(root)
    THEN FirstChild(root, {i \in ChildrenNamed(root, name) :
                              ~IsDir(Append(root, Names[i]))})
    ELSE IF root # Nowhere /\ ~IsRoot(root) /\ Fold[NameOf(root)] = Fold[name]
    THEN root ELSE Nowhere

FindPlain(name, roots) ==
    FirstOf([i \in DOMAIN roots |-> Match(roots[i], name)])

-----------------------------------------------------------------------------
(* CWFindAndLoadFile *)

\* The text of what was found is loaded; a directory has none, which raises.
LoadText(node) == loaded' = IF IsFile(node) THEN node ELSE loaded

Remember(node) ==
    /\ node # Nowhere
    /\ last' = node
    /\ LoadText(node)
    /\ UNCHANGED disk

\* An HFS path that leads nowhere falls through to the other two searches,
\* which find nothing, as no name on the disk holds a colon; one that names an
\* unknown volume, or climbs above a root, raises.  What is found is loaded but
\* not remembered.
LoadColons(path) ==
    LET node == ResolveHFS(path, Parent(MainFile))
    IN  /\ node \notin {Nowhere, Above}
        /\ LoadText(node)
        /\ UNCHANGED <<disk, last>>

LoadSlashed(components, fullsearch, dependent) ==
    Remember(WalkSlashInclude(components, SearchRoots(fullsearch, dependent)))

LoadPlain(name, fullsearch, dependent) ==
    Remember(FindPlain(name, SearchRoots(fullsearch, dependent)))

SearchNext ==
    \/ \E path \in Colons : LoadColons(path)
    \/ \E fullsearch \in BOOLEAN, dependent \in Dependents :
          \/ \E components \in Slashed :
                LoadSlashed(components, fullsearch, dependent)
          \/ \E name \in Plain : LoadPlain(name, fullsearch, dependent)

SearchSpec == SearchInit /\ [][SearchNext]_searchVars

-----------------------------------------------------------------------------
(* Properties *)

\* p is called name in its directory, up to case.
Called(p, name) == p # << >> /\ Fold[Last(p)] = Fold[name]

\* A name is found in the directory of the file that asks, whichever file
\* was loaded by name before it, then in the user's paths, then the system's;
\* it is missing only when none of them has it, and what is found is in the
\* first that has it.  A path that is a file has its own name only, and so
\* has a path where nothing is, unless it is the user's (session.py:242-265,
\* 328-334, api.py:62-63).
SearchOrder ==
    \A name \in Plain, fullsearch \in BOOLEAN, dependent \in Dependents :
        LET asking == IF dependent = 0 \/ last = Nowhere THEN MainFile ELSE last
            beside == IF fullsearch THEN << >> ELSE <<Front(asking)>>
            places == beside \o UserPaths \o SystemPaths
            Users  == Len(beside) + 1 .. Len(beside) + Len(UserPaths)
            In(p, i) ==
                \/ IsFile(p) /\ places[i] \in {p, Front(p)}
                \/ p \notin DOMAIN disk /\ places[i] = p /\ i \notin Users
            Has(i) == \E p \in DOMAIN disk \union ToSet(places) :
                         Called(p, name) /\ In(p, i)
            found  == FindPlain(name, SearchRoots(fullsearch, dependent))
        IN  IF found = Nowhere
            THEN \A i \in DOMAIN places : ~Has(i)
            ELSE /\ Called(found, name)
                 /\ \E i \in DOMAIN places :
                       In(found, i) /\ \A j \in 1 .. i - 1 : ~Has(j)

\* How often the first k components climb, and descend.
Ups(components, k) ==
    Cardinality({j \in 1 .. k : components[j] = ".."})
Downs(components, k) ==
    Cardinality({j \in 1 .. k : components[j] \notin {".", ".."}})

\* An include that climbs with ".." never leaves the search root it started
\* from, not even to come back to it or to enter another: what it finds is
\* as deep below a root as the path says, and no beginning of the path climbs
\* more than it descends (session.py:287-293).
Confined ==
    \A components \in Slashed, fullsearch \in BOOLEAN, dependent \in Dependents :
        LET roots == SearchRoots(fullsearch, dependent)
            found == WalkSlashInclude(components, roots)
            n     == Len(components)
        IN  found # Nowhere =>
               /\ IsFile(found)
               /\ \A k \in 1 .. n : Ups(components, k) <= Downs(components, k)
               /\ \E i \in DOMAIN roots :
                     /\ IsStrictPrefix(roots[i], found)
                     /\ Len(found) = Len(roots[i]) + Downs(components, n)
                                                   - Ups(components, n)

\* An HFS path leads to a node of its own volume, the source's when it is
\* relative, or to none, however it climbs (vfs.py:379-413).
KeepsVolume ==
    \A path \in Colons :
        LET node == ResolveHFS(path, Parent(MainFile))
        IN  node \notin {Nowhere, Above} =>
               /\ node \in DOMAIN disk
               /\ Volume(node) = IF path.leading = 0 THEN path.volume ELSE "Build"

\* Nothing beside p or beside a directory above it differs from it in case.
Unambiguous(p) ==
    \A q \in DOMAIN disk, k \in 1 .. Len(p) :
        /\ Len(q) = k /\ Front(q) = SubSeq(p, 1, k - 1)
        /\ Fold[Last(q)] = Fold[p[k]]
        => q = SubSeq(p, 1, k)

\* The CWFileSpec, the FSSpec and the HFS path the plug-in is given of a node
\* each lead back to that node, in both volumes and at their roots, unless
\* names on the way differ only in case (pluginlib.py:66-103,
\* vfs.py:379-469).
NamesLeadBack ==
    \A p \in DOMAIN disk : Unambiguous(p) =>
        /\ ReadSpec(FileSpec(p)) = p
        /\ FromFSSpec(FSSpec(p)) = p
        /\ ResolveHFS(HFSPath(p), Nowhere) = p

\* What the comment says of a dependent index of -1: it "is how the compiler
\* denotes the file whose text was loaded most recently" (session.py:245-247).
LastIsLoaded == loaded # Nowhere => Including(-1) = loaded
=============================================================================
