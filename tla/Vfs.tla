-------------------------------- MODULE Vfs --------------------------------
(***************************************************************************)
(* File identities (src/src/cwhost/vfs.py): host paths divided into the    *)
(* two classic volumes, the case-insensitive lookup of a child, and the    *)
(* three ways a node is named to the plug-in and found again: a            *)
(* CWFileSpec, an FSSpec and an HFS path.  A VFS keeps one node for each   *)
(* path and never gives its id to another, so a node is its path here.     *)
(* Symbolic links are not modelled.                                        *)
(***************************************************************************)
EXTENDS Integers, SequencesExt

CONSTANTS
    Names,          \* file names in the order of a listing: casefolded, exact;
                    \* none holds a colon
    Fold,           \* name |-> its casefolded form
    BuildRoot       \* path of the root of the Build volume

Path == Seq(ToSet(Names))

NoName  == ""
Nowhere == <<"nowhere">>    \* None: no node
Above   == <<"above">>      \* HostError: above the root of a volume

ASSUME VfsAssumption ==
    /\ Names \in Seq(DOMAIN Fold) /\ ToSet(Names) = DOMAIN Fold
    /\ ToSet(Names) \cap {NoName, ".", "..", "nowhere", "above"} = {}
    /\ BuildRoot \in Path \ {<< >>}

VARIABLE disk       \* path |-> "dir" or "file", for the paths that exist

IsDir(p)  == p \in DOMAIN disk /\ disk[p] = "dir"
IsFile(p) == p \in DOMAIN disk /\ disk[p] = "file"

-----------------------------------------------------------------------------
(* Nodes *)

Volume(p)    == IF IsPrefix(BuildRoot, p) THEN "Build" ELSE "Host"
Root(volume) == IF volume = "Build" THEN BuildRoot ELSE << >>

\* The root of a volume has no name and no parent.
IsRoot(p) == p = Root(Volume(p))
NameOf(p) == IF IsRoot(p) THEN NoName ELSE Last(p)

\* Mutation: the parent of the Build volume's root is a node of Host.
HostParent(p) == IF p = << >> THEN Nowhere ELSE Front(p)

Parent(p) == IF IsRoot(p) THEN Nowhere ELSE Front(p)

\* The directories from p up to the root of its volume, p included.
Upward(p) == {q \in Prefixes(p) : Volume(q) = Volume(p)}

\* The paths in p that are among those that are there, in the order of names.
Listing(p, there) ==
    SelectSeq([i \in DOMAIN Names |-> Append(p, Names[i])], LAMBDA c : c \in there)

\* The listing of a directory holds the child directory that is the Build
\* volume's root like any other, but under the name it has as a node: none.
Children(p) ==
    IF IsDir(p)
    THEN Listing(p, {Append(p, n) : n \in ToSet(Names)} \cap DOMAIN disk)
    ELSE << >>

\* children_named: the children called name, as places in the order of names.
ChildrenNamed(p, name) ==
    {i \in DOMAIN Names :
        LET c == Append(p, Names[i])
        IN  /\ IsDir(p) /\ c \in DOMAIN disk
            /\ NameOf(c) # NoName /\ Fold[NameOf(c)] = Fold[name]}

\* The first of the children at these places.
FirstChild(p, places) ==
    IF places = {} THEN Nowhere ELSE Append(p, Names[Min(places)])

FirstNamed(p, name) == FirstChild(p, ChildrenNamed(p, name))

-----------------------------------------------------------------------------
(* Names of a node, and the node of a name *)

\* _spec and _read_spec: the FSRef of the parent and the name.
FileSpec(p) ==
    [parent |-> IF IsRoot(p) THEN p ELSE Parent(p), name |-> NameOf(p)]

ReadSpec(spec) ==
    IF spec.name = NoName THEN spec.parent
    ELSE IF ChildrenNamed(spec.parent, spec.name) = {}
    THEN Append(spec.parent, spec.name)
    ELSE FirstNamed(spec.parent, spec.name)

\* fsspec and node_from_fsspec: the parent by its id, 2 for a root's; 2 is
\* also the id of the Build root, and the volume tells which is meant.
FSSpec(p) ==
    [volume |-> Volume(p),
     parent |-> IF IsRoot(p) THEN BuildRoot ELSE Parent(p),
     name   |-> NameOf(p)]

\* Mutation: the volume is not looked at.
SpecParentById(spec) == spec.parent

SpecParent(spec) ==
    IF Volume(spec.parent) = spec.volume THEN spec.parent
    ELSE IF spec.parent = BuildRoot THEN Root(spec.volume) ELSE Nowhere

FromFSSpec(spec) ==
    IF spec.name = NoName \/ SpecParent(spec) = Nowhere THEN SpecParent(spec)
    ELSE FirstNamed(SpecParent(spec), spec.name)

\* An HFS path: from a volume, or from a directory after leading colons.
Absolute(volume, parts) == [volume |-> volume, leading |-> 0, parts |-> parts]
Relative(leading, parts) == [volume |-> NoName, leading |-> leading, parts |-> parts]

\* hfs_path
HFSPath(p) ==
    Absolute(Volume(p), SubSeq(p, Len(Root(Volume(p))) + 1, Len(p)))

\* Mutation: ".." at the root of a volume climbs into the other one.
ComponentAnywhere(current, part) ==
    IF current \in {Nowhere, Above} THEN current
    ELSE IF part = "." THEN current
    ELSE IF part = ".." THEN HostParent(current)
    ELSE FirstNamed(current, part)

\* One component of an HFS path.
Component(current, part) ==
    IF current \in {Nowhere, Above} THEN current
    ELSE IF part = "." THEN current
    ELSE IF part = ".." THEN (IF IsRoot(current) THEN Above ELSE Parent(current))
    ELSE FirstNamed(current, part)

\* Where the components lead from start, one after the other.
WalkHFS(start, parts) ==
    LET at[n \in 0 .. Len(parts)] ==
            IF n = 0 THEN start ELSE Component(at[n - 1], parts[n])
    IN  at[Len(parts)]

\* resolve_hfs: the leading colons after the first climb as ".." does.
ResolveHFS(path, cwd) ==
    LET start == IF path.leading = 0 THEN Root(path.volume) ELSE cwd
        climb == IF path.leading < 2 THEN << >>
                 ELSE [i \in 1 .. path.leading - 1 |-> ".."]
    IN  WalkHFS(start, climb \o path.parts)
=============================================================================
