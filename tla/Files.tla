------------------------------- MODULE Files -------------------------------
(***************************************************************************)
(* What changes a file system under a VFS (src/src/cwhost/vfs.py, with     *)
(* appledouble.py): writing and deleting a data fork, renaming, and        *)
(* writing a resource fork or FinderInfo, natively or in a "._" sidecar.   *)
(* Listings are cached by node and dropped along the path that changed.    *)
(***************************************************************************)
EXTENDS Vfs

CONSTANTS
    Places,         \* the paths that are written, deleted and renamed
    Listable,       \* the paths whose children are asked for
    Side            \* the name of a file with metadata |-> its sidecar's name

ASSUME FilesAssumption ==
    /\ Places \union Listable \subseteq Path
    \* A source lies in the Build volume, which stays where it is.
    /\ \A p \in Places : ~IsPrefix(p, BuildRoot)
    /\ DOMAIN Side \union {Side[n] : n \in DOMAIN Side} \subseteq ToSet(Names)
    \* Sidecars are written by nothing else.
    /\ \A p \in Places, n \in DOMAIN Side : Last(p) # Side[n]

VARIABLES
    native,         \* the system stores extended attributes of a file
    listings,       \* _children_cache: path |-> the children it had
    attributes,     \* <<file, entry>> of the extended attributes set
    entries,        \* <<file, entry>> of the files' sidecars
    moved,          \* history: directories that were renamed, from and to
    cut             \* history: a file or sidecar whose write failed half way

vars == <<disk, native, listings, attributes, entries, moved, cut>>

ResourceFork == 2   \* AppleDouble's entry ids
FinderInfo   == 9

Init ==
    /\ disk = [p \in Prefixes(BuildRoot) |-> "dir"]
    /\ native \in BOOLEAN
    /\ listings = << >>
    /\ attributes = {} /\ entries = {}
    /\ moved = {} /\ cut = Nowhere

-----------------------------------------------------------------------------
(* Listings *)

\* Mutation: only the file and the directory it is in.
AffectedNearby(p) == {p, Front(p)}

\* Mutation: only what is above the file.
AffectedAbove(p) == Upward(p) \ {p}

\* invalidate_path: the keys from p up to the root of its volume.
Affected(p) == Upward(p)

Without(paths) == [q \in DOMAIN listings \ paths |-> listings[q]]

\* f with the value v for each of these paths.
With(f, paths, v) ==
    [q \in paths \union DOMAIN f |-> IF q \in paths THEN v ELSE f[q]]

\* A node that is no directory has an empty listing, which is cached too.
List(p) ==
    /\ p \notin DOMAIN listings
    /\ listings' = With(listings, {p}, Children(p))
    /\ UNCHANGED <<disk, native, attributes, entries, moved, cut>>

-----------------------------------------------------------------------------
(* Data forks *)

\* mkdir(parents=True): no file is on the way.
CanMake(p) == \A q \in Prefixes(Front(p)) : q \in DOMAIN disk => IsDir(q)

WithParents(p) == With(disk, Prefixes(Front(p)), "dir")

\* The parents that are missing are made; then the file is written.
WriteDataFork(p) ==
    /\ CanMake(p) /\ ~IsDir(p)
    /\ disk' = With(WithParents(p), {p}, "file")
    /\ listings' = Without(Affected(p))
    /\ UNCHANGED <<native, attributes, entries, moved, cut>>

\* Bound: a behaviour has one of the two kinds of step that leave listings
\* behind, a write that fails and renames of directories, the latter
\* between one pair of places.
Undisturbed == cut = Nowhere /\ moved = {}

\* Opening or writing the file fails: the parents stay, the file may be there,
\* and the exception leaves before anything is invalidated.
WriteFails(p) ==
    /\ CanMake(p) /\ ~IsDir(p)
    /\ Undisturbed
    /\ disk' \in {WithParents(p), With(WithParents(p), {p}, "file")} \ {disk}
    /\ cut' = p
    /\ UNCHANGED <<native, listings, attributes, entries, moved>>

Sided == {p \in Places : Last(p) \in DOMAIN Side}

Sidecar(p) == Append(Front(p), Side[Last(p)])

Sidecars == {Sidecar(p) : p \in Sided}

Below(p) == {q \in DOMAIN disk : IsPrefix(p, q)}

Of(metadata, paths) == {m \in metadata : m[1] \in paths}

\* rmdir removes a directory only if it is empty.  A sidecar stays.
Delete(p) ==
    /\ Below(p) = {p}
    /\ disk' = [q \in DOMAIN disk \ {p} |-> disk[q]]
    /\ attributes' = attributes \ Of(attributes, {p})
    /\ listings' = Without(Affected(p))
    /\ UNCHANGED <<native, entries, moved, cut>>

-----------------------------------------------------------------------------
(* rename *)

\* A file replaces a file, a directory an empty directory; neither goes below
\* itself.
CanRename(p, q) ==
    /\ p \in DOMAIN disk /\ IsDir(Front(q))
    /\ ~IsPrefix(p, q)
    /\ q \in DOMAIN disk => /\ disk[q] = disk[p]
                            /\ Below(q) = {q}

\* Where renaming p to q takes r.
Taken(p, q, r) == q \o SubSeq(r, Len(p) + 1, Len(r))

\* The metadata, of which some goes where p does.
Carried(p, q, metadata, some) ==
    (metadata \ some) \union {<<Taken(p, q, m[1]), m[2]>> : m \in some}

\* Mutation: only where the file went is invalidated.
DroppedAtDestination(p, q) == Affected(q)

DroppedByRename(p, q) == Affected(p) \union Affected(q)

\* Extended attributes go with the file, and a sidecar with the directory it
\* is in: a file's own stays where it is.
Rename(p, q) ==
    /\ CanRename(p, q)
    /\ {Taken(p, q, r) : r \in Below(p)} \subseteq Places \union Sidecars
    /\ disk' = [r \in {Taken(p, q, s) : s \in Below(p)}
                        \union (DOMAIN disk \ Below(p)) |->
                   IF IsPrefix(q, r) THEN disk[Taken(q, p, r)] ELSE disk[r]]
    /\ attributes' = Carried(p, q, attributes \ Of(attributes, {q}),
                             Of(attributes, Below(p)))
    /\ entries' = Carried(p, q, entries, {m \in entries : IsStrictPrefix(p, m[1])})
    /\ IsDir(p) => Undisturbed \/ moved = {p, q}
    /\ moved' = IF IsDir(p) THEN {p, q} ELSE moved
    /\ listings' = Without(DroppedByRename(p, q))
    /\ UNCHANGED <<native, cut>>

-----------------------------------------------------------------------------
(* Resource forks and FinderInfo *)

\* An extended attribute of a file that is there.
SetAttribute(p, entry) ==
    /\ native /\ p \in DOMAIN disk
    /\ attributes' = attributes \union {<<p, entry>>}
    /\ UNCHANGED <<disk, entries>>

\* A sidecar that is there can be read: it was not cut off.
Readable(p) == Sidecar(p) \in DOMAIN disk =>
                   IsFile(Sidecar(p)) /\ Of(entries, {p}) # {}

\* Mutation: the sidecar is written new each time.
WriteNewSidecar(p, entry) ==
    /\ ~(native /\ p \in DOMAIN disk)
    /\ CanMake(p) /\ Readable(p)
    /\ disk' = With(WithParents(p), {Sidecar(p)}, "file")
    /\ entries' = (entries \ Of(entries, {p})) \union {<<p, entry>>}
    /\ UNCHANGED attributes

\* Without them the sidecar's entries are read, one is set and all of them
\* are written; a sidecar needs no file beside it, and makes its directory.
WriteSidecarEntry(p, entry) ==
    /\ ~(native /\ p \in DOMAIN disk)
    /\ CanMake(p) /\ Readable(p)
    /\ disk' = With(WithParents(p), {Sidecar(p)}, "file")
    /\ entries' = entries \union {<<p, entry>>}
    /\ UNCHANGED attributes

\* Opening or writing the sidecar fails: its directory stays, and a sidecar
\* that was opened is cut off, with whatever it held.
SidecarFails(p) ==
    /\ ~(native /\ p \in DOMAIN disk)
    /\ CanMake(p) /\ Readable(p)
    /\ Undisturbed
    /\ \/ disk' = WithParents(p) /\ disk' # disk /\ entries' = entries
       \/ /\ disk' = With(WithParents(p), {Sidecar(p)}, "file")
          /\ entries' = entries \ Of(entries, {p})
    /\ cut' = Sidecar(p)
    /\ UNCHANGED <<native, listings, attributes, moved>>

\* write_resource_fork and set_finder_info, which differ in the entry.
WriteMetadata(p, entry) ==
    /\ \/ SetAttribute(p, entry)
       \/ WriteSidecarEntry(p, entry)
    /\ listings' = Without(Affected(p))
    /\ UNCHANGED <<native, moved, cut>>

Next ==
    \/ \E p \in Listable : List(p)
    \/ \E p \in Places :
          \/ WriteDataFork(p) \/ WriteFails(p) \/ Delete(p)
          \/ \E q \in Places : Rename(p, q)
    \/ \E p \in Sided :
          \/ SidecarFails(p)
          \/ \E entry \in {ResourceFork, FinderInfo} : WriteMetadata(p, entry)

Spec == Init /\ [][Next]_vars

-----------------------------------------------------------------------------
(* Properties *)

\* What a node lists is what is on the disk, after any writes, deletions and
\* renames in either volume and from one to the other, whichever directories
\* they made or removed; except below a directory that was renamed, where
\* invalidate_path does not look, and above a file whose write failed after
\* its directories were made (vfs.py:150-185, 276-299, 354-371).
ListingsFresh ==
    \A p \in DOMAIN listings :
        \/ listings[p] = Children(p)
        \/ \E m \in moved : IsStrictPrefix(m, p)
        \/ cut # Nowhere /\ IsPrefix(p, cut)

\* A resource fork or FinderInfo that can be read of a file can be read after
\* the other was written, after its data was, and after the file came to be
\* beside a sidecar that was there first; it goes along with a renamed file or
\* directory.  Only deleting the file, a rename onto it, and a write of its
\* sidecar that fails half way take it away (vfs.py:170-250,
\* appledouble.py:23-74).
MetadataKept ==
    [][\A m \in attributes \union entries :
          \/ m \in attributes' \union entries'
          \/ Delete(m[1]) \/ SidecarFails(m[1])
          \/ \E p \in Places : Rename(p, m[1])
          \/ \E p, q \in Places :
                /\ Rename(p, q) /\ IsPrefix(p, m[1])
                /\ <<Taken(p, q, m[1]), m[2]>> \in attributes' \union entries']_vars
=============================================================================
