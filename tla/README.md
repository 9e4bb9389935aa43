# Verification of cwhost

cwhost runs a CodeWarrior compiler plug-in (PowerPC code in a PEF container)
inside an emulator and answers its calls from Python. These modules model the
parts of it where an error needs a sequence of steps to show: the guest heap,
the handles on it, calls into the guest, the plug-in session and its callbacks,
the loader of the container, the file system below a VFS, the search for
included files and the compiler driver. TLC checks them on small instances; of
39 of their 40 properties TLAPS proves that they hold for every value of the
constants.

Paths are relative to `src/src/cwhost/`.

## The system

| part | state | operations | what makes it correct |
|---|---|---|---|
| `memory.py` Heap | sorted list of free ranges; live blocks | alloc, free, realloc | blocks disjoint, no byte lost, ranges coalesced, lowest fit |
| `memory.py` Handles, `carbon/memory_mgr.py` | record per Handle; its master pointer in guest memory | NewHandle, DisposeHandle, SetHandleSize, HLock, HUnlock | contents kept through moves, master pointer current, a locked block stays |
| `session.py` CWMemHandles | record per handle; header in guest memory | CWGetNamedPreferences, CWLock/Unlock/FreeMemHandle, end of request | each block freed once, none left after a request |
| `session.py` Session | `_state`, fragment, `_current`, `_done`, stored objects and texts | load, request, close; the plug-in's callbacks | one answer per request, terminate last, cleanup after failures |
| `api.py`, `cli/cwcc.py` | the propagating exception or result, the output file | compile, run, main | what exit code 0 promises; an old output survives a failure |
| `guest.py` Guest | registers, pending trap, descriptors of the calls in progress | call, run, trap handlers, args | a call restores what it saved and returns its own result; nested calls |
| `guest.py` alloc, `session.py` buffers | scratch pointer, texts, file ids, secret words, license and encoder tokens | the callbacks that give memory or an identifier | no two blocks share a byte; one identifier per thing |
| `session.py` include search | node of the last file loaded | CWFindAndLoadFile | the search order |
| `vfs.py`, `carbon/fsref.py`, `appledouble.py` | nodes by path and by id, listing cache, sidecars | node, children, rename, delete, forks, resolve_hfs, FSSpec, FSRef | names lead back to their node; listings follow changes |
| `resources.py`, `carbon/resources_mgr.py` | open files in order, the current one | open, use, close, get, get1 | lookup order; no reference to a closed file |
| `pef.py`, `loader.py` | expanded output; relocation position, bases, import counter; mapped ranges | pidata expansion, relocation, load | every section as linked, every word relocated, no writable code |
| `abi.py`, `carbon/text.py` | encoder tokens | pack, unpack; text conversion | layout rules |
| `panels.py`, `cli/flags.py`, `config.py`, `carbon/{decimal,system,stubs}.py` | none that outlives a call | option mapping, paths, clocks | |

The driver calls the session; the session calls into the guest, which runs the
plug-in; the plug-in's imports trap back into the host (`pluginlib.py`,
`carbon/`), where they change the session, the heap and the VFS. Everything is
one thread. What interleaves is host code with plug-in code, and what makes it
hard is that every callback may raise: the exception unwinds the guest call and
the host call around it, after which `close` runs the plug-in once more.
`PROJECT.json` lists the hazards line by line.

## The modules

| module | models | checked or proved by |
|---|---|---|
| `Ranges` | address arithmetic, maps from start to length | |
| `HeapState` | the live blocks and the last answer | through the next three |
| `HeapSpec` | what the heap promises; no free list | target of `heap`, `HeapKeepsPromise` |
| `Heap` | class Heap, the free list as a map of ranges | `heap`, `HeapProofs` |
| `HeapList` | class Heap, the Python list as it is written | `heap_list`, `HeapProofs` |
| `Memory` | Handles, CWMemHandles, attached pointers over `HeapSpec` | `memory`, `MemoryProofs` |
| `Session` | the session with any client and any plug-in | `session`, `SessionProofs` |
| `Compile` | the driver as the client of `Session` | `compile`, `SessionProofs` |
| `Guest` | calls into the guest, traps and their arguments | `guest`, `GuestProofs` |
| `Pidata`, `Relocations` | the data expander and the relocation interpreter | through `Load` |
| `PackedFormat` | packed data as the format has it, for the properties | through `Load` |
| `Load` | loading a fragment | `load`, `load_packed`, `LoadProofs` |
| `Resources` | the chain of resource files | through `Callbacks` |
| `Callbacks` | the callbacks that give memory or an identifier | `callbacks`, `CallbacksProofs` |
| `Vfs` | paths, volumes, and the namings of a node | through `Include` and `Files` |
| `Include` | CWFindAndLoadFile and its search, over a fixed disk | `include`, `include_last`, `IncludeProofs` |
| `Files` | what changes the disk, and the listing cache | `files`, `FilesProofs` |
| `MCGuest`, `MCLoad`, `MCCallbacks`, `MCInclude`, `MCFiles` | the instances of those runs | |

They compose as `HeapList` implements `Heap` implements `HeapSpec`, which
`Memory` uses for where a block is placed; `Compile` extends `Session`,
`Include` and `Files` extend `Vfs`, `Load` composes `Pidata` and `Relocations`,
and `Callbacks` runs interleaved with the actions of `Resources`.
Operators whose comment begins with "Mutation" are not part of a model: each is
a plausible bug in the operator after it, and the property `PROJECT.json` pairs
it with is violated when it takes that operator's place.

### Heap

`free` is `_free`, `allocations` is `_allocations`, and `reply` is the value
returned or the HostError raised. A step is a whole call: the heap runs no guest
code. `Carve` is the splice of `alloc` (and, with an empty prefix, of
`_grow_in_place`), `InsertFree` is `_insert_free`, `Move` the end of `realloc`,
which allocates before it frees. `HeapList` repeats the calls over the list
(`ListAlloc`, `ListFree`, `ListRealloc`, so that a proof can speak of both):
`Splice` for the slice assignment, `Sorted` for `list.sort`, which puts each
pair where the number of pairs that come no later says, `Merged` for the merge
loop with `MergeNext` as its turn, and `Adjacent` for the `next(...)` lookup.
The refinement mapping reads the list as the map of its pairs.

### Memory

A step is one callback. `memory` holds, for each byte, what the last write made
of it: a pointer, a length, the data of a handle or nothing of use. The plug-in
is taken to write only inside its blocks, and to fill a Handle as soon as it
gets it; `filled` counts the bytes every size since has kept. `TwoBlocks` is the
pair of allocations behind either kind of handle, with the first block left
behind when the second fails. A HostError leads to `failed`, from which only
`close` re-enters the plug-in (`closing`). `CWLockMemHandle` and
`CWUnlockMemHandle` read a handle and change nothing, so they are left out; the
"was modified" errors they and `Handles.block` raise are what `HeadersIntact`
says cannot happen. `attached` and `stored` record which pointers
`CWSecretAttachHandle` gave out and what `CWStoreObjectData` read through them.

### Session

A host call that runs the plug-in is several steps: `Request` enters main, the
plug-in's callbacks follow, `MainReturns` ends it; `GuestRaises` ends it
anywhere. The `call` variable is the host's stack, `answer` what the last host
call returned or raised ("host" for what `main` catches, "other" for the rest),
`entered` and `said` are history. `close` either enters main with REQ_TERMINATE
and then the term routine, or goes straight to its end, and closes the guest
whatever happens. `objects` stands for `session.objects` or, when preprocessing,
`session.texts`: a dict in insertion order, of whose values only their being
empty matters.

### Compile

`pc` says which session call the driver waits for. `Leave` is the `finally` of
`compile`, `raised` the exception on its way, and `Closed` lets an exception of
`close` replace it or the result. `Exits` is the exit code of an exception.

### Guest

`frames` holds the local state of each `call` and `run` in progress, innermost
last: the saved registers, the descriptor (`_call_tvectors`), the handler that
runs. A routine is its descriptor and the number of imports it has called; its
code calls imports, jumps to one as its last act, or returns. `regs` keeps of
the registers what a property tells apart: `lr`, `r12`, the activation the
others belong to (`home`), and who wrote the result. `HandlerReturns` is the end
of the loop in `run`: `NextAfterHandler` is `current`, `LrAfterHandler` the `lr`
it leaves. For an inline handler neither applies, since `run` never sees the
trap. A routine without a frame returns to `lr`, which only the deferred path
puts right. `Args` is the decoder, with a value as the places it is read from.
A guest that is stopped by its timeout looks to `run` like one that returned, so
`ReturnsOwn` is said of calls without one, which is every call of the package.

### Load, Pidata and Relocations

A container is a record of its sections, imports and relocation headers, as the
parser gives them, with its size and that of its loader section; what is stored
of a section, and the stream of a header, has an `end`, which has to lie in the
file (`InFile`) and in the loader section. The guest has its own ranges mapped
when a load begins (`GuestRanges`). `Pidata` follows the bytes of the packed stream, since how a
count is encoded decides what is expanded; `Turn` is the loop's. `PackedFormat`
is no code of cwhost: it says which bytes an operation is stored as and which it
stands for, for `ImagesAsLinked` to compare with. It leaves out a common block
of size 0, for which `pidata` reads the size a second time (`ReadCommon`). In
`Relocations` a stream is read into instructions, each its one or two words
(`Instructions`; the last may lack one). An instruction stands for a sequence of
elementary operations (move, add a base, add an import, set a base), so a repeat
is the concatenation of the operations of its block; the result is the list of
words patched and what was added to each, in place of the addition itself.
`WrittenOut` repeats the words and not the operations. `Load` is `loader.load`, a step for each section and
header; what was mapped before a failure stays mapped.

### Callbacks and Resources

The scratch range is given out from one end; `After` is one `Guest.alloc`, and
`Alloc` a callback's last. `given` records what the plug-in
was told, `blocks` what it was given. `CWGetMainFileID` tells it 0 and looks at
no table; the other callbacks that answer the same in every state, as
`CWGetMainFileNumber` does, are left out. In `Resources` a fork is the string lists
in it and their lengths; `held` and `using` record what the client did, and the
lookup is checked against them and never against the chain's own fields.

### Files

`listings` is `_children_cache` of one VFS. `Affected` is `invalidate_path`,
which climbs from the path to its volume's root. `WriteFails` is an error after
`mkdir`, which may leave a file behind; `SidecarFails` is one while a sidecar is
written, which leaves it cut off, so that nothing can read it again
(`Readable`). `attributes` and `entries` are the
metadata kept natively and in sidecars; which of the two a system has is the
initial state's choice. The `..namedfork` route of `write_resource_fork` is left
out: it exists where attributes do, which are tried first. Neither the Build
volume's root nor anything above it is written, deleted or renamed, as a source
lies in it. A sidecar is written by the two metadata calls and by nothing else.
A rename leaves the sidecar of the file where it is, and takes those inside a
directory along with it.

### Vfs and Include

A node is its path, since a VFS keeps one node per path and one id per node; an
id is compared, never counted, so ids are paths too. `Fold` is `casefold`, and
`Names` the order of a listing. The Build root is a path below the Host root,
and the two are the roots of their volumes: no name, no parent. `FileSpec`,
`FSSpec` and `HFSPath` name a node, `ReadSpec`, `FromFSSpec` and `ResolveHFS`
find it; the encodings of a name and their length limits are left out.
`WalkHFS` and `WalkSlash` are the loops over the components of a path, functions
from how many have been taken to where they lead; an empty component is one that
is ".", as both loops skip the two alike.

In `Include` a step is one CWFindAndLoadFile that finds its file; one that finds
none changes nothing. No name on the disk holds a colon, so an HFS path that
leads nowhere finds nothing in the two searches it falls through to
(`session.py:320`); with such a name on the disk it might, which is not
modelled. `last` is `_last_loaded_node`, `loaded` the file whose
text was really read. The disk is part of the initial state and never changes:
no callback of a session writes a file, and the driver writes its output after
the last of them. A text that cannot be read raises; whether the session goes on
after that is left open. `UserPaths` ends with the directory of the source, as
`api.py` builds it, and only the user's paths are filtered by existence.

## The runs

| run | bounds | why they are enough |
|---|---|---|
| `heap`, `heap_list` | 10 bytes from address 3; alignments 2, 4; sizes 0, 1, 2, 3, 5 | the base is not aligned, so prefixes occur; four or more blocks and two free ranges around one fit, so every case of the merge and of growth occurs; the theorems cover every other size |
| `memory` | 8 bytes; one byte words; sizes 1, 3; two Handles, one CWMemHandle, one attached pointer | a move, a refused move, a failed second allocation, and a second Handle in the place another left all fit |
| `session` | results 0, 1; one key; three entries into main | a request after a failed one, after a terminate, and a close after either |
| `compile` | results 0, 1; two keys; three entries into main | the driver makes at most three; two keys show the dict order |
| `guest` | two routines, four imports (two of them inline), three calls deep, two imports each | a call between two others; every pair of deferred and inline traps; signatures with a double before a word and a long across r10 and the stack |
| `load`, `load_packed` | relocation streams of two instructions out of 19 and a repeat of one to three words, two repeats in a row, streams cut off; two packed operations out of 19 | every opcode before, inside and across the block of every repeat; every operation with counts on both sides of 32 and 128, and cut off inside it; sections, container and descriptors that overlap each other or one of three ranges of the guest, or just do not |
| `callbacks` | two files, two panels, two cookies, 144 bytes of scratch, three opens | the range is used up between the two allocations of a panel; a reference number is given again |
| `files` | a tree of depth three in each volume, with a file that may have a sidecar in a directory that is renamed; listings of three directories; one failing write of a file or sidecar, or renames of directories between one pair of places | a write makes two directories; a file, a directory and an empty one are replaced; listings above, at and below each change |
| `include`, `include_last` | 192 disks of depth two over three names, two of them equal up to case; all names, all slash paths of two components and 25 of three, HFS paths of up to two components and two colons | a name collision at both levels, a path that is a file or missing, the source's directory inside an include path, a climb out of each root; two loads reach every value of `last` |

`heap` checks the four parts of the inductive invariant and the refinement of
`HeapSpec`. `memory` checks who owns each block, the words in guest memory, the
contents of handles, locks, and what is read through an attached pointer while
its Handle stays locked. `session` checks that the caller gets the answer of its
own request, and the order of terminate, term routine and close. `compile`
checks what exit code 0 means, when the output file is touched, the sequence of
requests, that nothing runs after the guest is closed, and that the process
ends.

`include` checks the search against a definition that does not walk the roots:
which places have the name, and that what is found is in the first of them. It
also checks that a slash path stays below the root it began at, that an HFS path
stays in its volume, and that each naming of a node leads back to it.

`guest` checks that nested calls keep their registers, descriptors and results
apart, with exceptions at any level, and the argument decoder against the
caller's layout. `load` checks the expander against what each operation stands
for, the relocations against the stream with its repeats written out, and that a
loaded fragment has its imports bound and no writable code. `callbacks` checks
the scratch blocks, the stability of identifiers and the resource lookup.
`files` checks every cached listing against the disk, and that metadata written
to a file stays readable.

`memory`, `compile`, `include`, `load` and `callbacks` do not check deadlock: a
failed session may be left as it is, the driver stops when it has exited, a disk
may hold none of the files asked for, a load ends, and a used-up scratch range
refuses everything.

Two runs are expected to fail; each is a disagreement recorded under "findings".
`include_last`: a file found by its HFS path is not remembered as the last
loaded. `load_packed`: of two sections of pattern-initialized data, both get the
expansion of the first.

Six more disagreements, and one answer that is ambiguous though nothing in the
repository says otherwise, were met; the passing properties leave them out where
they say so:

- An attached Handle is not locked, whatever `pluginlib.py:429` says, so a
  resize moves it away from the pointer the plug-in keeps
  (`HeldStoreReadsOwner` is said of Handles that stay locked).
- `request` refuses a session that "is not loaded" (`session.py:473`) but
  accepts one whose `load` failed once the fragment was there.
- Exit code 1, "compiler diagnostics" in `src/README.md:64`, also stands for an
  interrupt and for exceptions `main` does not list.
- The source's directory has no name in its parent's listing (`vfs.py:112`), so
  with `-I` on the parent an include by way of that directory finds nothing.
- A renamed directory leaves the listings cached below its old and its new path
  (`vfs.py:355`); `ListingsFresh` excepts them.
- `CWGetMainFileID` answers 0 (`pluginlib.py:171`), and `_file_id` gives 0 to
  the first file found: unless that is the main file, 0 means two files, and the
  main file gets a second id when it is found (`AnswersStable` compares the two
  callbacks only where `MainFoundFirst`).
- The trace, which is to hold "every host callback" (`src/README.md:57`), misses
  those that raise and those whose handler called back into the guest
  (`guest.py:311, 319`).

**Fairness.** `EventuallyExits` needs the host to take its next step, which it
does, being the only thread, and the plug-in's routines to return. The code
passes no timeout to `guest.call`, so the second is an assumption about the
plug-in: a compiler that loops hangs the driver. No fairness is put on what the
plug-in does before it returns.

## The proofs

Each theorem is of the specification TLC checks, with its constants left open,
under the assumptions the modules name:

| module | assumed of the constants |
|---|---|
| `Heap`, `Memory` | at least one byte; natural sizes and positive alignments, among them the default and the word's; a word has at least one byte |
| `Session`, `Compile` | the plug-in's results are integers, 0 among them |
| `Guest` | each import has a signature; the guest's own code is not an import |
| `Callbacks`, `Resources` | natural lengths of texts and panels; only resource files have string lists |
| `Load` | the guest's own ranges share no byte and none is both written and executed; a fragment's imports, sections and headers are finite sequences, what is stored of a section is bytes and of a header 16-bit words; trap slots are not 0 |
| `Include` | each disk is a tree of directories and files with the Build root and the source in it; search paths and requests are made of names, "." and ".." |
| `Vfs`, `Files` | the Build root lies below the Host root; names differ from the marks for "no node"; nothing on the way to the Build root is written or renamed; sidecars are written by nothing else |

The proofs go by an inductive invariant, one lemma per action, and a theorem for
each property. TLC finds every invariant below to hold on the run of its module,
once the quantifiers over infinite sets are made finite or left out.

**Heap.** None of the four heap properties is inductive alone. That blocks do
not overlap depends on the free ranges lying outside them (`Partition`);
`Partition` is kept by `_insert_free` only if free ranges do not overlap; that
they stay detached depends on a merge finding at most one neighbour on each
side, which is `Coalesced` again. Their conjunction `IInv` is inductive. The
proof works with `Tiled(free, allocations)`, the same fact about a pair of maps,
because `Move` is a carve followed by an insertion and passes through a state in
which both blocks are live. `CarveRange` and `InsertRange` say what the two
operators do to a set of ranges; `TakeTiled`, `GiveTiled`, `ShrinkTiled` and
`GrowTiled` carry `Tiled` through a call. `HeapKeepsPromise` is the refinement:
`Partition` turns "a free range fits" into "there is room" and back, so the
first fit over free ranges is the lowest aligned address with room. It needs
`Coalesced` too: without it room could span two free ranges.

**The list.** `ListInv` says that the list is in order with gaps (`Listed`) and
that, read as ranges, it tiles the heap with the live blocks (`Tiled`). The two
levels are compared byte by byte (`ListCovers`): ranges with gaps between them
are determined by the bytes they cover, so a splice or a merge loop that covers
the right bytes and leaves gaps is the step of `Heap`, whatever the list looked
like on the way. `SortedAppend` shows that the sort is a rearrangement in order,
`MergedListed` follows the merge loop over any list in order, overlapping or
not. That `alloc` and `realloc` may splice without sorting is that a piece of a
range stays between the range's neighbours.

**Memory.** The heap enters only by what `HeapSpec` promises, so the theorems
hold of any allocator that keeps that promise. `MemoryInv` says that what a
handle names is live and as long as asked for, that no block is named twice
(`OwnersApart`), that outside failures no block is nobody's, and what each owned
byte holds (`Kept`). Ownership has to be exclusive for the contents to stay: a
write to one block leaves the bytes of every other one only because live blocks
share none. `HeldLocked` ties an attached pointer to its Handle's lock, which is
what makes `HeldStoreReadsOwner` follow from the contents of the Handle.

**Session and driver.** `SessionInv` relates the routine that runs to the host
call it runs in, the answer on record to what was said in this entry of main
(`InMain`), and the state to the last request (`Terminated`). `DriverIsAClient`
shows that the driver's steps are steps of `Session`, so `SessionInv` holds of
the driver too; `DriverInv` adds what each place of its code knows: which
request has been answered, which exception is on its way and that the output is
untouched until the session is closed. Each property of `Compile` follows from
the two.

**Guest.** `GuestInv` describes the stack: each frame but the innermost waits in
a handler, the frame above has saved the registers as they are in that handler
(`Stacked`), and the registers now are the innermost frame's (`Current`). The
saved `lr` matters: a return out of a handler goes to the frame's `oldLr`, which
leads back into the same routine or, after a tail jump, out of its call. That `args` reads
the arguments where they are is about the function, not the steps: `Reading` is
what has been read after n arguments in closed form, `NextArgument` that one turn
of the loop keeps it, and `UpTo` carries it to the end of any signature.

**Callbacks and resources.** `GoodHeap` orders the blocks by address up to the
first free byte, so the next one lies past all of them, padding included.
`Identifiers` says that each table numbers its keys apart: file ids below the
count of files, pointers below the first free byte. That the main file, once it
is found first, keeps id 0, and that no other file gets it (`MainFileIdKeeps`,
`ZeroTaken`), ties the constant answer of `CWGetMainFileID` to the table. `ChainInv` compares the
chain with what the client holds: the order is the numbers of the files open, in
opening order (`InOrder`); a number names its file (`Registered`); the current
file is the one used. That a fresh number is free needs the bound on how many
are registered. `LookupOrder` then compares two searches, one from the current
file down the order and one over the client's files.

**Load.** `LoadInv` keeps that nothing is mapped before all imports that are not
weak are bound, and that what is writable and executable is the base of an
executable section until the last step protects it. `MappingsApart` says two
things of any fragment, its section sizes and length taken as the file gives
them, in a guest with any ranges of its own. That no two ranges share a byte
follows from the overlap test at each mapping. That a loaded fragment is there
whole (`LaidOut`) needs to know what each phase has mapped (`PlacedInv`), and
that the last step, which tightens whatever begins at the base of an executable
section, meets only that section's mapping: anything else there would share a
byte with it (`ProtectedIs`). `ImagesAsLinked` rests on the expander undoing
the encoding, of operations and counts of any size. `VarintRead` reads back one
integer, by induction over its digits; `CountRead` and its successors the one to
three integers of an operation; `OperationDone` says of each of the five
operations that one turn of the loop takes exactly its bytes from the stream and
adds exactly what it stands for. `ExpandedAsPacked` goes along the operations:
after n turns the first n are done, and the loop stops when the output is full,
after which the operations left stand for nothing. `ImageInv` carries the images
through the loader: as many sections are in memory as have been mapped, and a
header writes the image it relocates afresh. For `RelocatedAsWrittenOut`,
`NoErrors` says that a stream whose relocation succeeds has no wrong instruction,
`BlockIs` that a block counted in words is the last words before its repeat.
`Chunk` is what the written-out stream has in place of one instruction: whole
instructions without repeats (`ChunkIs`), which are read again as themselves
(`WholeRead`), so both streams have the same operations (`SameOperations`).
`EachFlat`, that mapping and joining may be swapped, carries this from one
instruction to the stream. `PatchInv` says which headers have had their result
written.

**Files.** `FilesInv` adds `Tree` to the property: what is on the disk is in
directories, and the Build root is there. A listing is kept when its path is not
above what changed; the one exception is the Build root, at which
`invalidate_path` stops, and `Tree` says that it was there already, so the
directories of Host above it list the same. For a rename, `Taken` keeps prefixes
and is undone by its reverse (`TakenInOrder`, `TakenBack`). A sidecar lies beside its file, so what
invalidating the file drops holds for it too (`SidecarIs`). The theorems keep
the model's bound on what leaves listings behind (`Undisturbed`).

**Include.** What the search remembers is a file or a place where nothing is
(`SearchInv`), so the file that asks has a directory. Each walk is followed by
induction over the components taken: an HFS path stays in the nodes of its
volume (`ComponentKeeps`); a slash path keeps its root above it and is as deep
as the components say (`StepIs`, `SlashIs`), so a path that climbed further than
it had descended would be above its root. `RootsOfSearch` says which place each
root of a search stands for, `MatchIs` that a root answers to a name just if a
file of that name is found in its place; `FirstOfIs` makes the first answer the
first place. For the namings, `NextOnPath` shows that on a path without
namesakes each name leads to the next node, and `HFSPathLeadsTo` goes along the
path of names from the root of the volume.

Only model-checked is `EventuallyExits`: it is liveness under fairness, which
these provers do not reach.

## Not modelled

Panels, flags and configuration map options to bytes and keep nothing. The PEF
tables, the AppleDouble and resource forks and the ABI structures are formats.
The decimal, clock and stub imports and the text conversion keep no state. The
emulator, Unicorn, is external: a guest call is entered, calls back and returns
or raises. Neither is a plug-in modelled that writes outside its blocks, nor
`set_state` of Handles, which has no caller, nor setjmp and longjmp, which no
import is bound to. The trace file, reported messages and reading a string list
into guest memory leave no state that a later step reads.

Of the VFS, symbolic links and the table of ids that several VFS objects share
are not modelled: the driver uses one VFS at a time.

## Plan

Done: everything in the table of modules.

1. `Guest` as the machine below `Session`, for callbacks that call back.
2. Names that hold a colon, for which an HFS path means two things.
