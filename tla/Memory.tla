------------------------------- MODULE Memory -------------------------------
(***************************************************************************)
(* What a plug-in can do with guest heap memory: the classic Memory        *)
(* Manager's relocatable Handles (memory.py, class Handles, called by      *)
(* carbon/memory_mgr.py), PluginLib's CWMemHandles (session.py), and the   *)
(* private callback that turns a Handle into a bare pointer for            *)
(* CWStoreObjectData (pluginlib.py).  All of them share one heap, taken    *)
(* here at the level of HeapSpec, which Heap is proved to implement.       *)
(*                                                                         *)
(* The guest writes only inside the blocks it was given.  A HostError      *)
(* raised by a callback unwinds the whole guest call; the session is then  *)
(* closed, which may run the plug-in once more (REQ_TERMINATE).            *)
(***************************************************************************)
EXTENDS Ranges, FiniteSets

CONSTANTS
    Word,           \* bytes in a pointer: 4
    WordAlign,      \* alignment asked for pointers and CWMemHandles: 4
    PanelSizes,     \* lengths of the preference panels
    MaxHandles,     \* bound: live Handles
    MaxCWHandles,   \* bound: live CWMemHandles
    MaxAttached     \* bound: attached pointers in one request

ASSUME MemoryAssumption ==
    /\ Word \in Nat \ {0}
    /\ WordAlign \in Aligns
    /\ PanelSizes \subseteq Nat
    /\ MaxHandles \in Nat /\ MaxCWHandles \in Nat /\ MaxAttached \in Nat

VARIABLES
    allocations,    \* Heap._allocations
    memory,         \* what each byte of the heap holds
    handles,        \* Handles._handles: master |-> record
    cwHandles,      \* Session._cw_handles: handle |-> record
    attached,       \* pointers CWSecretAttachHandle gave out in this request
    stored,         \* what the last call read, if it was CWStoreObjectData
    phase           \* "idle", "guest" in a request, "failed" after a HostError,
                    \* "closing" in REQ_TERMINATE after it, "closed"

vars == <<allocations, memory, handles, cwHandles, attached, stored, phase>>

\* The pure operators of HeapSpec: where a block is placed, if anywhere.
Place == INSTANCE HeapSpec WITH reply <- Answer(0)

-----------------------------------------------------------------------------
(* Bytes of guest memory *)

Stale         == <<"stale">>          \* in no live block, or never written
Pointer(p)    == <<"pointer", p>>     \* part of the word p
Length(n)     == <<"length", n>>      \* part of the word n
Data(owner)   == <<"data", owner>>    \* written by the owner's user

Bytes(p, n) == p .. p + n - 1
Fill(mem, bytes, cell) == [b \in Addresses |-> IF b \in bytes THEN cell ELSE mem[b]]

\* guest.write(to, guest.read(from, n))
Copy(mem, from, to, n) ==
    [b \in Addresses |->
        IF b \in Bytes(to, n) THEN mem[b - to + from] ELSE mem[b]]

\* What is in a freed block is nobody's.
Release(mem, blocks, p) == Fill(mem, Bytes(p, blocks[p]), Stale)

Least(m, n) == IF m <= n THEN m ELSE n

-----------------------------------------------------------------------------
(* A HostError leaves the guest call at once. *)

inGuest == phase \in {"guest", "closing"}

Raise ==
    /\ phase' = IF phase = "guest" THEN "failed" ELSE "closed"
    /\ attached' = NoRanges

Init ==
    /\ allocations = NoRanges
    /\ memory = [b \in Addresses |-> Stale]
    /\ handles = NoRanges
    /\ cwHandles = NoRanges
    /\ attached = NoRanges
    /\ stored = {}
    /\ phase = "idle"

\* Session.request enters the plug-in; after a failure only close does.
Request ==
    /\ \/ phase = "idle" /\ phase' = "guest"
       \/ phase = "failed" /\ phase' = "closing"
    /\ stored' = {}
    /\ UNCHANGED <<allocations, memory, handles, cwHandles, attached>>

\* A block of the given size and then a word-aligned header of the given
\* bytes, or the other way round: the two allocations behind a handle.  When
\* the second fails the first is not given back.
TwoBlocks(size, align, size2, align2, Then(_, _, _)) ==
    \/ /\ Place!NoFit(allocations, Amount(size), align)
       /\ Raise
       /\ UNCHANGED <<allocations, memory, handles, cwHandles>>
    \/ \E p \in Addresses :
          LET one == Put(allocations, p, Amount(size))
          IN  /\ Place!FirstFit(allocations, p, Amount(size), align)
              /\ \/ /\ Place!NoFit(one, Amount(size2), align2)
                    /\ allocations' = one
                    /\ Raise
                    /\ UNCHANGED <<memory, handles, cwHandles>>
                 \/ \E q \in Addresses :
                       LET two == Put(one, q, Amount(size2))
                       IN  /\ Place!FirstFit(one, q, Amount(size2), align2)
                           /\ Then(two, p, q)

-----------------------------------------------------------------------------
(* Handles *)

\* NewHandle, TempNewHandle.  The guest is taken to write every byte of the
\* Handle as soon as it has it; "filled" counts the leading bytes it may
\* still rely on: the smallest size the Handle has had since.
NewHandle(size) ==
    LET Register(blocks, block, master) ==
          /\ allocations' = blocks
          /\ handles' = Put(handles, master,
                            [block |-> block, size |-> size, locked |-> FALSE,
                             filled |-> size])
          /\ memory' = Fill(Fill(memory, Bytes(block, size), Data(master)),
                            Bytes(master, Word), Pointer(block))
          /\ UNCHANGED <<cwHandles, attached, phase>>
    IN  /\ inGuest
        /\ Cardinality(DOMAIN handles) < MaxHandles
        /\ TwoBlocks(size, DefaultAlign, Word, WordAlign, Register)
        /\ stored' = {}

\* The pointers handed out for master: which no longer are backed by a lock.
Unheld(masters) ==
    [p \in DOMAIN attached |->
        IF attached[p].master \in masters
        THEN [attached[p] EXCEPT !.held = FALSE] ELSE attached[p]]

DisposeHandle(master) ==
    LET block == handles[master].block
    IN  /\ inGuest
        /\ handles' = Drop(handles, {master})
        /\ allocations' = Drop(allocations, {block, master})
        /\ memory' = Release(Release(memory, allocations, block),
                             allocations, master)
        /\ attached' = Unheld({master})
        /\ stored' = {}
        /\ UNCHANGED <<cwHandles, phase>>

\* HLock, HLockHi and HUnlock.
SetLock(master, locked) ==
    /\ inGuest
    /\ handles' = [handles EXCEPT ![master].locked = locked]
    /\ attached' = IF locked THEN attached ELSE Unheld({master})
    /\ stored' = {}
    /\ UNCHANGED <<allocations, memory, cwHandles, phase>>

\* SetHandleSize: Handles.resize over Heap.realloc, then the master pointer
\* is written again, moved or not.
Resized(master, block, size) ==
    handles' = [handles EXCEPT
                   ![master].block = block,
                   ![master].size = size,
                   ![master].filled = Least(handles[master].filled, size)]

SizeInPlace(master, size) ==
    LET block == handles[master].block
    IN  /\ \/ Amount(size) <= allocations[block]
           \/ Place!Room(allocations, block + allocations[block],
                         Amount(size) - allocations[block])
        /\ allocations' = Put(allocations, block, Amount(size))
        /\ memory' =
              Fill(Fill(memory, Bytes(block + Amount(size),
                                      allocations[block] - Amount(size)), Stale),
                   Bytes(master, Word), Pointer(block))
        /\ Resized(master, block, size)
        /\ UNCHANGED attached

\* Mutations of the move below: a locked block moves too, the bytes are not
\* copied, the master pointer is not written again.
MoveWith(master, size, mayMove, copied, repointed) ==
    LET block == handles[master].block
        old   == allocations[block]
    IN  /\ mayMove
        /\ Amount(size) > old
        /\ ~Place!Room(allocations, block + old, Amount(size) - old)
        /\ \E new \in Addresses :
              LET moved == IF copied THEN Copy(memory, block, new, old)
                                     ELSE memory
                  freed == Release(moved, allocations, block)
              IN  /\ Place!FirstFit(allocations, new, Amount(size),
                                    DefaultAlign)
                  /\ allocations' =
                        Drop(Put(allocations, new, Amount(size)), {block})
                  /\ memory' = IF repointed
                               THEN Fill(freed, Bytes(master, Word),
                                         Pointer(new))
                               ELSE freed
                  /\ Resized(master, new, size)
        /\ UNCHANGED attached
SizeMovingLocked(master, size) == MoveWith(master, size, TRUE, TRUE, TRUE)
SizeWithoutCopy(master, size) ==
    MoveWith(master, size, ~handles[master].locked, FALSE, TRUE)
SizeWithoutRepointing(master, size) ==
    MoveWith(master, size, ~handles[master].locked, TRUE, FALSE)

SizeByMoving(master, size) ==
    LET block == handles[master].block
        old   == allocations[block]
    IN  /\ ~handles[master].locked
        /\ Amount(size) > old
        /\ ~Place!Room(allocations, block + old, Amount(size) - old)
        /\ \E new \in Addresses :
              /\ Place!FirstFit(allocations, new, Amount(size), DefaultAlign)
              /\ allocations' =
                    Drop(Put(allocations, new, Amount(size)), {block})
              /\ memory' =
                    Fill(Release(Copy(memory, block, new,
                                      Least(old, Amount(size))),
                                 allocations, block),
                         Bytes(master, Word), Pointer(new))
              /\ Resized(master, new, size)
        /\ UNCHANGED attached

\* Locked and in the way, or nowhere to move to: HostError, nothing changed.
SizeRefused(master, size) ==
    LET block == handles[master].block
        old   == allocations[block]
    IN  /\ Amount(size) > old
        /\ ~Place!Room(allocations, block + old, Amount(size) - old)
        /\ \/ handles[master].locked
           \/ Place!NoFit(allocations, Amount(size), DefaultAlign)
        /\ Raise
        /\ UNCHANGED <<allocations, memory, handles>>

SetHandleSize(master, size) ==
    /\ inGuest
    /\ \/ SizeInPlace(master, size) /\ UNCHANGED phase
       \/ SizeByMoving(master, size) /\ UNCHANGED phase
       \/ SizeRefused(master, size)
    /\ stored' = {}
    /\ UNCHANGED cwHandles

-----------------------------------------------------------------------------
(* CWMemHandles *)

\* CWGetNamedPreferences: an eight byte header, then the panel's bytes.
CWGetNamedPreferences(size) ==
    LET Register(blocks, handle, block) ==
          /\ allocations' = blocks
          /\ cwHandles' = Put(cwHandles, handle,
                              [block |-> block, size |-> size])
          /\ memory' = Fill(Fill(Fill(memory, Bytes(block, size), Data(handle)),
                                 Bytes(handle, Word), Pointer(block)),
                            Bytes(handle + Word, Word), Length(size))
          /\ UNCHANGED <<handles, attached, phase>>
    IN  /\ inGuest
        /\ Cardinality(DOMAIN cwHandles) < MaxCWHandles
        /\ TwoBlocks(2 * Word, WordAlign, size, WordAlign, Register)
        /\ stored' = {}

\* Mutation: only the headers go back.
FreeHeaders(gone) ==
    /\ cwHandles' = Drop(cwHandles, gone)
    /\ allocations' = Drop(allocations, gone)
    /\ UNCHANGED memory

\* Both blocks of each of the handles go back to the heap.
FreeCW(gone) ==
    LET blocks == gone \union {cwHandles[h].block : h \in gone}
    IN  /\ cwHandles' = Drop(cwHandles, gone)
        /\ allocations' = Drop(allocations, blocks)
        /\ memory' = Fill(memory, UNION {Bytes(p, allocations[p]) : p \in blocks},
                          Stale)

CWFreeMemHandle(handle) ==
    /\ inGuest
    /\ FreeCW({handle})
    /\ stored' = {}
    /\ UNCHANGED <<handles, attached, phase>>

\* Mutation: the request's CWMemHandles are not freed.
EndRequestOnly ==
    /\ inGuest
    /\ attached' = NoRanges
    /\ phase' = IF phase = "guest" THEN "idle" ELSE "closed"
    /\ stored' = {}
    /\ UNCHANGED <<allocations, memory, handles, cwHandles>>

\* The request returns: its CWMemHandles, all request-scoped, are freed.
EndRequest ==
    /\ inGuest
    /\ FreeCW(DOMAIN cwHandles)
    /\ attached' = NoRanges
    /\ phase' = IF phase = "guest" THEN "idle" ELSE "closed"
    /\ stored' = {}
    /\ UNCHANGED handles

\* Some other callback, or the guest itself, fails.
GuestFails ==
    /\ inGuest
    /\ Raise
    /\ stored' = {}
    /\ UNCHANGED <<allocations, memory, handles, cwHandles>>

-----------------------------------------------------------------------------
(* Attached pointers *)

\* CWSecretAttachHandle: the Handle's current block, after checking that its
\* master pointer was not retargeted.  "held" is TRUE as long as the Handle
\* has been locked ever since.
CWSecretAttachHandle(master) ==
    LET block == handles[master].block
    IN  /\ inGuest
        /\ \A b \in Bytes(master, Word) : memory[b] = Pointer(block)
        /\ attached' = Put(attached, block, [master |-> master,
                                             held |-> handles[master].locked])
        /\ Cardinality(DOMAIN attached \ {block}) < MaxAttached
        /\ stored' = {}
        /\ UNCHANGED <<allocations, memory, handles, cwHandles, phase>>

\* CWStoreObjectData with a pointer it was given before: the bytes of a
\* CWMemHandle with that address, else of the Handle whose block is there.
OwnersOf(p) == {m \in DOMAIN handles : handles[m].block = p}

CWStoreObjectData(p) ==
    LET Read(block, size) ==
          stored' = {[from |-> attached[p],
                      bytes |-> [i \in 0 .. size - 1 |-> memory[block + i]]]}
    IN  /\ inGuest
        /\ \/ /\ p \in DOMAIN cwHandles
              /\ Read(cwHandles[p].block, cwHandles[p].size)
              /\ UNCHANGED <<attached, phase>>
           \/ /\ p \notin DOMAIN cwHandles
              /\ \E m \in OwnersOf(p) : Read(p, handles[m].size)
              /\ UNCHANGED <<attached, phase>>
           \/ /\ p \notin DOMAIN cwHandles
              /\ OwnersOf(p) = {}
              /\ Raise
              /\ stored' = {}
        /\ UNCHANGED <<allocations, memory, handles, cwHandles>>

-----------------------------------------------------------------------------
Next ==
    \/ Request
    \/ EndRequest
    \/ GuestFails
    \/ \E size \in Sizes : NewHandle(size)
    \/ \E size \in PanelSizes : CWGetNamedPreferences(size)
    \/ \E handle \in DOMAIN cwHandles : CWFreeMemHandle(handle)
    \/ \E master \in DOMAIN handles :
          \/ DisposeHandle(master)
          \/ \E locked \in BOOLEAN : SetLock(master, locked)
          \/ \E size \in Sizes : SetHandleSize(master, size)
          \/ CWSecretAttachHandle(master)
    \/ \E p \in DOMAIN attached : CWStoreObjectData(p)

Spec == Init /\ [][Next]_vars

-----------------------------------------------------------------------------
(* Properties *)

HandleBlocks   == {handles[m].block : m \in DOMAIN handles}
CWHandleBlocks == {cwHandles[h].block : h \in DOMAIN cwHandles}
Owned == DOMAIN handles \union HandleBlocks
           \union DOMAIN cwHandles \union CWHandleBlocks

\* Every block a handle of either kind names is live, is named once, and has
\* the bytes the handle was asked for; the only blocks nobody names are those
\* of a handle whose second allocation failed, so there are none before a
\* callback has failed (memory.py:184-204, session.py:168-211).
OwnedOnce ==
    /\ Owned \subseteq DOMAIN allocations
    /\ Cardinality(Owned) = 2 * Cardinality(DOMAIN handles)
                              + 2 * Cardinality(DOMAIN cwHandles)
    /\ \A m \in DOMAIN handles :
          allocations[handles[m].block] = Amount(handles[m].size)
    /\ phase \in {"idle", "guest"} => DOMAIN allocations = Owned

\* Whatever was resized, moved and disposed of, the word at each Handle's
\* master pointer and the two words of each CWMemHandle are what the host
\* wrote: the checks that raise "was modified" (memory.py:239,
\* session.py:184) never fire on a guest that stays inside its blocks.
HeadersIntact ==
    /\ \A m \in DOMAIN handles : \A b \in Bytes(m, Word) :
          memory[b] = Pointer(handles[m].block)
    /\ \A h \in DOMAIN cwHandles :
          /\ \A b \in Bytes(h, Word) : memory[b] = Pointer(cwHandles[h].block)
          /\ \A b \in Bytes(h + Word, Word) :
                memory[b] = Length(cwHandles[h].size)

\* A Handle keeps the bytes written to it through every resize and move, and
\* a CWMemHandle keeps its panel: nobody else's call changes them
\* (memory.py:131-146, 206-219).
ContentsKept ==
    /\ \A m \in DOMAIN handles :
          \A b \in Bytes(handles[m].block, handles[m].filled) :
             memory[b] = Data(m)
    /\ \A h \in DOMAIN cwHandles :
          \A b \in Bytes(cwHandles[h].block, cwHandles[h].size) :
             memory[b] = Data(h)

\* Between two requests the heap holds the Handles' blocks and nothing else:
\* a request leaves no CWMemHandle behind, even when the plug-in freed some
\* of them itself (session.py:208-211, 485).
BetweenRequests ==
    phase = "idle" => DOMAIN allocations = DOMAIN handles \union HandleBlocks

\* A Handle that is locked before and after a call has not moved
\* (memory.py:206-224).
LockedBlocksStay ==
    [][\A m \in DOMAIN handles \intersect DOMAIN handles' :
          handles[m].locked /\ handles'[m].locked
             => handles'[m].block = handles[m].block]_vars

\* The object CWStoreObjectData saves through the pointer of a Handle that
\* was locked when it was attached and has stayed so is that Handle's:
\* its size and every byte still written there, whatever was allocated,
\* resized and freed around it (pluginlib.py:425-440, 467-482).
HeldStoreReadsOwner ==
    \A s \in stored : s.from.held =>
        LET m == s.from.master
        IN  /\ m \in DOMAIN handles
            /\ DOMAIN s.bytes = 0 .. handles[m].size - 1
            /\ \A i \in 0 .. handles[m].filled - 1 : s.bytes[i] = Data(m)
=============================================================================
