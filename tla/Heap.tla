-------------------------------- MODULE Heap --------------------------------
(***************************************************************************)
(* The guest heap of src/src/cwhost/memory.py (class Heap): a first-fit    *)
(* allocator with a sorted, coalesced list of free ranges.  The list is    *)
(* kept here as the function from a free range's start to its length, and  *)
(* _insert_free by its effect on such a function; module HeapList has the  *)
(* list, the sort and the merge loop as they are written and is checked to *)
(* implement this module.  One step is one call: the program is single     *)
(* threaded and no call of Heap runs guest code.                           *)
(***************************************************************************)
EXTENDS HeapState

VARIABLE free      \* Heap._free: start |-> bytes

vars == <<free, allocations, reply>>

Init ==
    /\ free = [start \in {Base} |-> Size]
    /\ allocations = NoRanges
    /\ reply = Answer(0)

-----------------------------------------------------------------------------
(* alloc *)

\* The free range at start holds amount bytes after its aligned address.
Fits(start, amount, align) ==
    Aligned(start, align) - start + amount <= free[start]

\* Mutation: any range that fits, not the lowest.
AnyFitting(start, amount, align) == Fits(start, amount, align)

\* The scan over the sorted list stops at the first range that fits.
FirstFitting(start, amount, align) ==
    /\ Fits(start, amount, align)
    /\ \A lower \in DOMAIN free :
          lower < start => ~Fits(lower, amount, align)

\* Mutation: a suffix is kept even when it is empty.
CarveEmptySuffix(f, start, address, amount) ==
    [x \in (DOMAIN f \ {start}) \union {address + amount}
             \union (IF start < address THEN {start} ELSE {}) |->
        CASE x = address + amount -> start + f[start] - x
          [] x = start            -> address - start
          [] OTHER                -> f[x]]

\* The range at start without [address, address + amount): what is left of
\* it is a prefix, a suffix, both or neither.
Carve(f, start, address, amount) ==
    LET end    == start + f[start]
        prefix == IF start < address THEN {start} ELSE {}
        suffix == IF address + amount < end THEN {address + amount} ELSE {}
    IN  [x \in (DOMAIN f \ {start}) \union prefix \union suffix |->
           CASE x = address + amount -> end - x
             [] x = start            -> address - start
             [] OTHER                -> f[x]]

Alloc(size, align) ==
    \/ \E start \in DOMAIN free :
          /\ FirstFitting(start, Amount(size), align)
          /\ free' = Carve(free, start, Aligned(start, align), Amount(size))
          /\ allocations' =
                Put(allocations, Aligned(start, align), Amount(size))
          /\ reply' = Answer(Aligned(start, align))
    \/ /\ \A start \in DOMAIN free : ~Fits(start, Amount(size), align)
       /\ reply' = Error("exhausted")
       /\ UNCHANGED <<free, allocations>>

-----------------------------------------------------------------------------
(* free *)

\* Mutation: only the neighbour that follows is merged.
InsertFreeMergingRight(f, start, amount) ==
    IF start + amount \in DOMAIN f
    THEN Put(Drop(f, {start + amount}), start, amount + f[start + amount])
    ELSE Put(f, start, amount)

\* _insert_free: a range joins the neighbour that ends where it starts and
\* the neighbour that starts where it ends.
InsertFree(f, start, amount) ==
    LET left  == {s \in DOMAIN f : s + f[s] = start}
        right == {s \in DOMAIN f : s = start + amount}
        first == IF left = {} THEN start ELSE CHOOSE s \in left : TRUE
        end   == IF right = {} THEN start + amount
                 ELSE start + amount + f[start + amount]
    IN  [x \in (DOMAIN f \ (left \union right)) \union {first} |->
           IF x = first THEN end - first ELSE f[x]]

Free(address) ==
    \/ /\ address \in DOMAIN allocations
       /\ allocations' = Drop(allocations, {address})
       /\ free' = InsertFree(free, address, allocations[address])
       /\ reply' = Answer(0)
    \/ /\ address \notin DOMAIN allocations
       /\ reply' = Error("invalid")
       /\ UNCHANGED <<free, allocations>>

-----------------------------------------------------------------------------
(* realloc *)

\* Mutation: the tail is not given back.
ShrinkKeepingTail(address, amount) ==
    /\ amount <= allocations[address]
    /\ free' = free
    /\ allocations' = Put(allocations, address, amount)
    /\ reply' = Answer(address)

Shrink(address, amount) ==
    /\ amount <= allocations[address]
    /\ free' = IF amount < allocations[address]
               THEN InsertFree(free, address + amount,
                               allocations[address] - amount)
               ELSE free
    /\ allocations' = Put(allocations, address, amount)
    /\ reply' = Answer(address)

\* Mutation: that the range is long enough is not checked.
CanGrowUnchecked(address, amount) ==
    address + allocations[address] \in DOMAIN free

\* A free range starts where the block ends and has the bytes that miss.
CanGrow(address, amount) ==
    LET end == address + allocations[address]
    IN  end \in DOMAIN free /\ amount - allocations[address] <= free[end]

GrowInPlace(address, amount) ==
    LET end   == address + allocations[address]
        extra == amount - allocations[address]
    IN  /\ amount > allocations[address]
        /\ CanGrow(address, amount)
        /\ free' = Carve(free, end, end, extra)
        /\ allocations' = Put(allocations, address, amount)
        /\ reply' = Answer(address)

\* The new block is allocated, the bytes are copied, the old block is freed:
\* the new place is never cut from the old block.
Move(address, amount) ==
    \/ \E start \in DOMAIN free :
          LET new == Aligned(start, DefaultAlign)
          IN  /\ FirstFitting(start, amount, DefaultAlign)
              /\ free' = InsertFree(Carve(free, start, new, amount),
                                    address, allocations[address])
              /\ allocations' = Drop(Put(allocations, new, amount), {address})
              /\ reply' = Answer(new)
    \/ /\ \A start \in DOMAIN free : ~Fits(start, amount, DefaultAlign)
       /\ reply' = Error("exhausted")
       /\ UNCHANGED <<free, allocations>>

MustMove(address, amount) ==
    amount > allocations[address] /\ ~CanGrow(address, amount)

Realloc(address, size, allowMove) ==
    \/ /\ address \in DOMAIN allocations
       /\ \/ Shrink(address, Amount(size))
          \/ GrowInPlace(address, Amount(size))
          \/ /\ MustMove(address, Amount(size))
             /\ allowMove
             /\ Move(address, Amount(size))
          \/ /\ MustMove(address, Amount(size))
             /\ ~allowMove
             /\ reply' = Error("locked")
             /\ UNCHANGED <<free, allocations>>
    \/ /\ address \notin DOMAIN allocations
       /\ reply' = Error("invalid")
       /\ UNCHANGED <<free, allocations>>

Next ==
    \/ \E size \in Sizes, align \in Aligns : Alloc(size, align)
    \/ \E address \in Addresses : Free(address)
    \/ \E address \in Addresses, size \in Sizes, allowMove \in BOOLEAN :
          Realloc(address, size, allowMove)

Spec == Init /\ [][Next]_vars

-----------------------------------------------------------------------------
(* Properties *)

\* Every range is a non-empty range of the heap, and the reply is a reply.
TypeOK ==
    /\ RangeMap(free)
    /\ RangeMap(allocations)
    /\ reply \in Replies

\* No live block overlaps another, whatever was split, merged and regrown:
\* writing one Handle's bytes never changes another's (memory.py:49-146).
BlocksApart == Apart(allocations)

\* Every byte of the heap is in exactly one of the free list and the live
\* blocks: no call loses a byte of the heap and none hands a byte out twice.
Partition ==
    \A b \in Addresses : Covers(free, b) <=> ~Covers(allocations, b)

\* Two free ranges never touch: a request that the free bytes could satisfy
\* in one piece is never refused because the piece is kept as two.
Coalesced == Detached(free)

\* The inductive invariant.
IInv == TypeOK /\ BlocksApart /\ Partition /\ Coalesced

\* The heap keeps the promises of HeapSpec.
Promise == INSTANCE HeapSpec
PromiseSpec == Promise!Spec
=============================================================================
