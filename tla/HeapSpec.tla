------------------------------ MODULE HeapSpec ------------------------------
(***************************************************************************)
(* What Heap promises its callers, with no free list: the live blocks and  *)
(* the answer of the last call are the whole state.  A block is granted at *)
(* the lowest aligned address with room; "exhausted" is answered only when *)
(* no aligned address has room; a block grows in place exactly when the    *)
(* bytes after it are unused, and only then keeps its address.             *)
(***************************************************************************)
EXTENDS HeapState

vars == <<allocations, reply>>

\* The amount bytes at p are in the heap and in no live block.
Room(blocks, p, amount) ==
    /\ Base <= p /\ p + amount <= Limit
    /\ \A b \in p .. p + amount - 1 : ~Covers(blocks, b)

Candidate(blocks, p, amount, align) ==
    p % align = 0 /\ Room(blocks, p, amount)

\* p is the lowest aligned address with room.
FirstFit(blocks, p, amount, align) ==
    /\ Candidate(blocks, p, amount, align)
    /\ \A q \in Base .. p - 1 : ~Candidate(blocks, q, amount, align)

NoFit(blocks, amount, align) ==
    \A q \in Addresses : ~Candidate(blocks, q, amount, align)

Init == allocations = NoRanges /\ reply = Answer(0)

Refuse(kind) == reply' = Error(kind) /\ UNCHANGED allocations

Alloc(size, align) ==
    \/ \E p \in Addresses :
          /\ FirstFit(allocations, p, Amount(size), align)
          /\ allocations' = Put(allocations, p, Amount(size))
          /\ reply' = Answer(p)
    \/ NoFit(allocations, Amount(size), align) /\ Refuse("exhausted")

Free(address) ==
    \/ /\ address \in DOMAIN allocations
       /\ allocations' = Drop(allocations, {address})
       /\ reply' = Answer(0)
    \/ address \notin DOMAIN allocations /\ Refuse("invalid")

\* The block can be amount bytes long where it is.
Extends(address, amount) ==
    \/ amount <= allocations[address]
    \/ Room(allocations, address + allocations[address],
            amount - allocations[address])

Resize(address, amount) ==
    /\ Extends(address, amount)
    /\ allocations' = Put(allocations, address, amount)
    /\ reply' = Answer(address)

\* The new place is found while the old block is still live.
Move(address, amount) ==
    \/ \E p \in Addresses :
          /\ FirstFit(allocations, p, amount, DefaultAlign)
          /\ allocations' = Drop(Put(allocations, p, amount), {address})
          /\ reply' = Answer(p)
    \/ NoFit(allocations, amount, DefaultAlign) /\ Refuse("exhausted")

Realloc(address, size, allowMove) ==
    \/ /\ address \in DOMAIN allocations
       /\ \/ Resize(address, Amount(size))
          \/ /\ ~Extends(address, Amount(size))
             /\ \/ ~allowMove /\ Refuse("locked")
                \/ allowMove /\ Move(address, Amount(size))
    \/ address \notin DOMAIN allocations /\ Refuse("invalid")

Next ==
    \/ \E size \in Sizes, align \in Aligns : Alloc(size, align)
    \/ \E address \in Addresses : Free(address)
    \/ \E address \in Addresses, size \in Sizes, allowMove \in BOOLEAN :
          Realloc(address, size, allowMove)

Spec == Init /\ [][Next]_vars
=============================================================================
