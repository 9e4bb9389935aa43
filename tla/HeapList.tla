------------------------------ MODULE HeapList ------------------------------
(***************************************************************************)
(* Heap with its free list as memory.py keeps it: a Python list of         *)
(* (start, bytes) pairs, spliced in place by alloc and realloc, appended   *)
(* to, sorted and merged in one pass by _insert_free.  It implements Heap  *)
(* under the mapping of a list to the function of its pairs.               *)
(***************************************************************************)
EXTENDS HeapState, SequencesExt

VARIABLE freeList    \* Heap._free

listVars == <<freeList, allocations, reply>>

Start(pair)     == pair[1]
Available(pair) == pair[2]
End(pair)       == pair[1] + pair[2]

ListInit ==
    /\ freeList = << <<Base, Size>> >>
    /\ allocations = NoRanges
    /\ reply = Answer(0)

\* self._free[index : index + 1] = replacement; "del" and the assignment of
\* one item are splices too.
Splice(list, index, replacement) ==
    SubSeq(list, 1, index - 1) \o replacement
        \o SubSeq(list, index + 1, Len(list))

\* Lexicographic, as Python sorts tuples.
PairOrder(p, q) ==
    Start(p) < Start(q) \/ (Start(p) = Start(q) /\ Available(p) <= Available(q))

\* list.sort(): a pair's place is how many pairs come no later, and of equal
\* pairs the one that stood first comes first.
NoLater(list, k) ==
    {j \in DOMAIN list : /\ PairOrder(list[j], list[k])
                         /\ PairOrder(list[k], list[j]) => j <= k}
Rank(list, k) == Cardinality(NoLater(list, k))
Sorted(list) ==
    [i \in DOMAIN list |-> list[CHOOSE k \in DOMAIN list : Rank(list, k) = i]]

\* Mutation: ranges that touch are not merged.
MergeOverlapping(merged, pair) ==
    IF merged # << >> /\ End(Last(merged)) > Start(pair)
    THEN [merged EXCEPT ![Len(merged)] = <<Start(@), End(pair) - Start(@)>>]
    ELSE Append(merged, pair)

\* One turn of the merge loop.
MergeNext(merged, pair) ==
    IF merged # << >> /\ End(Last(merged)) >= Start(pair)
    THEN LET previous == Last(merged)
             end == IF End(previous) >= End(pair) THEN End(previous)
                    ELSE End(pair)
         IN  [merged EXCEPT ![Len(merged)] =
                 <<Start(previous), end - Start(previous)>>]
    ELSE Append(merged, pair)

\* The merge loop: merged after each turn, then after the last.
Merged(list) ==
    LET merged[n \in 0 .. Len(list)] ==
            IF n = 0 THEN << >> ELSE MergeNext(merged[n - 1], list[n])
    IN  merged[Len(list)]

InsertPair(list, start, amount) ==
    IF amount <= 0 THEN list
    ELSE Merged(Sorted(Append(list, <<start, amount>>)))

PairFits(pair, amount, align) ==
    Aligned(Start(pair), align) - Start(pair) + amount <= Available(pair)

\* The first pair, in list order, that has room at an aligned address.
Fitting(amount, align) ==
    {i \in DOMAIN freeList : PairFits(freeList[i], amount, align)}
FirstPair(i, amount, align) ==
    i \in Fitting(amount, align) /\ \A j \in Fitting(amount, align) : i <= j

Taken(index, amount, align) ==
    LET pair    == freeList[index]
        address == Aligned(Start(pair), align)
        prefix  == address - Start(pair)
        suffix  == Available(pair) - prefix - amount
    IN  Splice(freeList, index,
               (IF prefix # 0 THEN << <<Start(pair), prefix>> >> ELSE << >>)
               \o (IF suffix # 0 THEN << <<address + amount, suffix>> >>
                   ELSE << >>))

ListAlloc(size, align) ==
    \/ \E index \in DOMAIN freeList :
          LET address == Aligned(Start(freeList[index]), align)
          IN  /\ FirstPair(index, Amount(size), align)
              /\ freeList' = Taken(index, Amount(size), align)
              /\ allocations' = Put(allocations, address, Amount(size))
              /\ reply' = Answer(address)
    \/ /\ Fitting(Amount(size), align) = {}
       /\ reply' = Error("exhausted")
       /\ UNCHANGED <<freeList, allocations>>

ListFree(address) ==
    \/ /\ address \in DOMAIN allocations
       /\ allocations' = Drop(allocations, {address})
       /\ freeList' = InsertPair(freeList, address, allocations[address])
       /\ reply' = Answer(0)
    \/ /\ address \notin DOMAIN allocations
       /\ reply' = Error("invalid")
       /\ UNCHANGED <<freeList, allocations>>

ListShrink(address, amount) ==
    /\ amount <= allocations[address]
    /\ freeList' = InsertPair(freeList, address + amount,
                              allocations[address] - amount)
    /\ allocations' = Put(allocations, address, amount)
    /\ reply' = Answer(address)

\* Mutation: the whole of the adjacent range is never used.
AdjacentWithRest(address, extra) ==
    {i \in DOMAIN freeList :
        /\ Start(freeList[i]) = address + allocations[address]
        /\ Available(freeList[i]) > extra}

\* The pairs that start where the block ends, with the bytes that miss; the
\* code takes the first that starts there.
Adjacent(address, extra) ==
    {i \in DOMAIN freeList :
        /\ Start(freeList[i]) = address + allocations[address]
        /\ \A j \in 1 .. i - 1 : Start(freeList[j]) # Start(freeList[i])
        /\ Available(freeList[i]) >= extra}

ListGrow(address, amount) ==
    LET extra == amount - allocations[address]
    IN  /\ extra > 0
        /\ \E i \in Adjacent(address, extra) :
              freeList' =
                 Splice(freeList, i,
                    IF Available(freeList[i]) = extra THEN << >>
                    ELSE << <<Start(freeList[i]) + extra,
                              Available(freeList[i]) - extra>> >>)
        /\ allocations' = Put(allocations, address, amount)
        /\ reply' = Answer(address)

ListMustMove(address, amount) ==
    /\ amount > allocations[address]
    /\ Adjacent(address, amount - allocations[address]) = {}

ListMove(address, amount) ==
    \/ \E index \in DOMAIN freeList :
          LET new == Aligned(Start(freeList[index]), DefaultAlign)
          IN  /\ FirstPair(index, amount, DefaultAlign)
              /\ freeList' = InsertPair(Taken(index, amount, DefaultAlign),
                                        address, allocations[address])
              /\ allocations' = Drop(Put(allocations, new, amount), {address})
              /\ reply' = Answer(new)
    \/ /\ Fitting(amount, DefaultAlign) = {}
       /\ reply' = Error("exhausted")
       /\ UNCHANGED <<freeList, allocations>>

ListRealloc(address, size, allowMove) ==
    \/ /\ address \in DOMAIN allocations
       /\ \/ ListShrink(address, Amount(size))
          \/ ListGrow(address, Amount(size))
          \/ /\ ListMustMove(address, Amount(size))
             /\ allowMove
             /\ ListMove(address, Amount(size))
          \/ /\ ListMustMove(address, Amount(size))
             /\ ~allowMove
             /\ reply' = Error("locked")
             /\ UNCHANGED <<freeList, allocations>>
    \/ /\ address \notin DOMAIN allocations
       /\ reply' = Error("invalid")
       /\ UNCHANGED <<freeList, allocations>>

ListNext ==
    \/ \E size \in Sizes, align \in Aligns : ListAlloc(size, align)
    \/ \E address \in Addresses : ListFree(address)
    \/ \E address \in Addresses, size \in Sizes, allowMove \in BOOLEAN :
          ListRealloc(address, size, allowMove)

ListSpec == ListInit /\ [][ListNext]_listVars

-----------------------------------------------------------------------------
(* Properties *)

\* The list is always sorted, with a gap between neighbours and no empty
\* pair.  alloc and realloc splice it without sorting, and the scan that
\* makes alloc first-fit, the merge loop and the lookup of the adjacent
\* range all rely on this order (memory.py:53, 84, 111).
SortedWithGaps ==
    /\ \A i \in DOMAIN freeList : Available(freeList[i]) > 0
    /\ \A i \in 1 .. Len(freeList) - 1 :
          End(freeList[i]) < Start(freeList[i + 1])

\* The list, read as a function, behaves as the free ranges of Heap.
AsFunction(list) ==
    [s \in {Start(list[i]) : i \in DOMAIN list} |->
        Available(list[CHOOSE i \in DOMAIN list : Start(list[i]) = s])]
Ranged == INSTANCE Heap WITH free <- AsFunction(freeList)
ImplementsHeap == Ranged!Spec
=============================================================================
