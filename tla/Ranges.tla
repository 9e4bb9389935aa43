------------------------------- MODULE Ranges -------------------------------
(***************************************************************************)
(* Byte ranges of the guest heap and the arithmetic memory.py does on      *)
(* them.  A collection of ranges is a function from the first address of   *)
(* each range to its length in bytes: the dict Heap._allocations is one,   *)
(* and so is the list Heap._free, whose starts are distinct.               *)
(***************************************************************************)
EXTENDS Integers

CONSTANTS
    Base,           \* first address of the heap (Heap.base)
    Size,           \* bytes in the heap (Heap.size)
    DefaultAlign,   \* alignment alloc uses when its caller names none: 16
    Aligns,         \* alignments the callers ask for: 4 and 16
    Sizes           \* sizes the callers ask for, 0 included

ASSUME RangeAssumption ==
    /\ Base \in Nat
    /\ Size \in Nat \ {0}
    /\ Aligns \subseteq Nat \ {0}
    /\ DefaultAlign \in Aligns
    /\ Sizes \subseteq Nat

Limit     == Base + Size
Addresses == Base .. Limit - 1

\* Heap._aligned: the first multiple of alignment that is not below value.
Aligned(value, alignment) ==
    ((value + alignment - 1) \div alignment) * alignment

\* amount = max(size, 1): an empty block still takes a byte.
Amount(size) == IF size = 0 THEN 1 ELSE size

NoRanges == [start \in {} |-> 0]

\* f with the entry k |-> v added or overwritten, and f without the keys ks.
Put(f, k, v) == [x \in DOMAIN f \union {k} |-> IF x = k THEN v ELSE f[x]]
Drop(f, ks)  == [x \in DOMAIN f \ ks |-> f[x]]

\* Byte b lies in the range of length n at s; in some range of f.
Within(b, s, n) == s <= b /\ b < s + n
Covers(f, b)    == \E s \in DOMAIN f : Within(b, s, f[s])

\* Ranges inside the heap, none empty.
RangeMap(f) ==
    /\ DOMAIN f \subseteq Addresses
    /\ f = [s \in DOMAIN f |-> f[s]]
    /\ \A s \in DOMAIN f : f[s] \in Nat \ {0} /\ s + f[s] <= Limit

\* No two ranges share a byte; no two even touch.
Apart(f)    == \A s, t \in DOMAIN f : s < t => s + f[s] <= t
Detached(f) == \A s, t \in DOMAIN f : s < t => s + f[s] < t

\* What a call answers its caller: an address, or the HostError it raises.
Answer(address) == [kind |-> "ok", address |-> address]
Error(kind)     == [kind |-> kind, address |-> 0]
Replies ==
    [kind : {"ok", "exhausted", "locked", "invalid"}, address : Nat]
=============================================================================
