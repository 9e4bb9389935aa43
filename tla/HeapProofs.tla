----------------------------- MODULE HeapProofs -----------------------------
(***************************************************************************)
(* For every base, size, alignment and set of request sizes: the live      *)
(* blocks and the free ranges of Heap tile the heap, live blocks never     *)
(* overlap, free ranges never touch, and Heap keeps the promises of        *)
(* HeapSpec; the free list memory.py keeps is always sorted and merged,    *)
(* and the list implements the free ranges of Heap.                        *)
(*                                                                         *)
(* A list and Heap's function are compared by the bytes they cover.  Free  *)
(* ranges that never touch are determined by their bytes (SameBytes), so   *)
(* that a list of such ranges is Heap's function as soon as it covers the  *)
(* same bytes.                                                             *)
(***************************************************************************)
EXTENDS Heap, HeapList, FiniteSetTheorems, SequenceTheorems, WellFoundedInduction, TLAPS

-----------------------------------------------------------------------------
(* Aligned addresses *)

LEMMA DivMod ==
    ASSUME NEW x \in Nat, NEW a \in Nat \ {0}
    PROVE  /\ x \div a \in Nat
           /\ x % a \in 0 .. a - 1
           /\ x = a * (x \div a) + (x % a)
  OBVIOUS

\* Rounding up never goes below the value and never a whole step above it.
LEMMA AlignedBounds ==
    ASSUME NEW v \in Nat, NEW a \in Nat \ {0}
    PROVE  /\ Aligned(v, a) \in Nat
           /\ v <= Aligned(v, a)
           /\ Aligned(v, a) < v + a
  BY DivMod DEF Aligned

LEMMA AlignedMultiple ==
    ASSUME NEW v \in Nat, NEW a \in Nat \ {0}
    PROVE  Aligned(v, a) % a = 0
  <1> DEFINE q == (v + a - 1) \div a
  <1>1. q \in Nat
    BY DivMod
  <1>2. (q * a) % a = 0
    BY <1>1
  <1> QED BY <1>2 DEF Aligned

\* No multiple lies between a value and its rounding.
LEMMA NoneBetween ==
    ASSUME NEW v \in Nat, NEW a \in Nat \ {0},
           NEW m \in Nat, m % a = 0, v <= m
    PROVE  Aligned(v, a) <= m
  <1> DEFINE q == (v + a - 1) \div a
             k == m \div a
  <1>1. q \in Nat /\ k \in Nat /\ m = a * k /\ a * q <= v + a - 1
    BY DivMod
  <1>2. a * q < a * (k + 1)
    BY <1>1
  <1>3. q <= k
    BY <1>1, <1>2
  <1>4. a * q <= a * k
    BY <1>1, <1>3
  <1> QED BY <1>1, <1>4 DEF Aligned

\* The rounding of an address is itself a multiple of the alignment and not
\* below the address, and there is no smaller one: an aligned block begins at
\* the first place it may (Heap._aligned).
THEOREM AlignedLeast ==
    ASSUME NEW v \in Nat, NEW a \in Nat \ {0}
    PROVE  /\ Aligned(v, a) \in Nat /\ Aligned(v, a) % a = 0 /\ v <= Aligned(v, a)
           /\ \A m \in Nat : m % a = 0 /\ v <= m => Aligned(v, a) <= m
  BY AlignedBounds, AlignedMultiple, NoneBetween

LEMMA AmountPositive ==
    ASSUME NEW size \in Sizes
    PROVE  Amount(size) \in Nat \ {0}
  BY RangeAssumption DEF Amount

-----------------------------------------------------------------------------
(* Ranges and the bytes they cover *)

\* Two ranges that share no byte lie one after the other.
LEMMA Separate ==
    ASSUME NEW s \in Addresses, NEW n \in Nat \ {0}, s + n <= Limit,
           NEW t \in Addresses, NEW m \in Nat \ {0}, t + m <= Limit,
           \A b \in Addresses : Within(b, s, n) => ~Within(b, t, m)
    PROVE  s + n <= t \/ t + m <= s
  <1>1. Within(s, s, n) /\ Within(t, t, m)
    BY RangeAssumption DEF Within, Addresses, Limit
  <1> QED BY <1>1, RangeAssumption DEF Within, Addresses, Limit

\* A range that shares no byte with any range of f lies before or after each.
LEMMA Clear ==
    ASSUME NEW f, RangeMap(f),
           NEW t \in Addresses, NEW m \in Nat \ {0}, t + m <= Limit,
           \A b \in Addresses : Within(b, t, m) => ~Covers(f, b)
    PROVE  \A s \in DOMAIN f : s + f[s] <= t \/ t + m <= s
  <1> SUFFICES ASSUME NEW s \in DOMAIN f
               PROVE  s + f[s] <= t \/ t + m <= s
    OBVIOUS
  <1>1. s \in Addresses /\ f[s] \in Nat \ {0} /\ s + f[s] <= Limit
    BY DEF RangeMap
  <1>2. \A b \in Addresses : Within(b, t, m) => ~Within(b, s, f[s])
    BY DEF Covers
  <1> QED BY <1>1, <1>2, Separate

\* Adding a range where f covers nothing.
LEMMA PutRange ==
    ASSUME NEW f, RangeMap(f), Apart(f),
           NEW p \in Addresses, NEW n \in Nat \ {0}, p + n <= Limit,
           \A b \in Addresses : Within(b, p, n) => ~Covers(f, b)
    PROVE  /\ p \notin DOMAIN f
           /\ RangeMap(Put(f, p, n))
           /\ Apart(Put(f, p, n))
           /\ \A b \in Addresses : Covers(Put(f, p, n), b)
                                     <=> Covers(f, b) \/ Within(b, p, n)
  <1> DEFINE g == Put(f, p, n)
  <1>1. \A s \in DOMAIN f : s + f[s] <= p \/ p + n <= s
    BY Clear
  <1>2. \A s \in DOMAIN f : s \in Int /\ f[s] \in Nat \ {0}
    BY RangeAssumption DEF RangeMap, Addresses, Limit
  <1>3. p \in Int /\ p \notin DOMAIN f
    BY <1>1, <1>2, RangeAssumption DEF Addresses, Limit
  <1>4. DOMAIN g = DOMAIN f \union {p} /\ g[p] = n
        /\ \A s \in DOMAIN f : g[s] = f[s]
    BY <1>3 DEF Put
  <1>5. RangeMap(g)
    BY <1>4 DEF RangeMap, Put
  <1>6. Apart(g)
    BY <1>1, <1>2, <1>3, <1>4 DEF Apart
  <1>7. \A b \in Addresses : Covers(g, b) <=> Covers(f, b) \/ Within(b, p, n)
    BY <1>3, <1>4 DEF Covers
  <1> QED BY <1>3, <1>5, <1>6, <1>7

\* Removing the range at p.
LEMMA DropRange ==
    ASSUME NEW f, RangeMap(f), Apart(f), NEW p \in DOMAIN f
    PROVE  /\ RangeMap(Drop(f, {p}))
           /\ Apart(Drop(f, {p}))
           /\ \A b \in Addresses : Covers(Drop(f, {p}), b)
                                     <=> Covers(f, b) /\ ~Within(b, p, f[p])
  <1> DEFINE g == Drop(f, {p})
  <1>1. DOMAIN g = DOMAIN f \ {p} /\ \A s \in DOMAIN g : g[s] = f[s]
    BY DEF Drop
  <1>2. \A s \in DOMAIN f : s \in Int /\ f[s] \in Nat \ {0}
    BY RangeAssumption DEF RangeMap, Addresses, Limit
  <1>3. RangeMap(g)
    BY <1>1 DEF RangeMap, Drop
  <1>4. Apart(g)
    BY <1>1 DEF Apart
  <1>5. ASSUME NEW b \in Addresses
        PROVE  Covers(g, b) <=> Covers(f, b) /\ ~Within(b, p, f[p])
    <2>1. b \in Int
      BY RangeAssumption DEF Addresses, Limit
    <2>2. ASSUME NEW s \in DOMAIN f \ {p}, Within(b, s, f[s])
          PROVE  ~Within(b, p, f[p])
      <3>1. s < p \/ p < s
        BY <1>2
      <3> QED BY <1>2, <2>1, <2>2, <3>1 DEF Apart, Within
    <2> QED BY <1>1, <2>2 DEF Covers
  <1> QED BY <1>3, <1>4, <1>5

\* Giving the range at p another length, where its new bytes are not covered.
LEMMA ResizeRange ==
    ASSUME NEW f, RangeMap(f), Apart(f), NEW p \in DOMAIN f,
           NEW n \in Nat \ {0}, p + n <= Limit,
           \A b \in Addresses :
              Within(b, p, n) /\ ~Within(b, p, f[p]) => ~Covers(f, b)
    PROVE  /\ RangeMap(Put(f, p, n))
           /\ Apart(Put(f, p, n))
           /\ \A b \in Addresses :
                 Covers(Put(f, p, n), b)
                   <=> (Covers(f, b) /\ ~Within(b, p, f[p])) \/ Within(b, p, n)
  <1> DEFINE g == Drop(f, {p})
  <1>1. /\ RangeMap(g) /\ Apart(g)
        /\ \A b \in Addresses : Covers(g, b)
                                  <=> Covers(f, b) /\ ~Within(b, p, f[p])
    BY DropRange
  <1>2. p \in Addresses
    BY DEF RangeMap
  <1>3. \A b \in Addresses : Within(b, p, n) => ~Covers(g, b)
    BY <1>1
  <1>4. Put(g, p, n) = Put(f, p, n)
    BY DEF Put, Drop
  <1> HIDE DEF g
  <1>5. /\ RangeMap(Put(g, p, n)) /\ Apart(Put(g, p, n))
        /\ \A b \in Addresses : Covers(Put(g, p, n), b)
                                  <=> Covers(g, b) \/ Within(b, p, n)
    BY <1>1, <1>2, <1>3, PutRange
  <1> QED BY <1>1, <1>4, <1>5

-----------------------------------------------------------------------------
(* What the two operations on the free list do to it *)

LEMMA DetachedApart ==
    ASSUME NEW f, RangeMap(f), Detached(f)
    PROVE  Apart(f)
  BY RangeAssumption DEF RangeMap, Detached, Apart, Addresses, Limit

\* Cutting [address, address + amount) out of the free range at start.
LEMMA CarveRange ==
    ASSUME NEW f, RangeMap(f), Detached(f), NEW start \in DOMAIN f,
           NEW address \in Nat, NEW amount \in Nat \ {0},
           start <= address, address + amount <= start + f[start]
    PROVE  /\ RangeMap(Carve(f, start, address, amount))
           /\ Detached(Carve(f, start, address, amount))
           /\ \A b \in Addresses :
                 Covers(Carve(f, start, address, amount), b)
                   <=> Covers(f, b) /\ ~Within(b, address, amount)
  <1> DEFINE g      == Carve(f, start, address, amount)
             end    == start + f[start]
             prefix == IF start < address THEN {start} ELSE {}
             suffix == IF address + amount < end THEN {address + amount}
                       ELSE {}
  <1>1. /\ DOMAIN f \subseteq Int /\ end \in Int /\ end <= Limit
        /\ Base \in Nat /\ Limit \in Nat
        /\ \A s \in DOMAIN f : /\ f[s] \in Nat \ {0}
                               /\ Base <= s /\ s + f[s] <= Limit
    BY RangeAssumption DEF RangeMap, Addresses, Limit
  <1>2. \A s \in DOMAIN f \ {start} : s + f[s] < start \/ end < s
    BY <1>1 DEF Detached
  <1>3. /\ DOMAIN g = (DOMAIN f \ {start}) \union prefix \union suffix
        /\ \A x \in prefix : g[x] = address - start
        /\ \A x \in suffix : g[x] = end - x
        /\ \A x \in DOMAIN f \ {start} : g[x] = f[x]
    <2>1. g = [x \in (DOMAIN f \ {start}) \union prefix \union suffix |->
                 CASE x = address + amount -> end - x
                   [] x = start            -> address - start
                   [] OTHER                -> f[x]]
      BY DEF Carve
    <2>2. \A x \in DOMAIN f \ {start} : x # start /\ x # address + amount
      BY <1>1, <1>2
    <2>3. start # address + amount
      BY <1>1
    <2>4. /\ prefix \subseteq {start}
          /\ suffix \subseteq {address + amount}
      OBVIOUS
    <2> HIDE DEF g, prefix, suffix, end
    <2> QED BY <2>1, <2>2, <2>3, <2>4
  <1>4. RangeMap(g)
    <2>1. \A x \in DOMAIN g : /\ x \in Addresses
                              /\ g[x] \in Nat \ {0} /\ x + g[x] <= Limit
      BY <1>1, <1>3 DEF Addresses
    <2>2. g = [x \in DOMAIN g |-> g[x]]
      <3> DEFINE D    == (DOMAIN f \ {start}) \union prefix \union suffix
                 e(x) == CASE x = address + amount -> end - x
                           [] x = start            -> address - start
                           [] OTHER                -> f[x]
      <3>1. g = [x \in D |-> e(x)]
        BY DEF Carve
      <3> HIDE DEF g, D, e
      <3> QED BY <3>1
    <2> HIDE DEF g
    <2> QED BY <2>1, <2>2 DEF RangeMap
  <1>5. Detached(g)
    <2> SUFFICES ASSUME NEW s \in DOMAIN g, NEW t \in DOMAIN g, s < t
                 PROVE  s + g[s] < t
      BY DEF Detached
    <2>1. CASE s \in DOMAIN f \ {start} /\ t \in DOMAIN f \ {start}
      BY <1>1, <1>3, <2>1 DEF Detached
    <2>2. CASE s \in DOMAIN f \ {start} /\ t \in prefix \union suffix
      BY <1>1, <1>2, <1>3, <2>2
    <2>3. CASE s \in prefix \union suffix /\ t \in DOMAIN f \ {start}
      BY <1>1, <1>2, <1>3, <2>3
    <2>4. CASE s \in prefix \union suffix /\ t \in prefix \union suffix
      BY <1>1, <1>3, <2>4
    <2> QED BY <1>3, <2>1, <2>2, <2>3, <2>4
  <1>6. ASSUME NEW b \in Addresses
        PROVE  Covers(g, b) <=> Covers(f, b) /\ ~Within(b, address, amount)
    <2>1. b \in Int
      BY RangeAssumption DEF Addresses, Limit
    <2>2. Covers(g, b) <=> \/ \E x \in DOMAIN f \ {start} : Within(b, x, f[x])
                           \/ \E x \in prefix : Within(b, x, address - start)
                           \/ \E x \in suffix : Within(b, x, end - x)
      BY <1>3 DEF Covers
    <2>3. (\E x \in prefix : Within(b, x, address - start))
            <=> start <= b /\ b < address
      BY <1>1, <2>1 DEF Within
    <2>4. (\E x \in suffix : Within(b, x, end - x))
            <=> address + amount <= b /\ b < end
      BY <1>1, <2>1 DEF Within
    <2>5. Covers(f, b) <=> \/ \E x \in DOMAIN f \ {start} : Within(b, x, f[x])
                           \/ Within(b, start, f[start])
      BY DEF Covers
    <2>6. ASSUME NEW x \in DOMAIN f \ {start}, Within(b, x, f[x])
          PROVE  ~Within(b, address, amount)
      BY <1>1, <1>2, <2>1, <2>6 DEF Within
    <2>7. Within(b, start, f[start]) <=> start <= b /\ b < end
      BY DEF Within
    <2>8. Within(b, address, amount) <=> address <= b /\ b < address + amount
      BY DEF Within
    <2> QED BY <1>1, <2>1, <2>2, <2>3, <2>4, <2>5, <2>6, <2>7, <2>8
  <1> QED BY <1>4, <1>5, <1>6

\* Giving back a range no free range covers.
LEMMA InsertRange ==
    ASSUME NEW f, RangeMap(f), Detached(f),
           NEW start \in Addresses, NEW amount \in Nat \ {0},
           start + amount <= Limit,
           \A b \in Addresses : Within(b, start, amount) => ~Covers(f, b)
    PROVE  /\ RangeMap(InsertFree(f, start, amount))
           /\ Detached(InsertFree(f, start, amount))
           /\ \A b \in Addresses :
                 Covers(InsertFree(f, start, amount), b)
                   <=> Covers(f, b) \/ Within(b, start, amount)
  <1> DEFINE g     == InsertFree(f, start, amount)
             left  == {s \in DOMAIN f : s + f[s] = start}
             right == {s \in DOMAIN f : s = start + amount}
             first == IF left = {} THEN start
                      ELSE CHOOSE s \in left : TRUE
             end   == IF right = {} THEN start + amount
                      ELSE start + amount + f[start + amount]
             rest  == DOMAIN f \ (left \union right)
  <1>1. /\ DOMAIN f \subseteq Int /\ start \in Int
        /\ Base \in Nat /\ Limit \in Nat /\ Base <= start
        /\ \A s \in DOMAIN f : /\ f[s] \in Nat \ {0}
                               /\ Base <= s /\ s + f[s] <= Limit
    BY RangeAssumption DEF RangeMap, Addresses, Limit
  <1>2. \A s \in DOMAIN f : s + f[s] <= start \/ start + amount <= s
    BY Clear
  <1>3. \/ left = {} /\ first = start
        \/ left = {first} /\ first \in DOMAIN f /\ first + f[first] = start
    <2>1. ASSUME left # {}
          PROVE  first \in left
      BY <2>1
    <2>2. \A s, t \in left : s = t
      BY <1>1 DEF Detached
    <2> QED BY <2>1, <2>2
  <1>4. \/ right = {} /\ end = start + amount
        \/ /\ right = {start + amount} /\ start + amount \in DOMAIN f
           /\ end = start + amount + f[start + amount]
    OBVIOUS
  <1>5. /\ first \in Int /\ end \in Int
        /\ first <= start /\ start + amount <= end
        /\ Base <= first /\ end <= Limit
    BY <1>1, <1>3, <1>4
  <1>6. \A s \in rest : s + f[s] < first \/ end < s
    <2> SUFFICES ASSUME NEW s \in rest
                 PROVE  s + f[s] < first \/ end < s
      OBVIOUS
    <2>1. CASE s + f[s] <= start
      <3>1. s + f[s] < start
        BY <1>1, <2>1
      <3>2. CASE left = {}
        BY <1>3, <3>1, <3>2
      <3>3. CASE left = {first} /\ first \in DOMAIN f
                 /\ first + f[first] = start
        BY <1>1, <3>1, <3>3 DEF Detached
      <3> QED BY <1>3, <3>2, <3>3
    <2>2. CASE start + amount <= s
      <3>1. start + amount < s
        BY <1>1, <2>2
      <3> QED BY <1>1, <1>4, <3>1 DEF Detached
    <2> QED BY <1>2, <2>1, <2>2
  <1>7. /\ DOMAIN g = rest \union {first}
        /\ g[first] = end - first
        /\ \A x \in rest : g[x] = f[x]
    <2>1. g = [x \in rest \union {first} |->
                  IF x = first THEN end - first ELSE f[x]]
      BY DEF InsertFree
    <2>2. first \notin rest
      BY <1>1, <1>5, <1>6
    <2> HIDE DEF g, first, end, rest
    <2> QED BY <2>1, <2>2
  <1>8. RangeMap(g)
    <2>1. \A x \in DOMAIN g : /\ x \in Addresses
                              /\ g[x] \in Nat \ {0} /\ x + g[x] <= Limit
      <3> HIDE DEF g, first, end
      <3> QED BY <1>1, <1>5, <1>7 DEF Addresses
    <2>2. g = [x \in DOMAIN g |-> g[x]]
      BY DEF InsertFree
    <2> QED BY <2>1, <2>2 DEF RangeMap
  <1>9. Detached(g)
    <2> HIDE DEF g, first, end, left, right
    <2> QED BY <1>1, <1>5, <1>6, <1>7 DEF Detached
  <1>10. ASSUME NEW b \in Addresses
         PROVE  Covers(g, b) <=> Covers(f, b) \/ Within(b, start, amount)
    <2>1. b \in Int
      BY RangeAssumption DEF Addresses, Limit
    <2>2. Covers(g, b) <=> \/ \E x \in rest : Within(b, x, f[x])
                           \/ first <= b /\ b < end
      <3> HIDE DEF g, first, end, rest
      <3> QED BY <1>5, <1>7, <2>1 DEF Covers, Within
    <2>3. Covers(f, b) <=> \/ \E x \in rest : Within(b, x, f[x])
                           \/ \E x \in left : Within(b, x, f[x])
                           \/ \E x \in right : Within(b, x, f[x])
      BY DEF Covers
    <2>4. (\E x \in left : Within(b, x, f[x])) <=> first <= b /\ b < start
      <3> HIDE DEF first, left
      <3> QED BY <1>1, <1>3, <2>1 DEF Within
    <2>5. (\E x \in right : Within(b, x, f[x]))
            <=> start + amount <= b /\ b < end
      <3> HIDE DEF end, right
      <3> QED BY <1>1, <1>4, <2>1 DEF Within
    <2>6. Within(b, start, amount) <=> start <= b /\ b < start + amount
      BY DEF Within
    <2> HIDE DEF g, first, end, left, right, rest
    <2> QED BY <1>1, <1>5, <2>1, <2>2, <2>3, <2>4, <2>5, <2>6
  <1> QED BY <1>8, <1>9, <1>10

-----------------------------------------------------------------------------
(* Free ranges f and live blocks a that tile the heap *)

Tiled(f, a) ==
    /\ RangeMap(f) /\ Detached(f)
    /\ RangeMap(a) /\ Apart(a)
    /\ \A b \in Addresses : Covers(f, b) <=> ~Covers(a, b)

\* A block cut from a free range: alloc.
LEMMA TakeTiled ==
    ASSUME NEW f, NEW a, Tiled(f, a), NEW start \in DOMAIN f,
           NEW p \in Nat, NEW n \in Nat \ {0},
           start <= p, p + n <= start + f[start]
    PROVE  /\ p \in Addresses /\ p + n <= Limit /\ p \notin DOMAIN a
           /\ \A b \in Addresses : Within(b, p, n) => ~Covers(a, b)
           /\ Tiled(Carve(f, start, p, n), Put(a, p, n))
  <1>1. /\ start \in Addresses /\ f[start] \in Nat \ {0}
        /\ start + f[start] <= Limit
    BY DEF Tiled, RangeMap
  <1>2. p \in Addresses /\ p + n <= Limit
    BY <1>1, RangeAssumption DEF Addresses, Limit
  <1>3. ASSUME NEW b \in Addresses, Within(b, p, n)
        PROVE  ~Covers(a, b)
    <2>1. Within(b, start, f[start])
      BY <1>1, <1>3, RangeAssumption DEF Within, Addresses, Limit
    <2> QED BY <2>1 DEF Tiled, Covers
  <1>4. /\ RangeMap(Carve(f, start, p, n)) /\ Detached(Carve(f, start, p, n))
        /\ \A b \in Addresses : Covers(Carve(f, start, p, n), b)
                                  <=> Covers(f, b) /\ ~Within(b, p, n)
    BY CarveRange DEF Tiled
  <1>5. /\ p \notin DOMAIN a
        /\ RangeMap(Put(a, p, n)) /\ Apart(Put(a, p, n))
        /\ \A b \in Addresses : Covers(Put(a, p, n), b)
                                  <=> Covers(a, b) \/ Within(b, p, n)
    BY <1>2, <1>3, PutRange DEF Tiled
  <1> QED BY <1>2, <1>3, <1>4, <1>5 DEF Tiled

\* A block given back: free.
LEMMA GiveTiled ==
    ASSUME NEW f, NEW a, Tiled(f, a), NEW p \in DOMAIN a
    PROVE  Tiled(InsertFree(f, p, a[p]), Drop(a, {p}))
  <1>1. p \in Addresses /\ a[p] \in Nat \ {0} /\ p + a[p] <= Limit
    BY DEF Tiled, RangeMap
  <1>2. \A b \in Addresses : Within(b, p, a[p]) => ~Covers(f, b)
    BY DEF Tiled, Covers
  <1>3. /\ RangeMap(InsertFree(f, p, a[p])) /\ Detached(InsertFree(f, p, a[p]))
        /\ \A b \in Addresses : Covers(InsertFree(f, p, a[p]), b)
                                  <=> Covers(f, b) \/ Within(b, p, a[p])
    BY <1>1, <1>2, InsertRange DEF Tiled
  <1>4. /\ RangeMap(Drop(a, {p})) /\ Apart(Drop(a, {p}))
        /\ \A b \in Addresses : Covers(Drop(a, {p}), b)
                                  <=> Covers(a, b) /\ ~Within(b, p, a[p])
    BY DropRange DEF Tiled
  <1> QED BY <1>3, <1>4 DEF Tiled

\* A block's tail given back: realloc to a smaller size.
LEMMA ShrinkTiled ==
    ASSUME NEW f, NEW a, Tiled(f, a), NEW p \in DOMAIN a,
           NEW n \in Nat \ {0}, n < a[p]
    PROVE  Tiled(InsertFree(f, p + n, a[p] - n), Put(a, p, n))
  <1> DEFINE q == p + n
             m == a[p] - n
  <1>1. /\ p \in Addresses /\ a[p] \in Nat \ {0} /\ p + a[p] <= Limit
        /\ q \in Addresses /\ m \in Nat \ {0} /\ q + m <= Limit /\ p + n <= Limit
        /\ Addresses \subseteq Int
    BY RangeAssumption DEF Tiled, RangeMap, Addresses, Limit
  <1>2. \A b \in Addresses :
           Within(b, p, a[p]) <=> Within(b, p, n) \/ Within(b, q, m)
    BY <1>1 DEF Within
  <1>3. \A b \in Addresses : ~(Within(b, p, n) /\ Within(b, q, m))
    BY <1>1 DEF Within
  <1>4. \A b \in Addresses : Within(b, p, a[p]) => Covers(a, b)
    BY DEF Covers
  <1> HIDE DEF q, m
  <1>5. /\ RangeMap(InsertFree(f, q, m)) /\ Detached(InsertFree(f, q, m))
        /\ \A b \in Addresses : Covers(InsertFree(f, q, m), b)
                                  <=> Covers(f, b) \/ Within(b, q, m)
    BY <1>1, <1>2, <1>4, InsertRange DEF Tiled
  <1>6. /\ RangeMap(Put(a, p, n)) /\ Apart(Put(a, p, n))
        /\ \A b \in Addresses :
              Covers(Put(a, p, n), b)
                <=> (Covers(a, b) /\ ~Within(b, p, a[p])) \/ Within(b, p, n)
    BY <1>1, <1>2, ResizeRange DEF Tiled
  <1>7. Tiled(InsertFree(f, q, m), Put(a, p, n))
    BY <1>2, <1>3, <1>4, <1>5, <1>6 DEF Tiled
  <1> QED BY <1>7 DEF q, m

\* A block that takes bytes of the free range after it: realloc in place.
LEMMA GrowTiled ==
    ASSUME NEW f, NEW a, Tiled(f, a), NEW p \in DOMAIN a,
           NEW n \in Nat, n > a[p],
           p + a[p] \in DOMAIN f, n - a[p] <= f[p + a[p]]
    PROVE  Tiled(Carve(f, p + a[p], p + a[p], n - a[p]), Put(a, p, n))
  <1> DEFINE q == p + a[p]
             m == n - a[p]
  <1>1. /\ p \in Addresses /\ a[p] \in Nat \ {0} /\ p + a[p] <= Limit
        /\ q \in DOMAIN f /\ q \in Addresses
        /\ f[q] \in Nat \ {0} /\ q + f[q] <= Limit /\ m <= f[q]
    BY DEF Tiled, RangeMap
  <1>2. /\ q \in Nat /\ m \in Nat \ {0} /\ q + m <= q + f[q]
        /\ n \in Nat \ {0} /\ p + n <= Limit /\ Addresses \subseteq Int
    BY <1>1, RangeAssumption DEF Addresses, Limit
  <1>3. \A b \in Addresses :
           Within(b, p, n) <=> Within(b, p, a[p]) \/ Within(b, q, m)
    BY <1>1, <1>2 DEF Within
  <1>4. \A b \in Addresses : Within(b, p, a[p]) => Covers(a, b)
    BY DEF Covers
  <1>5. \A b \in Addresses : Within(b, q, m) => Within(b, q, f[q])
    BY <1>1, <1>2 DEF Within
  <1>6. \A b \in Addresses : Within(b, q, m) => Covers(f, b)
    BY <1>1, <1>5 DEF Covers
  <1> HIDE DEF q, m
  <1>7. /\ RangeMap(Carve(f, q, q, m)) /\ Detached(Carve(f, q, q, m))
        /\ \A b \in Addresses : Covers(Carve(f, q, q, m), b)
                                  <=> Covers(f, b) /\ ~Within(b, q, m)
    BY <1>1, <1>2, CarveRange DEF Tiled
  <1>8. /\ RangeMap(Put(a, p, n)) /\ Apart(Put(a, p, n))
        /\ \A b \in Addresses :
              Covers(Put(a, p, n), b)
                <=> (Covers(a, b) /\ ~Within(b, p, a[p])) \/ Within(b, p, n)
    BY <1>2, <1>3, <1>6, ResizeRange DEF Tiled
  <1>9. Tiled(Carve(f, q, q, m), Put(a, p, n))
    BY <1>3, <1>4, <1>6, <1>7, <1>8 DEF Tiled
  <1> QED BY <1>9 DEF q, m

-----------------------------------------------------------------------------
(* The inductive invariant *)

LEMMA IInvTiled == IInv <=> Tiled(free, allocations) /\ reply \in Replies
  BY DEF IInv, TypeOK, BlocksApart, Partition, Coalesced, Tiled

LEMMA IInvTiledPrimed ==
    IInv' <=> Tiled(free', allocations') /\ reply' \in Replies
  BY DEF IInv, TypeOK, BlocksApart, Partition, Coalesced, Tiled,
         RangeMap, Apart, Detached, Covers

\* The aligned address a fitting range offers leaves room for the block.
LEMMA FitsInside ==
    ASSUME RangeMap(free), NEW start \in DOMAIN free,
           NEW amount \in Nat \ {0}, NEW align \in Aligns,
           Fits(start, amount, align)
    PROVE  /\ Aligned(start, align) \in Nat
           /\ start <= Aligned(start, align)
           /\ Aligned(start, align) + amount <= start + free[start]
  <1>1. start \in Nat /\ free[start] \in Nat /\ align \in Nat \ {0}
    BY RangeAssumption DEF RangeMap, Addresses, Limit
  <1>2. Aligned(start, align) \in Nat /\ start <= Aligned(start, align)
    BY <1>1, AlignedBounds
  <1>3. amount \in Nat
    OBVIOUS
  <1>4. Aligned(start, align) - start + amount <= free[start]
    BY DEF Fits
  <1> QED BY <1>1, <1>2, <1>3, <1>4

LEMMA AnswerReply ==
    /\ \A address \in Nat : Answer(address) \in Replies
    /\ \A kind \in {"exhausted", "locked", "invalid"} : Error(kind) \in Replies
  BY DEF Answer, Error, Replies

LEMMA InitTiled == Init => IInv
  <1> SUFFICES ASSUME Init
               PROVE  IInv
    OBVIOUS
  <1>1. /\ Base \in Addresses /\ Base + Size <= Limit
        /\ Size \in Nat \ {0} /\ Addresses \subseteq Int
    BY RangeAssumption DEF Addresses, Limit
  <1>2. DOMAIN free = {Base} /\ free[Base] = Size
        /\ free = [s \in DOMAIN free |-> free[s]]
    BY DEF Init
  <1>3. DOMAIN allocations = {}
        /\ allocations = [s \in DOMAIN allocations |-> allocations[s]]
    BY DEF Init, NoRanges
  <1>4. RangeMap(free) /\ Detached(free)
    BY <1>1, <1>2 DEF RangeMap, Detached
  <1>5. RangeMap(allocations) /\ Apart(allocations)
    BY <1>3 DEF RangeMap, Apart
  <1>6. \A b \in Addresses : Covers(free, b) /\ ~Covers(allocations, b)
    BY <1>2, <1>3, RangeAssumption DEF Covers, Within, Addresses, Limit
  <1>7. reply \in Replies
    BY AnswerReply DEF Init
  <1> QED BY <1>4, <1>5, <1>6, <1>7, IInvTiled DEF Tiled

LEMMA AllocKeeps ==
    ASSUME IInv, NEW size \in Sizes, NEW align \in Aligns, Alloc(size, align)
    PROVE  IInv'
  <1> DEFINE amount == Amount(size)
  <1>1. amount \in Nat \ {0} /\ Tiled(free, allocations) /\ reply \in Replies
    BY AmountPositive, IInvTiled
  <1> HIDE DEF amount
  <1>2. ASSUME NEW start \in DOMAIN free,
               FirstFitting(start, amount, align),
               free' = Carve(free, start, Aligned(start, align), amount),
               allocations' =
                  Put(allocations, Aligned(start, align), amount),
               reply' = Answer(Aligned(start, align))
        PROVE  IInv'
    <2>1. /\ Aligned(start, align) \in Nat
          /\ start <= Aligned(start, align)
          /\ Aligned(start, align) + amount <= start + free[start]
      BY <1>1, <1>2, FitsInside DEF FirstFitting, Tiled
    <2>2. Tiled(free', allocations')
      BY <1>1, <1>2, <2>1, TakeTiled
    <2> QED BY <1>2, <2>1, <2>2, AnswerReply, IInvTiledPrimed
  <1>3. CASE reply' = Error("exhausted") /\ UNCHANGED <<free, allocations>>
    BY <1>1, <1>3, AnswerReply, IInvTiledPrimed
  <1> QED BY <1>2, <1>3 DEF Alloc, amount

LEMMA FreeKeeps ==
    ASSUME IInv, NEW address \in Addresses, Free(address)
    PROVE  IInv'
  <1>1. Tiled(free, allocations)
    BY IInvTiled
  <1>2. CASE /\ address \in DOMAIN allocations
             /\ allocations' = Drop(allocations, {address})
             /\ free' = InsertFree(free, address, allocations[address])
             /\ reply' = Answer(0)
    BY <1>1, <1>2, GiveTiled, AnswerReply, IInvTiledPrimed
  <1>3. CASE reply' = Error("invalid") /\ UNCHANGED <<free, allocations>>
    BY <1>1, <1>3, AnswerReply, IInvTiledPrimed
  <1> QED BY <1>2, <1>3 DEF Free

LEMMA MoveKeeps ==
    ASSUME IInv, NEW address \in DOMAIN allocations,
           NEW amount \in Nat \ {0}, Move(address, amount)
    PROVE  IInv'
  <1>1. Tiled(free, allocations)
    BY IInvTiled
  <1>2. ASSUME NEW start \in DOMAIN free, NEW new,
               new = Aligned(start, DefaultAlign),
               FirstFitting(start, amount, DefaultAlign),
               free' = InsertFree(Carve(free, start, new, amount),
                                  address, allocations[address]),
               allocations' = Drop(Put(allocations, new, amount), {address}),
               reply' = Answer(new)
        PROVE  IInv'
    <2>1. /\ new \in Nat /\ start <= new
          /\ new + amount <= start + free[start]
      BY <1>1, <1>2, FitsInside, RangeAssumption DEF FirstFitting, Tiled
    <2>2. /\ new \notin DOMAIN allocations
          /\ Tiled(Carve(free, start, new, amount),
                   Put(allocations, new, amount))
      BY <1>1, <2>1, TakeTiled
    <2>3. /\ address \in DOMAIN Put(allocations, new, amount)
          /\ Put(allocations, new, amount)[address] = allocations[address]
      BY <2>2 DEF Put
    <2>4. Tiled(free', allocations')
      BY <1>2, <2>2, <2>3, GiveTiled
    <2> QED BY <1>2, <2>1, <2>4, AnswerReply, IInvTiledPrimed
  <1>3. CASE reply' = Error("exhausted") /\ UNCHANGED <<free, allocations>>
    BY <1>1, <1>3, AnswerReply, IInvTiledPrimed
  <1> QED BY <1>2, <1>3 DEF Move

LEMMA ReallocKeeps ==
    ASSUME IInv, NEW address \in Addresses, NEW size \in Sizes,
           NEW allowMove \in BOOLEAN, Realloc(address, size, allowMove)
    PROVE  IInv'
  <1> DEFINE amount == Amount(size)
  <1>1. amount \in Nat \ {0} /\ Tiled(free, allocations)
    BY AmountPositive, IInvTiled
  <1> HIDE DEF amount
  <1>2. ASSUME address \in DOMAIN allocations
        PROVE  /\ address \in Nat
               /\ allocations[address] \in Nat \ {0}
               /\ address + allocations[address] <= Limit
    BY <1>1, <1>2, RangeAssumption DEF Tiled, RangeMap, Addresses, Limit
  <1>3. CASE address \in DOMAIN allocations /\ Shrink(address, amount)
    <2>1. CASE amount < allocations[address]
      BY <1>1, <1>2, <1>3, <2>1, ShrinkTiled, AnswerReply, IInvTiledPrimed
         DEF Shrink
    <2>2. CASE amount = allocations[address]
      <3>1. Put(allocations, address, amount) = allocations
        BY <1>1, <1>3, <2>2 DEF Put, Tiled, RangeMap
      <3> QED BY <1>1, <1>2, <1>3, <2>2, <3>1, AnswerReply, IInvTiledPrimed
              DEF Shrink
    <2> QED BY <1>1, <1>2, <1>3, <2>1, <2>2 DEF Shrink
  <1>4. CASE address \in DOMAIN allocations /\ GrowInPlace(address, amount)
    BY <1>1, <1>2, <1>4, GrowTiled, AnswerReply, IInvTiledPrimed
       DEF GrowInPlace, CanGrow
  <1>5. CASE address \in DOMAIN allocations /\ Move(address, amount)
    BY <1>1, <1>5, MoveKeeps
  <1>6. CASE /\ reply' \in {Error("locked"), Error("invalid")}
             /\ UNCHANGED <<free, allocations>>
    BY <1>1, <1>6, AnswerReply, IInvTiledPrimed
  <1> QED BY <1>3, <1>4, <1>5, <1>6 DEF Realloc, amount

\* Every call keeps the invariant.
LEMMA StepKeeps ==
    ASSUME IInv, [Next]_vars
    PROVE  IInv'
  <1>1. ASSUME NEW size \in Sizes, NEW align \in Aligns, Alloc(size, align)
        PROVE  IInv'
    BY <1>1, AllocKeeps
  <1>2. ASSUME NEW address \in Addresses, Free(address)
        PROVE  IInv'
    BY <1>2, FreeKeeps
  <1>3. ASSUME NEW address \in Addresses, NEW size \in Sizes,
               NEW allowMove \in BOOLEAN, Realloc(address, size, allowMove)
        PROVE  IInv'
    BY <1>3, ReallocKeeps
  <1>4. CASE UNCHANGED vars
    BY <1>4, IInvTiled, IInvTiledPrimed DEF vars
  <1> QED BY <1>1, <1>2, <1>3, <1>4 DEF Next

\* Every byte of the heap is always in exactly one free range or live block,
\* blocks never overlap and free ranges never touch (memory.py:49-146).
THEOREM HeapInvariant == Spec => []IInv
  <1>1. Init => IInv
    BY InitTiled
  <1>2. IInv /\ [Next]_vars => IInv'
    BY StepKeeps
  <1> QED BY <1>1, <1>2, PTL DEF Spec

\* Ranges are well formed and replies are replies, at every step.
THEOREM HeapTypes == Spec => []TypeOK
  <1>1. IInv => TypeOK
    BY DEF IInv
  <1> QED BY <1>1, HeapInvariant, PTL

\* No live block ever overlaps another.
THEOREM BlocksNeverOverlap == Spec => []BlocksApart
  <1>1. IInv => BlocksApart
    BY DEF IInv
  <1> QED BY <1>1, HeapInvariant, PTL

\* No byte of the heap is ever lost, and none is ever handed out twice.
THEOREM HeapConserved == Spec => []Partition
  <1>1. IInv => Partition
    BY DEF IInv
  <1> QED BY <1>1, HeapInvariant, PTL

\* The free list is always fully merged.
THEOREM AlwaysCoalesced == Spec => []Coalesced
  <1>1. IInv => Coalesced
    BY DEF IInv
  <1> QED BY <1>1, HeapInvariant, PTL

-----------------------------------------------------------------------------
(* Heap keeps the promises of HeapSpec *)

\* The operators of Ranges mean the same seen through HeapSpec.
LEMMA SameOperators ==
    /\ Promise!Addresses = Addresses /\ Promise!Limit = Limit
    /\ \A size : Promise!Amount(size) = Amount(size)
    /\ \A f, k, v : Promise!Put(f, k, v) = Put(f, k, v)
    /\ \A f, ks : Promise!Drop(f, ks) = Drop(f, ks)
    /\ \A f, b : Promise!Covers(f, b) <=> Covers(f, b)
    /\ \A address : Promise!Answer(address) = Answer(address)
    /\ \A kind : Promise!Error(kind) = Error(kind)
  BY DEF Promise!Addresses, Addresses, Promise!Limit, Limit,
         Promise!Amount, Amount, Promise!Put, Put, Promise!Drop, Drop,
         Promise!Covers, Covers, Promise!Within, Within,
         Promise!Answer, Answer, Promise!Error, Error

\* Bytes in no live block lie in one free range: the free ranges cover them
\* and never touch.
LEMMA RoomInFree ==
    ASSUME NEW f, NEW a, Tiled(f, a), NEW q \in Nat, NEW n \in Nat \ {0},
           Promise!Room(a, q, n)
    PROVE  \E s \in DOMAIN f : s <= q /\ q + n <= s + f[s]
  <1>1. /\ Base <= q /\ q + n <= Limit
        /\ \A b \in q .. q + n - 1 : ~Covers(a, b)
    BY SameOperators DEF Promise!Room
  <1>2. \A b \in q .. q + n - 1 : b \in Addresses /\ Covers(f, b)
    BY <1>1, RangeAssumption DEF Tiled, Addresses, Limit
  <1>3. \A s \in DOMAIN f : s \in Nat /\ f[s] \in Nat \ {0}
    BY RangeAssumption DEF Tiled, RangeMap, Addresses, Limit
  <1>4. PICK s \in DOMAIN f : Within(q, s, f[s])
    BY <1>2 DEF Covers
  <1>5. ASSUME s + f[s] < q + n
        PROVE  FALSE
    <2> DEFINE e == s + f[s]
    <2>1. e \in q .. q + n - 1
      BY <1>3, <1>4, <1>5 DEF Within
    <2>2. PICK t \in DOMAIN f : Within(e, t, f[t])
      BY <1>2, <2>1 DEF Covers
    <2>3. t <= e /\ e < t + f[t]
      BY <2>2 DEF Within
    <2>4. s < t => s + f[s] < t
      BY DEF Tiled, Detached
    <2>5. t < s => t + f[t] < s
      BY DEF Tiled, Detached
    <2> QED BY <1>3, <2>3, <2>4, <2>5
  <1> QED BY <1>3, <1>4, <1>5 DEF Within

\* An aligned place with room lies in a free range that fits.
LEMMA CandidateFits ==
    ASSUME Tiled(free, allocations), NEW q \in Nat,
           NEW amount \in Nat \ {0}, NEW align \in Aligns,
           Promise!Candidate(allocations, q, amount, align)
    PROVE  \E s \in DOMAIN free :
              /\ s <= q /\ q + amount <= s + free[s]
              /\ Aligned(s, align) <= q
              /\ Fits(s, amount, align)
  <1>1. q % align = 0 /\ Promise!Room(allocations, q, amount)
    BY DEF Promise!Candidate
  <1>2. PICK s \in DOMAIN free : s <= q /\ q + amount <= s + free[s]
    BY <1>1, RoomInFree
  <1>3. s \in Nat /\ free[s] \in Nat /\ align \in Nat \ {0}
    BY RangeAssumption DEF Tiled, RangeMap, Addresses, Limit
  <1>4. Aligned(s, align) \in Nat /\ Aligned(s, align) <= q
    BY <1>1, <1>2, <1>3, NoneBetween, AlignedBounds
  <1>5. Aligned(s, align) - s + amount <= free[s]
    BY <1>2, <1>3, <1>4
  <1> QED BY <1>2, <1>4, <1>5 DEF Fits

\* The scan of the free list finds the lowest aligned address with room.
LEMMA FirstFittingIsFirstFit ==
    ASSUME Tiled(free, allocations), NEW start \in DOMAIN free,
           NEW amount \in Nat \ {0}, NEW align \in Aligns,
           FirstFitting(start, amount, align)
    PROVE  /\ Aligned(start, align) \in Addresses
           /\ Promise!FirstFit(allocations, Aligned(start, align),
                               amount, align)
  <1> DEFINE p == Aligned(start, align)
  <1>1. p \in Nat /\ start <= p /\ p + amount <= start + free[start]
    BY FitsInside DEF FirstFitting, Tiled
  <1>2. p % align = 0
    BY AlignedMultiple, RangeAssumption
       DEF Tiled, RangeMap, Addresses, Limit
  <1> HIDE DEF p
  <1>3. /\ p \in Addresses /\ p + amount <= Limit
        /\ \A b \in Addresses : Within(b, p, amount) => ~Covers(allocations, b)
    BY <1>1, TakeTiled
  <1>4. Promise!Room(allocations, p, amount)
    <2>1. \A b \in p .. p + amount - 1 : b \in Addresses /\ Within(b, p, amount)
      BY <1>1, <1>3, RangeAssumption DEF Within, Addresses, Limit
    <2>2. Base <= p
      BY <1>3, RangeAssumption DEF Addresses, Limit
    <2> QED BY <1>3, <2>1, <2>2, SameOperators DEF Promise!Room
  <1>5. ASSUME NEW q \in Base .. p - 1,
               Promise!Candidate(allocations, q, amount, align)
        PROVE  FALSE
    <2>1. q \in Nat /\ q < p
      BY <1>1, RangeAssumption
    <2>2. PICK s \in DOMAIN free :
             /\ s <= q /\ q + amount <= s + free[s]
             /\ Aligned(s, align) <= q
             /\ Fits(s, amount, align)
      BY <1>5, <2>1, CandidateFits
    <2>3. /\ s \in Nat /\ start \in Nat
          /\ free[s] \in Nat /\ free[start] \in Nat
      BY RangeAssumption DEF Tiled, RangeMap, Addresses, Limit
    <2>4. ~(s < start)
      BY <2>2 DEF FirstFitting
    <2>5. start < s => start + free[start] < s
      BY DEF Tiled, Detached
    <2>6. s # start
      BY <1>1, <2>1, <2>2 DEF p
    <2> QED BY <1>1, <2>1, <2>2, <2>3, <2>4, <2>5, <2>6
  <1>6. Promise!FirstFit(allocations, p, amount, align)
    BY <1>2, <1>4, <1>5 DEF Promise!FirstFit, Promise!Candidate, p
  <1> QED BY <1>3, <1>6 DEF p

\* When no free range fits, no aligned address has room.
LEMMA NothingFits ==
    ASSUME Tiled(free, allocations),
           NEW amount \in Nat \ {0}, NEW align \in Aligns,
           \A start \in DOMAIN free : ~Fits(start, amount, align)
    PROVE  Promise!NoFit(allocations, amount, align)
  <1>1. Addresses \subseteq Nat
    BY RangeAssumption DEF Addresses, Limit
  <1> QED BY <1>1, CandidateFits, SameOperators DEF Promise!NoFit

\* The bytes after a block are unused exactly when a free range starts there.
LEMMA GrowsIntoRoom ==
    ASSUME Tiled(free, allocations), NEW address \in DOMAIN allocations,
           NEW amount \in Nat \ {0}, amount > allocations[address]
    PROVE  CanGrow(address, amount)
             <=> Promise!Room(allocations, address + allocations[address],
                              amount - allocations[address])
  <1> DEFINE e == address + allocations[address]
             n == amount - allocations[address]
  <1>1. /\ address \in Addresses /\ address \in Nat /\ e \in Nat
        /\ allocations[address] \in Nat \ {0}
        /\ n \in Nat \ {0} /\ Base <= e
        /\ Addresses \subseteq Nat
    BY RangeAssumption DEF Tiled, RangeMap, Addresses, Limit
  <1>2. \A s \in DOMAIN free : /\ s \in Addresses /\ s \in Nat
                               /\ free[s] \in Nat \ {0}
                               /\ s + free[s] <= Limit
    BY <1>1 DEF Tiled, RangeMap
  <1>3. e - 1 \in Addresses /\ Covers(allocations, e - 1)
    <2>1. e <= Limit
      BY DEF Tiled, RangeMap
    <2> QED BY <1>1, <2>1, RangeAssumption
            DEF Covers, Within, Addresses, Limit
  <1> HIDE DEF e, n
  <1>4. ASSUME e \in DOMAIN free, n <= free[e]
        PROVE  Promise!Room(allocations, e, n)
    <2>1. e + n <= Limit
      BY <1>1, <1>2, <1>4, RangeAssumption DEF Limit
    <2>2. \A b \in e .. e + n - 1 : b \in Addresses /\ Covers(free, b)
      BY <1>1, <1>2, <1>4, <2>1, RangeAssumption
         DEF Covers, Within, Addresses, Limit
    <2> QED BY <1>1, <2>1, <2>2, SameOperators DEF Promise!Room, Tiled
  <1>5. ASSUME Promise!Room(allocations, e, n)
        PROVE  e \in DOMAIN free /\ n <= free[e]
    <2>1. PICK s \in DOMAIN free : s <= e /\ e + n <= s + free[s]
      BY <1>1, <1>5, RoomInFree
    <2>2. s < e => Within(e - 1, s, free[s])
      BY <1>1, <1>2, <2>1 DEF Within
    <2>3. ~Covers(free, e - 1)
      BY <1>3 DEF Tiled
    <2>4. s = e
      BY <1>1, <1>2, <2>1, <2>2, <2>3 DEF Covers
    <2> QED BY <1>1, <1>2, <2>1, <2>4
  <1>6. CanGrow(address, amount) <=> e \in DOMAIN free /\ n <= free[e]
    BY DEF CanGrow, e, n
  <1>7. CanGrow(address, amount) <=> Promise!Room(allocations, e, n)
    BY <1>4, <1>5, <1>6
  <1> QED BY <1>7 DEF e, n

LEMMA AllocPromised ==
    ASSUME IInv, NEW size \in Sizes, NEW align \in Aligns, Alloc(size, align)
    PROVE  Promise!Alloc(size, align)
  <1> DEFINE amount == Amount(size)
  <1>1. amount \in Nat \ {0} /\ Tiled(free, allocations)
    BY AmountPositive, IInvTiled
  <1>2. CASE /\ \A start \in DOMAIN free : ~Fits(start, amount, align)
             /\ reply' = Error("exhausted")
             /\ UNCHANGED <<free, allocations>>
    BY <1>1, <1>2, NothingFits, SameOperators
       DEF Promise!Alloc, Promise!Refuse
  <1>3. CASE \E start \in DOMAIN free :
                /\ FirstFitting(start, amount, align)
                /\ allocations' =
                      Put(allocations, Aligned(start, align), amount)
                /\ reply' = Answer(Aligned(start, align))
    BY <1>1, <1>3, FirstFittingIsFirstFit, SameOperators DEF Promise!Alloc
  <1> QED BY <1>2, <1>3 DEF Alloc

LEMMA FreePromised ==
    ASSUME NEW address, Free(address)
    PROVE  Promise!Free(address)
  BY SameOperators DEF Free, Promise!Free, Promise!Refuse

LEMMA MovePromised ==
    ASSUME IInv, NEW address \in DOMAIN allocations,
           NEW amount \in Nat \ {0}, Move(address, amount)
    PROVE  Promise!Move(address, amount)
  <1>1. Tiled(free, allocations) /\ DefaultAlign \in Aligns
    BY IInvTiled, RangeAssumption
  <1>2. CASE /\ \A start \in DOMAIN free : ~Fits(start, amount, DefaultAlign)
             /\ reply' = Error("exhausted")
             /\ UNCHANGED <<free, allocations>>
    BY <1>1, <1>2, NothingFits, SameOperators
       DEF Promise!Move, Promise!Refuse
  <1>3. CASE \E start \in DOMAIN free :
                LET new == Aligned(start, DefaultAlign)
                IN  /\ FirstFitting(start, amount, DefaultAlign)
                    /\ allocations' =
                          Drop(Put(allocations, new, amount), {address})
                    /\ reply' = Answer(new)
    BY <1>1, <1>3, FirstFittingIsFirstFit, SameOperators DEF Promise!Move
  <1> QED BY <1>2, <1>3 DEF Move

LEMMA ReallocPromised ==
    ASSUME IInv, NEW address \in Addresses, NEW size \in Sizes,
           NEW allowMove \in BOOLEAN, Realloc(address, size, allowMove)
    PROVE  Promise!Realloc(address, size, allowMove)
  <1> DEFINE amount == Amount(size)
  <1>1. /\ amount \in Nat \ {0} /\ Tiled(free, allocations)
        /\ Promise!Amount(size) = amount
    BY AmountPositive, IInvTiled, SameOperators
  <1>2. address \in DOMAIN allocations => allocations[address] \in Nat \ {0}
    BY <1>1 DEF Tiled, RangeMap
  <1> HIDE DEF amount
  <1>3. address \in DOMAIN allocations =>
          (Promise!Extends(address, amount)
             <=> amount <= allocations[address] \/ CanGrow(address, amount))
    BY <1>1, <1>2, GrowsIntoRoom DEF Promise!Extends
  <1>4. CASE address \notin DOMAIN allocations
    BY <1>4, SameOperators DEF Realloc, Promise!Realloc, Promise!Refuse
  <1>5. CASE address \in DOMAIN allocations /\ Shrink(address, amount)
    BY <1>1, <1>3, <1>5, SameOperators
       DEF Shrink, Promise!Realloc, Promise!Resize
  <1>6. CASE address \in DOMAIN allocations /\ GrowInPlace(address, amount)
    BY <1>1, <1>3, <1>6, SameOperators
       DEF GrowInPlace, Promise!Realloc, Promise!Resize
  <1>7. CASE /\ address \in DOMAIN allocations /\ MustMove(address, amount)
             /\ allowMove /\ Move(address, amount)
    <2>1. ~Promise!Extends(address, amount)
      BY <1>1, <1>2, <1>3, <1>7 DEF MustMove
    <2> QED BY <1>1, <1>7, <2>1, MovePromised DEF Promise!Realloc
  <1>8. CASE /\ address \in DOMAIN allocations /\ MustMove(address, amount)
             /\ ~allowMove /\ reply' = Error("locked")
             /\ UNCHANGED <<free, allocations>>
    <2>1. ~Promise!Extends(address, amount)
      BY <1>1, <1>2, <1>3, <1>8 DEF MustMove
    <2> QED BY <1>1, <1>8, <2>1, SameOperators
            DEF Promise!Realloc, Promise!Refuse
  <1> QED BY <1>4, <1>5, <1>6, <1>7, <1>8 DEF Realloc, amount

\* The allocator keeps its promises to its callers: blocks at the lowest
\* aligned address with room, "exhausted" only when there is none, growth in
\* place exactly when the bytes after the block are unused
\* (memory.py:16-17, 49-146).
THEOREM HeapKeepsPromise == Spec => PromiseSpec
  <1>1. Init => Promise!Init
    BY DEF Init, Promise!Init, NoRanges, Promise!NoRanges,
           Answer, Promise!Answer
  <1>2. IInv /\ [Next]_vars => [Promise!Next]_(Promise!vars)
    <2> SUFFICES ASSUME IInv, [Next]_vars
                 PROVE  [Promise!Next]_(Promise!vars)
      OBVIOUS
    <2>1. ASSUME NEW size \in Sizes, NEW align \in Aligns, Alloc(size, align)
          PROVE  Promise!Next
      BY <2>1, AllocPromised DEF Promise!Next
    <2>2. ASSUME NEW address \in Addresses, Free(address)
          PROVE  Promise!Next
      BY <2>2, FreePromised, SameOperators DEF Promise!Next
    <2>3. ASSUME NEW address \in Addresses, NEW size \in Sizes,
                 NEW allowMove \in BOOLEAN, Realloc(address, size, allowMove)
          PROVE  Promise!Next
      BY <2>3, ReallocPromised, SameOperators DEF Promise!Next
    <2>4. CASE UNCHANGED vars
      BY <2>4 DEF vars, Promise!vars
    <2> QED BY <2>1, <2>2, <2>3, <2>4 DEF Next
  <1> QED BY <1>1, <1>2, HeapInvariant, PTL
          DEF Spec, PromiseSpec, Promise!Spec

-----------------------------------------------------------------------------
(* HeapList: the list of memory.py *)

\* A range of the heap as the list keeps it, and the bytes of a list of them.
Pairs == {p \in Addresses \X (Nat \ {0}) : p[1] + p[2] <= Limit}
ListCovers(l, b) == \E i \in DOMAIN l : Within(b, l[i][1], l[i][2])

\* In order, with a gap between any two.
Spread(l) == \A i, j \in DOMAIN l : i < j => l[i][1] + l[i][2] < l[j][1]
Listed(l) == l \in Seq(Pairs) /\ Spread(l)

-----------------------------------------------------------------------------
(* A list and its function *)

LEMMA PairIn ==
    ASSUME NEW p \in Pairs
    PROVE  /\ p[1] \in Nat /\ p[2] \in Nat /\ p[2] > 0 /\ p = <<p[1], p[2]>>
           /\ p[1] \in Addresses /\ p[2] \in Nat \ {0}
           /\ p[1] + p[2] <= Limit
  BY RangeAssumption DEF Pairs, Addresses, Limit

LEMMA PairOf ==
    ASSUME NEW s \in Addresses, NEW n \in Nat \ {0}, s + n <= Limit
    PROVE  <<s, n>> \in Pairs
  BY DEF Pairs

LEMMA ListIn ==
    ASSUME NEW l \in Seq(Pairs)
    PROVE  /\ Len(l) \in Nat /\ DOMAIN l = 1 .. Len(l)
           /\ \A i \in DOMAIN l : l[i] \in Pairs /\ i \in Nat
  <1>1. Len(l) \in Nat /\ DOMAIN l = 1 .. Len(l)
    BY LenProperties
  <1>2. \A i \in 1 .. Len(l) : l[i] \in Pairs
    BY ElementOfSeq
  <1> QED BY <1>1, <1>2

LEMMA ListFunction ==
    ASSUME NEW l, Listed(l)
    PROVE  /\ DOMAIN AsFunction(l) = {l[i][1] : i \in DOMAIN l}
           /\ \A i \in DOMAIN l : AsFunction(l)[l[i][1]] = l[i][2]
           /\ RangeMap(AsFunction(l)) /\ Detached(AsFunction(l))
           /\ \A b : Covers(AsFunction(l), b) <=> ListCovers(l, b)
  <1> DEFINE F == AsFunction(l)
  <1>1. F = [s \in {l[i][1] : i \in DOMAIN l} |->
                l[CHOOSE i \in DOMAIN l : l[i][1] = s][2]]
    BY DEF AsFunction, Start, Available
  <1>2. \A i \in DOMAIN l : l[i] \in Pairs /\ i \in Nat
    BY ListIn DEF Listed
  <1>3. \A i, j \in DOMAIN l : l[i][1] = l[j][1] => i = j
    <2>1. \A i \in DOMAIN l : /\ i \in Nat /\ l[i][1] \in Nat
                              /\ l[i][2] \in Nat /\ l[i][2] > 0
      BY <1>2, PairIn
    <2> QED BY <2>1 DEF Listed, Spread
  <1> HIDE DEF F
  <1>4. DOMAIN F = {l[i][1] : i \in DOMAIN l}
    BY <1>1
  <1>5. \A i \in DOMAIN l : F[l[i][1]] = l[i][2]
    <2> SUFFICES ASSUME NEW i \in DOMAIN l
                 PROVE  F[l[i][1]] = l[i][2]
      OBVIOUS
    <2> DEFINE k == CHOOSE k \in DOMAIN l : l[k][1] = l[i][1]
    <2>1. k \in DOMAIN l /\ l[k][1] = l[i][1]
      BY Zenon
    <2>2. k = i
      BY <1>3, <2>1
    <2>3. l[i][1] \in {l[j][1] : j \in DOMAIN l}
      OBVIOUS
    <2>4. F[l[i][1]] = l[k][2]
      BY <1>1, <2>3
    <2> QED BY <2>2, <2>4
  <1>6. F = [s \in DOMAIN F |-> F[s]]
    BY <1>1
  <1>7. RangeMap(F)
    BY <1>2, <1>4, <1>5, <1>6, PairIn DEF RangeMap
  <1>8. Detached(F)
    <2> SUFFICES ASSUME NEW i \in DOMAIN l, NEW j \in DOMAIN l,
                        l[i][1] < l[j][1]
                 PROVE  l[i][1] + l[i][2] < l[j][1]
      BY <1>4, <1>5 DEF Detached
    <2>1. /\ i \in Nat /\ j \in Nat /\ l[i][1] \in Nat /\ l[j][1] \in Nat
          /\ l[i][2] \in Nat /\ l[j][2] \in Nat
      BY <1>2, PairIn
    <2>2. /\ i < j => l[i][1] + l[i][2] < l[j][1]
          /\ j < i => l[j][1] + l[j][2] < l[i][1]
      BY DEF Listed, Spread
    <2>3. i # j
      BY <2>1
    <2> QED BY <2>1, <2>2, <2>3
  <1>9. \A b : Covers(F, b) <=> ListCovers(l, b)
    BY <1>4, <1>5 DEF Covers, ListCovers
  <1> QED BY <1>4, <1>5, <1>7, <1>8, <1>9 DEF F

\* Half of SameBytes.
LEMMA SameRange ==
    ASSUME NEW f, NEW g, RangeMap(f), RangeMap(g), Detached(f), Detached(g),
           \A b \in Addresses : Covers(f, b) <=> Covers(g, b),
           NEW s \in DOMAIN f
    PROVE  s \in DOMAIN g /\ g[s] = f[s]
  <1>1. \A r \in DOMAIN f : /\ r \in Addresses /\ r \in Nat
                            /\ f[r] \in Nat /\ f[r] > 0 /\ r + f[r] <= Limit
    BY RangeAssumption DEF RangeMap, Addresses, Limit
  <1>2. \A r \in DOMAIN g : /\ r \in Addresses /\ r \in Nat
                            /\ g[r] \in Nat /\ g[r] > 0 /\ r + g[r] <= Limit
    BY RangeAssumption DEF RangeMap, Addresses, Limit
  <1>3. PICK t \in DOMAIN g : Within(s, t, g[t])
    <2>1. Within(s, s, f[s])
      BY <1>1 DEF Within
    <2> QED BY <1>1, <2>1 DEF Covers
  <1>4. ASSUME t < s
        PROVE  FALSE
    <2>1. s - 1 \in Addresses /\ Within(s - 1, t, g[t])
      BY <1>1, <1>2, <1>3, <1>4, RangeAssumption
         DEF Within, Addresses, Limit
    <2>2. PICK r \in DOMAIN f : Within(s - 1, r, f[r])
      BY <2>1 DEF Covers
    <2>3. r < s
      BY <1>1, <2>2 DEF Within
    <2> QED BY <1>1, <2>2, <2>3 DEF Within, Detached
  <1>5. t = s
    BY <1>1, <1>2, <1>3, <1>4 DEF Within
  <1>6. ASSUME g[s] < f[s]
        PROVE  FALSE
    <2> DEFINE e == s + g[s]
    <2>1. e \in Addresses /\ Within(e, s, f[s])
      BY <1>1, <1>2, <1>5, <1>6, RangeAssumption DEF Within, Addresses, Limit
    <2>2. PICK u \in DOMAIN g : Within(e, u, g[u])
      BY <2>1 DEF Covers
    <2>3. ~(s < u) /\ ~(u < s)
      BY <1>2, <1>5, <2>2 DEF Within, Detached
    <2> QED BY <1>2, <1>5, <2>2, <2>3 DEF Within
  <1>7. ASSUME f[s] < g[s]
        PROVE  FALSE
    <2> DEFINE e == s + f[s]
    <2>1. e \in Addresses /\ Within(e, s, g[s])
      BY <1>1, <1>2, <1>5, <1>7, RangeAssumption DEF Within, Addresses, Limit
    <2>2. PICK u \in DOMAIN f : Within(e, u, f[u])
      BY <1>5, <2>1 DEF Covers
    <2>3. ~(s < u) /\ ~(u < s)
      BY <1>1, <2>2 DEF Within, Detached
    <2> QED BY <1>1, <2>2, <2>3 DEF Within
  <1> QED BY <1>1, <1>2, <1>5, <1>6, <1>7

\* Ranges that never touch are determined by the bytes they cover.
LEMMA SameBytes ==
    ASSUME NEW f, NEW g, RangeMap(f), RangeMap(g), Detached(f), Detached(g),
           \A b \in Addresses : Covers(f, b) <=> Covers(g, b)
    PROVE  f = g
  <1>1. \A s \in DOMAIN f : s \in DOMAIN g /\ g[s] = f[s]
    BY SameRange
  <1>2. \A s \in DOMAIN g : s \in DOMAIN f /\ f[s] = g[s]
    BY SameRange
  <1> QED BY <1>1, <1>2 DEF RangeMap

\* SameBytes for a list.
LEMMA ListOf ==
    ASSUME NEW f, RangeMap(f), Detached(f), NEW l, Listed(l),
           \A b \in Addresses : ListCovers(l, b) <=> Covers(f, b)
    PROVE  AsFunction(l) = f
  BY ListFunction, SameBytes

-----------------------------------------------------------------------------
(* Splicing the list *)

\* The list with its k-th item replaced, item by item.
LEMMA SpliceItems ==
    ASSUME NEW l \in Seq(Pairs), NEW k \in DOMAIN l, NEW r \in Seq(Pairs)
    PROVE  /\ Splice(l, k, r) \in Seq(Pairs)
           /\ Len(Splice(l, k, r)) = Len(l) + Len(r) - 1
           /\ \A i \in 1 .. k - 1 : Splice(l, k, r)[i] = l[i]
           /\ \A i \in 1 .. Len(r) : Splice(l, k, r)[k - 1 + i] = r[i]
           /\ \A i \in k + 1 .. Len(l) :
                 Splice(l, k, r)[i - 1 + Len(r)] = l[i]
  <1> DEFINE before == SubSeq(l, 1, k - 1)
             after  == SubSeq(l, k + 1, Len(l))
             m      == before \o r
             new    == m \o after
             n      == Len(r)
             size   == Len(l)
  <1>1. size \in Nat /\ k \in 1 .. size /\ n \in Nat
    BY ListIn
  <1>2. \A i \in 1 .. Len(l) : l[i] \in Pairs
    BY ElementOfSeq
  <1>3. /\ before \in Seq(Pairs) /\ Len(before) = k - 1
        /\ \A i \in 1 .. k - 1 : before[i] = l[i]
    <2>1. \A i \in 1 .. k - 1 : l[i] \in Pairs
      BY <1>1, <1>2
    <2>2. /\ SubSeq(l, 1, k - 1) \in Seq(Pairs)
          /\ Len(SubSeq(l, 1, k - 1)) = IF 1 <= k - 1 THEN (k - 1) - 1 + 1 ELSE 0
          /\ \A i \in 1 .. (k - 1) - 1 + 1 : SubSeq(l, 1, k - 1)[i] = l[1 + i - 1]
      BY <1>1, <2>1, SubSeqProperties
    <2> QED BY <1>1, <2>2
  <1>4. /\ after \in Seq(Pairs) /\ Len(after) = size - k
        /\ \A i \in 1 .. size - k : after[i] = l[k + i]
    <2>1. /\ after \in Seq(Pairs)
          /\ Len(after) = IF k + 1 <= Len(l) THEN Len(l) - (k + 1) + 1 ELSE 0
          /\ \A i \in 1 .. Len(l) - (k + 1) + 1 : after[i] = l[(k + 1) + i - 1]
      BY <1>1, <1>2, SubSeqProperties
    <2>2. \A i \in 1 .. Len(l) - k : after[i] = l[k + i]
      <3> TAKE i \in 1 .. Len(l) - k
      <3>1. i \in 1 .. Len(l) - (k + 1) + 1 /\ (k + 1) + i - 1 = k + i
        BY <1>1
      <3> QED BY <2>1, <3>1
    <2> QED BY <1>1, <2>1, <2>2
  <1> HIDE DEF before, after
  <1>5. /\ m \in Seq(Pairs) /\ Len(m) = k - 1 + n
        /\ \A i \in 1 .. k - 1 + n :
              m[i] = IF i <= k - 1 THEN before[i] ELSE r[i - (k - 1)]
    <2>1. /\ m \in Seq(Pairs) /\ Len(m) = Len(before) + n
          /\ \A i \in 1 .. Len(before) + n :
                m[i] = IF i <= Len(before) THEN before[i] ELSE r[i - Len(before)]
      BY <1>3, ConcatProperties
    <2> HIDE DEF m
    <2> QED BY <1>3, <2>1
  <1> HIDE DEF m, size, n
  <1>6. /\ new \in Seq(Pairs) /\ Len(new) = size + n - 1
        /\ \A i \in 1 .. size + n - 1 :
              new[i] = IF i <= k - 1 + n THEN m[i] ELSE after[i - (k - 1 + n)]
    <2>1. /\ new \in Seq(Pairs) /\ Len(new) = Len(m) + Len(after)
          /\ \A i \in 1 .. Len(m) + Len(after) :
                new[i] = IF i <= Len(m) THEN m[i] ELSE after[i - Len(m)]
      BY <1>4, <1>5, ConcatProperties
    <2> HIDE DEF new
    <2>2. Len(m) + Len(after) = size + n - 1 /\ Len(m) = k - 1 + n
      BY <1>1, <1>4, <1>5
    <2> QED BY <2>1, <2>2
  <1> HIDE DEF new
  <1>7. size \in Nat /\ k \in Nat /\ 1 <= k /\ k <= size /\ n \in Nat
    BY <1>1
  <1>8. \A i \in 1 .. k - 1 : new[i] = l[i]
    <2> TAKE i \in 1 .. k - 1
    <2>1. /\ i \in 1 .. k - 1 + n /\ i <= k - 1
          /\ i \in 1 .. size + n - 1 /\ i <= k - 1 + n
      BY <1>7
    <2> QED BY <1>3, <1>5, <1>6, <2>1
  <1>9. \A i \in 1 .. n : new[k - 1 + i] = r[i]
    <2> TAKE i \in 1 .. n
    <2> DEFINE j == k - 1 + i
    <2>1. /\ j \in 1 .. k - 1 + n /\ ~(j <= k - 1)
          /\ j \in 1 .. size + n - 1 /\ j <= k - 1 + n
          /\ j - (k - 1) = i
      BY <1>7
    <2> HIDE DEF j
    <2>2. new[j] = r[i]
      BY <1>5, <1>6, <2>1
    <2> QED BY <2>2 DEF j
  <1>10. \A i \in k + 1 .. size : new[i - 1 + n] = l[i]
    <2> TAKE i \in k + 1 .. size
    <2> DEFINE j == i - 1 + n
               x == i - k
    <2>1. /\ j \in 1 .. size + n - 1 /\ ~(j <= k - 1 + n)
          /\ j - (k - 1 + n) = x
          /\ x \in 1 .. size - k /\ k + x = i
      BY <1>7
    <2> HIDE DEF j, x
    <2>2. new[j] = l[i]
      BY <1>4, <1>6, <2>1
    <2> QED BY <2>2 DEF j
  <1>11. Splice(l, k, r) = new
    BY DEF Splice, new, m, before, after
  <1> QED BY <1>6, <1>8, <1>9, <1>10, <1>11 DEF size, n

\* An item replaced by ranges inside it: the list stays in order, with gaps.
LEMMA SpliceListed ==
    ASSUME NEW l, Listed(l), NEW k \in DOMAIN l, NEW r, Listed(r),
           \A i \in DOMAIN r : /\ l[k][1] <= r[i][1]
                               /\ r[i][1] + r[i][2] <= l[k][1] + l[k][2]
    PROVE  /\ Listed(Splice(l, k, r))
           /\ \A b : ListCovers(Splice(l, k, r), b)
                       <=> \/ \E i \in DOMAIN l \ {k} : Within(b, l[i][1], l[i][2])
                           \/ ListCovers(r, b)
  <1> DEFINE new == Splice(l, k, r)
             n   == Len(r)
  <1>1. /\ new \in Seq(Pairs) /\ Len(new) = Len(l) + n - 1
        /\ \A i \in 1 .. k - 1 : new[i] = l[i]
        /\ \A i \in 1 .. n : new[k - 1 + i] = r[i]
        /\ \A i \in k + 1 .. Len(l) : new[i - 1 + n] = l[i]
    BY SpliceItems DEF Listed
  <1>2. /\ Len(l) \in Nat /\ DOMAIN l = 1 .. Len(l) /\ n \in Nat
        /\ DOMAIN r = 1 .. n /\ k \in 1 .. Len(l)
        /\ DOMAIN new = 1 .. Len(l) + n - 1
    BY <1>1, ListIn DEF Listed
  <1>3. \A i \in 1 .. Len(l) : /\ l[i][1] \in Nat /\ l[i][2] \in Nat
                               /\ l[i][2] > 0
    BY <1>2, ListIn, PairIn DEF Listed
  <1>4. \A i \in 1 .. n : /\ r[i][1] \in Nat /\ r[i][2] \in Nat
                          /\ r[i][2] > 0
    BY <1>2, ListIn, PairIn DEF Listed
  <1> HIDE DEF new, n
  \* Where each item of the new list comes from.
  <1>5. ASSUME NEW i \in DOMAIN new
        PROVE  \/ i \in 1 .. k - 1 /\ new[i] = l[i]
               \/ i - k + 1 \in 1 .. n /\ new[i] = r[i - k + 1]
               \/ i + 1 - n \in k + 1 .. Len(l) /\ new[i] = l[i + 1 - n]
    <2>1. i \in Int /\ 1 <= i /\ i <= Len(l) + n - 1
      BY <1>2
    <2>2. CASE i <= k - 1
      BY <1>1, <1>2, <2>1, <2>2
    <2>3. CASE k <= i /\ i <= k - 1 + n
      <3>1. i - k + 1 \in 1 .. n /\ k - 1 + (i - k + 1) = i
        BY <1>2, <2>1, <2>3
      <3> QED BY <1>1, <3>1
    <2>4. CASE k + n <= i
      <3>1. i + 1 - n \in k + 1 .. Len(l) /\ (i + 1 - n) - 1 + n = i
        BY <1>2, <2>1, <2>4
      <3> QED BY <1>1, <3>1
    <2> QED BY <1>2, <2>1, <2>2, <2>3, <2>4
  <1>6. Spread(new)
    <2> SUFFICES ASSUME NEW i \in DOMAIN new, NEW j \in DOMAIN new, i < j
                 PROVE  new[i][1] + new[i][2] < new[j][1]
      BY DEF Spread
    <2>1. i \in Int /\ j \in Int /\ k \in Int /\ n \in Int
      BY <1>2
    <2>2. \A x, y \in 1 .. Len(l) : x < y => l[x][1] + l[x][2] < l[y][1]
      BY <1>2 DEF Listed, Spread
    <2>3. \A x, y \in 1 .. n : x < y => r[x][1] + r[x][2] < r[y][1]
      BY <1>2 DEF Listed, Spread
    <2>4. \A x \in 1 .. n : /\ l[k][1] <= r[x][1]
                            /\ r[x][1] + r[x][2] <= l[k][1] + l[k][2]
      BY <1>2
    <2>5. CASE i \in 1 .. k - 1 /\ new[i] = l[i]
      <3>1. i \in 1 .. Len(l) /\ i < k
        BY <1>2, <2>5
      <3>5. l[i][1] + l[i][2] < l[k][1]
        BY <1>2, <2>2, <3>1
      <3>2. CASE j \in 1 .. k - 1 /\ new[j] = l[j]
        BY <1>2, <2>1, <2>2, <2>5, <3>2
      <3>3. CASE j - k + 1 \in 1 .. n /\ new[j] = r[j - k + 1]
        <4>1. l[k][1] <= r[j - k + 1][1] /\ r[j - k + 1][1] \in Nat
          BY <1>4, <2>4, <3>3
        <4>2. l[i][1] \in Nat /\ l[i][2] \in Nat /\ l[k][1] \in Nat
          BY <1>2, <1>3, <3>1
        <4> QED BY <2>5, <3>3, <3>5, <4>1, <4>2
      <3>4. CASE j + 1 - n \in k + 1 .. Len(l) /\ new[j] = l[j + 1 - n]
        BY <1>2, <2>1, <2>2, <2>5, <3>4
      <3> QED BY <1>5, <3>2, <3>3, <3>4
    <2>6. CASE i - k + 1 \in 1 .. n /\ new[i] = r[i - k + 1]
      <3>1. CASE j - k + 1 \in 1 .. n /\ new[j] = r[j - k + 1]
        BY <1>2, <2>1, <2>3, <2>6, <3>1
      <3>2. CASE j + 1 - n \in k + 1 .. Len(l) /\ new[j] = l[j + 1 - n]
        <4>1. l[k][1] + l[k][2] < l[j + 1 - n][1]
          <5>1. j + 1 - n \in 1 .. Len(l) /\ k < j + 1 - n
            BY <1>2, <2>1, <3>2
          <5> QED BY <1>2, <2>2, <5>1
        <4>2. /\ r[i - k + 1][1] + r[i - k + 1][2] <= l[k][1] + l[k][2]
              /\ r[i - k + 1][1] \in Nat /\ r[i - k + 1][2] \in Nat
          BY <1>4, <2>4, <2>6
        <4>3. /\ j + 1 - n \in 1 .. Len(l)
              /\ l[k][1] \in Nat /\ l[k][2] \in Nat
          BY <1>2, <1>3, <2>1, <3>2
        <4>4. l[j + 1 - n][1] \in Nat
          BY <1>3, <4>3
        <4>5. new[i][1] + new[i][2] <= l[k][1] + l[k][2]
          BY <2>6, <4>2
        <4>6. new[i][1] \in Nat /\ new[i][2] \in Nat /\ new[j][1] \in Nat
          BY <2>6, <3>2, <4>2, <4>4
        <4>7. l[k][1] + l[k][2] < new[j][1]
          BY <3>2, <4>1
        <4> QED BY <4>3, <4>5, <4>6, <4>7
      <3>3. ~(j \in 1 .. k - 1)
        BY <2>1, <2>6
      <3>4. \/ j - k + 1 \in 1 .. n /\ new[j] = r[j - k + 1]
            \/ j + 1 - n \in k + 1 .. Len(l) /\ new[j] = l[j + 1 - n]
        BY <1>5, <3>3, Zenon
      <3> QED BY <3>1, <3>2, <3>4, Zenon
    <2>7. CASE i + 1 - n \in k + 1 .. Len(l) /\ new[i] = l[i + 1 - n]
      <3>3. k + n <= i /\ k + n < j
        BY <2>1, <2>7
      <3>1. ~(j \in 1 .. k - 1) /\ ~(j - k + 1 \in 1 .. n)
        BY <1>2, <2>1, <3>3
      <3>2. CASE j + 1 - n \in k + 1 .. Len(l) /\ new[j] = l[j + 1 - n]
        BY <1>2, <2>1, <2>2, <2>7, <3>2
      <3> QED BY <1>5, <3>1, <3>2
    <2> QED BY <1>5, <2>5, <2>6, <2>7
  <1>7. ASSUME NEW b, ListCovers(new, b)
        PROVE  \/ \E i \in DOMAIN l \ {k} : Within(b, l[i][1], l[i][2])
               \/ ListCovers(r, b)
    <2>1. PICK i \in DOMAIN new : Within(b, new[i][1], new[i][2])
      BY <1>7 DEF ListCovers
    <2>2. CASE i \in 1 .. k - 1 /\ new[i] = l[i]
      <3>1. i \in DOMAIN l \ {k}
        BY <1>2, <2>2
      <3> QED BY <2>1, <2>2, <3>1
    <2>3. CASE i - k + 1 \in 1 .. n /\ new[i] = r[i - k + 1]
      BY <1>2, <2>1, <2>3 DEF ListCovers
    <2>4. CASE i + 1 - n \in k + 1 .. Len(l) /\ new[i] = l[i + 1 - n]
      <3>1. i + 1 - n \in DOMAIN l \ {k}
        BY <1>2, <2>4
      <3> QED BY <2>1, <2>4, <3>1
    <2> QED BY <1>5, <2>2, <2>3, <2>4
  <1>8. ASSUME NEW b, NEW i \in DOMAIN l \ {k}, Within(b, l[i][1], l[i][2])
        PROVE  ListCovers(new, b)
    <2>1. CASE i \in 1 .. k - 1
      <3>1. i \in DOMAIN new /\ new[i] = l[i]
        BY <1>1, <1>2, <2>1
      <3> QED BY <1>8, <3>1 DEF ListCovers
    <2>2. CASE i \in k + 1 .. Len(l)
      <3>1. i - 1 + n \in DOMAIN new /\ new[i - 1 + n] = l[i]
        BY <1>1, <1>2, <2>2
      <3> QED BY <1>8, <3>1 DEF ListCovers
    <2> QED BY <1>2, <2>1, <2>2
  <1>9. ASSUME NEW b, ListCovers(r, b)
        PROVE  ListCovers(new, b)
    <2>1. PICK i \in DOMAIN r : Within(b, r[i][1], r[i][2])
      BY <1>9 DEF ListCovers
    <2>2. k - 1 + i \in DOMAIN new
      BY <1>2
    <2>3. new[k - 1 + i] = r[i]
      BY <1>1, <1>2
    <2> QED BY <2>1, <2>2, <2>3 DEF ListCovers
  <1> QED BY <1>1, <1>6, <1>7, <1>8, <1>9 DEF Listed, new

LEMMA TwoItems ==
    ASSUME NEW x, NEW y
    PROVE  <<x>> \o <<y>> = <<x, y>>
  <1> DEFINE a == <<x>>
             b == <<y>>
             c == a \o b
  <1>1. /\ a \in Seq({x, y}) /\ Len(a) = 1 /\ a[1] = x
        /\ b \in Seq({x, y}) /\ Len(b) = 1 /\ b[1] = y
    OBVIOUS
  <1> HIDE DEF a, b
  <1>2. /\ c \in Seq({x, y}) /\ Len(c) = Len(a) + Len(b)
        /\ \A i \in 1 .. Len(a) + Len(b) :
              c[i] = IF i <= Len(a) THEN a[i] ELSE b[i - Len(a)]
    BY <1>1, ConcatProperties
  <1> HIDE DEF c
  <1>3. Len(c) = 2 /\ c[1] = x /\ c[2] = y
    BY <1>1, <1>2
  <1>4. c = <<x, y>>
    <2> DEFINE d == <<x, y>>
    <2>1. d \in Seq({x, y}) /\ Len(d) = 2 /\ d[1] = x /\ d[2] = y
      OBVIOUS
    <2> HIDE DEF d
    <2>2. \A i \in 1 .. Len(c) : c[i] = d[i]
      BY <1>3, <2>1
    <2>3. c = d
      BY <1>2, <1>3, <2>1, <2>2, SeqEqual
    <2> QED BY <2>3 DEF d
  <1> QED BY <1>4 DEF c, a, b

\* What is left of an item when [p, p + n) is cut out of it.
Rest(pair, p, n) ==
    (IF p - pair[1] # 0 THEN << <<pair[1], p - pair[1]>> >> ELSE << >>)
    \o (IF pair[2] - (p - pair[1]) - n # 0
        THEN << <<p + n, pair[2] - (p - pair[1]) - n>> >> ELSE << >>)

LEMMA RestListed ==
    ASSUME NEW pair \in Pairs, NEW p \in Nat, NEW n \in Nat \ {0},
           pair[1] <= p, p + n <= pair[1] + pair[2]
    PROVE  /\ Listed(Rest(pair, p, n))
           /\ \A i \in DOMAIN Rest(pair, p, n) :
                 /\ pair[1] <= Rest(pair, p, n)[i][1]
                 /\ Rest(pair, p, n)[i][1] + Rest(pair, p, n)[i][2]
                       <= pair[1] + pair[2]
           /\ \A b \in Addresses :
                 ListCovers(Rest(pair, p, n), b)
                   <=> Within(b, pair[1], pair[2]) /\ ~Within(b, p, n)
  <1> DEFINE s == pair[1]
             m == pair[2]
             u == m - (p - s) - n
             r == Rest(pair, p, n)
  <1>1. /\ s \in Nat /\ m \in Nat /\ m > 0 /\ s \in Addresses /\ s + m <= Limit
        /\ Limit \in Nat /\ n \in Nat /\ n > 0 /\ Addresses \subseteq Nat
        /\ \A x \in Nat : s <= x /\ x < s + m => x \in Addresses
    BY PairIn, RangeAssumption DEF Addresses, Limit
  <1>2. p - s \in Nat /\ u \in Nat
    BY <1>1
  <1>3. p # s => <<s, p - s>> \in Pairs
    BY <1>1, <1>2, PairOf
  <1>4. u # 0 => <<p + n, u>> \in Pairs
    BY <1>1, <1>2, PairOf
  <1>5. \A b \in Addresses :
           Within(b, s, m) /\ ~Within(b, p, n)
             <=> (s <= b /\ b < p) \/ (p + n <= b /\ b < s + m)
    BY <1>1 DEF Within
  <1>6. p + n + u = s + m
    BY <1>1
  <1> HIDE DEF s, m, u
  <1>7. CASE p = s /\ u = 0
    <2>1. r = << >>
      BY <1>1, <1>7 DEF Rest, s, m, u
    <2> HIDE DEF r
    <2>2. DOMAIN r = {} /\ r \in Seq(Pairs)
      BY <2>1
    <2>3. \A b \in Addresses : ~((s <= b /\ b < p) \/ (p + n <= b /\ b < s + m))
      BY <1>1, <1>6, <1>7
    <2> QED BY <1>5, <2>2, <2>3 DEF Listed, Spread, ListCovers, r, s, m
  <1>8. CASE p # s /\ u = 0
    <2>1. r = << <<s, p - s>> >>
      BY <1>1, <1>2, <1>8 DEF Rest, s, m, u
    <2> HIDE DEF r
    <2>2. DOMAIN r = {1} /\ r[1][1] = s /\ r[1][2] = p - s /\ r \in Seq(Pairs)
      BY <1>3, <1>8, <2>1
    <2>3. \A b \in Addresses :
             Within(b, s, p - s)
               <=> (s <= b /\ b < p) \/ (p + n <= b /\ b < s + m)
      BY <1>1, <1>6, <1>8 DEF Within
    <2>4. s <= s /\ s + (p - s) <= s + m
      BY <1>1, <1>2, <1>6
    <2> QED BY <1>5, <2>2, <2>3, <2>4 DEF Listed, Spread, ListCovers, r, s, m
  <1>9. CASE p = s /\ u # 0
    <2>1. r = << <<p + n, u>> >>
      <3>1. p - s = 0
        BY <1>1, <1>9
      <3>2. r = << >> \o << <<p + n, u>> >>
        BY <3>1, <1>9 DEF Rest, s, m, u
      <3>3. \A x : << >> \o <<x>> = <<x>>
        OBVIOUS
      <3> QED BY <3>2, <3>3, Zenon
    <2> HIDE DEF r
    <2>2. DOMAIN r = {1} /\ r[1][1] = p + n /\ r[1][2] = u /\ r \in Seq(Pairs)
      BY <1>4, <1>9, <2>1
    <2>3. \A b \in Addresses :
             Within(b, p + n, u)
               <=> (s <= b /\ b < p) \/ (p + n <= b /\ b < s + m)
      BY <1>1, <1>6, <1>9 DEF Within
    <2>4. s <= p + n /\ p + n + u <= s + m
      BY <1>1, <1>2, <1>6
    <2> QED BY <1>5, <2>2, <2>3, <2>4 DEF Listed, Spread, ListCovers, r, s, m
  <1>10. CASE p # s /\ u # 0
    <2>1. r = << <<s, p - s>>, <<p + n, u>> >>
      <3>1. p - s # 0
        BY <1>1, <1>10
      <3>2. r = << <<s, p - s>> >> \o << <<p + n, u>> >>
        BY <3>1, <1>10 DEF Rest, s, m, u
      <3> QED BY <3>2, TwoItems
    <2> HIDE DEF r
    <2>2. /\ DOMAIN r = {1, 2} /\ r[1][1] = s /\ r[1][2] = p - s
          /\ r[2][1] = p + n /\ r[2][2] = u /\ r \in Seq(Pairs)
      BY <1>3, <1>4, <1>10, <2>1
    <2>3. \A b \in Addresses :
             Within(b, s, p - s) \/ Within(b, p + n, u)
               <=> (s <= b /\ b < p) \/ (p + n <= b /\ b < s + m)
      BY <1>1, <1>6 DEF Within
    <2>4. /\ s <= s /\ s + (p - s) <= s + m /\ s + (p - s) < p + n
          /\ s <= p + n /\ p + n + u <= s + m
      BY <1>1, <1>2, <1>6
    <2>5. Spread(r)
      BY <2>2, <2>4 DEF Spread
    <2>6. \A b : ListCovers(r, b) <=> Within(b, s, p - s) \/ Within(b, p + n, u)
      BY <2>2 DEF ListCovers
    <2> QED BY <1>5, <2>2, <2>3, <2>4, <2>5, <2>6 DEF Listed, r, s, m
  <1> QED BY <1>7, <1>8, <1>9, <1>10

\* [p, p + n) cut out of the k-th item: the list is Heap's free ranges without
\* those bytes.
LEMMA CutListed ==
    ASSUME NEW l, Listed(l), NEW k \in DOMAIN l,
           NEW p \in Nat, NEW n \in Nat \ {0},
           l[k][1] <= p, p + n <= l[k][1] + l[k][2]
    PROVE  /\ Listed(Splice(l, k, Rest(l[k], p, n)))
           /\ AsFunction(Splice(l, k, Rest(l[k], p, n)))
                 = Carve(AsFunction(l), l[k][1], p, n)
  <1> DEFINE F   == AsFunction(l)
             new == Splice(l, k, Rest(l[k], p, n))
             G   == Carve(F, l[k][1], p, n)
  <1>1. /\ l[k][1] \in DOMAIN F /\ F[l[k][1]] = l[k][2]
        /\ RangeMap(F) /\ Detached(F)
        /\ \A b : Covers(F, b) <=> ListCovers(l, b)
    BY ListFunction
  <1> HIDE DEF F
  <1>2. /\ RangeMap(G) /\ Detached(G)
        /\ \A b \in Addresses : Covers(G, b) <=> Covers(F, b) /\ ~Within(b, p, n)
    BY <1>1, CarveRange
  <1>3. l[k] \in Pairs /\ \A i \in DOMAIN l : l[i] \in Pairs
    BY ListIn DEF Listed
  <1>4. /\ Listed(new)
        /\ \A b : ListCovers(new, b)
                    <=> \/ \E i \in DOMAIN l \ {k} : Within(b, l[i][1], l[i][2])
                        \/ ListCovers(Rest(l[k], p, n), b)
    BY <1>3, RestListed, SpliceListed
  <1>5. \A b \in Addresses :
           ListCovers(Rest(l[k], p, n), b)
             <=> Within(b, l[k][1], l[k][2]) /\ ~Within(b, p, n)
    BY <1>3, RestListed
  <1>6. ASSUME NEW b \in Addresses, NEW i \in DOMAIN l \ {k},
               Within(b, l[i][1], l[i][2])
        PROVE  ~Within(b, p, n)
    <2>1. /\ l[i][1] \in Nat /\ l[i][2] \in Nat /\ l[k][1] \in Nat
          /\ l[k][2] \in Nat /\ b \in Nat /\ n \in Nat
      BY <1>3, PairIn, RangeAssumption DEF Addresses, Limit
    <2>2. i \in Nat /\ k \in Nat /\ i # k
      BY ListIn DEF Listed
    <2>3. \/ l[i][1] + l[i][2] < l[k][1]
          \/ l[k][1] + l[k][2] < l[i][1]
      BY <2>2 DEF Listed, Spread
    <2> QED BY <1>6, <2>1, <2>3 DEF Within
  <1> HIDE DEF new, G
  <1>7. \A b \in Addresses : ListCovers(new, b) <=> Covers(G, b)
    <2> TAKE b \in Addresses
    <2>1. ListCovers(l, b) <=> \/ \E i \in DOMAIN l \ {k} : Within(b, l[i][1], l[i][2])
                               \/ Within(b, l[k][1], l[k][2])
      BY DEF ListCovers
    <2> QED BY <1>1, <1>2, <1>4, <1>5, <1>6, <2>1
  <1>8. AsFunction(new) = G
    BY <1>2, <1>4, <1>7, ListOf
  <1> QED BY <1>4, <1>8 DEF new, G, F

-----------------------------------------------------------------------------
(* The merge loop *)

LEMMA LeastOf ==
    ASSUME NEW S \in SUBSET Nat, S # {}
    PROVE  \E n \in S : \A m \in S : n <= m
  <1>1. \E n \in S : \A m \in S : ~(<<m, n>> \in OpToRel(<, Nat))
    BY WFMin, NatLessThanWellFounded
  <1>2. \A m, n \in Nat : <<m, n>> \notin OpToRel(<, Nat) => n <= m
    BY DEF OpToRel
  <1> QED BY <1>1, <1>2

\* Induction up to N, for a set in the place of a predicate.
LEMMA UpTo ==
    ASSUME NEW N \in Nat, NEW S, 0 \in S,
           \A n \in 1 .. N : n - 1 \in S => n \in S
    PROVE  \A n \in 0 .. N : n \in S
  <1> DEFINE B == {n \in 0 .. N : n \notin S}
  <1>1. B \in SUBSET Nat
    OBVIOUS
  <1> SUFFICES ASSUME B # {}
               PROVE  FALSE
    OBVIOUS
  <1>2. PICK n \in B : \A m \in B : n <= m
    BY <1>1, LeastOf
  <1>3. n \in 1 .. N /\ n - 1 \in 0 .. N /\ ~(n <= n - 1)
    BY <1>2
  <1>4. n - 1 \in S
    BY <1>2, <1>3
  <1> QED BY <1>2, <1>3, <1>4

\* The list so far, the turn of the loop being at pair.
Merges(l, pair) ==
    /\ Listed(l)
    /\ l # << >> => l[Len(l)][1] <= pair[1]

\* One turn: the list stays in order, with gaps, and covers the pair too.
LEMMA MergeTurn ==
    ASSUME NEW l, NEW pair \in Pairs, Merges(l, pair)
    PROVE  LET new == MergeNext(l, pair)
           IN  /\ Listed(new) /\ new # << >> /\ new[Len(new)][1] <= pair[1]
               /\ \A b \in Addresses :
                     ListCovers(new, b)
                       <=> ListCovers(l, b) \/ Within(b, pair[1], pair[2])
  <1> DEFINE new == MergeNext(l, pair)
             k   == Len(l)
             s   == pair[1]
             n   == pair[2]
             e   == IF l[k][1] + l[k][2] >= s + n THEN l[k][1] + l[k][2]
                    ELSE s + n
  <1>1. /\ k \in Nat /\ DOMAIN l = 1 .. k /\ l \in Seq(Pairs)
        /\ \A i \in 1 .. k : l[i] \in Pairs
    BY ListIn DEF Merges, Listed
  <1>2. /\ s \in Nat /\ n \in Nat /\ n > 0 /\ s + n <= Limit /\ s \in Addresses
        /\ pair = <<s, n>> /\ Addresses \subseteq Nat /\ Limit \in Nat
    BY PairIn, RangeAssumption DEF Addresses, Limit
  <1>3. \A i \in 1 .. k : /\ l[i][1] \in Nat /\ l[i][2] \in Nat /\ l[i][2] > 0
                          /\ l[i][1] \in Addresses /\ l[i][1] + l[i][2] <= Limit
    BY <1>1, PairIn
  <1>4. \A i, j \in 1 .. k : i < j => l[i][1] + l[i][2] < l[j][1]
    BY <1>1 DEF Merges, Listed, Spread
  <1>5. l # << >> => k \in 1 .. k /\ l[k][1] <= s
    <2>1. l # << >> => k # 0
      BY <1>1, EmptySeq
    <2> QED BY <1>1, <2>1 DEF Merges
  <1> HIDE DEF k, s, n, e
  <1>6. CASE l # << >> /\ l[k][1] + l[k][2] >= s
    <2> DEFINE q == <<l[k][1], e - l[k][1]>>
    <2>1. /\ k \in 1 .. k /\ l[k][1] <= s /\ e \in Nat /\ e <= Limit
          /\ l[k][1] < e /\ l[k][1] + l[k][2] <= e /\ s + n <= e
          /\ e - l[k][1] \in Nat \ {0} /\ l[k][1] + (e - l[k][1]) = e
          /\ l[k][1] \in Addresses
      <3>1. /\ k \in 1 .. k /\ l[k][1] <= s /\ l[k][1] \in Addresses
            /\ l[k][1] \in Nat /\ l[k][2] \in Nat /\ l[k][2] > 0
            /\ l[k][1] + l[k][2] <= Limit
        BY <1>3, <1>5, <1>6
      <3>2. /\ e \in Nat /\ e <= Limit /\ l[k][1] + l[k][2] <= e /\ s + n <= e
        BY <1>2, <3>1 DEF e
      <3>3. l[k][1] < e
        BY <3>1, <3>2
      <3> QED BY <3>1, <3>2, <3>3
    <2>2. q \in Pairs /\ q[1] = l[k][1] /\ q[2] = e - l[k][1]
      BY <2>1, PairOf
    <2>3. new = [l EXCEPT ![k] = q]
      BY <1>6 DEF MergeNext, End, Start, Last,
                  k, s, n, e
    <2> HIDE DEF q, new
    <2>4. /\ new \in Seq(Pairs) /\ Len(new) = k /\ DOMAIN new = 1 .. k
          /\ new[k] = q /\ \A i \in 1 .. k : i # k => new[i] = l[i]
      <3>1. new \in Seq(Pairs) /\ Len(new) = Len(l)
        BY <1>1, <2>1, <2>2, <2>3, ExceptSeq DEF k
      <3> QED BY <1>1, <2>1, <2>3, <3>1 DEF k
    <2>5. Spread(new)
      <3> SUFFICES ASSUME NEW i \in 1 .. k, NEW j \in 1 .. k, i < j
                   PROVE  new[i][1] + new[i][2] < new[j][1]
        BY <2>4 DEF Spread
      <3>1. i # k /\ new[i] = l[i] /\ new[j][1] = l[j][1]
        BY <1>1, <2>2, <2>4
      <3> QED BY <1>4, <3>1
    <2>6. new # << >>
      BY <2>1, <2>4, EmptySeq
    <2>7. \A b \in Addresses :
             Within(b, q[1], q[2]) <=> Within(b, l[k][1], l[k][2]) \/ Within(b, s, n)
      <3>1. /\ l[k][1] \in Nat /\ l[k][2] \in Nat /\ l[k][1] <= s
            /\ s <= l[k][1] + l[k][2]
        BY <1>2, <1>3, <1>6, <2>1
      <3>2. e = l[k][1] + l[k][2] \/ e = s + n
        BY DEF e
      <3>3. \A b \in Addresses : Within(b, q[1], q[2]) <=> l[k][1] <= b /\ b < e
        BY <1>2, <2>1, <2>2, <3>1 DEF Within
      <3>4. \A b \in Nat : l[k][1] <= b /\ b < e
                             <=> \/ l[k][1] <= b /\ b < l[k][1] + l[k][2]
                                 \/ s <= b /\ b < s + n
        BY <1>2, <2>1, <3>1, <3>2
      <3> QED BY <1>2, <3>3, <3>4 DEF Within
    <2>8. \A b \in Addresses :
             ListCovers(new, b) <=> ListCovers(l, b) \/ Within(b, s, n)
      BY <1>1, <2>1, <2>4, <2>7 DEF ListCovers
    <2>9. new[Len(new)][1] <= s
      BY <2>1, <2>2, <2>4
    <2> QED BY <2>4, <2>5, <2>6, <2>8, <2>9 DEF Listed, new, s, n
  <1>7. CASE ~(l # << >> /\ l[k][1] + l[k][2] >= s)
    <2>1. new = Append(l, pair)
      BY <1>7 DEF MergeNext, End, Start, Last, k, s
    <2> HIDE DEF new
    <2>2. /\ new \in Seq(Pairs) /\ Len(new) = k + 1 /\ DOMAIN new = 1 .. k + 1
          /\ new[k + 1] = pair /\ \A i \in 1 .. k : new[i] = l[i]
      <3>1. /\ new \in Seq(Pairs) /\ Len(new) = Len(l) + 1
            /\ new[Len(l) + 1] = pair
            /\ \A i \in 1 .. Len(l) : new[i] = l[i]
        BY <1>1, <2>1, AppendProperties
      <3>2. DOMAIN new = 1 .. Len(new)
        BY <3>1, LenProperties
      <3> QED BY <3>1, <3>2 DEF k
    <2>3. \A i \in 1 .. k : l[i][1] + l[i][2] < s
      <3> TAKE i \in 1 .. k
      <3>1. l # << >> /\ l[k][1] + l[k][2] < s /\ k \in 1 .. k
        <4>1. l # << >>
          BY <1>1, EmptySeq DEF k
        <4>2. k \in 1 .. k /\ ~(l[k][1] + l[k][2] >= s)
          BY <1>5, <1>7, <4>1
        <4> QED BY <1>2, <1>3, <4>1, <4>2
      <3>2. CASE i = k
        BY <3>1, <3>2
      <3>3. CASE i < k
        <4>1. /\ l[i][1] \in Nat /\ l[i][2] \in Nat
              /\ l[k][1] \in Nat /\ l[k][2] \in Nat
          BY <1>3, <3>1
        <4>2. l[i][1] + l[i][2] < l[k][1]
          BY <1>4, <3>1, <3>3
        <4>3. l[k][1] + l[k][2] < s /\ s \in Nat
          BY <1>2, <3>1
        <4> QED BY <4>1, <4>2, <4>3
      <3> QED BY <1>1, <3>2, <3>3
    <2>4. Spread(new)
      <3> SUFFICES ASSUME NEW i \in 1 .. k + 1, NEW j \in 1 .. k + 1, i < j
                   PROVE  new[i][1] + new[i][2] < new[j][1]
        BY <2>2 DEF Spread
      <3>1. i \in 1 .. k /\ new[i] = l[i]
        BY <1>1, <2>2
      <3>2. CASE j = k + 1
        BY <2>2, <2>3, <3>1, <3>2 DEF s
      <3>3. CASE j \in 1 .. k
        BY <1>4, <2>2, <3>1, <3>3
      <3> QED BY <1>1, <3>2, <3>3
    <2>5. new # << >>
      BY <1>1, <2>2, EmptySeq
    <2>6. \A b \in Addresses :
             ListCovers(new, b) <=> ListCovers(l, b) \/ Within(b, s, n)
      <3>1. 1 .. k + 1 = (1 .. k) \union {k + 1}
        BY <1>1
      <3> QED BY <1>1, <2>2, <3>1 DEF ListCovers, s, n
    <2>7. new[Len(new)][1] <= s
      BY <1>2, <2>2 DEF s
    <2> QED BY <2>2, <2>4, <2>5, <2>6, <2>7 DEF Listed, new, s, n
  <1> QED BY <1>6, <1>7

\* The loop over a list in order, whether or not its ranges overlap: what is
\* left is in order, with gaps, and covers the same bytes.
LEMMA MergedListed ==
    ASSUME NEW l \in Seq(Pairs),
           \A i, j \in DOMAIN l : i < j => l[i][1] <= l[j][1]
    PROVE  /\ Listed(Merged(l))
           /\ \A b \in Addresses : ListCovers(Merged(l), b) <=> ListCovers(l, b)
  <1> DEFINE N == Len(l)
             Turns(g, k) == g = [n \in 0 .. k |->
                                   IF n = 0 THEN << >>
                                   ELSE MergeNext(g[n - 1], l[n])]
             merged == CHOOSE g : Turns(g, N)
  <1>1. N \in Nat /\ DOMAIN l = 1 .. N /\ \A i \in 1 .. N : l[i] \in Pairs
    BY ListIn
  <1> HIDE DEF N
  <1>2. \E g : Turns(g, N)
    <2> DEFINE S == {k \in 0 .. N : \E g : Turns(g, k)}
    <2>1. 0 \in S
      <3> DEFINE g == [n \in 0 .. 0 |-> << >>]
      <3>1. Turns(g, 0)
        OBVIOUS
      <3> HIDE DEF g
      <3> QED BY <1>1, <3>1
    <2>2. ASSUME NEW k \in 1 .. N, k - 1 \in S
          PROVE  k \in S
      <3>1. PICK f : Turns(f, k - 1)
        BY <2>2
      <3> DEFINE last == MergeNext(f[k - 1], l[k])
                 g == [n \in 0 .. k |-> IF n = k THEN last ELSE f[n]]
      <3>2. k \in Nat /\ k # 0 /\ \A n \in 0 .. k : n = k \/ n \in 0 .. k - 1
        BY <1>1
      <3>3. \A n \in 0 .. k - 1 :
               f[n] = IF n = 0 THEN << >> ELSE MergeNext(f[n - 1], l[n])
        BY <3>1
      <3>4. g[k] = last /\ \A n \in 0 .. k - 1 : g[n] = f[n]
        BY <3>2
      <3> HIDE DEF last
      <3>5. \A n \in 0 .. k :
               g[n] = IF n = 0 THEN << >> ELSE MergeNext(g[n - 1], l[n])
        <4> TAKE n \in 0 .. k
        <4>1. n # 0 => n - 1 \in 0 .. k - 1
          BY <3>2
        <4>2. CASE n = k
          BY <3>2, <3>4, <4>1, <4>2 DEF last
        <4>3. CASE n \in 0 .. k - 1
          BY <3>3, <3>4, <4>1, <4>3
        <4> QED BY <3>2, <4>2, <4>3
      <3>6. Turns(g, k)
        BY <3>5
      <3> HIDE DEF g
      <3> QED BY <3>2, <3>6
    <2> HIDE DEF S
    <2>3. \A k \in 0 .. N : k \in S
      BY <1>1, <2>1, <2>2, UpTo
    <2>4. N \in S
      BY <1>1, <2>3
    <2> QED BY <2>4 DEF S
  <1>3. Turns(merged, N)
    BY <1>2, Zenon
  <1>4. Merged(l) = merged[N]
    BY DEF Merged, N
  <1> HIDE DEF merged
  <1>5. /\ merged[0] = << >>
        /\ \A n \in 1 .. N : merged[n] = MergeNext(merged[n - 1], l[n])
    BY <1>1, <1>3
  <1> DEFINE Done(k) == \A b \in Addresses :
                           ListCovers(merged[k], b)
                             <=> \E i \in 1 .. k : Within(b, l[i][1], l[i][2])
             S == {k \in 0 .. N :
                     /\ Listed(merged[k]) /\ Done(k)
                     /\ k # 0 => /\ merged[k] # << >>
                                 /\ merged[k][Len(merged[k])][1] <= l[k][1]}
  <1>6. 0 \in S
    <2>1. Listed(<< >>) /\ \A b : ~ListCovers(<< >>, b)
      BY EmptySeq DEF Listed, Spread, ListCovers
    <2> QED BY <1>1, <1>5, <2>1
  <1>7. ASSUME NEW k \in 1 .. N, k - 1 \in S
        PROVE  k \in S
    <2>1. /\ l[k] \in Pairs /\ l[k][1] \in Nat
          /\ Listed(merged[k - 1]) /\ Done(k - 1)
      BY <1>1, <1>7, PairIn
    <2>2. merged[k - 1] # << >> =>
             merged[k - 1][Len(merged[k - 1])][1] <= l[k][1]
      <3>1. CASE k - 1 = 0
        BY <1>5, <3>1
      <3>2. CASE k - 1 # 0
        <4>1. k - 1 \in 1 .. N /\ k - 1 < k
          BY <1>1, <3>2
        <4>2. l[k - 1][1] <= l[k][1] /\ l[k - 1][1] \in Nat
          BY <1>1, <4>1, PairIn
        <4>3. merged[k - 1] # << >>
                /\ merged[k - 1][Len(merged[k - 1])][1] <= l[k - 1][1]
          BY <1>7, <3>2
        <4>4. merged[k - 1][Len(merged[k - 1])][1] \in Nat
          <5>1. Len(merged[k - 1]) \in DOMAIN merged[k - 1]
            BY <2>1, <4>3, EmptySeq, LenProperties DEF Listed
          <5> QED BY <2>1, <5>1, ListIn, PairIn DEF Listed
        <4> QED BY <2>1, <4>2, <4>3, <4>4
      <3> QED BY <3>1, <3>2
    <2> DEFINE new == merged[k]
    <2>3. /\ Listed(new) /\ new # << >> /\ new[Len(new)][1] <= l[k][1]
          /\ \A b \in Addresses :
                ListCovers(new, b)
                  <=> ListCovers(merged[k - 1], b) \/ Within(b, l[k][1], l[k][2])
      BY <1>5, <2>1, <2>2, MergeTurn DEF Merges
    <2>4. 1 .. k = (1 .. k - 1) \union {k}
      BY <1>1
    <2>5. Done(k)
      BY <2>1, <2>3, <2>4
    <2>6. k \in 0 .. N
      BY <1>1
    <2> QED BY <2>3, <2>5, <2>6
  <1> HIDE DEF S
  <1>8. N \in S
    <2>1. \A k \in 0 .. N : k \in S
      BY <1>1, <1>6, <1>7, UpTo
    <2> QED BY <1>1, <2>1
  <1>9. Listed(merged[N]) /\ Done(N)
    BY <1>8 DEF S
  <1> QED BY <1>1, <1>4, <1>9 DEF ListCovers

-----------------------------------------------------------------------------
(* Sorting the list after an append *)

LEMMA IntervalPlus ==
    ASSUME NEW k \in Nat, NEW e, e \notin 1 .. k
    PROVE  Cardinality(1 .. k) = k /\ Cardinality((1 .. k) \union {e}) = k + 1
  <1>1. IsFiniteSet(1 .. k) /\ Cardinality(1 .. k) = k
    BY FS_Interval
  <1> QED BY <1>1, FS_AddElement

\* The pair goes to its place, the items after it make room.
LEMMA SortedAppend ==
    ASSUME NEW l, Listed(l), NEW pair \in Pairs
    PROVE  LET r == Sorted(Append(l, pair))
           IN  /\ r \in Seq(Pairs)
               /\ \A i, j \in DOMAIN r : i < j => r[i][1] <= r[j][1]
               /\ \A b : ListCovers(r, b)
                           <=> ListCovers(l, b) \/ Within(b, pair[1], pair[2])
  <1> DEFINE n == Len(l)
             a == Append(l, pair)
             r == Sorted(a)
             Before(p, q) == PairOrder(p, q)
  <1>1. /\ n \in Nat /\ DOMAIN l = 1 .. n /\ l \in Seq(Pairs)
        /\ \A i \in 1 .. n : l[i] \in Pairs
    BY ListIn DEF Listed
  <1>2. /\ DOMAIN a = 1 .. n + 1 /\ a[n + 1] = pair
        /\ \A i \in 1 .. n : a[i] = l[i]
    <2>1. a \in Seq(Pairs) /\ Len(a) = n + 1
      BY <1>1, AppendProperties
    <2> QED BY <1>1, <2>1, AppendProperties, LenProperties
  <1>3. \A p, q \in Pairs :
           /\ Before(p, q) <=> p[1] < q[1] \/ (p[1] = q[1] /\ p[2] <= q[2])
           /\ Before(p, q) \/ Before(q, p)
           /\ Before(p, p)
           /\ Before(p, q) => p[1] <= q[1]
    BY PairIn DEF PairOrder, Start, Available
  <1>4. \A i \in 1 .. n : /\ i \in Nat /\ l[i][1] \in Nat /\ l[i][2] \in Nat
                          /\ l[i][2] > 0
    BY <1>1, PairIn
  <1>5. /\ pair[1] \in Nat /\ pair[2] \in Nat
    BY PairIn
  <1> HIDE DEF n, a, r, Before
  <1>6. \A i, j \in 1 .. n : i < j => l[i][1] < l[j][1]
    <2>1. \A i, j \in 1 .. n : i < j => l[i][1] + l[i][2] < l[j][1]
      BY <1>1 DEF Listed, Spread
    <2> QED BY <1>4, <2>1
  <1>7. \A i, j \in 1 .. n : Before(l[i], l[j]) <=> i <= j
    BY <1>1, <1>3, <1>4, <1>6
  <1>8. \E m \in 0 .. n : \A i \in 1 .. n : Before(l[i], pair) <=> i <= m
    <2> DEFINE B == {i \in 1 .. n : ~Before(l[i], pair)}
    <2>1. CASE B = {}
      BY <1>1, <2>1
    <2>2. CASE B # {}
      <3>5. B \in SUBSET Nat
        BY <1>4
      <3>1. PICK k \in B : \A i \in B : k <= i
        BY <2>2, <3>5, LeastOf
      <3>2. k \in 1 .. n /\ ~Before(l[k], pair) /\ k - 1 \in 0 .. n
        BY <1>1, <3>1
      <3>3. ASSUME NEW i \in 1 .. n, k < i
            PROVE  ~Before(l[i], pair)
        BY <1>1, <1>3, <1>4, <1>5, <1>6, <3>2, <3>3
      <3>4. \A i \in 1 .. n : Before(l[i], pair) <=> i <= k - 1
        BY <1>1, <3>1, <3>2, <3>3
      <3> QED BY <3>2, <3>4
    <2> QED BY <2>1, <2>2
  <1>9. PICK m \in 0 .. n : \A i \in 1 .. n : Before(l[i], pair) <=> i <= m
    BY <1>8
  <1> DEFINE Earlier(k) == NoLater(a, k)
             Place(i) == IF i <= m THEN i ELSE IF i = m + 1 THEN n + 1 ELSE i - 1
  <1>10. /\ \A k : Rank(a, k) = Cardinality(Earlier(k))
         /\ \A k, j : j \in Earlier(k)
                         <=> /\ j \in DOMAIN a
                             /\ Before(a[j], a[k])
                             /\ Before(a[k], a[j]) => j <= k
    <2>1. \A k : Rank(a, k) = Cardinality(Earlier(k))
      BY DEF Rank
    <2>2. \A k, j : j \in Earlier(k)
                       <=> /\ j \in DOMAIN a
                           /\ Before(a[j], a[k])
                           /\ Before(a[k], a[j]) => j <= k
      BY DEF NoLater, Before
    <2> QED BY <2>1, <2>2
  <1> HIDE DEF Earlier
  <1>11. /\ m \in Nat /\ m <= n /\ 1 .. n + 1 = (1 .. n) \union {n + 1}
         /\ n + 1 \notin 1 .. n
    BY <1>1
  <1>12. ASSUME NEW k \in 1 .. m
         PROVE  Rank(a, k) = k
    <2>1. k \in 1 .. n /\ k \in Nat /\ k <= n
      BY <1>11
    <2>2. n + 1 \notin Earlier(k)
      BY <1>2, <1>9, <1>10, <1>11, <2>1
    <2>3. \A j \in 1 .. n : j \in Earlier(k) <=> j <= k
      BY <1>1, <1>2, <1>7, <1>10, <1>11, <2>1
    <2>4. Earlier(k) \subseteq 1 .. n + 1
      BY <1>2, <1>10
    <2>7. \A j : j \in Earlier(k) <=> j \in 1 .. k
      BY <1>11, <2>1, <2>2, <2>3, <2>4
    <2>5. Earlier(k) = 1 .. k
      BY <2>7
    <2>6. k + 1 \notin 1 .. k
      BY <2>1
    <2> QED BY <1>10, <2>1, <2>5, <2>6, IntervalPlus
  <1>13. ASSUME NEW k \in m + 1 .. n
         PROVE  Rank(a, k) = k + 1
    <2>1. k \in 1 .. n /\ k \in Nat /\ k <= n /\ ~(k <= m)
      BY <1>11
    <2>2. n + 1 \in Earlier(k)
      BY <1>1, <1>2, <1>3, <1>9, <1>10, <1>11, <2>1
    <2>3. \A j \in 1 .. n : j \in Earlier(k) <=> j <= k
      BY <1>1, <1>2, <1>7, <1>10, <1>11, <2>1
    <2>4. Earlier(k) \subseteq 1 .. n + 1
      BY <1>2, <1>10
    <2>7. \A j : j \in Earlier(k) <=> j \in (1 .. k) \union {n + 1}
      BY <1>11, <2>1, <2>2, <2>3, <2>4
    <2>5. Earlier(k) = (1 .. k) \union {n + 1}
      BY <2>7
    <2>6. n + 1 \notin 1 .. k
      BY <2>1, <1>11
    <2> QED BY <1>10, <2>1, <2>5, <2>6, IntervalPlus
  <1>14. Rank(a, n + 1) = m + 1
    <2>1. \A j \in 1 .. n : j \in Earlier(n + 1) <=> j <= m
      BY <1>1, <1>2, <1>9, <1>10, <1>11
    <2>2. n + 1 \in Earlier(n + 1)
      BY <1>1, <1>2, <1>3, <1>10, <1>11
    <2>3. Earlier(n + 1) \subseteq 1 .. n + 1
      BY <1>2, <1>10
    <2>6. \A j : j \in Earlier(n + 1) <=> j \in (1 .. m) \union {n + 1}
      BY <1>11, <2>1, <2>2, <2>3
    <2>4. Earlier(n + 1) = (1 .. m) \union {n + 1}
      BY <2>6
    <2>5. n + 1 \notin 1 .. m
      BY <1>1, <1>11
    <2> QED BY <1>10, <1>11, <2>4, <2>5, IntervalPlus
  <1>15. ASSUME NEW i \in 1 .. n + 1
         PROVE  /\ Place(i) \in 1 .. n + 1
                /\ \A k \in 1 .. n + 1 : Rank(a, k) = i <=> k = Place(i)
    <2>1. \A k \in 1 .. n + 1 : \/ k \in 1 .. m /\ Rank(a, k) = k
                                \/ k \in m + 1 .. n /\ Rank(a, k) = k + 1
                                \/ k = n + 1 /\ Rank(a, k) = m + 1
      BY <1>1, <1>11, <1>12, <1>13, <1>14
    <2> QED BY <1>1, <1>11, <2>1
  <1>16. /\ DOMAIN r = 1 .. n + 1
         /\ \A i \in 1 .. n + 1 : r[i] = a[Place(i)]
    <2>1. \A i \in 1 .. n + 1 :
             (CHOOSE k \in DOMAIN a : Rank(a, k) = i) = Place(i)
      <3> TAKE i \in 1 .. n + 1
      <3> DEFINE c == CHOOSE k \in DOMAIN a : Rank(a, k) = i
      <3>1. \E k \in DOMAIN a : Rank(a, k) = i
        BY <1>2, <1>15
      <3>2. c \in DOMAIN a /\ Rank(a, c) = i
        BY <3>1, Zenon
      <3> HIDE DEF c
      <3>3. c = Place(i)
        BY <1>2, <1>15, <3>2
      <3> QED BY <3>3 DEF c
    <2>2. r = [i \in DOMAIN a |-> a[CHOOSE k \in DOMAIN a : Rank(a, k) = i]]
      BY DEF Sorted, r
    <2> HIDE DEF Place
    <2> QED BY <1>2, <2>1, <2>2
  <1>17. /\ \A i \in 1 .. m : i \in 1 .. n + 1 /\ i \in 1 .. n /\ r[i] = l[i]
         /\ r[m + 1] = pair /\ m + 1 \in 1 .. n + 1
         /\ \A i \in m + 1 .. n : i \in 1 .. n /\ i + 1 \in 1 .. n + 1 /\ r[i + 1] = l[i]
    <2>1. ASSUME NEW i \in 1 .. m
          PROVE  i \in 1 .. n + 1 /\ i \in 1 .. n /\ r[i] = l[i]
      <3>1. i \in 1 .. n + 1 /\ i \in 1 .. n /\ Place(i) = i
        BY <1>1, <1>11
      <3> QED BY <1>2, <1>16, <3>1
    <2>2. r[m + 1] = pair /\ m + 1 \in 1 .. n + 1
      <3>1. m + 1 \in 1 .. n + 1 /\ Place(m + 1) = n + 1
        BY <1>1, <1>11
      <3> QED BY <1>2, <1>16, <3>1
    <2>3. ASSUME NEW i \in m + 1 .. n
          PROVE  i \in 1 .. n /\ i + 1 \in 1 .. n + 1 /\ r[i + 1] = l[i]
      <3>1. i \in 1 .. n /\ i + 1 \in 1 .. n + 1 /\ Place(i + 1) = i
        BY <1>1, <1>11
      <3> QED BY <1>2, <1>16, <3>1
    <2> QED BY <2>1, <2>2, <2>3
  <1> HIDE DEF Place
  <1>18. \A i \in 1 .. n + 1 : \/ i \in 1 .. m /\ r[i] = l[i]
                               \/ i = m + 1 /\ r[i] = pair
                               \/ i - 1 \in m + 1 .. n /\ r[i] = l[i - 1]
    <2> TAKE i \in 1 .. n + 1
    <2>1. i \in 1 .. m \/ i = m + 1 \/ (i - 1 \in m + 1 .. n /\ (i - 1) + 1 = i)
      BY <1>1, <1>11
    <2> QED BY <1>17, <2>1
  <1>19. r \in Seq(Pairs)
    <2>1. \A i \in 1 .. n + 1 : r[i] \in Pairs
      BY <1>1, <1>17, <1>18
    <2>2. r = [i \in 1 .. n + 1 |-> r[i]]
      BY <1>2 DEF r, Sorted
    <2> QED BY <1>1, <2>1, <2>2, IsASeq
  <1>20. \A i, j \in DOMAIN r : i < j => r[i][1] <= r[j][1]
    <2> SUFFICES ASSUME NEW i \in 1 .. n + 1, NEW j \in 1 .. n + 1, i < j
                 PROVE  r[i][1] <= r[j][1]
      BY <1>16
    <2>1. CASE i \in 1 .. m /\ r[i] = l[i]
      <3>1. i \in 1 .. n
        BY <1>11, <2>1
      <3>2. CASE j \in 1 .. m /\ r[j] = l[j]
        BY <1>4, <1>6, <1>11, <2>1, <3>2
      <3>3. CASE j = m + 1 /\ r[j] = pair
        BY <1>1, <1>3, <1>9, <1>11, <2>1, <3>1, <3>3
      <3>4. CASE j - 1 \in m + 1 .. n /\ r[j] = l[j - 1]
        <4>1. j - 1 \in 1 .. n /\ i < j - 1
          BY <1>11, <2>1, <3>4
        <4> QED BY <1>4, <1>6, <2>1, <3>1, <3>4, <4>1
      <3> QED BY <1>18, <3>2, <3>3, <3>4
    <2>2. CASE i = m + 1 /\ r[i] = pair
      <3>1. j - 1 \in m + 1 .. n /\ r[j] = l[j - 1]
        BY <1>11, <1>18, <2>2
      <3>2. j - 1 \in 1 .. n /\ ~(j - 1 <= m)
        BY <1>11, <3>1
      <3> QED BY <1>1, <1>3, <1>9, <2>2, <3>1, <3>2
    <2>3. CASE i - 1 \in m + 1 .. n /\ r[i] = l[i - 1]
      <3>1. j - 1 \in m + 1 .. n /\ r[j] = l[j - 1]
        BY <1>11, <1>18, <2>3
      <3>2. i - 1 \in 1 .. n /\ j - 1 \in 1 .. n /\ i - 1 < j - 1
        BY <1>11, <2>3, <3>1
      <3> QED BY <1>4, <1>6, <2>3, <3>1, <3>2
    <2> QED BY <1>18, <2>1, <2>2, <2>3
  <1>21. ASSUME NEW b
         PROVE  ListCovers(r, b)
                  <=> ListCovers(l, b) \/ Within(b, pair[1], pair[2])
    <2>1. ASSUME NEW i \in 1 .. n + 1, Within(b, r[i][1], r[i][2])
          PROVE  ListCovers(l, b) \/ Within(b, pair[1], pair[2])
      BY <1>1, <1>17, <1>18, <2>1 DEF ListCovers
    <2>2. ASSUME NEW i \in 1 .. n, Within(b, l[i][1], l[i][2])
          PROVE  ListCovers(r, b)
      <3>1. i \in 1 .. m \/ i \in m + 1 .. n
        BY <1>11
      <3> QED BY <1>16, <1>17, <2>2, <3>1 DEF ListCovers
    <2>3. Within(b, pair[1], pair[2]) => ListCovers(r, b)
      BY <1>16, <1>17 DEF ListCovers
    <2> QED BY <1>1, <1>16, <2>1, <2>2, <2>3 DEF ListCovers
  <1> QED BY <1>19, <1>20, <1>21 DEF r, a
\* Giving back bytes no range of the list covers.
LEMMA InsertListed ==
    ASSUME NEW l, Listed(l),
           NEW s \in Addresses, NEW n \in Nat \ {0}, s + n <= Limit,
           \A b \in Addresses :
              Within(b, s, n) => ~Covers(AsFunction(l), b)
    PROVE  /\ Listed(InsertPair(l, s, n))
           /\ AsFunction(InsertPair(l, s, n))
                 = InsertFree(AsFunction(l), s, n)
  <1> DEFINE f == AsFunction(l)
             r == Sorted(Append(l, <<s, n>>))
  <1>1. InsertPair(l, s, n) = Merged(r)
    BY DEF InsertPair
  <1>2. /\ RangeMap(f) /\ Detached(f)
        /\ \A b : Covers(f, b) <=> ListCovers(l, b)
    BY ListFunction
  <1>3. <<s, n>> \in Pairs /\ <<s, n>>[1] = s /\ <<s, n>>[2] = n
    BY PairOf
  <1>4. /\ r \in Seq(Pairs)
        /\ \A i, j \in DOMAIN r : i < j => r[i][1] <= r[j][1]
        /\ \A b : ListCovers(r, b) <=> ListCovers(l, b) \/ Within(b, s, n)
    BY <1>3, SortedAppend
  <1> HIDE DEF f, r
  <1>5. /\ Listed(Merged(r))
        /\ \A b \in Addresses : ListCovers(Merged(r), b) <=> ListCovers(r, b)
    BY <1>4, MergedListed
  <1>6. /\ RangeMap(InsertFree(f, s, n)) /\ Detached(InsertFree(f, s, n))
        /\ \A b \in Addresses : Covers(InsertFree(f, s, n), b)
                                  <=> Covers(f, b) \/ Within(b, s, n)
    BY <1>2, InsertRange DEF f
  <1>7. AsFunction(Merged(r)) = InsertFree(f, s, n)
    BY <1>2, <1>4, <1>5, <1>6, ListOf
  <1> QED BY <1>1, <1>5, <1>7 DEF f

-----------------------------------------------------------------------------
(* The calls *)

\* The operators of Ranges and of Heap mean the same seen through the list.
LEMMA SameInRanged ==
    /\ \A size : Ranged!Amount(size) = Amount(size)
    /\ \A v, a : Ranged!Aligned(v, a) = Aligned(v, a)
    /\ \A f, k, v : Ranged!Put(f, k, v) = Put(f, k, v)
    /\ \A f, ks : Ranged!Drop(f, ks) = Drop(f, ks)
    /\ \A address : Ranged!Answer(address) = Answer(address)
    /\ \A kind : Ranged!Error(kind) = Error(kind)
    /\ Ranged!NoRanges = NoRanges /\ Ranged!Addresses = Addresses
    /\ \A f, s, p, n : Ranged!Carve(f, s, p, n) = Carve(f, s, p, n)
    /\ \A f, s, n : Ranged!InsertFree(f, s, n) = InsertFree(f, s, n)
  <1>1. \A f, k, v : Ranged!Put(f, k, v) = Put(f, k, v)
    BY DEF Ranged!Put, Put
  <1>2. \A f, ks : Ranged!Drop(f, ks) = Drop(f, ks)
    BY DEF Ranged!Drop, Drop
  <1>3. \A f, s, p, n : Ranged!Carve(f, s, p, n) = Carve(f, s, p, n)
    BY DEF Ranged!Carve, Carve
  <1>4. \A f, s, n : Ranged!InsertFree(f, s, n) = InsertFree(f, s, n)
    BY DEF Ranged!InsertFree, InsertFree
  <1>5. /\ \A size : Ranged!Amount(size) = Amount(size)
        /\ \A v, a : Ranged!Aligned(v, a) = Aligned(v, a)
    BY DEF Ranged!Amount, Amount, Ranged!Aligned, Aligned
  <1>6. /\ \A address : Ranged!Answer(address) = Answer(address)
        /\ \A kind : Ranged!Error(kind) = Error(kind)
    BY DEF Ranged!Answer, Answer, Ranged!Error, Error
  <1>7. Ranged!NoRanges = NoRanges /\ Ranged!Addresses = Addresses
    BY DEF Ranged!NoRanges, NoRanges, Ranged!Addresses, Addresses,
           Ranged!Limit, Limit
  <1> QED BY <1>1, <1>2, <1>3, <1>4, <1>5, <1>6, <1>7

\* Heap's free ranges.
F == AsFunction(freeList)

\* The inductive invariant: the list is in order, with gaps, and its ranges
\* and the live blocks tile the heap.
ListInv == Listed(freeList) /\ Tiled(F, allocations)

\* A pair of the list fits exactly when Heap's range at its start does.
LEMMA SameFits ==
    ASSUME Listed(freeList), NEW amount, NEW align
    PROVE  \A i \in DOMAIN freeList :
              /\ freeList[i][1] \in DOMAIN F
              /\ F[freeList[i][1]] = freeList[i][2]
              /\ Ranged!Fits(freeList[i][1], amount, align)
                   <=> PairFits(freeList[i], amount, align)
  <1>1. \A i \in DOMAIN freeList :
           freeList[i][1] \in DOMAIN F /\ F[freeList[i][1]] = freeList[i][2]
    BY ListFunction DEF F
  <1> QED BY <1>1, SameInRanged
          DEF Ranged!Fits, PairFits, Start, Available, F

\* The scan stops at the same range, whose aligned address has room.
LEMMA SameFirst ==
    ASSUME Listed(freeList), NEW index \in DOMAIN freeList,
           NEW amount \in Nat \ {0}, NEW align \in Aligns,
           FirstPair(index, amount, align)
    PROVE  LET start == freeList[index][1]
               p     == Aligned(start, align)
           IN  /\ start \in DOMAIN F
               /\ p \in Nat /\ start <= p /\ p + amount <= start + F[start]
               /\ Ranged!FirstFitting(start, amount, align)
  <1> DEFINE start == freeList[index][1]
             p     == Aligned(start, align)
  <1>1. /\ PairFits(freeList[index], amount, align)
        /\ \A j \in DOMAIN freeList :
              PairFits(freeList[j], amount, align) => index <= j
    BY DEF FirstPair, Fitting
  <1>2. /\ \A i \in DOMAIN freeList : /\ i \in Nat
                                      /\ freeList[i][1] \in Nat
                                      /\ freeList[i][2] \in Nat
    BY ListIn, PairIn DEF Listed
  <1>3. DOMAIN F = {freeList[i][1] : i \in DOMAIN freeList}
    BY ListFunction DEF F
  <1>4. Ranged!FirstFitting(start, amount, align)
    <2>1. Ranged!Fits(start, amount, align)
      BY <1>1, SameFits
    <2>2. ASSUME NEW j \in DOMAIN freeList, freeList[j][1] < start,
                 Ranged!Fits(freeList[j][1], amount, align)
          PROVE  FALSE
      <3>1. index <= j
        BY <1>1, <2>2, SameFits
      <3>2. j = index \/ index < j
        BY <1>2, <3>1
      <3>3. index < j => start + freeList[index][2] < freeList[j][1]
        BY DEF Listed, Spread
      <3> QED BY <1>2, <2>2, <3>2, <3>3
    <2> QED BY <1>3, <2>1, <2>2 DEF Ranged!FirstFitting, F
  <1>5. start \in DOMAIN F /\ F[start] = freeList[index][2]
    BY SameFits
  <1>6. start \in Nat /\ align \in Nat \ {0}
    BY <1>2, RangeAssumption
  <1>7. p \in Nat /\ start <= p
    BY <1>6, AlignedBounds
  <1>8. p - start + amount <= freeList[index][2]
    BY <1>1 DEF PairFits, Start, Available
  <1> HIDE DEF p
  <1>9. p + amount <= start + F[start]
    BY <1>2, <1>5, <1>7, <1>8
  <1> QED BY <1>4, <1>5, <1>7, <1>9 DEF p

LEMMA SameNoneFits ==
    ASSUME Listed(freeList), NEW amount, NEW align,
           Fitting(amount, align) = {}
    PROVE  \A start \in DOMAIN F : ~Ranged!Fits(start, amount, align)
  <1>1. DOMAIN F = {freeList[i][1] : i \in DOMAIN freeList}
    BY ListFunction DEF F
  <1> QED BY <1>1, SameFits DEF Fitting

\* The bytes of the block alloc returns cut out of the list.
LEMMA TakenListed ==
    ASSUME Listed(freeList), NEW index \in DOMAIN freeList,
           NEW amount \in Nat \ {0}, NEW align \in Aligns,
           FirstPair(index, amount, align)
    PROVE  LET start == freeList[index][1]
               p     == Aligned(start, align)
           IN  /\ Listed(Taken(index, amount, align))
               /\ AsFunction(Taken(index, amount, align))
                     = Carve(F, start, p, amount)
  <1> DEFINE start == freeList[index][1]
             p     == Aligned(start, align)
  <1>1. /\ p \in Nat /\ start <= p /\ p + amount <= start + F[start]
        /\ F[start] = freeList[index][2]
    BY SameFirst, SameFits
  <1>2. Taken(index, amount, align)
          = Splice(freeList, index, Rest(freeList[index], p, amount))
    BY DEF Taken, Rest, Start, Available
  <1> HIDE DEF p
  <1> QED BY <1>1, <1>2, CutListed DEF F, p
LEMMA ListInvPrimed ==
    /\ F' = AsFunction(freeList')
    /\ ListInv' <=> Listed(freeList') /\ Tiled(F', allocations')
  <1>1. F' = AsFunction(freeList')
    BY DEF F, AsFunction, Start, Available
  <1>2. ListInv' <=> Listed(freeList') /\ Tiled(F', allocations')
    BY DEF ListInv, Listed, Spread, Tiled, RangeMap, Apart, Detached, Covers
  <1> QED BY <1>1, <1>2

\* A live block given back to the list.
LEMMA GiveListed ==
    ASSUME NEW l, Listed(l), NEW a, Tiled(AsFunction(l), a),
           NEW p \in DOMAIN a
    PROVE  /\ Listed(InsertPair(l, p, a[p]))
           /\ AsFunction(InsertPair(l, p, a[p]))
                 = InsertFree(AsFunction(l), p, a[p])
           /\ Tiled(AsFunction(InsertPair(l, p, a[p])), Drop(a, {p}))
  <1>1. p \in Addresses /\ a[p] \in Nat \ {0} /\ p + a[p] <= Limit
    BY DEF Tiled, RangeMap
  <1>2. \A b \in Addresses :
           Within(b, p, a[p]) => ~Covers(AsFunction(l), b)
    BY DEF Tiled, Covers
  <1>3. /\ Listed(InsertPair(l, p, a[p]))
        /\ AsFunction(InsertPair(l, p, a[p]))
              = InsertFree(AsFunction(l), p, a[p])
    BY <1>1, <1>2, InsertListed
  <1> QED BY <1>3, GiveTiled

\* alloc.
LEMMA AllocLists ==
    ASSUME ListInv, NEW size \in Sizes, NEW align \in Aligns,
           ListAlloc(size, align)
    PROVE  ListInv' /\ Ranged!Alloc(size, align)
  <1> DEFINE amount == Amount(size)
  <1>1. amount \in Nat \ {0} /\ Listed(freeList) /\ Tiled(F, allocations)
    BY AmountPositive DEF ListInv
  <1> HIDE DEF amount
  <1>2. ASSUME NEW index \in DOMAIN freeList, NEW p,
               p = Aligned(freeList[index][1], align),
               FirstPair(index, amount, align),
               freeList' = Taken(index, amount, align),
               allocations' = Put(allocations, p, amount),
               reply' = Answer(p)
        PROVE  ListInv' /\ Ranged!Alloc(size, align)
    <2> DEFINE start == freeList[index][1]
    <2>1. /\ start \in DOMAIN F /\ p \in Nat
          /\ start <= p /\ p + amount <= start + F[start]
          /\ Ranged!FirstFitting(start, amount, align)
      BY <1>1, <1>2, SameFirst
    <2>2. Listed(freeList') /\ F' = Carve(F, start, p, amount)
      BY <1>1, <1>2, TakenListed, ListInvPrimed
    <2> HIDE DEF start
    <2>3. Tiled(F', allocations')
      BY <1>1, <1>2, <2>1, <2>2, TakeTiled
    <2>4. ListInv'
      BY <2>2, <2>3, ListInvPrimed
    <2>5. p = Aligned(start, align)
      BY <1>2 DEF start
    <2>6. Ranged!Alloc(size, align)
      BY <1>2, <2>1, <2>2, <2>5, SameInRanged DEF Ranged!Alloc, F, amount
    <2> QED BY <2>4, <2>6
  <1>3. ASSUME Fitting(amount, align) = {}, reply' = Error("exhausted"),
               UNCHANGED <<freeList, allocations>>
        PROVE  ListInv' /\ Ranged!Alloc(size, align)
    <2>1. F' = F
      BY <1>3, ListInvPrimed DEF F
    <2>2. ListInv'
      BY <1>1, <1>3, <2>1, ListInvPrimed
    <2>3. \A start \in DOMAIN F : ~Ranged!Fits(start, amount, align)
      BY <1>1, <1>3, SameNoneFits
    <2> QED BY <1>3, <2>1, <2>2, <2>3, SameInRanged
            DEF Ranged!Alloc, F, amount
  <1> QED BY <1>2, <1>3 DEF ListAlloc, Start, amount

\* free.
LEMMA FreeLists ==
    ASSUME ListInv, NEW address \in Addresses, ListFree(address)
    PROVE  ListInv' /\ Ranged!Free(address)
  <1>1. Listed(freeList) /\ Tiled(F, allocations)
    BY DEF ListInv
  <1>2. ASSUME address \in DOMAIN allocations,
               allocations' = Drop(allocations, {address}),
               freeList' = InsertPair(freeList, address, allocations[address]),
               reply' = Answer(0)
        PROVE  ListInv' /\ Ranged!Free(address)
    <2>1. /\ Listed(freeList')
          /\ F' = InsertFree(F, address, allocations[address])
          /\ Tiled(F', allocations')
      BY <1>1, <1>2, GiveListed, ListInvPrimed DEF F
    <2>2. ListInv'
      BY <2>1, ListInvPrimed
    <2> QED BY <1>2, <2>1, <2>2, SameInRanged DEF Ranged!Free, F
  <1>3. ASSUME address \notin DOMAIN allocations, reply' = Error("invalid"),
               UNCHANGED <<freeList, allocations>>
        PROVE  ListInv' /\ Ranged!Free(address)
    <2>1. F' = F
      BY <1>3, ListInvPrimed DEF F
    <2>2. ListInv'
      BY <1>1, <1>3, <2>1, ListInvPrimed
    <2> QED BY <1>3, <2>1, <2>2, SameInRanged DEF Ranged!Free, F
  <1> QED BY <1>2, <1>3 DEF ListFree

\* realloc to a smaller or the same size.
LEMMA ShrinkLists ==
    ASSUME ListInv, NEW address \in DOMAIN allocations,
           NEW amount \in Nat \ {0}, ListShrink(address, amount)
    PROVE  ListInv' /\ Ranged!Shrink(address, amount)
  <1> DEFINE old == allocations[address]
  <1>1. Listed(freeList) /\ Tiled(F, allocations)
    BY DEF ListInv
  <1>2. /\ amount <= old
        /\ freeList' = InsertPair(freeList, address + amount, old - amount)
        /\ allocations' = Put(allocations, address, amount)
        /\ reply' = Answer(address)
    BY DEF ListShrink
  <1>3. /\ address \in Addresses /\ address \in Nat
        /\ old \in Nat \ {0} /\ address + old <= Limit
    BY <1>1, RangeAssumption DEF Tiled, RangeMap, Addresses, Limit
  <1> HIDE DEF old
  <1>4. CASE amount < old
    <2>1. /\ address + amount \in Addresses /\ old - amount \in Nat \ {0}
          /\ (address + amount) + (old - amount) <= Limit
      BY <1>3, <1>4, RangeAssumption DEF Addresses, Limit
    <2>2. ASSUME NEW b \in Addresses, Within(b, address + amount, old - amount)
          PROVE  ~Covers(F, b)
      <3>1. b \in Nat
        BY RangeAssumption DEF Addresses, Limit
      <3>2. Within(b, address, old)
        BY <1>3, <2>2, <3>1 DEF Within
      <3> QED BY <1>1, <3>2 DEF Tiled, Covers, old
    <2>3. /\ Listed(freeList')
          /\ F' = InsertFree(F, address + amount, old - amount)
      BY <1>1, <1>2, <2>1, <2>2, InsertListed, ListInvPrimed DEF F
    <2>4. Tiled(F', allocations')
      BY <1>1, <1>2, <1>4, <2>3, ShrinkTiled DEF old
    <2>5. ListInv'
      BY <2>3, <2>4, ListInvPrimed
    <2> QED BY <1>2, <1>4, <2>3, <2>5, SameInRanged DEF Ranged!Shrink, F, old
  <1>5. CASE amount = old
    <2>1. freeList' = freeList
      BY <1>2, <1>3, <1>5 DEF InsertPair
    <2>2. Put(allocations, address, amount) = allocations
      BY <1>1, <1>5 DEF Put, Tiled, RangeMap, old
    <2>3. F' = F
      BY <2>1, ListInvPrimed DEF F
    <2>4. ListInv'
      BY <1>1, <1>2, <2>1, <2>2, <2>3, ListInvPrimed
    <2>5. ~(amount < old)
      BY <1>3, <1>5
    <2> QED BY <1>2, <2>3, <2>4, <2>5, SameInRanged DEF Ranged!Shrink, F, old
  <1> QED BY <1>2, <1>3, <1>4, <1>5
\* A pair starts where the block ends, with the bytes that miss, exactly when
\* Heap's free range there has them.
LEMMA SameCanGrow ==
    ASSUME ListInv, NEW address \in DOMAIN allocations, NEW amount \in Nat
    PROVE  Ranged!CanGrow(address, amount)
             <=> Adjacent(address, amount - allocations[address]) # {}
  <1> DEFINE q     == address + allocations[address]
             extra == amount - allocations[address]
  <1>1. Listed(freeList)
    BY DEF ListInv
  <1>2. /\ DOMAIN F = {freeList[i][1] : i \in DOMAIN freeList}
        /\ \A i \in DOMAIN freeList : F[freeList[i][1]] = freeList[i][2]
    BY <1>1, ListFunction DEF F
  <1>3. /\ DOMAIN freeList = 1 .. Len(freeList) /\ Len(freeList) \in Nat
        /\ \A i \in DOMAIN freeList : /\ i \in Nat
                                      /\ freeList[i][1] \in Nat
                                      /\ freeList[i][2] \in Nat
    BY <1>1, ListIn, PairIn DEF Listed
  <1>4. /\ allocations[address] \in Nat
        /\ q \in Int /\ extra \in Int
    BY RangeAssumption DEF ListInv, Tiled, RangeMap, Addresses, Limit
  <1> HIDE DEF q, extra
  <1>5. \A i \in DOMAIN freeList : \A j \in 1 .. i - 1 :
           freeList[j][1] # freeList[i][1]
    <2> TAKE i \in DOMAIN freeList
    <2> TAKE j \in 1 .. i - 1
    <2>1. j \in DOMAIN freeList /\ j < i
      BY <1>3
    <2>2. freeList[j][1] + freeList[j][2] < freeList[i][1]
      BY <1>1, <2>1 DEF Listed, Spread
    <2> QED BY <1>3, <2>1, <2>2
  <1>6. Ranged!CanGrow(address, amount) <=> q \in DOMAIN F /\ extra <= F[q]
    BY DEF Ranged!CanGrow, F, q, extra
  <1>7. Adjacent(address, extra)
          = {i \in DOMAIN freeList : freeList[i][1] = q /\ freeList[i][2] >= extra}
    BY <1>5 DEF Adjacent, Start, Available, q
  <1>8. (q \in DOMAIN F /\ extra <= F[q])
          <=> \E i \in DOMAIN freeList : freeList[i][1] = q /\ freeList[i][2] >= extra
    BY <1>2, <1>3, <1>4
  <1> QED BY <1>6, <1>7, <1>8 DEF extra

\* realloc into the free range that follows.
LEMMA GrowLists ==
    ASSUME ListInv, NEW address \in DOMAIN allocations,
           NEW amount \in Nat \ {0}, ListGrow(address, amount)
    PROVE  ListInv' /\ Ranged!GrowInPlace(address, amount)
  <1> DEFINE old   == allocations[address]
             q     == address + old
             extra == amount - old
  <1>1. Listed(freeList) /\ Tiled(F, allocations)
    BY DEF ListInv
  <1>2. /\ address \in Nat /\ old \in Nat \ {0}
        /\ q \in Nat /\ extra \in Int
    BY <1>1, RangeAssumption DEF Tiled, RangeMap, Addresses, Limit
  <1>3. /\ extra > 0
        /\ allocations' = Put(allocations, address, amount)
        /\ reply' = Answer(address)
    BY DEF ListGrow
  <1>4. PICK i \in Adjacent(address, extra) :
           freeList' = Splice(freeList, i,
                          IF freeList[i][2] = extra THEN << >>
                          ELSE << <<freeList[i][1] + extra,
                                    freeList[i][2] - extra>> >>)
    BY DEF ListGrow, Start, Available
  <1>5. /\ i \in DOMAIN freeList /\ freeList[i][1] = q
        /\ freeList[i][2] >= extra
    BY DEF Adjacent, Start, Available
  <1> HIDE DEF q, extra, old
  <1>6. freeList[i][2] \in Nat /\ extra \in Nat \ {0}
    BY <1>1, <1>2, <1>3, <1>5, ListIn, PairIn DEF Listed
  <1>7. Rest(freeList[i], q, extra)
          = IF freeList[i][2] = extra THEN << >>
            ELSE << <<q + extra, freeList[i][2] - extra>> >>
    <2>1. q - freeList[i][1] = 0 /\ freeList[i][2] - 0 - extra = freeList[i][2] - extra
      BY <1>2, <1>5, <1>6
    <2>2. freeList[i][2] - extra # 0 <=> freeList[i][2] # extra
      BY <1>6
    <2> DEFINE tail == << <<q + extra, freeList[i][2] - extra>> >>
    <2>3. Rest(freeList[i], q, extra)
            = << >> \o (IF freeList[i][2] # extra THEN tail ELSE << >>)
      BY <2>1, <2>2 DEF Rest
    <2>4. tail \in Seq({tail[1]})
      OBVIOUS
    <2> HIDE DEF tail
    <2>5. << >> \o tail = tail /\ << >> \o << >> = << >>
      BY <2>4, ConcatEmptySeq
    <2>6. Rest(freeList[i], q, extra)
            = IF freeList[i][2] = extra THEN << >> ELSE tail
      BY <2>3, <2>5
    <2> QED BY <2>6 DEF tail
  <1>8. freeList' = Splice(freeList, i, Rest(freeList[i], q, extra))
    BY <1>4, <1>5, <1>7
  <1>9. freeList[i][1] <= q /\ q + extra <= freeList[i][1] + freeList[i][2]
    BY <1>2, <1>5, <1>6
  <1>10. Listed(freeList') /\ F' = Carve(F, q, q, extra)
    BY <1>1, <1>2, <1>5, <1>6, <1>8, <1>9, CutListed, ListInvPrimed DEF F
  <1>11. q \in DOMAIN F /\ F[q] = freeList[i][2]
    BY <1>1, <1>5, ListFunction DEF F
  <1>12. amount > old
    BY <1>2, <1>3 DEF extra
  <1>13. Tiled(F', allocations')
    <2>1. extra <= F[q]
      BY <1>5, <1>6, <1>11
    <2> QED BY <1>1, <1>3, <1>10, <1>11, <1>12, <2>1, GrowTiled DEF q, extra, old
  <1>14. ListInv'
    BY <1>10, <1>13, ListInvPrimed
  <1>15. Ranged!CanGrow(address, amount)
    <2>1. Adjacent(address, extra) # {}
      OBVIOUS
    <2> QED BY <2>1, SameCanGrow DEF extra, old
  <1> QED BY <1>3, <1>10, <1>12, <1>14, <1>15, SameInRanged
          DEF Ranged!GrowInPlace, F, q, extra, old

\* realloc to a new place.
LEMMA MoveLists ==
    ASSUME ListInv, NEW address \in DOMAIN allocations,
           NEW amount \in Nat \ {0}, ListMove(address, amount)
    PROVE  ListInv' /\ Ranged!Move(address, amount)
  <1>1. /\ Listed(freeList) /\ Tiled(F, allocations)
        /\ DefaultAlign \in Aligns
    BY RangeAssumption DEF ListInv
  <1>2. ASSUME NEW index \in DOMAIN freeList, NEW new,
               new = Aligned(freeList[index][1], DefaultAlign),
               FirstPair(index, amount, DefaultAlign),
               freeList' = InsertPair(Taken(index, amount, DefaultAlign),
                                           address, allocations[address]),
               allocations' = Drop(Put(allocations, new, amount), {address}),
               reply' = Answer(new)
        PROVE  ListInv' /\ Ranged!Move(address, amount)
    <2> DEFINE start == freeList[index][1]
               taken == Taken(index, amount, DefaultAlign)
               blocks == Put(allocations, new, amount)
    <2>1. /\ start \in DOMAIN F /\ new \in Nat
          /\ start <= new /\ new + amount <= start + F[start]
          /\ Ranged!FirstFitting(start, amount, DefaultAlign)
      BY <1>1, <1>2, SameFirst
    <2>2. Listed(taken) /\ AsFunction(taken) = Carve(F, start, new, amount)
      BY <1>1, <1>2, TakenListed
    <2>3. new = Aligned(start, DefaultAlign)
      BY <1>2
    <2> HIDE DEF start, taken
    <2>4. new \notin DOMAIN allocations /\ Tiled(AsFunction(taken), blocks)
      BY <1>1, <1>2, <2>1, <2>2, TakeTiled
    <2>5. address \in DOMAIN blocks /\ blocks[address] = allocations[address]
      BY <2>4 DEF Put
    <2> HIDE DEF blocks
    <2>6. freeList' = InsertPair(taken, address, blocks[address])
      BY <1>2, <2>5 DEF taken
    <2>7. /\ Listed(freeList')
          /\ F' = InsertFree(AsFunction(taken), address, blocks[address])
          /\ Tiled(F', Drop(blocks, {address}))
      BY <2>2, <2>4, <2>5, <2>6, GiveListed, ListInvPrimed
    <2>8. ListInv'
      BY <1>2, <2>7, ListInvPrimed DEF blocks
    <2>9. F' = InsertFree(Carve(F, start, new, amount), address,
                          allocations[address])
      BY <2>2, <2>5, <2>7
    <2> QED BY <1>2, <2>1, <2>3, <2>8, <2>9, SameInRanged
            DEF Ranged!Move, F
  <1>3. ASSUME Fitting(amount, DefaultAlign) = {},
               reply' = Error("exhausted"), UNCHANGED <<freeList, allocations>>
        PROVE  ListInv' /\ Ranged!Move(address, amount)
    <2>1. F' = F
      BY <1>3, ListInvPrimed DEF F
    <2>2. ListInv'
      BY <1>1, <1>3, <2>1, ListInvPrimed
    <2>3. \A start \in DOMAIN F : ~Ranged!Fits(start, amount, DefaultAlign)
      BY <1>1, <1>3, SameNoneFits
    <2> QED BY <1>3, <2>1, <2>2, <2>3, SameInRanged DEF Ranged!Move, F
  <1> QED BY <1>2, <1>3 DEF ListMove, Start

\* realloc.
LEMMA ReallocLists ==
    ASSUME ListInv, NEW address \in Addresses, NEW size \in Sizes,
           NEW allowMove \in BOOLEAN, ListRealloc(address, size, allowMove)
    PROVE  ListInv' /\ Ranged!Realloc(address, size, allowMove)
  <1> DEFINE amount == Amount(size)
  <1>1. amount \in Nat \ {0} /\ Listed(freeList) /\ Tiled(F, allocations)
    BY AmountPositive DEF ListInv
  <1>2. Amount(size) = amount /\ Ranged!Amount(size) = amount
    BY SameInRanged
  <1> HIDE DEF amount
  <1>3. CASE address \in DOMAIN allocations /\ ListShrink(address, amount)
    BY <1>1, <1>2, <1>3, ShrinkLists DEF Ranged!Realloc
  <1>4. CASE address \in DOMAIN allocations /\ ListGrow(address, amount)
    BY <1>1, <1>2, <1>4, GrowLists DEF Ranged!Realloc
  <1>5. ASSUME address \in DOMAIN allocations, ListMustMove(address, amount)
        PROVE  Ranged!MustMove(address, amount)
    BY <1>1, <1>5, SameCanGrow DEF ListMustMove, Ranged!MustMove
  <1>6. CASE /\ address \in DOMAIN allocations
             /\ ListMustMove(address, amount)
             /\ allowMove
             /\ ListMove(address, amount)
    BY <1>1, <1>2, <1>5, <1>6, MoveLists DEF Ranged!Realloc
  <1>7. ASSUME UNCHANGED <<freeList, allocations>>
        PROVE  ListInv' /\ F' = F
    <2>1. F' = F
      BY <1>7, ListInvPrimed DEF F
    <2> QED BY <1>1, <1>7, <2>1, ListInvPrimed
  <1>8. CASE /\ address \in DOMAIN allocations
             /\ ListMustMove(address, amount)
             /\ ~allowMove
             /\ reply' = Error("locked")
             /\ UNCHANGED <<freeList, allocations>>
    BY <1>2, <1>5, <1>7, <1>8, SameInRanged DEF Ranged!Realloc, F
  <1>9. CASE /\ address \notin DOMAIN allocations
             /\ reply' = Error("invalid")
             /\ UNCHANGED <<freeList, allocations>>
    BY <1>7, <1>9, SameInRanged DEF Ranged!Realloc, F
  <1> QED BY <1>2, <1>3, <1>4, <1>6, <1>8, <1>9 DEF ListRealloc

-----------------------------------------------------------------------------
(* The theorems *)

LEMMA InitLists == ListInit => ListInv /\ Ranged!Init
  <1> SUFFICES ASSUME ListInit
               PROVE  ListInv /\ Ranged!Init
    OBVIOUS
  <1>1. /\ freeList = << <<Base, Size>> >>
        /\ allocations = NoRanges /\ reply = Answer(0)
    BY DEF ListInit
  <1>2. /\ Base \in Addresses /\ Size \in Nat \ {0} /\ Base + Size <= Limit
    BY RangeAssumption DEF Addresses, Limit
  <1>3. <<Base, Size>> \in Pairs
    BY <1>2, PairOf
  <1>4. freeList \in Seq(Pairs) /\ DOMAIN freeList = {1}
        /\ freeList[1][1] = Base /\ freeList[1][2] = Size
    BY <1>1, <1>3
  <1>5. Listed(freeList)
    BY <1>4 DEF Listed, Spread
  <1>6. /\ DOMAIN F = {freeList[i][1] : i \in DOMAIN freeList}
        /\ \A i \in DOMAIN freeList : F[freeList[i][1]] = freeList[i][2]
        /\ RangeMap(F) /\ Detached(F)
    BY <1>5, ListFunction DEF F
  <1>7. DOMAIN F = {Base} /\ F[Base] = Size
    BY <1>4, <1>6
  <1>8. F = [start \in {Base} |-> Size]
    BY <1>6, <1>7 DEF RangeMap
  <1>9. RangeMap(allocations) /\ Apart(allocations) /\ DOMAIN allocations = {}
    BY <1>1 DEF NoRanges, RangeMap, Apart
  <1>10. \A b \in Addresses : Covers(F, b) /\ ~Covers(allocations, b)
    BY <1>7, <1>9, RangeAssumption DEF Covers, Within, Addresses, Limit
  <1>11. ListInv
    BY <1>5, <1>6, <1>9, <1>10 DEF ListInv, Tiled
  <1> QED BY <1>1, <1>8, <1>11, SameInRanged DEF Ranged!Init, F

LEMMA StepLists ==
    ASSUME ListInv, [ListNext]_listVars
    PROVE  ListInv' /\ [Ranged!Next]_(Ranged!vars)
  <1>1. ASSUME NEW size \in Sizes, NEW align \in Aligns, ListAlloc(size, align)
        PROVE  ListInv' /\ Ranged!Next
    BY <1>1, AllocLists DEF Ranged!Next
  <1>2. ASSUME NEW address \in Addresses, ListFree(address)
        PROVE  ListInv' /\ Ranged!Next
    BY <1>2, FreeLists, SameInRanged DEF Ranged!Next
  <1>3. ASSUME NEW address \in Addresses, NEW size \in Sizes,
               NEW allowMove \in BOOLEAN,
               ListRealloc(address, size, allowMove)
        PROVE  ListInv' /\ Ranged!Next
    BY <1>3, ReallocLists, SameInRanged DEF Ranged!Next
  <1>4. CASE UNCHANGED listVars
    <2>1. UNCHANGED <<freeList, allocations, reply>>
      BY <1>4 DEF listVars
    <2>2. F' = F
      BY <2>1, ListInvPrimed DEF F
    <2>3. ListInv'
      BY <2>1, <2>2, ListInvPrimed DEF ListInv
    <2> QED BY <2>1, <2>2, <2>3 DEF Ranged!vars, F
  <1> QED BY <1>1, <1>2, <1>3, <1>4 DEF ListNext

LEMMA ListInvariant == ListSpec => []ListInv
  <1>1. ListInit => ListInv
    BY InitLists
  <1>2. ListInv /\ [ListNext]_listVars => ListInv'
    BY StepLists
  <1> QED BY <1>1, <1>2, PTL DEF ListSpec

\* The list memory.py splices without sorting is always in order, with a gap
\* between neighbours and no empty range (memory.py:53, 84, 111, 146).
THEOREM ListSorted == ListSpec => []SortedWithGaps
  <1>1. ListInv => SortedWithGaps
    <2> SUFFICES ASSUME ListInv
                 PROVE  SortedWithGaps
      OBVIOUS
    <2>1. Listed(freeList)
      BY DEF ListInv
    <2>2. /\ DOMAIN freeList = 1 .. Len(freeList) /\ Len(freeList) \in Nat
          /\ \A i \in DOMAIN freeList : freeList[i][2] > 0
      BY <2>1, ListIn, PairIn DEF Listed
    <2>3. \A i \in 1 .. Len(freeList) - 1 :
             freeList[i][1] + freeList[i][2] < freeList[i + 1][1]
      <3> TAKE i \in 1 .. Len(freeList) - 1
      <3>1. i \in DOMAIN freeList /\ i + 1 \in DOMAIN freeList /\ i < i + 1
        BY <2>2
      <3> QED BY <2>1, <3>1 DEF Listed, Spread
    <2> QED BY <2>2, <2>3
            DEF SortedWithGaps, Available, Start, End
  <1> QED BY <1>1, ListInvariant, PTL

\* Whatever is spliced, appended, sorted and merged, the list behaves as the
\* free ranges of Heap: the theorems about Heap hold of memory.py's list.
THEOREM ListImplementsHeap == ListSpec => ImplementsHeap
  <1>1. ListInit => Ranged!Init
    BY InitLists
  <1>2. ListInv /\ [ListNext]_listVars
          => [Ranged!Next]_(Ranged!vars)
    BY StepLists
  <1>3. ImplementsHeap
          <=> Ranged!Init /\ [][Ranged!Next]_(Ranged!vars)
    BY DEF ImplementsHeap, Ranged!Spec
  <1> QED BY <1>1, <1>2, <1>3, ListInvariant, PTL DEF ListSpec
=============================================================================
