---------------------------- MODULE MemoryProofs ----------------------------
(***************************************************************************)
(* Theorems about Handles, CWMemHandles and attached pointers (Memory),    *)
(* for a heap of any size and any number of each.                          *)
(***************************************************************************)
EXTENDS Memory, FiniteSetTheorems, TLAPS

MemoryTypes ==
    /\ RangeMap(allocations) /\ Apart(allocations)
    /\ handles \in [DOMAIN handles -> [block : Addresses, size : Nat,
                                       locked : BOOLEAN, filled : Nat]]
    /\ cwHandles \in [DOMAIN cwHandles -> [block : Addresses, size : Nat]]
    /\ attached \in [DOMAIN attached -> [master : Addresses, held : BOOLEAN]]
    /\ phase \in {"idle", "guest", "failed", "closing", "closed"}

\* What a handle names is live and has the length it was asked for.
OwnedLive ==
    /\ \A m \in DOMAIN handles :
          /\ {m, handles[m].block} \subseteq DOMAIN allocations
          /\ allocations[m] = Word
          /\ allocations[handles[m].block] = Amount(handles[m].size)
          /\ handles[m].filled <= handles[m].size
    /\ \A h \in DOMAIN cwHandles :
          /\ {h, cwHandles[h].block} \subseteq DOMAIN allocations
          /\ allocations[h] = 2 * Word
          /\ allocations[cwHandles[h].block] = Amount(cwHandles[h].size)

\* No block is named twice.
OwnersApart ==
    /\ \A m, n \in DOMAIN handles :
          /\ m # handles[n].block
          /\ m # n => handles[m].block # handles[n].block
    /\ \A g, h \in DOMAIN cwHandles :
          /\ g # cwHandles[h].block
          /\ g # h => cwHandles[g].block # cwHandles[h].block
    /\ \A m \in DOMAIN handles, h \in DOMAIN cwHandles :
          {m, handles[m].block} \intersect {h, cwHandles[h].block} = {}

NobodysBlocks ==
    /\ phase \in {"idle", "guest"} => DOMAIN allocations \subseteq Owned
    /\ phase = "idle" => DOMAIN cwHandles = {}

\* A pointer is held as long as its Handle is locked where it was.
HeldLocked ==
    \A p \in DOMAIN attached : attached[p].held =>
        /\ attached[p].master \in DOMAIN handles
        /\ handles[attached[p].master].locked
        /\ handles[attached[p].master].block = p

HandleKept(m) ==
    /\ \A b \in Bytes(m, Word) : memory[b] = Pointer(handles[m].block)
    /\ \A b \in Bytes(handles[m].block, handles[m].filled) : memory[b] = Data(m)
CWHandleKept(h) ==
    /\ \A b \in Bytes(h, Word) : memory[b] = Pointer(cwHandles[h].block)
    /\ \A b \in Bytes(h + Word, Word) : memory[b] = Length(cwHandles[h].size)
    /\ \A b \in Bytes(cwHandles[h].block, cwHandles[h].size) : memory[b] = Data(h)
Kept ==
    /\ \A m \in DOMAIN handles : HandleKept(m)
    /\ \A h \in DOMAIN cwHandles : CWHandleKept(h)

Structure == MemoryTypes /\ OwnedLive /\ OwnersApart
MemoryInv == Structure /\ NobodysBlocks /\ HeldLocked /\ Kept /\ HeldStoreReadsOwner

-----------------------------------------------------------------------------
(* Functions, bytes and live blocks *)

LEMMA PutIs ==
    ASSUME NEW f, NEW k, NEW v
    PROVE  /\ DOMAIN Put(f, k, v) = DOMAIN f \union {k}
           /\ Put(f, k, v)[k] = v
           /\ \A x \in DOMAIN f : x # k => Put(f, k, v)[x] = f[x]
  BY DEF Put

LEMMA DropIs ==
    ASSUME NEW f, NEW ks
    PROVE  /\ DOMAIN Drop(f, ks) = DOMAIN f \ ks
           /\ \A x \in DOMAIN f \ ks : Drop(f, ks)[x] = f[x]
  BY DEF Drop

LEMMA FillIs ==
    ASSUME NEW mem, NEW bytes, NEW cell, NEW b \in Addresses
    PROVE  Fill(mem, bytes, cell)[b] = IF b \in bytes THEN cell ELSE mem[b]
  BY DEF Fill

\* Removing any of the ranges.
LEMMA DropRanges ==
    ASSUME NEW f, RangeMap(f), Apart(f), NEW ks
    PROVE  RangeMap(Drop(f, ks)) /\ Apart(Drop(f, ks))
  <1>1. DOMAIN Drop(f, ks) = DOMAIN f \ ks /\ \A x \in DOMAIN f \ ks : Drop(f, ks)[x] = f[x]
    BY DropIs
  <1>2. RangeMap(Drop(f, ks))
    BY <1>1 DEF RangeMap, Drop
  <1>3. Apart(Drop(f, ks))
    BY <1>1 DEF Apart
  <1> QED BY <1>2, <1>3

LEMMA BlockBytes ==
    ASSUME NEW f, RangeMap(f), NEW s \in DOMAIN f
    PROVE  /\ s \in Addresses /\ s \in Nat /\ f[s] \in Nat \ {0}
           /\ \A b \in Bytes(s, f[s]) : b \in Addresses /\ Covers(f, b)
  BY RangeAssumption DEF RangeMap, Addresses, Limit, Bytes, Covers, Within

LEMMA BlocksShareNothing ==
    ASSUME NEW f, RangeMap(f), Apart(f), NEW s \in DOMAIN f, NEW t \in DOMAIN f, s # t
    PROVE  Bytes(s, f[s]) \intersect Bytes(t, f[t]) = {}
  <1>1. s \in Nat /\ t \in Nat /\ f[s] \in Nat /\ f[t] \in Nat
    BY BlockBytes
  <1>2. s + f[s] <= t \/ t + f[t] <= s
    BY <1>1 DEF Apart
  <1> QED BY <1>1, <1>2 DEF Bytes

LEMMA CoveredByBlock ==
    ASSUME NEW f, RangeMap(f), NEW b \in Addresses, Covers(f, b)
    PROVE  \E s \in DOMAIN f : b \in Bytes(s, f[s])
  BY RangeAssumption DEF RangeMap, Addresses, Limit, Bytes, Covers, Within

LEMMA SamePlace ==
    ASSUME NEW f, NEW p, NEW n, NEW align
    PROVE  /\ Place!Room(f, p, n) <=> /\ Base <= p /\ p + n <= Limit
                                      /\ \A b \in p .. p + n - 1 : ~Covers(f, b)
           /\ Place!FirstFit(f, p, n, align) => Place!Room(f, p, n)
  <1>1. Place!Limit = Limit /\ \A b : Place!Covers(f, b) <=> Covers(f, b)
    BY DEF Place!Limit, Limit, Place!Covers, Covers, Place!Within, Within
  <1> QED BY <1>1 DEF Place!Room, Place!FirstFit, Place!Candidate

\* A block put where it shares no byte with any other.
LEMMA PutApart ==
    ASSUME NEW f, RangeMap(f), Apart(f),
           NEW p \in Addresses, NEW n \in Nat \ {0}, p + n <= Limit,
           \A s \in DOMAIN f \ {p}, b \in Addresses :
              Within(b, p, n) => ~Within(b, s, f[s])
    PROVE  RangeMap(Put(f, p, n)) /\ Apart(Put(f, p, n))
  <1>1. /\ p \in Nat /\ Limit \in Nat /\ Base \in Nat
        /\ \A s \in DOMAIN f : /\ s \in Addresses /\ s \in Nat
                               /\ f[s] \in Nat \ {0} /\ s + f[s] <= Limit
    BY RangeAssumption DEF RangeMap, Addresses, Limit
  <1>2. \A s \in DOMAIN f \ {p} : s + f[s] <= p \/ p + n <= s
    <2> TAKE s \in DOMAIN f \ {p}
    <2>1. Within(p, p, n) /\ Within(s, s, f[s])
      BY <1>1 DEF Within
    <2>2. ~Within(p, s, f[s]) /\ ~Within(s, p, n)
      BY <1>1, <2>1
    <2> QED BY <1>1, <2>2 DEF Within
  <1>3. /\ DOMAIN Put(f, p, n) = (DOMAIN f \ {p}) \union {p}
        /\ Put(f, p, n)[p] = n
        /\ \A s \in DOMAIN f \ {p} : Put(f, p, n)[s] = f[s]
        /\ Put(f, p, n) = [s \in DOMAIN Put(f, p, n) |-> Put(f, p, n)[s]]
    BY DEF Put
  <1>4. RangeMap(Put(f, p, n))
    BY <1>1, <1>3 DEF RangeMap
  <1>5. Apart(Put(f, p, n))
    BY <1>1, <1>2, <1>3 DEF Apart
  <1> QED BY <1>4, <1>5

\* A new block takes bytes that no live block has.
LEMMA FreshBlock ==
    ASSUME NEW f, RangeMap(f), Apart(f), NEW p \in Addresses, NEW n \in Nat \ {0},
           Place!Room(f, p, n)
    PROVE  /\ p \notin DOMAIN f
           /\ RangeMap(Put(f, p, n)) /\ Apart(Put(f, p, n))
           /\ \A b \in Bytes(p, n) : b \in Addresses /\ ~Covers(f, b)
  <1>1. p + n <= Limit /\ \A b \in p .. p + n - 1 : ~Covers(f, b)
    BY SamePlace
  <1>2. \A b \in Addresses : Within(b, p, n) => ~Covers(f, b)
    BY <1>1, RangeAssumption DEF Within, Addresses, Limit
  <1>3. p \notin DOMAIN f /\ RangeMap(Put(f, p, n)) /\ Apart(Put(f, p, n))
    <2>1. p \notin DOMAIN f
      BY <1>2, RangeAssumption
         DEF RangeMap, Covers, Within, Addresses, Limit
    <2>2. \A s \in DOMAIN f \ {p}, b \in Addresses :
             Within(b, p, n) => ~Within(b, s, f[s])
      BY <1>2 DEF Covers
    <2> QED BY <1>1, <2>1, <2>2, PutApart
  <1>4. \A b \in Bytes(p, n) : b \in Addresses /\ ~Covers(f, b)
    BY <1>1, RangeAssumption DEF Bytes, Addresses, Limit
  <1> QED BY <1>3, <1>4

\* What a step leaves alone when it writes only in the live blocks of a set
\* and where no block is.
Writes(touched) ==
    \A b \in Addresses :
        \/ memory'[b] = memory[b]
        \/ ~Covers(allocations, b)
        \/ \E t \in touched : b \in Bytes(t, allocations[t])

LEMMA UntouchedStay ==
    ASSUME Structure, NEW touched, touched \subseteq DOMAIN allocations, Writes(touched),
           NEW p \in DOMAIN allocations \ touched
    PROVE  \A b \in Bytes(p, allocations[p]) : memory'[b] = memory[b]
  <1> SUFFICES ASSUME NEW b \in Bytes(p, allocations[p])
               PROVE  memory'[b] = memory[b]
    OBVIOUS
  <1>1. b \in Addresses /\ Covers(allocations, b)
    BY BlockBytes DEF Structure, MemoryTypes
  <1>2. \A t \in touched : b \notin Bytes(t, allocations[t])
    BY BlocksShareNothing DEF Structure, MemoryTypes
  <1> QED BY <1>1, <1>2 DEF Writes

LEMMA HandleBytes ==
    ASSUME Structure, NEW m \in DOMAIN handles
    PROVE  /\ Bytes(m, Word) = Bytes(m, allocations[m])
           /\ Bytes(handles[m].block, handles[m].filled)
                \subseteq Bytes(handles[m].block, allocations[handles[m].block])
  <1>1. /\ handles[m].block \in Addresses /\ handles[m].size \in Nat
        /\ handles[m].filled \in Nat /\ handles[m].filled <= handles[m].size
        /\ allocations[m] = Word
        /\ allocations[handles[m].block] = Amount(handles[m].size)
    BY DEF Structure, MemoryTypes, OwnedLive
  <1> QED BY <1>1, RangeAssumption DEF Bytes, Addresses, Limit, Amount

LEMMA CWHandleBytes ==
    ASSUME Structure, NEW h \in DOMAIN cwHandles
    PROVE  /\ Bytes(h, Word) \subseteq Bytes(h, allocations[h])
           /\ Bytes(h + Word, Word) \subseteq Bytes(h, allocations[h])
           /\ Bytes(cwHandles[h].block, cwHandles[h].size)
                \subseteq Bytes(cwHandles[h].block, allocations[cwHandles[h].block])
  <1>1. /\ cwHandles[h].block \in Addresses /\ cwHandles[h].size \in Nat
        /\ allocations[h] = 2 * Word /\ h \in Addresses
        /\ allocations[cwHandles[h].block] = Amount(cwHandles[h].size)
    BY BlockBytes DEF Structure, MemoryTypes, OwnedLive
  <1> QED BY <1>1, RangeAssumption, MemoryAssumption DEF Bytes, Addresses, Limit, Amount

LEMMA HandleStays ==
    ASSUME Structure, NEW touched, touched \subseteq DOMAIN allocations, Writes(touched),
           NEW m \in DOMAIN handles, HandleKept(m),
           m \notin touched, handles[m].block \notin touched,
           handles'[m].block = handles[m].block, handles'[m].filled = handles[m].filled
    PROVE  HandleKept(m)'
  <1>1. {m, handles[m].block} \subseteq DOMAIN allocations
    BY DEF Structure, OwnedLive
  <1> QED BY <1>1, UntouchedStay, HandleBytes DEF HandleKept

LEMMA CWHandleStays ==
    ASSUME Structure, NEW touched, touched \subseteq DOMAIN allocations, Writes(touched),
           NEW h \in DOMAIN cwHandles, CWHandleKept(h),
           h \notin touched, cwHandles[h].block \notin touched,
           cwHandles'[h] = cwHandles[h]
    PROVE  CWHandleKept(h)'
  <1>1. {h, cwHandles[h].block} \subseteq DOMAIN allocations
    BY DEF Structure, OwnedLive
  <1> QED BY <1>1, UntouchedStay, CWHandleBytes DEF CWHandleKept

LEMMA AmountIs ==
    ASSUME NEW size \in Nat
    PROVE  Amount(size) \in Nat \ {0} /\ size <= Amount(size)
           /\ (size # 0 => Amount(size) = size)
  BY DEF Amount

-----------------------------------------------------------------------------
(* A callback that fails *)

\* A HostError leaves at most a block of a handle that was never made.
LEMMA RaiseKeeps ==
    ASSUME MemoryInv, Raise, UNCHANGED <<memory, handles, cwHandles>>, stored' = {},
           RangeMap(allocations'), Apart(allocations'),
           DOMAIN allocations \subseteq DOMAIN allocations',
           \A s \in DOMAIN allocations : allocations'[s] = allocations[s]
    PROVE  MemoryInv'
  <1>1. MemoryTypes'
    BY DEF MemoryInv, Structure, MemoryTypes, Raise, NoRanges
  <1>2. OwnedLive' /\ OwnersApart' /\ Kept'
    BY DEF MemoryInv, Structure, OwnedLive, OwnersApart, Kept, HandleKept, CWHandleKept
  <1>3. NobodysBlocks' /\ HeldLocked'
    BY DEF Raise, NobodysBlocks, HeldLocked, NoRanges
  <1>4. HeldStoreReadsOwner'
    BY DEF HeldStoreReadsOwner
  <1> QED BY <1>1, <1>2, <1>3, <1>4 DEF MemoryInv, Structure

\* A callback whose first or second allocation fails.
LEMMA FailedAllocationKeeps ==
    ASSUME MemoryInv, NEW n \in Nat \ {0}, stored' = {},
           Raise, UNCHANGED <<memory, handles, cwHandles>>,
           \/ allocations' = allocations
           \/ \E p \in Addresses : /\ Place!Room(allocations, p, n)
                                   /\ allocations' = Put(allocations, p, n)
    PROVE  MemoryInv'
  <1>1. CASE allocations' = allocations
    BY <1>1, RaiseKeeps DEF MemoryInv, Structure, MemoryTypes
  <1>2. ASSUME NEW p \in Addresses, Place!Room(allocations, p, n),
               allocations' = Put(allocations, p, n)
        PROVE  MemoryInv'
    <2>1. p \notin DOMAIN allocations /\ RangeMap(allocations') /\ Apart(allocations')
      BY <1>2, FreshBlock DEF MemoryInv, Structure, MemoryTypes
    <2>2. /\ DOMAIN allocations \subseteq DOMAIN allocations'
          /\ \A s \in DOMAIN allocations : allocations'[s] = allocations[s]
      BY <1>2, <2>1 DEF Put
    <2> QED BY <2>1, <2>2, RaiseKeeps
  <1> QED BY <1>1, <1>2

-----------------------------------------------------------------------------
(* New handles *)

\* Two blocks allocated one after the other.
LEMMA TwoFreshBlocks ==
    ASSUME Structure, NEW p \in Addresses, NEW q \in Addresses,
           NEW n \in Nat \ {0}, NEW k \in Nat \ {0},
           Place!Room(allocations, p, n), Place!Room(Put(allocations, p, n), q, k),
           allocations' = Put(Put(allocations, p, n), q, k)
    PROVE  /\ RangeMap(allocations') /\ Apart(allocations')
           /\ DOMAIN allocations' = DOMAIN allocations \union {p, q}
           /\ {p, q} \intersect DOMAIN allocations = {} /\ p # q
           /\ allocations'[p] = n /\ allocations'[q] = k
           /\ \A s \in DOMAIN allocations : allocations'[s] = allocations[s]
           /\ \A b \in Bytes(p, n) \union Bytes(q, k) :
                 b \in Addresses /\ ~Covers(allocations, b)
           /\ Bytes(p, n) \intersect Bytes(q, k) = {}
  <1> DEFINE one == Put(allocations, p, n)
  <1>1. /\ p \notin DOMAIN allocations /\ RangeMap(one) /\ Apart(one)
        /\ \A b \in Bytes(p, n) : b \in Addresses /\ ~Covers(allocations, b)
    BY FreshBlock DEF Structure, MemoryTypes
  <1>2. /\ DOMAIN one = DOMAIN allocations \union {p} /\ one[p] = n
        /\ \A s \in DOMAIN allocations : one[s] = allocations[s]
    BY <1>1 DEF Put
  <1> HIDE DEF one
  <1>3. /\ q \notin DOMAIN one /\ RangeMap(Put(one, q, k)) /\ Apart(Put(one, q, k))
        /\ \A b \in Bytes(q, k) : b \in Addresses /\ ~Covers(one, b)
    BY <1>1, FreshBlock DEF one
  <1>4. /\ DOMAIN allocations' = DOMAIN one \union {q} /\ allocations'[q] = k
        /\ \A s \in DOMAIN one : allocations'[s] = one[s]
    <2>1. allocations' = Put(one, q, k)
      BY DEF one
    <2> QED BY <1>3, <2>1 DEF Put
  <1>5. RangeMap(allocations') /\ Apart(allocations')
    BY <1>3 DEF one
  <1>6. \A b \in Bytes(q, k) : ~Covers(allocations, b)
    BY <1>2, <1>3 DEF Covers
  <1>7. Bytes(p, n) \intersect Bytes(q, k) = {}
    BY <1>2, <1>3, <1>4, <1>5, BlocksShareNothing
  <1> QED BY <1>1, <1>2, <1>3, <1>4, <1>5, <1>6, <1>7

\* The two blocks behind a new handle, or the HostError of one of them.
LEMMA NewHandleTakes ==
    ASSUME NEW size \in Sizes, NewHandle(size)
    PROVE  \/ \E p \in Addresses, q \in Addresses :
                 LET one == Put(allocations, p, Amount(size))
                 IN  /\ Place!Room(allocations, p, Amount(size))
                     /\ Place!Room(one, q, Amount(Word))
                     /\ allocations' = Put(one, q, Amount(Word))
                     /\ handles' = Put(handles, q, [block |-> p, size |-> size,
                                                    locked |-> FALSE, filled |-> size])
                     /\ memory' = Fill(Fill(memory, Bytes(p, size), Data(q)),
                                       Bytes(q, Word), Pointer(p))
                     /\ UNCHANGED <<cwHandles, attached, phase>>
           \/ /\ \/ allocations' = allocations
                 \/ \E p \in Addresses :
                       /\ Place!Room(allocations, p, Amount(size))
                       /\ allocations' = Put(allocations, p, Amount(size))
              /\ Raise /\ UNCHANGED <<memory, handles, cwHandles>>
  BY SamePlace DEF NewHandle, TwoBlocks

\* A Handle made of the two new blocks.
LEMMA HandleJoins ==
    ASSUME Structure, NEW p, NEW q, NEW size \in Nat,
           DOMAIN allocations' = DOMAIN allocations \union {p, q},
           {p, q} \intersect DOMAIN allocations = {}, p # q,
           allocations'[p] = Amount(size), allocations'[q] = Word,
           \A s \in DOMAIN allocations : allocations'[s] = allocations[s],
           DOMAIN handles' = DOMAIN handles \union {q},
           handles'[q].block = p, handles'[q].size = size, handles'[q].filled = size,
           \A m \in DOMAIN handles : handles'[m] = handles[m],
           cwHandles' = cwHandles
    PROVE  OwnedLive' /\ OwnersApart'
  <1>1. \A m \in DOMAIN handles :
           /\ m \in DOMAIN allocations /\ handles[m].block \in DOMAIN allocations
           /\ m \notin {p, q} /\ handles[m].block \notin {p, q}
           /\ handles'[m].block = handles[m].block
    BY DEF Structure, OwnedLive
  <1>2. \A h \in DOMAIN cwHandles :
           /\ h \in DOMAIN allocations /\ cwHandles[h].block \in DOMAIN allocations
           /\ h \notin {p, q} /\ cwHandles[h].block \notin {p, q}
    BY DEF Structure, OwnedLive
  <1>3. ASSUME NEW m \in DOMAIN handles'
        PROVE  /\ {m, handles'[m].block} \subseteq DOMAIN allocations'
               /\ allocations'[m] = Word
               /\ allocations'[handles'[m].block] = Amount(handles'[m].size)
               /\ handles'[m].filled <= handles'[m].size
    <2>1. CASE m = q
      BY <2>1
    <2>2. CASE m \in DOMAIN handles
      BY <1>1, <2>2 DEF Structure, OwnedLive
    <2> QED BY <2>1, <2>2
  <1>4. ASSUME NEW h \in DOMAIN cwHandles'
        PROVE  /\ {h, cwHandles'[h].block} \subseteq DOMAIN allocations'
               /\ allocations'[h] = 2 * Word
               /\ allocations'[cwHandles'[h].block] = Amount(cwHandles'[h].size)
    BY <1>2 DEF Structure, OwnedLive
  <1>5. \A m, n \in DOMAIN handles' :
          /\ m # handles'[n].block
          /\ m # n => handles'[m].block # handles'[n].block
    BY <1>1 DEF Structure, OwnersApart
  <1>6. \A m \in DOMAIN handles', h \in DOMAIN cwHandles' :
          {m, handles'[m].block} \intersect {h, cwHandles'[h].block} = {}
    BY <1>1, <1>2 DEF Structure, OwnersApart
  <1>7. \A g, h \in DOMAIN cwHandles' :
          /\ g # cwHandles'[h].block
          /\ g # h => cwHandles'[g].block # cwHandles'[h].block
    BY DEF Structure, OwnersApart
  <1> QED BY <1>3, <1>4, <1>5, <1>6, <1>7 DEF OwnedLive, OwnersApart

LEMMA NewHandleKeeps ==
    ASSUME MemoryInv, NEW size \in Sizes, NewHandle(size)
    PROVE  MemoryInv'
  <1>1. /\ stored' = {} /\ size \in Nat /\ Amount(size) \in Nat \ {0}
        /\ size <= Amount(size) /\ Amount(Word) = Word /\ Word \in Nat \ {0}
    BY AmountIs, RangeAssumption, MemoryAssumption DEF NewHandle
  <1>2. ASSUME NEW p \in Addresses, NEW q \in Addresses,
               Place!Room(allocations, p, Amount(size)),
               Place!Room(Put(allocations, p, Amount(size)), q, Word),
               allocations' = Put(Put(allocations, p, Amount(size)), q, Word),
               handles' = Put(handles, q, [block |-> p, size |-> size,
                                           locked |-> FALSE, filled |-> size]),
               memory' = Fill(Fill(memory, Bytes(p, size), Data(q)),
                              Bytes(q, Word), Pointer(p)),
               UNCHANGED <<cwHandles, attached, phase>>
        PROVE  MemoryInv'
    <2> DEFINE record == [block |-> p, size |-> size, locked |-> FALSE, filled |-> size]
    <2>1. Structure /\ NobodysBlocks /\ HeldLocked /\ Kept
      BY DEF MemoryInv
    <2>2. /\ RangeMap(allocations') /\ Apart(allocations')
          /\ DOMAIN allocations' = DOMAIN allocations \union {p, q}
          /\ {p, q} \intersect DOMAIN allocations = {} /\ p # q
          /\ allocations'[p] = Amount(size) /\ allocations'[q] = Word
          /\ \A s \in DOMAIN allocations : allocations'[s] = allocations[s]
          /\ \A b \in Bytes(p, Amount(size)) \union Bytes(q, Word) :
                b \in Addresses /\ ~Covers(allocations, b)
          /\ Bytes(p, Amount(size)) \intersect Bytes(q, Word) = {}
      BY <1>1, <1>2, <2>1, TwoFreshBlocks
    <2>3. q \notin DOMAIN handles
      BY <2>1, <2>2 DEF Structure, OwnedLive
    <2>4. /\ DOMAIN handles' = DOMAIN handles \union {q} /\ handles'[q] = record
          /\ \A m \in DOMAIN handles : handles'[m] = handles[m]
      BY <1>2, <2>3 DEF Put
    <2>5. /\ record.block = p /\ record.size = size /\ record.filled = size
          /\ record \in [block : Addresses, size : Nat, locked : BOOLEAN, filled : Nat]
      BY <1>1
    <2> HIDE DEF record
    <2>6. handles' \in [DOMAIN handles' -> [block : Addresses, size : Nat,
                                            locked : BOOLEAN, filled : Nat]]
      BY <1>2, <2>1, <2>4, <2>5 DEF Structure, MemoryTypes, Put
    <2>7. MemoryTypes'
      BY <1>2, <2>1, <2>2, <2>6 DEF Structure, MemoryTypes
    <2>8. handles'[q].block = p /\ handles'[q].size = size /\ handles'[q].filled = size
      BY <2>4, <2>5
    <2>9. OwnedLive' /\ OwnersApart'
      <3>1. size \in Nat /\ Structure /\ cwHandles' = cwHandles
        BY <1>1, <1>2, <2>1
      <3>2. DOMAIN handles' = DOMAIN handles \union {q}
            /\ \A m \in DOMAIN handles : handles'[m] = handles[m]
        BY <2>4
      <3> QED BY <2>2, <2>8, <3>1, <3>2, HandleJoins
    <2>10. NobodysBlocks'
      <3>1. Owned \union {p, q} \subseteq Owned'
        BY <1>2, <2>4, <2>8 DEF Owned, HandleBlocks, CWHandleBlocks
      <3> QED BY <1>2, <2>1, <2>2, <3>1 DEF NobodysBlocks
    <2>11. HeldLocked'
      BY <1>2, <2>1, <2>4 DEF HeldLocked
    <2>12. Bytes(p, size) \subseteq Bytes(p, Amount(size))
      BY <1>1, RangeAssumption DEF Bytes, Addresses, Limit
    <2>13. \A b \in Addresses : memory'[b] = IF b \in Bytes(q, Word) THEN Pointer(p)
                                ELSE IF b \in Bytes(p, size) THEN Data(q) ELSE memory[b]
      BY <1>2, FillIs
    <2>14. Writes({})
      BY <2>2, <2>12, <2>13 DEF Writes
    <2>15. HandleKept(q)'
      BY <2>2, <2>4, <2>5, <2>12, <2>13 DEF HandleKept
    <2>16. Kept'
      <3>1. ASSUME NEW m \in DOMAIN handles PROVE HandleKept(m)'
        BY <2>1, <2>4, <2>14, HandleStays DEF Kept
      <3>2. ASSUME NEW h \in DOMAIN cwHandles PROVE CWHandleKept(h)'
        BY <1>2, <2>1, <2>14, CWHandleStays DEF Kept
      <3> QED BY <1>2, <2>4, <2>15, <3>1, <3>2 DEF Kept
    <2>17. HeldStoreReadsOwner'
      BY <1>1 DEF HeldStoreReadsOwner
    <2> QED BY <2>7, <2>9, <2>10, <2>11, <2>16, <2>17 DEF MemoryInv, Structure
  <1> QED BY <1>1, <1>2, NewHandleTakes, FailedAllocationKeeps

-----------------------------------------------------------------------------
(* New CWMemHandles *)

LEMMA CWGetTakes ==
    ASSUME NEW size \in PanelSizes, CWGetNamedPreferences(size)
    PROVE  \/ \E p \in Addresses, q \in Addresses :
                 LET one == Put(allocations, p, Amount(2 * Word))
                 IN  /\ Place!Room(allocations, p, Amount(2 * Word))
                     /\ Place!Room(one, q, Amount(size))
                     /\ allocations' = Put(one, q, Amount(size))
                     /\ cwHandles' = Put(cwHandles, p, [block |-> q, size |-> size])
                     /\ memory' = Fill(Fill(Fill(memory, Bytes(q, size), Data(p)),
                                            Bytes(p, Word), Pointer(q)),
                                       Bytes(p + Word, Word), Length(size))
                     /\ UNCHANGED <<handles, attached, phase>>
           \/ /\ \/ allocations' = allocations
                 \/ \E p \in Addresses :
                       /\ Place!Room(allocations, p, Amount(2 * Word))
                       /\ allocations' = Put(allocations, p, Amount(2 * Word))
              /\ Raise /\ UNCHANGED <<memory, handles, cwHandles>>
  BY SamePlace DEF CWGetNamedPreferences, TwoBlocks

\* A CWMemHandle made of the two new blocks, p its header.
LEMMA CWHandleJoins ==
    ASSUME Structure, NEW p, NEW q, NEW size \in Nat,
           DOMAIN allocations' = DOMAIN allocations \union {p, q},
           {p, q} \intersect DOMAIN allocations = {}, p # q,
           allocations'[p] = 2 * Word, allocations'[q] = Amount(size),
           \A s \in DOMAIN allocations : allocations'[s] = allocations[s],
           DOMAIN cwHandles' = DOMAIN cwHandles \union {p},
           cwHandles'[p].block = q, cwHandles'[p].size = size,
           \A h \in DOMAIN cwHandles : cwHandles'[h] = cwHandles[h],
           handles' = handles
    PROVE  OwnedLive' /\ OwnersApart'
  <1>1. \A m \in DOMAIN handles :
           /\ m \in DOMAIN allocations /\ handles[m].block \in DOMAIN allocations
           /\ m \notin {p, q} /\ handles[m].block \notin {p, q}
    BY DEF Structure, OwnedLive
  <1>2. \A h \in DOMAIN cwHandles :
           /\ h \in DOMAIN allocations /\ cwHandles[h].block \in DOMAIN allocations
           /\ h \notin {p, q} /\ cwHandles[h].block \notin {p, q}
           /\ cwHandles'[h].block = cwHandles[h].block
    BY DEF Structure, OwnedLive
  <1>3. ASSUME NEW m \in DOMAIN handles'
        PROVE  /\ {m, handles'[m].block} \subseteq DOMAIN allocations'
               /\ allocations'[m] = Word
               /\ allocations'[handles'[m].block] = Amount(handles'[m].size)
               /\ handles'[m].filled <= handles'[m].size
    BY <1>1 DEF Structure, OwnedLive
  <1>4. ASSUME NEW h \in DOMAIN cwHandles'
        PROVE  /\ {h, cwHandles'[h].block} \subseteq DOMAIN allocations'
               /\ allocations'[h] = 2 * Word
               /\ allocations'[cwHandles'[h].block] = Amount(cwHandles'[h].size)
    <2>1. CASE h = p
      BY <2>1
    <2>2. CASE h \in DOMAIN cwHandles
      BY <1>2, <2>2 DEF Structure, OwnedLive
    <2> QED BY <2>1, <2>2
  <1>5. \A m, n \in DOMAIN handles' :
          /\ m # handles'[n].block
          /\ m # n => handles'[m].block # handles'[n].block
    BY DEF Structure, OwnersApart
  <1>6. \A m \in DOMAIN handles', h \in DOMAIN cwHandles' :
          {m, handles'[m].block} \intersect {h, cwHandles'[h].block} = {}
    BY <1>1, <1>2 DEF Structure, OwnersApart
  <1>7. \A g, h \in DOMAIN cwHandles' :
          /\ g # cwHandles'[h].block
          /\ g # h => cwHandles'[g].block # cwHandles'[h].block
    BY <1>2 DEF Structure, OwnersApart
  <1> QED BY <1>3, <1>4, <1>5, <1>6, <1>7 DEF OwnedLive, OwnersApart

LEMMA CWGetKeeps ==
    ASSUME MemoryInv, NEW size \in PanelSizes, CWGetNamedPreferences(size)
    PROVE  MemoryInv'
  <1>1. /\ stored' = {} /\ size \in Nat /\ Amount(size) \in Nat \ {0}
        /\ size <= Amount(size) /\ Amount(2 * Word) = 2 * Word /\ Word \in Nat \ {0}
        /\ 2 * Word \in Nat \ {0} /\ phase # "idle"
    <2>1. stored' = {} /\ phase # "idle"
      BY DEF CWGetNamedPreferences, inGuest
    <2>2. size \in Nat /\ Word \in Nat \ {0} /\ 2 * Word \in Nat \ {0}
      BY MemoryAssumption
    <2> QED BY <2>1, <2>2, AmountIs
  <1>2. ASSUME NEW p \in Addresses, NEW q \in Addresses,
               Place!Room(allocations, p, 2 * Word),
               Place!Room(Put(allocations, p, 2 * Word), q, Amount(size)),
               allocations' = Put(Put(allocations, p, 2 * Word), q, Amount(size)),
               cwHandles' = Put(cwHandles, p, [block |-> q, size |-> size]),
               memory' = Fill(Fill(Fill(memory, Bytes(q, size), Data(p)),
                                   Bytes(p, Word), Pointer(q)),
                              Bytes(p + Word, Word), Length(size)),
               UNCHANGED <<handles, attached, phase>>
        PROVE  MemoryInv'
    <2> DEFINE record == [block |-> q, size |-> size]
    <2>1. Structure /\ NobodysBlocks /\ HeldLocked /\ Kept
      BY DEF MemoryInv
    <2>2. /\ RangeMap(allocations') /\ Apart(allocations')
          /\ DOMAIN allocations' = DOMAIN allocations \union {p, q}
          /\ {p, q} \intersect DOMAIN allocations = {} /\ p # q
          /\ allocations'[p] = 2 * Word /\ allocations'[q] = Amount(size)
          /\ \A s \in DOMAIN allocations : allocations'[s] = allocations[s]
          /\ \A b \in Bytes(p, 2 * Word) \union Bytes(q, Amount(size)) :
                b \in Addresses /\ ~Covers(allocations, b)
          /\ Bytes(p, 2 * Word) \intersect Bytes(q, Amount(size)) = {}
      BY <1>1, <1>2, <2>1, TwoFreshBlocks
    <2>3. p \notin DOMAIN cwHandles
      BY <2>1, <2>2 DEF Structure, OwnedLive
    <2>4. /\ DOMAIN cwHandles' = DOMAIN cwHandles \union {p} /\ cwHandles'[p] = record
          /\ \A h \in DOMAIN cwHandles : cwHandles'[h] = cwHandles[h]
      BY <1>2, <2>3 DEF Put
    <2>5. /\ record.block = q /\ record.size = size
          /\ record \in [block : Addresses, size : Nat]
      BY <1>1
    <2> HIDE DEF record
    <2>6. cwHandles' \in [DOMAIN cwHandles' -> [block : Addresses, size : Nat]]
      BY <1>2, <2>1, <2>4, <2>5 DEF Structure, MemoryTypes, Put
    <2>7. MemoryTypes'
      BY <1>2, <2>1, <2>2, <2>6 DEF Structure, MemoryTypes
    <2>8. cwHandles'[p].block = q /\ cwHandles'[p].size = size
      BY <2>4, <2>5
    <2>9. OwnedLive' /\ OwnersApart'
      <3>1. size \in Nat /\ Structure /\ handles' = handles
        BY <1>1, <1>2, <2>1
      <3>2. DOMAIN cwHandles' = DOMAIN cwHandles \union {p}
            /\ \A h \in DOMAIN cwHandles : cwHandles'[h] = cwHandles[h]
        BY <2>4
      <3> QED BY <2>2, <2>8, <3>1, <3>2, CWHandleJoins
    <2>10. NobodysBlocks'
      <3>1. Owned \union {p, q} \subseteq Owned'
        BY <1>2, <2>4, <2>8 DEF Owned, HandleBlocks, CWHandleBlocks
      <3> QED BY <1>1, <1>2, <2>1, <2>2, <3>1 DEF NobodysBlocks
    <2>11. HeldLocked'
      BY <1>2, <2>1 DEF HeldLocked
    <2>12. /\ Bytes(q, size) \subseteq Bytes(q, Amount(size))
           /\ Bytes(p, Word) \subseteq Bytes(p, 2 * Word)
           /\ Bytes(p + Word, Word) \subseteq Bytes(p, 2 * Word)
           /\ Bytes(p, Word) \intersect Bytes(p + Word, Word) = {}
      BY <1>1, RangeAssumption DEF Bytes, Addresses, Limit
    <2>13. \A b \in Addresses :
              memory'[b] = IF b \in Bytes(p + Word, Word) THEN Length(size)
                           ELSE IF b \in Bytes(p, Word) THEN Pointer(q)
                           ELSE IF b \in Bytes(q, size) THEN Data(p) ELSE memory[b]
      BY <1>2, FillIs
    <2>14. Writes({})
      BY <2>2, <2>12, <2>13 DEF Writes
    <2>15. CWHandleKept(p)'
      BY <2>2, <2>8, <2>12, <2>13 DEF CWHandleKept
    <2>16. Kept'
      <3>1. ASSUME NEW m \in DOMAIN handles PROVE HandleKept(m)'
        BY <1>2, <2>1, <2>14, HandleStays DEF Kept
      <3>2. ASSUME NEW h \in DOMAIN cwHandles PROVE CWHandleKept(h)'
        BY <2>1, <2>4, <2>14, CWHandleStays DEF Kept
      <3> QED BY <1>2, <2>4, <2>15, <3>1, <3>2 DEF Kept
    <2>17. HeldStoreReadsOwner'
      BY <1>1 DEF HeldStoreReadsOwner
    <2> QED BY <2>7, <2>9, <2>10, <2>11, <2>16, <2>17 DEF MemoryInv, Structure
  <1> QED BY ZenonT(40), <1>1, <1>2, CWGetTakes, FailedAllocationKeeps

-----------------------------------------------------------------------------
(* Handles of either kind that are freed *)

\* Their blocks go with them, and nothing of the others is written.
LEMMA OwnersLeave ==
    ASSUME Structure, Kept, NEW blocks, blocks \subseteq DOMAIN allocations, Writes(blocks),
           DOMAIN allocations' = DOMAIN allocations \ blocks,
           \A s \in DOMAIN allocations' : allocations'[s] = allocations[s],
           DOMAIN handles' \subseteq DOMAIN handles,
           \A m \in DOMAIN handles' : /\ handles'[m] = handles[m]
                                     /\ {m, handles[m].block} \intersect blocks = {},
           DOMAIN cwHandles' \subseteq DOMAIN cwHandles,
           \A h \in DOMAIN cwHandles' : /\ cwHandles'[h] = cwHandles[h]
                                       /\ {h, cwHandles[h].block} \intersect blocks = {}
    PROVE  OwnedLive' /\ OwnersApart' /\ Kept'
  <1>1. ASSUME NEW m \in DOMAIN handles'
        PROVE  /\ {m, handles'[m].block} \subseteq DOMAIN allocations'
               /\ allocations'[m] = Word
               /\ allocations'[handles'[m].block] = Amount(handles'[m].size)
               /\ handles'[m].filled <= handles'[m].size
    BY DEF Structure, OwnedLive
  <1>2. ASSUME NEW h \in DOMAIN cwHandles'
        PROVE  /\ {h, cwHandles'[h].block} \subseteq DOMAIN allocations'
               /\ allocations'[h] = 2 * Word
               /\ allocations'[cwHandles'[h].block] = Amount(cwHandles'[h].size)
    BY DEF Structure, OwnedLive
  <1>3. OwnersApart'
    BY DEF Structure, OwnersApart
  <1>4. ASSUME NEW m \in DOMAIN handles' PROVE HandleKept(m)'
    BY HandleStays DEF Kept
  <1>5. ASSUME NEW h \in DOMAIN cwHandles' PROVE CWHandleKept(h)'
    BY CWHandleStays DEF Kept
  <1> QED BY <1>1, <1>2, <1>3, <1>4, <1>5 DEF OwnedLive, Kept

LEMMA BlocksLeave ==
    ASSUME MemoryTypes, NEW blocks, allocations' = Drop(allocations, blocks)
    PROVE  /\ DOMAIN allocations' = DOMAIN allocations \ blocks
           /\ \A s \in DOMAIN allocations' : allocations'[s] = allocations[s]
           /\ RangeMap(allocations') /\ Apart(allocations')
  <1>1. RangeMap(allocations') /\ Apart(allocations')
    BY DropRanges DEF MemoryTypes
  <1> QED BY <1>1 DEF Drop

LEMMA UnheldIs ==
    ASSUME MemoryTypes, NEW masters, attached' = Unheld(masters)
    PROVE  /\ DOMAIN attached' = DOMAIN attached
           /\ attached' \in [DOMAIN attached' -> [master : Addresses, held : BOOLEAN]]
           /\ \A p \in DOMAIN attached : attached'[p].held =>
                 attached'[p] = attached[p] /\ attached[p].master \notin masters
  BY DEF MemoryTypes, Unheld

LEMMA DisposeHandleKeeps ==
    ASSUME MemoryInv, NEW master \in DOMAIN handles, DisposeHandle(master)
    PROVE  MemoryInv'
  <1> DEFINE block == handles[master].block
             blocks == {block, master}
  <1>1. /\ Structure /\ NobodysBlocks /\ HeldLocked /\ Kept
        /\ MemoryTypes /\ OwnedLive /\ OwnersApart
    BY DEF MemoryInv, Structure
  <1>2. /\ handles' = Drop(handles, {master}) /\ allocations' = Drop(allocations, blocks)
        /\ memory' = Release(Release(memory, allocations, block), allocations, master)
        /\ attached' = Unheld({master}) /\ stored' = {}
        /\ UNCHANGED <<cwHandles, phase>>
    BY DEF DisposeHandle
  <1>3. blocks \subseteq DOMAIN allocations
    BY <1>1 DEF OwnedLive
  <1>4. /\ DOMAIN allocations' = DOMAIN allocations \ blocks
        /\ \A s \in DOMAIN allocations' : allocations'[s] = allocations[s]
        /\ RangeMap(allocations') /\ Apart(allocations')
    <2> HIDE DEF blocks
    <2> QED BY <1>1, <1>2, BlocksLeave
  <1>5. /\ DOMAIN handles' = DOMAIN handles \ {master}
        /\ \A m \in DOMAIN handles' : handles'[m] = handles[m]
    BY <1>2 DEF Drop
  <1>6. \A m \in DOMAIN handles' : {m, handles[m].block} \intersect blocks = {}
    BY <1>1, <1>5 DEF OwnersApart
  <1>7. \A h \in DOMAIN cwHandles : {h, cwHandles[h].block} \intersect blocks = {}
    BY <1>1 DEF OwnersApart
  <1>8. Writes(blocks)
    <2>1. \A b \in Addresses :
             memory'[b] = IF b \in Bytes(master, allocations[master]) THEN Stale
                          ELSE IF b \in Bytes(block, allocations[block]) THEN Stale
                          ELSE memory[b]
      BY <1>2, FillIs DEF Release
    <2> QED BY <2>1 DEF Writes
  <1>9. OwnedLive' /\ OwnersApart' /\ Kept'
    <2> HIDE DEF blocks, block
    <2>1. DOMAIN handles' \subseteq DOMAIN handles
      BY <1>5
    <2>2. cwHandles' = cwHandles
      BY <1>2
    <2> QED BY <1>1, <1>3, <1>4, <1>5, <1>6, <1>7, <1>8, <2>1, <2>2, OwnersLeave
  <1>10. handles' \in [DOMAIN handles' -> [block : Addresses, size : Nat,
                                          locked : BOOLEAN, filled : Nat]]
    BY <1>1, <1>2, <1>5 DEF MemoryTypes, Drop
  <1>11. MemoryTypes'
    BY <1>1, <1>2, <1>4, <1>10, UnheldIs DEF MemoryTypes
  <1>12. NobodysBlocks'
    <2>1. Owned \ blocks \subseteq Owned'
      BY <1>2, <1>5 DEF Owned, HandleBlocks, CWHandleBlocks
    <2> QED BY <1>1, <1>2, <1>4, <2>1 DEF NobodysBlocks
  <1>13. HeldLocked'
    <2>1. /\ DOMAIN attached' = DOMAIN attached
          /\ \A p \in DOMAIN attached : attached'[p].held =>
                attached'[p] = attached[p] /\ attached[p].master \notin {master}
      BY <1>1, <1>2, UnheldIs
    <2> QED BY <1>1, <1>5, <2>1 DEF HeldLocked
  <1>14. HeldStoreReadsOwner'
    BY <1>2 DEF HeldStoreReadsOwner
  <1> QED BY <1>9, <1>11, <1>12, <1>13, <1>14 DEF MemoryInv, Structure

\* CWMemHandles freed by the guest, or at the end of the request.
LEMMA FreeCWKeeps ==
    ASSUME MemoryInv, NEW gone, gone \subseteq DOMAIN cwHandles, FreeCW(gone),
           handles' = handles, stored' = {},
           \/ attached' = attached /\ phase' = phase /\ phase # "idle"
           \/ /\ attached' = NoRanges /\ gone = DOMAIN cwHandles
              /\ phase' \in {"idle", "closed"}
              /\ phase' = "idle" => phase = "guest"
    PROVE  MemoryInv'
  <1> DEFINE blocks == gone \union {cwHandles[h].block : h \in gone}
  <1>1. /\ Structure /\ NobodysBlocks /\ HeldLocked /\ Kept
        /\ MemoryTypes /\ OwnedLive /\ OwnersApart
    BY DEF MemoryInv, Structure
  <1>2. /\ cwHandles' = Drop(cwHandles, gone) /\ allocations' = Drop(allocations, blocks)
        /\ memory' = Fill(memory, UNION {Bytes(p, allocations[p]) : p \in blocks}, Stale)
    BY DEF FreeCW
  <1>3. blocks \subseteq DOMAIN allocations
    BY <1>1 DEF OwnedLive
  <1>4. /\ DOMAIN allocations' = DOMAIN allocations \ blocks
        /\ \A s \in DOMAIN allocations' : allocations'[s] = allocations[s]
        /\ RangeMap(allocations') /\ Apart(allocations')
    <2> HIDE DEF blocks
    <2> QED BY <1>1, <1>2, BlocksLeave
  <1>5. /\ DOMAIN cwHandles' = DOMAIN cwHandles \ gone
        /\ \A h \in DOMAIN cwHandles' : cwHandles'[h] = cwHandles[h]
    BY <1>2 DEF Drop
  <1>6. \A m \in DOMAIN handles : {m, handles[m].block} \intersect blocks = {}
    <2>1. \A m \in DOMAIN handles, h \in gone :
             {m, handles[m].block} \intersect {h, cwHandles[h].block} = {}
      BY <1>1 DEF OwnersApart
    <2> QED BY ZenonT(40), <2>1
  <1>7. \A h \in DOMAIN cwHandles' : {h, cwHandles[h].block} \intersect blocks = {}
    <2>1. ASSUME NEW h \in DOMAIN cwHandles', NEW g \in gone
          PROVE  {h, cwHandles[h].block} \intersect {g, cwHandles[g].block} = {}
      <3>1. h \in DOMAIN cwHandles /\ g \in DOMAIN cwHandles /\ g # h
        BY <1>5
      <3> QED BY <1>1, <3>1 DEF OwnersApart
    <2> QED BY ZenonT(40), <2>1
  <1>8. Writes(blocks)
    BY <1>2, FillIs DEF Writes
  <1>9. OwnedLive' /\ OwnersApart' /\ Kept'
    <2> HIDE DEF blocks
    <2>1. DOMAIN cwHandles' \subseteq DOMAIN cwHandles
      BY <1>5
    <2> QED BY <1>1, <1>3, <1>4, <1>5, <1>6, <1>7, <1>8, <2>1, OwnersLeave
  <1>10. cwHandles' \in [DOMAIN cwHandles' -> [block : Addresses, size : Nat]]
    BY <1>1, <1>2, <1>5 DEF MemoryTypes, Drop
  <1>11. MemoryTypes'
    BY <1>1, <1>4, <1>10 DEF MemoryTypes, NoRanges
  <1>12. NobodysBlocks'
    <2>1. Owned \ blocks \subseteq Owned'
      BY <1>5 DEF Owned, HandleBlocks, CWHandleBlocks
    <2> QED BY <1>1, <1>4, <1>5, <2>1 DEF NobodysBlocks
  <1>13. HeldLocked'
    BY <1>1 DEF HeldLocked, NoRanges
  <1>14. HeldStoreReadsOwner'
    BY DEF HeldStoreReadsOwner
  <1> QED BY <1>9, <1>11, <1>12, <1>13, <1>14 DEF MemoryInv, Structure

-----------------------------------------------------------------------------
(* Locks and attached pointers *)

LEMMA SetLockKeeps ==
    ASSUME MemoryInv, NEW master \in DOMAIN handles, NEW locked \in BOOLEAN,
           SetLock(master, locked)
    PROVE  MemoryInv'
  <1>1. /\ Structure /\ NobodysBlocks /\ HeldLocked /\ Kept
        /\ MemoryTypes /\ OwnedLive /\ OwnersApart
    BY DEF MemoryInv, Structure
  <1>2. /\ handles' = [handles EXCEPT ![master].locked = locked]
        /\ attached' = IF locked THEN attached ELSE Unheld({master})
        /\ stored' = {} /\ UNCHANGED <<allocations, memory, cwHandles, phase>>
    BY DEF SetLock
  <1>3. /\ DOMAIN handles' = DOMAIN handles
        /\ handles' \in [DOMAIN handles' -> [block : Addresses, size : Nat,
                                            locked : BOOLEAN, filled : Nat]]
        /\ \A m \in DOMAIN handles : m # master => handles'[m] = handles[m]
        /\ handles'[master] = [handles[master] EXCEPT !.locked = locked]
    BY <1>1, <1>2 DEF MemoryTypes
  <1>4. /\ handles'[master].block = handles[master].block
        /\ handles'[master].size = handles[master].size
        /\ handles'[master].filled = handles[master].filled
        /\ handles'[master].locked = locked
    BY <1>1, <1>3 DEF MemoryTypes
  <1>5. \A m \in DOMAIN handles : /\ handles'[m].block = handles[m].block
                                 /\ handles'[m].size = handles[m].size
                                 /\ handles'[m].filled = handles[m].filled
    BY <1>3, <1>4
  <1>6. OwnedLive' /\ OwnersApart' /\ Kept'
    <2>1. OwnedLive'
      BY <1>1, <1>2, <1>3, <1>5 DEF OwnedLive
    <2>2. OwnersApart'
      BY <1>1, <1>2, <1>3, <1>5 DEF OwnersApart
    <2>3. Kept'
      BY <1>1, <1>2, <1>3, <1>5 DEF Kept, HandleKept, CWHandleKept
    <2> QED BY <2>1, <2>2, <2>3
  <1>7. NobodysBlocks'
    <2>1. Owned' = Owned
      BY <1>2, <1>3, <1>5 DEF Owned, HandleBlocks, CWHandleBlocks
    <2> QED BY <1>1, <1>2, <2>1 DEF NobodysBlocks
  <1>8. CASE locked
    <2>1. MemoryTypes'
      BY <1>1, <1>2, <1>3, <1>8 DEF MemoryTypes
    <2>2. HeldLocked'
      BY <1>1, <1>2, <1>3, <1>4, <1>8 DEF HeldLocked
    <2> QED BY <1>2, <1>6, <1>7, <2>1, <2>2 DEF MemoryInv, Structure, HeldStoreReadsOwner
  <1>9. CASE ~locked
    <2>1. /\ DOMAIN attached' = DOMAIN attached
          /\ attached' \in [DOMAIN attached' -> [master : Addresses, held : BOOLEAN]]
          /\ \A p \in DOMAIN attached : attached'[p].held =>
                attached'[p] = attached[p] /\ attached[p].master \notin {master}
      BY <1>1, <1>2, <1>9, UnheldIs
    <2>2. MemoryTypes'
      BY <1>1, <1>2, <1>3, <2>1 DEF MemoryTypes
    <2>3. HeldLocked'
      BY <1>1, <1>3, <2>1 DEF HeldLocked
    <2> QED BY <1>2, <1>6, <1>7, <2>2, <2>3 DEF MemoryInv, Structure, HeldStoreReadsOwner
  <1> QED BY <1>8, <1>9

\* The steps that change neither the heap nor a handle.
LEMMA OnlyAttachedChanges ==
    ASSUME MemoryInv, UNCHANGED <<allocations, memory, handles, cwHandles>>,
           attached' \in [DOMAIN attached' -> [master : Addresses, held : BOOLEAN]],
           phase' \in {"idle", "guest", "failed", "closing", "closed"},
           phase' = "idle" => phase = "idle", phase' = "guest" => phase \in {"idle", "guest"},
           HeldLocked', HeldStoreReadsOwner'
    PROVE  MemoryInv'
  <1>1. MemoryTypes'
    BY DEF MemoryInv, Structure, MemoryTypes
  <1>2. OwnedLive' /\ OwnersApart'
    BY DEF MemoryInv, Structure, OwnedLive, OwnersApart
  <1>3. Kept'
    BY DEF MemoryInv, Kept, HandleKept, CWHandleKept
  <1>4. NobodysBlocks'
    BY DEF MemoryInv, NobodysBlocks, Owned, HandleBlocks, CWHandleBlocks
  <1> QED BY <1>1, <1>2, <1>3, <1>4 DEF MemoryInv, Structure

LEMMA AttachHandleKeeps ==
    ASSUME MemoryInv, NEW master \in DOMAIN handles, CWSecretAttachHandle(master)
    PROVE  MemoryInv'
  <1> DEFINE block == handles[master].block
             entry == [master |-> master, held |-> handles[master].locked]
  <1>1. MemoryTypes /\ HeldLocked /\ master \in Addresses
        /\ handles[master].locked \in BOOLEAN
    BY BlockBytes DEF MemoryInv, Structure, MemoryTypes, OwnedLive
  <1>2. /\ attached' = Put(attached, block, entry) /\ stored' = {}
        /\ UNCHANGED <<allocations, memory, handles, cwHandles, phase>>
    BY DEF CWSecretAttachHandle
  <1>3. /\ entry \in [master : Addresses, held : BOOLEAN] /\ entry.master = master
        /\ entry.held = handles[master].locked
    BY <1>1
  <1> HIDE DEF entry
  <1>4. attached' \in [DOMAIN attached' -> [master : Addresses, held : BOOLEAN]]
    BY <1>1, <1>2, <1>3 DEF MemoryTypes, Put
  <1>5. /\ DOMAIN attached' = DOMAIN attached \union {block} /\ attached'[block] = entry
        /\ \A p \in DOMAIN attached : p # block => attached'[p] = attached[p]
    BY <1>2 DEF Put
  <1>6. HeldLocked'
    BY <1>1, <1>2, <1>3, <1>5 DEF HeldLocked
  <1>7. HeldStoreReadsOwner'
    BY <1>2 DEF HeldStoreReadsOwner
  <1> QED BY <1>1, <1>2, <1>4, <1>6, <1>7, OnlyAttachedChanges
          DEF MemoryTypes

LEMMA StoreObjectDataKeeps ==
    ASSUME MemoryInv, NEW p \in DOMAIN attached, CWStoreObjectData(p)
    PROVE  MemoryInv'
  <1>1. /\ MemoryTypes /\ OwnedLive /\ OwnersApart /\ HeldLocked /\ Kept
        /\ UNCHANGED <<allocations, memory, handles, cwHandles>>
    BY DEF MemoryInv, Structure, CWStoreObjectData
  <1>2. CASE Raise /\ stored' = {}
    BY <1>1, <1>2, RaiseKeeps DEF MemoryTypes
  <1>3. ASSUME NEW s, stored' = {s}, s.from = attached[p], UNCHANGED <<attached, phase>>,
               attached[p].held =>
                  LET m == attached[p].master
                  IN  /\ m \in DOMAIN handles
                      /\ DOMAIN s.bytes = 0 .. handles[m].size - 1
                      /\ \A i \in 0 .. handles[m].filled - 1 : s.bytes[i] = Data(m)
        PROVE  MemoryInv'
    <2>1. HeldStoreReadsOwner'
      BY <1>1, <1>3 DEF HeldStoreReadsOwner
    <2>2. HeldLocked'
      BY <1>1, <1>3 DEF HeldLocked
    <2> QED BY <1>1, <1>3, <2>1, <2>2, OnlyAttachedChanges DEF MemoryTypes
  <1>4. ASSUME p \in DOMAIN cwHandles, NEW s, s.from = attached[p], stored' = {s},
               UNCHANGED <<attached, phase>>
        PROVE  MemoryInv'
    <2>1. ASSUME attached[p].held PROVE FALSE
      <3> DEFINE m == attached[p].master
      <3>1. m \in DOMAIN handles /\ handles[m].block = p
        BY <1>1, <2>1 DEF HeldLocked
      <3>2. {m, handles[m].block} \intersect {p, cwHandles[p].block} = {}
        BY <1>1, <1>4, <3>1 DEF OwnersApart
      <3> QED BY <3>1, <3>2
    <2> QED BY <1>3, <1>4, <2>1
  <1>5. ASSUME NEW m \in OwnersOf(p), UNCHANGED <<attached, phase>>,
               stored' = {[from |-> attached[p],
                           bytes |-> [i \in 0 .. handles[m].size - 1 |-> memory[p + i]]]}
        PROVE  MemoryInv'
    <2> DEFINE bytes == [i \in 0 .. handles[m].size - 1 |-> memory[p + i]]
    <2>1. m \in DOMAIN handles /\ handles[m].block = p
      BY <1>5 DEF OwnersOf
    <2>2. attached[p].held => attached[p].master = m
      BY <1>1, <2>1 DEF HeldLocked, OwnersApart
    <2>3. /\ handles[m].size \in Nat /\ handles[m].filled \in Nat
          /\ handles[m].filled <= handles[m].size /\ p \in Addresses
      BY <1>1, <2>1 DEF MemoryTypes, OwnedLive
    <2>4. \A i \in 0 .. handles[m].filled - 1 : bytes[i] = Data(m)
      <3> SUFFICES ASSUME NEW i \in 0 .. handles[m].filled - 1
                   PROVE  memory[p + i] = Data(m) /\ i \in 0 .. handles[m].size - 1
        OBVIOUS
      <3>1. p + i \in Bytes(p, handles[m].filled) /\ i \in 0 .. handles[m].size - 1
        BY <2>3, RangeAssumption DEF Bytes, Addresses, Limit
      <3> QED BY <1>1, <2>1, <3>1 DEF Kept, HandleKept
    <2>5. DOMAIN bytes = 0 .. handles[m].size - 1
      OBVIOUS
    <2> DEFINE s == [from |-> attached[p], bytes |-> bytes]
    <2>6. stored' = {s} /\ s.from = attached[p] /\ s.bytes = bytes
      BY <1>5
    <2> HIDE DEF s, bytes
    <2> QED BY <1>3, <1>5, <2>1, <2>2, <2>4, <2>5, <2>6
  <1>6. CASE p \in DOMAIN cwHandles /\ UNCHANGED <<attached, phase>>
             /\ stored' = {[from |-> attached[p],
                            bytes |-> [i \in 0 .. cwHandles[p].size - 1 |->
                                         memory[cwHandles[p].block + i]]]}
    BY <1>4, <1>6
  <1> QED BY <1>2, <1>5, <1>6 DEF CWStoreObjectData

LEMMA RequestKeeps ==
    ASSUME MemoryInv, Request
    PROVE  MemoryInv'
  <1>1. HeldLocked' /\ HeldStoreReadsOwner'
    BY DEF MemoryInv, Request, HeldLocked, HeldStoreReadsOwner
  <1> QED BY <1>1, OnlyAttachedChanges DEF Request, MemoryInv, Structure, MemoryTypes

-----------------------------------------------------------------------------
(* A Handle that is resized *)

LEMMA ResizedIs ==
    ASSUME MemoryTypes, NEW master \in DOMAIN handles, NEW new \in Addresses,
           NEW size \in Nat, Resized(master, new, size)
    PROVE  /\ DOMAIN handles' = DOMAIN handles
           /\ handles' \in [DOMAIN handles' -> [block : Addresses, size : Nat,
                                               locked : BOOLEAN, filled : Nat]]
           /\ \A m \in DOMAIN handles \ {master} : handles'[m] = handles[m]
           /\ handles'[master].block = new
           /\ handles'[master].size = size
           /\ handles'[master].filled = Least(handles[master].filled, size)
           /\ handles'[master].locked = handles[master].locked
  <1> DEFINE least == Least(handles[master].filled, size)
  <1>1. least \in Nat
    BY DEF MemoryTypes, Least
  <1>2. handles' = [handles EXCEPT ![master].block = new, ![master].size = size,
                                   ![master].filled = least]
    BY DEF Resized
  <1> HIDE DEF least
  <1>3. /\ DOMAIN handles' = DOMAIN handles
        /\ \A m \in DOMAIN handles \ {master} : handles'[m] = handles[m]
        /\ handles'[master] = [handles[master] EXCEPT !.block = new, !.size = size,
                                                      !.filled = least]
    BY <1>2 DEF MemoryTypes
  <1>4. handles[master] \in [block : Addresses, size : Nat,
                             locked : BOOLEAN, filled : Nat]
    BY DEF MemoryTypes
  <1>5. /\ handles'[master] \in [block : Addresses, size : Nat,
                                 locked : BOOLEAN, filled : Nat]
        /\ handles'[master].block = new /\ handles'[master].size = size
        /\ handles'[master].filled = least
        /\ handles'[master].locked = handles[master].locked
    BY <1>1, <1>3, <1>4
  <1>6. handles' \in [DOMAIN handles' -> [block : Addresses, size : Nat,
                                          locked : BOOLEAN, filled : Nat]]
    BY <1>2, <1>3, <1>5 DEF MemoryTypes
  <1> QED BY <1>3, <1>5, <1>6 DEF least

\* A Handle whose block is resized where it is, or replaced by a fresh one
\* unless the Handle is locked.
LEMMA HandleChanges ==
    ASSUME MemoryInv, NEW master \in DOMAIN handles, NEW new \in Addresses,
           NEW size \in Nat, Resized(master, new, size),
           \/ new = handles[master].block
           \/ new \notin DOMAIN allocations /\ ~handles[master].locked,
           RangeMap(allocations'), Apart(allocations'),
           DOMAIN allocations'
             = (DOMAIN allocations \ {handles[master].block}) \union {new},
           allocations'[new] = Amount(size),
           \A s \in DOMAIN allocations \ {handles[master].block} :
              s # new => allocations'[s] = allocations[s],
           Writes({handles[master].block, master}), HandleKept(master)',
           UNCHANGED <<cwHandles, attached, phase>>, stored' = {}
    PROVE  MemoryInv'
  <1> DEFINE block == handles[master].block
  <1>1. /\ Structure /\ NobodysBlocks /\ HeldLocked /\ Kept
        /\ MemoryTypes /\ OwnedLive /\ OwnersApart
    BY DEF MemoryInv, Structure
  <1>2. /\ DOMAIN handles' = DOMAIN handles
        /\ handles' \in [DOMAIN handles' -> [block : Addresses, size : Nat,
                                            locked : BOOLEAN, filled : Nat]]
        /\ \A m \in DOMAIN handles \ {master} : handles'[m] = handles[m]
        /\ handles'[master].block = new
        /\ handles'[master].size = size
        /\ handles'[master].filled = Least(handles[master].filled, size)
        /\ handles'[master].locked = handles[master].locked
    BY <1>1, ResizedIs
  <1>3. {block, master} \subseteq DOMAIN allocations /\ block # master
    BY <1>1 DEF OwnedLive, OwnersApart
  <1>4. \A m \in DOMAIN handles \ {master} :
           /\ {m, handles[m].block} \subseteq DOMAIN allocations
           /\ {m, handles[m].block} \intersect {block, master} = {}
           /\ new \notin {m, handles[m].block}
    BY <1>1, <1>3 DEF OwnedLive, OwnersApart
  <1>5. \A h \in DOMAIN cwHandles :
           /\ {h, cwHandles[h].block} \subseteq DOMAIN allocations
           /\ {h, cwHandles[h].block} \intersect {block, master} = {}
           /\ new \notin {h, cwHandles[h].block}
    <2> SUFFICES ASSUME NEW h \in DOMAIN cwHandles
                 PROVE  /\ {h, cwHandles[h].block} \subseteq DOMAIN allocations
                        /\ {h, cwHandles[h].block} \intersect {block, master} = {}
                        /\ new \notin {h, cwHandles[h].block}
      OBVIOUS
    <2>1. {h, cwHandles[h].block} \subseteq DOMAIN allocations
      BY <1>1 DEF OwnedLive
    <2>2. {h, cwHandles[h].block} \intersect {block, master} = {}
      BY <1>1 DEF OwnersApart
    <2> QED BY <2>1, <2>2
  <1>6. new # master
    BY <1>3
  <1>7. Least(handles[master].filled, size) <= size
    BY <1>1 DEF MemoryTypes, Least
  <1>8. OwnedLive'
    <2>1. ASSUME NEW m \in DOMAIN handles'
          PROVE  /\ {m, handles'[m].block} \subseteq DOMAIN allocations'
                 /\ allocations'[m] = Word
                 /\ allocations'[handles'[m].block] = Amount(handles'[m].size)
                 /\ handles'[m].filled <= handles'[m].size
      <3>1. CASE m = master
        BY <1>1, <1>2, <1>3, <1>6, <1>7, <3>1 DEF OwnedLive
      <3>2. CASE m # master
        <4>1. handles'[m] = handles[m] /\ m \in DOMAIN handles \ {master}
          BY <1>2, <3>2
        <4>2. /\ {m, handles[m].block} \subseteq DOMAIN allocations
              /\ block \notin {m, handles[m].block} /\ new \notin {m, handles[m].block}
          BY <1>4, <4>1
        <4>3. /\ allocations'[m] = allocations[m]
              /\ allocations'[handles[m].block] = allocations[handles[m].block]
              /\ {m, handles[m].block} \subseteq DOMAIN allocations'
          BY <4>2
        <4>4. /\ allocations[m] = Word /\ handles[m].filled <= handles[m].size
              /\ allocations[handles[m].block] = Amount(handles[m].size)
          BY <1>1, <4>1 DEF OwnedLive
        <4> QED BY <4>1, <4>3, <4>4
      <3> QED BY <3>1, <3>2
    <2>2. ASSUME NEW h \in DOMAIN cwHandles'
          PROVE  /\ {h, cwHandles'[h].block} \subseteq DOMAIN allocations'
                 /\ allocations'[h] = 2 * Word
                 /\ allocations'[cwHandles'[h].block] = Amount(cwHandles'[h].size)
      BY ZenonT(40), <1>1, <1>5 DEF OwnedLive
    <2> QED BY <2>1, <2>2 DEF OwnedLive
  <1>9. OwnersApart'
    <2>1. ASSUME NEW m \in DOMAIN handles', NEW n \in DOMAIN handles'
          PROVE  /\ m # handles'[n].block
                 /\ m # n => handles'[m].block # handles'[n].block
      BY <1>1, <1>2, <1>4, <1>6 DEF OwnersApart
    <2>2. ASSUME NEW m \in DOMAIN handles', NEW h \in DOMAIN cwHandles'
          PROVE  {m, handles'[m].block} \intersect {h, cwHandles'[h].block} = {}
      BY <1>1, <1>2, <1>5 DEF OwnersApart
    <2>3. \A g, h \in DOMAIN cwHandles' :
            /\ g # cwHandles'[h].block
            /\ g # h => cwHandles'[g].block # cwHandles'[h].block
      BY <1>1 DEF OwnersApart
    <2> QED BY <2>1, <2>2, <2>3 DEF OwnersApart
  <1>10. Kept'
    <2>1. ASSUME NEW m \in DOMAIN handles \ {master} PROVE HandleKept(m)'
      BY <1>1, <1>2, <1>3, <1>4, HandleStays DEF Kept
    <2>2. ASSUME NEW h \in DOMAIN cwHandles PROVE CWHandleKept(h)'
      BY <1>1, <1>3, <1>5, CWHandleStays DEF Kept
    <2> QED BY <1>2, <2>1, <2>2 DEF Kept
  <1>11. NobodysBlocks'
    <2>1. (Owned \ {block}) \union {new} \subseteq Owned'
      BY <1>2 DEF Owned, HandleBlocks, CWHandleBlocks
    <2> QED BY <1>1, <2>1 DEF NobodysBlocks
  <1>12. HeldLocked'
    BY <1>1, <1>2 DEF HeldLocked
  <1>13. MemoryTypes'
    BY <1>1, <1>2 DEF MemoryTypes
  <1>14. HeldStoreReadsOwner'
    BY DEF HeldStoreReadsOwner
  <1> QED BY <1>8, <1>9, <1>10, <1>11, <1>12, <1>13, <1>14 DEF MemoryInv, Structure

LEMMA SizeInPlaceKeeps ==
    ASSUME MemoryInv, NEW master \in DOMAIN handles, NEW size \in Nat,
           SizeInPlace(master, size), UNCHANGED <<cwHandles, phase>>, stored' = {}
    PROVE  MemoryInv'
  <1> DEFINE block == handles[master].block
             amount == Amount(size)
             old == allocations[block]
  <1>1. Structure /\ Kept /\ MemoryTypes /\ OwnedLive /\ OwnersApart
    BY DEF MemoryInv, Structure
  <1>2. /\ amount <= old \/ Place!Room(allocations, block + old, amount - old)
        /\ allocations' = Put(allocations, block, amount)
        /\ memory' = Fill(Fill(memory, Bytes(block + amount, old - amount), Stale),
                          Bytes(master, Word), Pointer(block))
        /\ Resized(master, block, size) /\ UNCHANGED attached
    BY DEF SizeInPlace
  <1>3. /\ amount \in Nat \ {0} /\ size <= amount
        /\ block \in DOMAIN allocations /\ master \in DOMAIN allocations /\ block # master
        /\ allocations[master] = Word
        /\ block \in Addresses /\ block \in Nat /\ old \in Nat \ {0}
        /\ block + old <= Limit /\ Limit \in Nat
    <2>1. /\ block \in DOMAIN allocations /\ master \in DOMAIN allocations
          /\ block # master /\ allocations[master] = Word
      BY <1>1 DEF OwnedLive, OwnersApart
    <2>2. amount \in Nat \ {0} /\ size <= amount
      BY AmountIs
    <2>3. block \in Addresses /\ block \in Nat /\ old \in Nat \ {0}
      BY <1>1, <2>1, BlockBytes DEF MemoryTypes
    <2>4. block + old <= Limit /\ Limit \in Nat
      BY <1>1, <2>1, RangeAssumption DEF MemoryTypes, RangeMap, Limit
    <2> QED BY <2>1, <2>2, <2>3, <2>4
  <1> HIDE DEF amount, old, block
  <1>4. /\ block + amount <= Limit
        /\ \A b \in Addresses :
              Within(b, block, amount) /\ ~Within(b, block, old)
                => ~Covers(allocations, b)
    <2>1. CASE amount <= old
      BY <1>3, <2>1, RangeAssumption DEF Within, Addresses, Limit
    <2>2. CASE Place!Room(allocations, block + old, amount - old)
      <3>1. /\ block + old + (amount - old) <= Limit
            /\ \A b \in block + old .. block + old + (amount - old) - 1 :
                  ~Covers(allocations, b)
        BY <2>2, SamePlace
      <3> QED BY <1>3, <3>1, RangeAssumption DEF Within, Addresses, Limit
    <2> QED BY <1>2, <2>1, <2>2
  <1>5. RangeMap(allocations') /\ Apart(allocations')
    <2>1. RangeMap(allocations) /\ Apart(allocations)
      BY <1>1 DEF MemoryTypes
    <2>2. ASSUME NEW s \in DOMAIN allocations \ {block}, NEW b \in Addresses,
                 Within(b, block, amount), Within(b, s, allocations[s])
          PROVE  FALSE
      <3>1. Within(b, block, old)
        BY <1>4, <2>2 DEF Covers
      <3>2. /\ s \in Nat /\ allocations[s] \in Nat /\ b \in Nat
            /\ s + allocations[s] <= block \/ block + old <= s
        BY <1>3, <2>1, BlockBytes, RangeAssumption
           DEF Apart, Addresses, Limit, old
      <3> QED BY <1>3, <2>2, <3>1, <3>2 DEF Within
    <2> QED BY <1>2, <1>3, <1>4, <2>1, <2>2, PutApart
  <1>6. /\ DOMAIN allocations' = (DOMAIN allocations \ {block}) \union {block}
        /\ allocations'[block] = amount
        /\ \A s \in DOMAIN allocations \ {block} :
              s # block => allocations'[s] = allocations[s]
    BY <1>2, <1>3 DEF Put
  <1>7. \A b \in Addresses :
           memory'[b] = IF b \in Bytes(master, Word) THEN Pointer(block)
                        ELSE IF b \in Bytes(block + amount, old - amount) THEN Stale
                        ELSE memory[b]
    BY <1>2, FillIs
  <1>8. Bytes(block + amount, old - amount) \subseteq Bytes(block, old)
    BY <1>3 DEF Bytes
  <1>9. Writes({block, master})
    BY <1>3, <1>7, <1>8 DEF Writes, old
  <1>10. HandleKept(master)'
    <2>1. /\ handles'[master].block = block
          /\ handles'[master].filled = Least(handles[master].filled, size)
      BY <1>1, <1>2, <1>3, ResizedIs
    <2>2. /\ handles[master].filled \in Nat
          /\ Bytes(block, handles[master].filled) \subseteq Bytes(block, old)
          /\ \A b \in Bytes(block, handles[master].filled) : memory[b] = Data(master)
      BY <1>1, HandleBytes DEF MemoryTypes, Kept, HandleKept, block, old
    <2>3. Bytes(block, old) \intersect Bytes(master, Word) = {}
      BY <1>1, <1>3, BlocksShareNothing DEF MemoryTypes, old
    <2>4. /\ \A b \in Bytes(master, Word) : b \in Addresses
          /\ \A b \in Bytes(block, old) : b \in Addresses
      BY <1>1, <1>3, BlockBytes DEF MemoryTypes, old
    <2>5. /\ Bytes(block, Least(handles[master].filled, size))
               \subseteq Bytes(block, handles[master].filled)
          /\ Bytes(block, Least(handles[master].filled, size))
               \intersect Bytes(block + amount, old - amount) = {}
      BY <1>3, <2>2 DEF Bytes, Least
    <2>6. \A b \in Bytes(master, Word) : memory'[b] = Pointer(block)
      BY <1>7, <2>4
    <2>7. \A b \in Bytes(block, Least(handles[master].filled, size)) :
             memory'[b] = Data(master)
      BY <1>7, <2>2, <2>3, <2>4, <2>5
    <2> QED BY <2>1, <2>6, <2>7 DEF HandleKept
  <1> QED BY <1>2, <1>3, <1>5, <1>6, <1>9, <1>10, HandleChanges DEF block, amount

LEMMA CopyIs ==
    ASSUME NEW mem, NEW from, NEW to, NEW n, NEW b \in Addresses
    PROVE  Copy(mem, from, to, n)[b] = IF b \in Bytes(to, n) THEN mem[b - to + from]
                                       ELSE mem[b]
  BY DEF Copy

LEMMA SizeByMovingKeeps ==
    ASSUME MemoryInv, NEW master \in DOMAIN handles, NEW size \in Nat,
           SizeByMoving(master, size), UNCHANGED <<cwHandles, phase>>, stored' = {}
    PROVE  MemoryInv'
  <1> DEFINE block == handles[master].block
             amount == Amount(size)
             old == allocations[block]
  <1>1. Structure /\ Kept /\ MemoryTypes /\ OwnedLive /\ OwnersApart
    BY DEF MemoryInv, Structure
  <1>2. PICK new \in Addresses :
           /\ Place!FirstFit(allocations, new, amount, DefaultAlign)
           /\ allocations' = Drop(Put(allocations, new, amount), {block})
           /\ memory' = Fill(Release(Copy(memory, block, new, Least(old, amount)),
                                     allocations, block),
                             Bytes(master, Word), Pointer(new))
           /\ Resized(master, new, size)
    BY DEF SizeByMoving
  <1>3. ~handles[master].locked /\ amount > old /\ UNCHANGED attached
    BY DEF SizeByMoving
  <1>4. /\ amount \in Nat \ {0} /\ size <= amount
        /\ block \in DOMAIN allocations /\ master \in DOMAIN allocations /\ block # master
        /\ allocations[master] = Word
        /\ block \in Nat /\ old \in Nat \ {0} /\ new \in Nat
    <2>1. /\ block \in DOMAIN allocations /\ master \in DOMAIN allocations
          /\ block # master /\ allocations[master] = Word
      BY <1>1 DEF OwnedLive, OwnersApart
    <2>2. amount \in Nat \ {0} /\ size <= amount
      BY AmountIs
    <2>3. block \in Nat /\ old \in Nat \ {0}
      BY <1>1, <2>1, BlockBytes DEF MemoryTypes
    <2>4. new \in Nat
      BY RangeAssumption DEF Addresses, Limit
    <2> QED BY <2>1, <2>2, <2>3, <2>4
  <1> HIDE DEF amount, old, block
  <1>5. /\ new \notin DOMAIN allocations
        /\ RangeMap(Put(allocations, new, amount)) /\ Apart(Put(allocations, new, amount))
        /\ \A b \in Bytes(new, amount) : b \in Addresses /\ ~Covers(allocations, b)
    BY <1>1, <1>2, <1>4, SamePlace, FreshBlock DEF MemoryTypes
  <1>6. RangeMap(allocations') /\ Apart(allocations')
    BY <1>2, <1>5, DropRanges
  <1>7. /\ DOMAIN allocations' = (DOMAIN allocations \ {block}) \union {new}
        /\ allocations'[new] = amount
        /\ \A s \in DOMAIN allocations \ {block} :
              s # new => allocations'[s] = allocations[s]
    BY <1>2, <1>4, <1>5 DEF Put, Drop
  <1>8. \A b \in Addresses :
           memory'[b] = IF b \in Bytes(master, Word) THEN Pointer(new)
                        ELSE IF b \in Bytes(block, old) THEN Stale
                        ELSE IF b \in Bytes(new, old) THEN memory[b - new + block]
                        ELSE memory[b]
    <2>1. Least(old, amount) = old
      BY <1>3, <1>4 DEF Least
    <2> QED BY <1>2, <2>1, FillIs, CopyIs DEF Release, old
  <1>9. Bytes(new, old) \subseteq Bytes(new, amount)
    BY <1>3, <1>4 DEF Bytes
  <1>10. Writes({block, master})
    BY <1>4, <1>5, <1>8, <1>9 DEF Writes, old
  <1>11. HandleKept(master)'
    <2>1. /\ handles'[master].block = new
          /\ handles'[master].filled = Least(handles[master].filled, size)
      BY <1>1, <1>2, ResizedIs
    <2>2. /\ handles[master].filled \in Nat
          /\ Bytes(block, handles[master].filled) \subseteq Bytes(block, old)
          /\ \A b \in Bytes(block, handles[master].filled) : memory[b] = Data(master)
      BY <1>1, HandleBytes DEF MemoryTypes, Kept, HandleKept, block, old
    <2>3. /\ \A b \in Bytes(master, Word) : b \in Addresses /\ Covers(allocations, b)
          /\ \A b \in Bytes(block, old) : Covers(allocations, b)
      BY <1>1, <1>4, BlockBytes DEF MemoryTypes, old
    <2>4. \A b \in Bytes(master, Word) : memory'[b] = Pointer(new)
      BY <1>8, <2>3
    <2>5. ASSUME NEW b \in Bytes(new, Least(handles[master].filled, size))
          PROVE  memory'[b] = Data(master)
      <3>1. /\ b \in Bytes(new, handles[master].filled)
            /\ b - new + block \in Bytes(block, handles[master].filled)
        BY <1>4, <2>2 DEF Bytes, Least
      <3>2. handles[master].filled <= old
        BY <1>1, AmountIs DEF MemoryTypes, OwnedLive, block, old
      <3>3. b \in Bytes(new, old)
        BY <1>4, <2>2, <3>1, <3>2 DEF Bytes
      <3>4. b \in Addresses /\ b \notin Bytes(master, Word) /\ b \notin Bytes(block, old)
        BY <1>5, <1>9, <2>3, <3>3
      <3> QED BY <1>8, <2>2, <3>1, <3>3, <3>4
    <2> QED BY <2>1, <2>4, <2>5 DEF HandleKept
  <1>12. new # block
    BY <1>4, <1>5
  <1> QED BY <1>2, <1>3, <1>5, <1>6, <1>7, <1>10, <1>11, HandleChanges DEF block, amount

LEMMA SetHandleSizeKeeps ==
    ASSUME MemoryInv, NEW master \in DOMAIN handles, NEW size \in Sizes,
           SetHandleSize(master, size)
    PROVE  MemoryInv'
  <1>1. size \in Nat /\ stored' = {} /\ cwHandles' = cwHandles
    BY RangeAssumption DEF SetHandleSize
  <1>2. CASE SizeInPlace(master, size) /\ UNCHANGED phase
    BY <1>1, <1>2, SizeInPlaceKeeps
  <1>3. CASE SizeByMoving(master, size) /\ UNCHANGED phase
    BY <1>1, <1>3, SizeByMovingKeeps
  <1>4. CASE SizeRefused(master, size)
    <2>1. Raise /\ UNCHANGED <<allocations, memory, handles>>
      BY <1>4 DEF SizeRefused
    <2> QED BY <1>1, <2>1, RaiseKeeps DEF MemoryInv, Structure, MemoryTypes
  <1> QED BY <1>2, <1>3, <1>4 DEF SetHandleSize

-----------------------------------------------------------------------------
(* The theorems *)

LEMMA MemoryInit == Init => MemoryInv
  <1> SUFFICES ASSUME Init PROVE MemoryInv
    OBVIOUS
  <1>1. /\ DOMAIN allocations = {} /\ DOMAIN handles = {} /\ DOMAIN cwHandles = {}
        /\ DOMAIN attached = {} /\ stored = {} /\ phase = "idle"
        /\ allocations = NoRanges /\ handles = NoRanges /\ cwHandles = NoRanges
        /\ attached = NoRanges
    BY DEF Init, NoRanges
  <1>2. MemoryTypes
    BY <1>1 DEF MemoryTypes, RangeMap, Apart, NoRanges
  <1>3. OwnedLive /\ OwnersApart /\ NobodysBlocks /\ HeldLocked /\ Kept
        /\ HeldStoreReadsOwner
    BY <1>1 DEF OwnedLive, OwnersApart, NobodysBlocks, HeldLocked, Kept,
                HeldStoreReadsOwner
  <1> QED BY <1>2, <1>3 DEF MemoryInv, Structure

LEMMA MemoryStep == MemoryInv /\ [Next]_vars => MemoryInv'
  <1> SUFFICES ASSUME MemoryInv, [Next]_vars PROVE MemoryInv'
    OBVIOUS
  <1>1. CASE Request
    BY <1>1, RequestKeeps
  <1>2. CASE EndRequest
    <2>1. /\ phase \in {"guest", "closing"} /\ FreeCW(DOMAIN cwHandles)
          /\ attached' = NoRanges /\ stored' = {} /\ handles' = handles
          /\ phase' = IF phase = "guest" THEN "idle" ELSE "closed"
      BY <1>2 DEF EndRequest, inGuest
    <2> QED BY <2>1, FreeCWKeeps
  <1>3. CASE GuestFails
    BY <1>3, RaiseKeeps DEF GuestFails, MemoryInv, Structure, MemoryTypes
  <1>4. ASSUME NEW size \in Sizes, NewHandle(size) PROVE MemoryInv'
    BY <1>4, NewHandleKeeps
  <1>5. ASSUME NEW size \in PanelSizes, CWGetNamedPreferences(size) PROVE MemoryInv'
    BY <1>5, CWGetKeeps
  <1>6. ASSUME NEW handle \in DOMAIN cwHandles, CWFreeMemHandle(handle) PROVE MemoryInv'
    <2>1. /\ FreeCW({handle}) /\ stored' = {} /\ phase # "idle"
          /\ UNCHANGED <<handles, attached, phase>>
      BY <1>6 DEF CWFreeMemHandle, inGuest
    <2> QED BY <2>1, FreeCWKeeps
  <1>7. ASSUME NEW master \in DOMAIN handles, DisposeHandle(master) PROVE MemoryInv'
    BY <1>7, DisposeHandleKeeps
  <1>8. ASSUME NEW master \in DOMAIN handles, NEW locked \in BOOLEAN,
               SetLock(master, locked)
        PROVE  MemoryInv'
    BY <1>8, SetLockKeeps
  <1>9. ASSUME NEW master \in DOMAIN handles, NEW size \in Sizes,
               SetHandleSize(master, size)
        PROVE  MemoryInv'
    BY <1>9, SetHandleSizeKeeps
  <1>10. ASSUME NEW master \in DOMAIN handles, CWSecretAttachHandle(master)
         PROVE  MemoryInv'
    BY <1>10, AttachHandleKeeps
  <1>11. ASSUME NEW p \in DOMAIN attached, CWStoreObjectData(p) PROVE MemoryInv'
    BY <1>11, StoreObjectDataKeeps
  <1>12. CASE UNCHANGED vars
    <2>1. HeldLocked' /\ HeldStoreReadsOwner'
      BY <1>12 DEF vars, MemoryInv, HeldLocked, HeldStoreReadsOwner
    <2> QED BY <1>12, <2>1, OnlyAttachedChanges
            DEF vars, MemoryInv, Structure, MemoryTypes
  <1> QED BY <1>1, <1>2, <1>3, <1>4, <1>5, <1>6, <1>7, <1>8, <1>9, <1>10, <1>11, <1>12
          DEF Next

\* The inductive invariant holds of every state of a session: what the
\* handles of both kinds name is live and named once, no byte of theirs is
\* written by another's call, and a pointer counts as held only while its
\* Handle is locked where it was (memory.py:131-224, session.py:168-211).
THEOREM MemoryInvariant == Spec => []MemoryInv
  <1> QED BY MemoryInit, MemoryStep, PTL DEF Spec

\* As many blocks as records that name one each.
LEMMA OneBlockEach ==
    ASSUME NEW records, IsFiniteSet(DOMAIN records),
           \A m, n \in DOMAIN records : m # n => records[m].block # records[n].block
    PROVE  LET blocks == {records[m].block : m \in DOMAIN records}
           IN  IsFiniteSet(blocks) /\ Cardinality(blocks) = Cardinality(DOMAIN records)
  <1> DEFINE keys == DOMAIN records
             blocks == {records[m].block : m \in keys}
             f == [m \in keys |-> records[m].block]
  <1>1. f \in [keys -> blocks]
    OBVIOUS
  <1>2. \A m \in keys : f[m] = records[m].block
    OBVIOUS
  <1>3. \A b \in blocks : \E m \in keys : f[m] = b
    OBVIOUS
  <1>4. \A m, n \in keys : f[m] = f[n] => m = n
    BY <1>2
  <1> HIDE DEF f, blocks, keys
  <1>5. f \in Bijection(keys, blocks)
    BY <1>1, <1>3, <1>4 DEF Bijection, Injection, Surjection, IsInjective
  <1>6. ExistsBijection(keys, blocks)
    BY <1>5 DEF ExistsBijection
  <1> QED BY <1>6, FS_Bijection DEF keys, blocks

LEMMA DisjointUnion ==
    ASSUME NEW S, NEW T, IsFiniteSet(S), IsFiniteSet(T), S \intersect T = {}
    PROVE  /\ IsFiniteSet(S \union T)
           /\ Cardinality(S \union T) = Cardinality(S) + Cardinality(T)
  <1>1. Cardinality(S \intersect T) = 0
    BY FS_EmptySet, Zenon
  <1>2. /\ IsFiniteSet(S \union T)
        /\ Cardinality(S \union T) = Cardinality(S) + Cardinality(T)
                                       - Cardinality(S \intersect T)
    BY FS_Union
  <1>3. Cardinality(S) \in Nat /\ Cardinality(T) \in Nat
    BY FS_CardinalityType
  <1> QED BY <1>1, <1>2, <1>3

LEMMA OwnedCount ==
    ASSUME MemoryInv
    PROVE  Cardinality(Owned) = 2 * Cardinality(DOMAIN handles)
                                  + 2 * Cardinality(DOMAIN cwHandles)
  <1>1. MemoryTypes /\ OwnedLive /\ OwnersApart
    BY DEF MemoryInv, Structure
  <1>2. DOMAIN handles \subseteq Addresses /\ DOMAIN cwHandles \subseteq Addresses
    BY <1>1 DEF MemoryTypes, RangeMap, OwnedLive
  <1>3. IsFiniteSet(Addresses)
    BY RangeAssumption, FS_Interval DEF Addresses, Limit
  <1>4. IsFiniteSet(DOMAIN handles) /\ IsFiniteSet(DOMAIN cwHandles)
    BY <1>2, <1>3, FS_Subset
  <1>5. /\ IsFiniteSet(HandleBlocks)
        /\ Cardinality(HandleBlocks) = Cardinality(DOMAIN handles)
    BY <1>1, <1>4, OneBlockEach DEF OwnersApart, HandleBlocks
  <1>6. /\ IsFiniteSet(CWHandleBlocks)
        /\ Cardinality(CWHandleBlocks) = Cardinality(DOMAIN cwHandles)
    BY <1>1, <1>4, OneBlockEach DEF OwnersApart, CWHandleBlocks
  <1> DEFINE one == DOMAIN handles \union HandleBlocks
             two == DOMAIN cwHandles \union CWHandleBlocks
  <1>7. /\ DOMAIN handles \intersect HandleBlocks = {}
        /\ DOMAIN cwHandles \intersect CWHandleBlocks = {}
    BY <1>1 DEF OwnersApart, HandleBlocks, CWHandleBlocks
  <1>8. one \intersect two = {}
    <2>1. ASSUME NEW m \in DOMAIN handles, NEW h \in DOMAIN cwHandles
          PROVE  {m, handles[m].block} \intersect {h, cwHandles[h].block} = {}
      BY <1>1 DEF OwnersApart
    <2>2. ASSUME NEW x \in one PROVE \E m \in DOMAIN handles : x \in {m, handles[m].block}
      BY DEF HandleBlocks
    <2>3. ASSUME NEW x \in two
          PROVE  \E h \in DOMAIN cwHandles : x \in {h, cwHandles[h].block}
      BY DEF CWHandleBlocks
    <2> HIDE DEF one, two
    <2>4. ASSUME NEW x \in one, x \in two PROVE FALSE
      <3>1. PICK m \in DOMAIN handles : x \in {m, handles[m].block}
        BY <2>2
      <3>2. PICK h \in DOMAIN cwHandles : x \in {h, cwHandles[h].block}
        BY <2>3, <2>4
      <3> QED BY <2>1, <3>1, <3>2
    <2> QED BY <2>4
  <1>9. Cardinality(DOMAIN handles) \in Nat /\ Cardinality(DOMAIN cwHandles) \in Nat
    BY <1>4, FS_CardinalityType
  <1>10. IsFiniteSet(one) /\ Cardinality(one) = 2 * Cardinality(DOMAIN handles)
    <2>1. /\ IsFiniteSet(one)
          /\ Cardinality(one) = Cardinality(DOMAIN handles) + Cardinality(HandleBlocks)
      BY <1>4, <1>5, <1>7, DisjointUnion
    <2> HIDE DEF one
    <2> QED BY <1>5, <1>9, <2>1
  <1>11. IsFiniteSet(two) /\ Cardinality(two) = 2 * Cardinality(DOMAIN cwHandles)
    <2>1. /\ IsFiniteSet(two)
          /\ Cardinality(two) = Cardinality(DOMAIN cwHandles) + Cardinality(CWHandleBlocks)
      BY <1>4, <1>6, <1>7, DisjointUnion
    <2> HIDE DEF two
    <2> QED BY <1>6, <1>9, <2>1
  <1>12. Owned = one \union two
    BY DEF Owned
  <1> HIDE DEF one, two
  <1>13. Cardinality(one \union two) = Cardinality(one) + Cardinality(two)
    BY <1>8, <1>10, <1>11, DisjointUnion
  <1> QED BY <1>10, <1>11, <1>12, <1>13

\* Every block a handle names is live, named once and of the length asked
\* for, and nobody's block is live before a callback failed
\* (memory.py:184-204, session.py:168-211).
THEOREM BlocksOwnedOnce == Spec => []OwnedOnce
  <1>1. MemoryInv => OwnedOnce
    <2> SUFFICES ASSUME MemoryInv PROVE OwnedOnce
      OBVIOUS
    <2>1. OwnedLive /\ NobodysBlocks
      BY DEF MemoryInv, Structure
    <2>2. Owned \subseteq DOMAIN allocations
      BY <2>1 DEF OwnedLive, Owned, HandleBlocks, CWHandleBlocks
    <2>3. \A m \in DOMAIN handles :
             allocations[handles[m].block] = Amount(handles[m].size)
      BY <2>1 DEF OwnedLive
    <2> QED BY <2>1, <2>2, <2>3, OwnedCount DEF OwnedOnce, NobodysBlocks
  <1> QED BY <1>1, MemoryInvariant, PTL

\* The words the host wrote at a master pointer and in a CWMemHandle stay:
\* the checks that they were not modified never fire on a guest that keeps
\* to its blocks (memory.py:239, session.py:184).
THEOREM NoHeaderModified == Spec => []HeadersIntact
  <1>1. MemoryInv => HeadersIntact
    BY DEF MemoryInv, Kept, HandleKept, CWHandleKept, HeadersIntact
  <1> QED BY <1>1, MemoryInvariant, PTL

\* No call changes the bytes of another's Handle or CWMemHandle, and a resize
\* keeps those both sizes have, moved or not (memory.py:131-146, 206-219).
THEOREM NoContentsLost == Spec => []ContentsKept
  <1>1. MemoryInv => ContentsKept
    BY DEF MemoryInv, Kept, HandleKept, CWHandleKept, ContentsKept
  <1> QED BY <1>1, MemoryInvariant, PTL

\* A request leaves no CWMemHandle and no block of one in the heap
\* (session.py:208-211, 485).
THEOREM NothingLeftBetween == Spec => []BetweenRequests
  <1>1. MemoryInv => BetweenRequests
    <2> SUFFICES ASSUME MemoryInv, phase = "idle"
                 PROVE  DOMAIN allocations = DOMAIN handles \union HandleBlocks
      BY DEF BetweenRequests
    <2>1. OwnedLive /\ DOMAIN allocations \subseteq Owned /\ DOMAIN cwHandles = {}
      BY DEF MemoryInv, Structure, NobodysBlocks
    <2>2. DOMAIN handles \union HandleBlocks \subseteq DOMAIN allocations
      BY <2>1 DEF OwnedLive, HandleBlocks
    <2>3. Owned = DOMAIN handles \union HandleBlocks
      BY <2>1 DEF Owned, CWHandleBlocks
    <2> QED BY <2>1, <2>2, <2>3
  <1> QED BY <1>1, MemoryInvariant, PTL

\* The object saved through a pointer whose Handle stayed locked is the
\* Handle's own bytes, all of them (pluginlib.py:425-440, 467-482).
THEOREM StoreReadsItsOwner == Spec => []HeldStoreReadsOwner
  <1>1. MemoryInv => HeldStoreReadsOwner
    BY DEF MemoryInv
  <1> QED BY <1>1, MemoryInvariant, PTL

\* Handles change only by the calls on them.
LEMMA LockedStays ==
    ASSUME MemoryInv, [Next]_vars, NEW m \in DOMAIN handles \intersect DOMAIN handles',
           handles[m].locked, handles'[m].locked
    PROVE  handles'[m].block = handles[m].block
  <1>1. Structure /\ MemoryTypes /\ OwnedLive
    BY DEF MemoryInv, Structure
  <1>2. CASE UNCHANGED handles
    BY <1>2
  <1>3. ASSUME NEW size \in Sizes, NewHandle(size)
        PROVE  handles'[m].block = handles[m].block
    <2>1. CASE UNCHANGED handles
      BY <2>1
    <2>2. ASSUME NEW p \in Addresses, NEW q \in Addresses, NEW record,
                 Place!Room(allocations, p, Amount(size)),
                 Place!Room(Put(allocations, p, Amount(size)), q, Amount(Word)),
                 handles' = Put(handles, q, record),
                 allocations' = Put(Put(allocations, p, Amount(size)), q, Amount(Word))
          PROVE  handles'[m].block = handles[m].block
      <3>1. Amount(size) \in Nat \ {0} /\ Amount(Word) \in Nat \ {0}
        BY AmountIs, RangeAssumption, MemoryAssumption
      <3>2. {p, q} \intersect DOMAIN allocations = {}
        BY <1>1, <2>2, <3>1, TwoFreshBlocks
      <3>3. q \notin DOMAIN handles
        BY <1>1, <3>2 DEF OwnedLive
      <3> QED BY <2>2, <3>3 DEF Put
    <2> QED BY <1>3, <2>1, <2>2, NewHandleTakes
  <1>4. ASSUME NEW master \in DOMAIN handles, DisposeHandle(master)
        PROVE  handles'[m].block = handles[m].block
    BY <1>4 DEF DisposeHandle, Drop
  <1>5. ASSUME NEW master \in DOMAIN handles, NEW locked, SetLock(master, locked)
        PROVE  handles'[m].block = handles[m].block
    BY <1>1, <1>5 DEF SetLock, MemoryTypes
  <1>6. ASSUME NEW master \in DOMAIN handles, NEW size \in Sizes,
               SetHandleSize(master, size)
        PROVE  handles'[m].block = handles[m].block
    <2>1. size \in Nat
      BY RangeAssumption
    <2>2. CASE SizeInPlace(master, size)
      <3>1. Resized(master, handles[master].block, size)
            /\ handles[master].block \in Addresses
        BY <1>1, <2>2 DEF SizeInPlace, MemoryTypes
      <3> QED BY <1>1, <2>1, <3>1, ResizedIs
    <2>3. CASE SizeByMoving(master, size)
      <3>1. PICK new \in Addresses : Resized(master, new, size)
        BY <2>3 DEF SizeByMoving
      <3>2. ~handles[master].locked
        BY <2>3 DEF SizeByMoving
      <3> QED BY <1>1, <2>1, <3>1, <3>2, ResizedIs
    <2>4. CASE SizeRefused(master, size)
      BY <2>4 DEF SizeRefused
    <2> QED BY <1>6, <2>2, <2>3, <2>4 DEF SetHandleSize
  <1>7. CASE Request
    BY <1>7 DEF Request
  <1>8. CASE EndRequest
    BY <1>8 DEF EndRequest
  <1>9. CASE GuestFails
    BY <1>9 DEF GuestFails
  <1>10. ASSUME NEW size \in PanelSizes, CWGetNamedPreferences(size)
         PROVE  handles'[m].block = handles[m].block
    BY <1>10, CWGetTakes
  <1>11. ASSUME NEW handle \in DOMAIN cwHandles, CWFreeMemHandle(handle)
         PROVE  handles'[m].block = handles[m].block
    BY <1>11 DEF CWFreeMemHandle
  <1>12. ASSUME NEW master \in DOMAIN handles, CWSecretAttachHandle(master)
         PROVE  handles'[m].block = handles[m].block
    BY <1>12 DEF CWSecretAttachHandle
  <1>13. ASSUME NEW p \in DOMAIN attached, CWStoreObjectData(p)
         PROVE  handles'[m].block = handles[m].block
    BY <1>13 DEF CWStoreObjectData
  <1>14. CASE UNCHANGED vars
    BY <1>14 DEF vars
  <1> QED BY <1>3, <1>4, <1>5, <1>6, <1>7, <1>8, <1>9, <1>10, <1>11, <1>12, <1>13, <1>14
          DEF Next

\* A Handle that is locked before and after a call has not moved
\* (memory.py:206-224).
THEOREM LockedBlocksDoNotMove == Spec => LockedBlocksStay
  <1>1. MemoryInv /\ [Next]_vars =>
           [\A m \in DOMAIN handles \intersect DOMAIN handles' :
               handles[m].locked /\ handles'[m].locked
                 => handles'[m].block = handles[m].block]_vars
    BY LockedStays
  <1> QED BY <1>1, MemoryInvariant, PTL DEF Spec, LockedBlocksStay
=============================================================================
