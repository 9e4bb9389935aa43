----------------------------- MODULE LoadProofs -----------------------------
(***************************************************************************)
(* Theorems about the loader (Load), for any fragment, of any number of    *)
(* sections, imports and relocation headers, and any trap slots.  The      *)
(* first part is about packed data (Pidata, PackedFormat): whatever        *)
(* operations a section is packed into, of any counts, its expansion gives *)
(* back the bytes they stand for.  The second is about relocation streams  *)
(* (Relocations): with its repeats written out a stream that succeeds      *)
(* stands for the same operations.                                         *)
(***************************************************************************)
EXTENDS Load, FiniteSetTheorems, SequenceTheorems, WellFoundedInduction, TLAPS

-----------------------------------------------------------------------------
(* Induction *)

LEMMA LeastOf ==
    ASSUME NEW S \in SUBSET Nat, S # {}
    PROVE  \E n \in S : \A m \in S : n <= m
  <1>1. \E n \in S : \A m \in S : ~(<<m, n>> \in OpToRel(<, Nat))
    BY WFMin, NatLessThanWellFounded
  <1>2. \A m, n \in Nat : <<m, n>> \notin OpToRel(<, Nat) => n <= m
    BY DEF OpToRel
  <1> QED BY <1>1, <1>2

\* Induction up to N, for a set in the place of a predicate.
LEMMA UpTo ==
    ASSUME NEW N \in Nat, NEW S, 0 \in S,
           \A n \in 1 .. N : n - 1 \in S => n \in S
    PROVE  \A n \in 0 .. N : n \in S
  <1> DEFINE B == {n \in 0 .. N : n \notin S}
  <1>1. B \in SUBSET Nat
    OBVIOUS
  <1> SUFFICES ASSUME B # {}
               PROVE  FALSE
    OBVIOUS
  <1>2. PICK n \in B : \A m \in B : n <= m
    BY <1>1, LeastOf
  <1>3. n \in 1 .. N /\ n - 1 \in 0 .. N /\ ~(n <= n - 1)
    BY <1>2
  <1>4. n - 1 \in S
    BY <1>2, <1>3
  <1> QED BY <1>2, <1>3, <1>4

\* The same from all smaller numbers.
LEMMA FromSmaller ==
    ASSUME NEW N \in Nat, NEW S,
           \A n \in 0 .. N : (\A m \in 0 .. n - 1 : m \in S) => n \in S
    PROVE  \A n \in 0 .. N : n \in S
  <1> DEFINE B == {n \in 0 .. N : n \notin S}
  <1>1. B \in SUBSET Nat
    OBVIOUS
  <1> SUFFICES ASSUME B # {}
               PROVE  FALSE
    OBVIOUS
  <1>2. PICK n \in B : \A m \in B : n <= m
    BY <1>1, LeastOf
  <1>3. n \in 0 .. N /\ n \notin S
    BY <1>2
  <1>4. ASSUME NEW m \in 0 .. n - 1
        PROVE  m \in S
    <2>1. m \in 0 .. N /\ ~(n <= m)
      BY <1>3
    <2> QED BY <1>2, <2>1
  <1> QED BY <1>3, <1>4

LEMMA MinOfTwo ==
    ASSUME NEW a \in Int, NEW b \in Int, a <= b
    PROVE  Min({a, b}) = a
  <1>1. \A x \in {a, b} : (\A y \in {a, b} : x <= y) => x = a
    OBVIOUS
  <1>2. a \in {a, b} /\ \A y \in {a, b} : a <= y
    OBVIOUS
  <1>3. Min({a, b}) \in {a, b} /\ \A y \in {a, b} : Min({a, b}) <= y
    BY <1>2, Zenon DEF Min
  <1> QED BY <1>1, <1>3

-----------------------------------------------------------------------------
(* Sequences joined *)

\* What FlattenSeq has joined after each sequence.
LEMMA Flattened ==
    ASSUME NEW T, NEW seqs \in Seq(Seq(T))
    PROVE  \E g : /\ g \in [0 .. Len(seqs) -> Seq(T)]
                  /\ g[0] = << >>
                  /\ \A i \in 1 .. Len(seqs) : g[i] = g[i - 1] \o seqs[i]
                  /\ FlattenSeq(seqs) = g[Len(seqs)]
  <1> DEFINE N == Len(seqs)
             Joined(f, k) == /\ f \in [0 .. k -> Seq(T)]
                             /\ f[0] = << >>
                             /\ \A i \in 1 .. k : f[i] = f[i - 1] \o seqs[i]
  <1>1. N \in Nat /\ \A i \in 1 .. N : seqs[i] \in Seq(T)
    OBVIOUS
  <1>2. << >> \in Seq(T)
    OBVIOUS
  <1>3. \A s \in Seq(T) : << >> \o s = s
    OBVIOUS
  <1>4. \A s, t \in Seq(T) : s \o t \in Seq(T)
    OBVIOUS
  <1> HIDE DEF N
  <1>5. \E f : Joined(f, N)
    <2> DEFINE S == {k \in 0 .. N : \E f : Joined(f, k)}
    <2>1. 0 \in S
      <3> DEFINE none == [i \in 0 .. 0 |-> << >>]
      <3>1. Joined(none, 0)
        BY <1>2
      <3> HIDE DEF none
      <3>2. 0 \in 0 .. N
        BY <1>1
      <3> QED BY <3>1, <3>2
    <2>2. ASSUME NEW k \in 1 .. N, k - 1 \in S
          PROVE  k \in S
      <3>1. PICK f : Joined(f, k - 1)
        BY <2>2
      <3> DEFINE last == f[k - 1] \o seqs[k]
                 g == [i \in 0 .. k |-> IF i = k THEN last ELSE f[i]]
      <3>2. /\ k \in Nat /\ k # 0 /\ k - 1 \in 0 .. k - 1
            /\ \A i \in 0 .. k : i = k \/ i \in 0 .. k - 1
            /\ \A i \in 1 .. k : i - 1 \in 0 .. k /\ i - 1 # k
        BY <1>1
      <3>3. last \in Seq(T)
        BY <1>1, <1>4, <3>1, <3>2
      <3> HIDE DEF last
      <3>4. g[k] = last /\ \A i \in 0 .. k - 1 : g[i] = f[i]
        BY <3>2
      <3>5. g \in [0 .. k -> Seq(T)]
        BY <3>1, <3>2, <3>3
      <3> HIDE DEF g
      <3>6. g[0] = << >>
        BY <3>1, <3>2, <3>4
      <3>7. \A i \in 1 .. k : g[i] = g[i - 1] \o seqs[i]
        <4> TAKE i \in 1 .. k
        <4>1. CASE i = k
          BY <3>2, <3>4, <4>1 DEF last
        <4>2. CASE i # k
          <5>1. i \in 1 .. k - 1 /\ i \in 0 .. k - 1 /\ i - 1 \in 0 .. k - 1
            BY <3>2, <4>2
          <5> QED BY <3>1, <3>4, <5>1
        <4> QED BY <4>1, <4>2
      <3>8. Joined(g, k)
        BY <3>5, <3>6, <3>7
      <3>9. k \in 0 .. N
        BY <1>1
      <3> QED BY <3>8, <3>9
    <2> HIDE DEF S
    <2>3. \A k \in 0 .. N : k \in S
      BY <1>1, <2>1, <2>2, UpTo
    <2>4. N \in S
      BY <1>1, <2>3
    <2> QED BY <2>4 DEF S
  <1>6. PICK g : Joined(g, N)
    BY <1>5
  <1>7. CASE N = 0
    <2>1. seqs = << >>
      BY <1>7 DEF N
    <2>2. FlattenSeq(seqs) = seqs
      BY <1>7 DEF FlattenSeq, N
    <2> QED BY <1>6, <1>7, <2>1, <2>2 DEF N
  <1>8. CASE N # 0
    <2> DEFINE Flat(f) == f = [i \in 1 .. N |-> IF i = 1 THEN seqs[i]
                                                ELSE f[i - 1] \o seqs[i]]
               own == [i \in 1 .. N |-> g[i]]
               flat == CHOOSE f : Flat(f)
    <2>1. FlattenSeq(seqs) = flat[N]
      BY <1>8 DEF FlattenSeq, N
    <2>2. \A i \in 1 .. N : g[i] = IF i = 1 THEN seqs[i] ELSE g[i - 1] \o seqs[i]
      <3> TAKE i \in 1 .. N
      <3>1. g[i] = g[i - 1] \o seqs[i]
        BY <1>6
      <3>2. i = 1 => g[i - 1] = << >>
        BY <1>6
      <3>3. << >> \o seqs[i] = seqs[i]
        BY <1>1, <1>3
      <3> QED BY <3>1, <3>2, <3>3
    <2>3. Flat(own)
      <3>1. \A i \in 1 .. N : i # 1 => i - 1 \in 1 .. N
        BY <1>1
      <3> QED BY <2>2, <3>1
    <2>4. Flat(flat)
      BY <2>3, Zenon
    <2> HIDE DEF flat
    <2> DEFINE S == {0} \union {i \in 1 .. N : flat[i] = g[i]}
    <2>5. ASSUME NEW i \in 1 .. N, i - 1 \in S
          PROVE  i \in S
      <3>1. CASE i = 1
        BY <2>2, <2>4, <3>1
      <3>2. CASE i # 1
        <4>1. i - 1 \in 1 .. N /\ i - 1 # 0
          BY <1>1, <3>2
        <4>2. flat[i - 1] = g[i - 1]
          BY <2>5, <4>1
        <4>3. flat[i] = flat[i - 1] \o seqs[i]
          BY <2>4, <3>2
        <4>4. g[i] = g[i - 1] \o seqs[i]
          BY <2>2, <3>2
        <4> QED BY <4>2, <4>3, <4>4
      <3> QED BY <3>1, <3>2
    <2> HIDE DEF S
    <2>6. 0 \in S
      BY DEF S
    <2>7. \A i \in 0 .. N : i \in S
      BY <1>1, <2>5, <2>6, UpTo
    <2>8. N \in S
      BY <1>1, <2>7
    <2>9. flat[N] = g[N]
      BY <1>1, <1>8, <2>8 DEF S
    <2> QED BY <1>6, <2>1, <2>9 DEF N
  <1> QED BY <1>7, <1>8

-----------------------------------------------------------------------------
(* Reading a stream *)

\* The stream has the bytes of s from position p on.
Held(packed, p, s) ==
    /\ p + Len(s) - 1 <= Len(packed)
    /\ \A j \in 1 .. Len(s) : packed[p + j - 1] = s[j]

LEMMA HeldParts ==
    ASSUME NEW packed \in Bytes, NEW p \in Nat \ {0}, NEW a \in Bytes, NEW b \in Bytes,
           Held(packed, p, a \o b)
    PROVE  /\ Held(packed, p, a) /\ Held(packed, p + Len(a), b)
           /\ p + Len(a) \in Nat \ {0} /\ Len(a \o b) = Len(a) + Len(b)
           /\ a \o b \in Bytes
  <1> DEFINE c == a \o b
             m == Len(a)
             n == Len(b)
  <1>1. /\ m \in Nat /\ n \in Nat /\ Len(c) = m + n /\ c \in Bytes
        /\ \A j \in 1 .. m : c[j] = a[j]
        /\ \A j \in 1 .. n : c[m + j] = b[j]
    BY ConcatProperties DEF Bytes
  <1> HIDE DEF c, m, n
  <1>2. /\ p + (m + n) - 1 <= Len(packed) /\ Len(packed) \in Nat
        /\ \A j \in 1 .. m + n : packed[p + j - 1] = c[j]
    BY <1>1 DEF Held, c, Bytes
  <1>3. p + m - 1 <= Len(packed) /\ \A j \in 1 .. m : packed[p + j - 1] = a[j]
    BY <1>1, <1>2
  <1>4. ASSUME NEW j \in 1 .. n
        PROVE  packed[(p + m) + j - 1] = b[j]
    <2>1. m + j \in 1 .. m + n /\ (p + m) + j - 1 = p + (m + j) - 1
      BY <1>1
    <2> QED BY <1>1, <1>2, <2>1
  <1>5. (p + m) + n - 1 <= Len(packed) /\ p + m \in Nat \ {0}
    BY <1>1, <1>2
  <1> QED BY <1>1, <1>3, <1>4, <1>5 DEF Held, c, m, n

LEMMA HeldSlice ==
    ASSUME NEW packed \in Bytes, NEW p \in Nat \ {0}, NEW s \in Bytes,
           Held(packed, p, s)
    PROVE  Slice(packed, p, Len(s)) = s
  <1> DEFINE n == Len(s)
             e == p + n - 1
  <1>1. n \in Nat /\ Len(packed) \in Nat /\ e \in Int /\ e <= Len(packed)
        /\ \A j \in 1 .. n : packed[p + j - 1] = s[j]
    BY DEF Held, Bytes
  <1>2. Min({e, Len(packed)}) = e
    BY <1>1, MinOfTwo
  <1>3. Slice(packed, p, n) = SubSeq(packed, p, e)
    BY <1>2 DEF Slice
  <1> HIDE DEF n
  <1>4. SubSeq(packed, p, e) = [j \in 1 .. n |-> packed[p + j - 1]]
    <2>1. e - p + 1 = n
      BY <1>1
    <2>2. SubSeq(packed, p, e) = [j \in 1 .. (e - p + 1) |-> packed[p + j - 1]]
      <3> HIDE DEF e
      <3> QED BY <1>1
    <2> QED BY <2>1, <2>2
  <1>5. s = [j \in 1 .. n |-> s[j]]
    BY DEF n, Bytes
  <1>6. [j \in 1 .. n |-> packed[p + j - 1]] = [j \in 1 .. n |-> s[j]]
    BY <1>1
  <1> QED BY <1>3, <1>4, <1>5, <1>6 DEF n

-----------------------------------------------------------------------------
(* Variable-length integers *)

\* The value of the first i bytes, for each i.
ValueSoFar(value, v) ==
    /\ value[0] = 0
    /\ \A i \in 1 .. Len(v) : value[i] = (value[i - 1] * 128) + (v[i] % 128)

\* All the digits of k, each marked as not the last.
Digits(h, k) ==
    /\ h \in Seq(128 .. 255)
    /\ \A value : ValueSoFar(value, h) => value[Len(h)] = k

LEMMA Base128 ==
    ASSUME NEW k \in Nat
    PROVE  /\ k \div 128 \in Nat /\ k % 128 \in 0 .. 127
           /\ k = (k \div 128) * 128 + (k % 128)
           /\ (128 + (k % 128)) % 128 = k % 128 /\ (k % 128) % 128 = k % 128
           /\ k # 0 => k \div 128 \in 0 .. k - 1
  OBVIOUS

\* One more byte, whether or not it is marked.
LEMMA NextDigit ==
    ASSUME NEW h, NEW k \in Nat, Digits(h, k \div 128),
           NEW byte \in 0 .. 255, byte % 128 = k % 128,
           NEW value, ValueSoFar(value, Append(h, byte))
    PROVE  value[Len(h) + 1] = k
  <1> DEFINE m == Len(h)
             v == Append(h, byte)
  <1>1. /\ m \in Nat /\ Len(v) = m + 1 /\ v[m + 1] = byte
        /\ \A i \in 1 .. m : v[i] = h[i]
    BY DEF Digits
  <1> HIDE DEF v, m
  <1>2. /\ value[0] = 0
        /\ \A i \in 1 .. m + 1 : value[i] = (value[i - 1] * 128) + (v[i] % 128)
    BY <1>1 DEF ValueSoFar, v
  <1>3. \A i \in 1 .. m : value[i] = (value[i - 1] * 128) + (h[i] % 128)
    BY <1>1, <1>2
  <1>4. value[m] = k \div 128
    BY <1>2, <1>3 DEF Digits, ValueSoFar, m
  <1>5. value[m + 1] = (value[m] * 128) + (byte % 128)
    <2>1. m + 1 \in 1 .. m + 1 /\ (m + 1) - 1 = m
      BY <1>1
    <2> QED BY <1>1, <1>2, <2>1
  <1> QED BY <1>4, <1>5, Base128 DEF m

LEMMA DigitsEnd ==
    ASSUME NEW h, NEW k \in Nat, Digits(h, k \div 128),
           NEW value, ValueSoFar(value, Append(h, k % 128))
    PROVE  value[Len(h) + 1] = k
  <1>1. k % 128 \in 0 .. 255 /\ (k % 128) % 128 = k % 128
    BY Base128
  <1> DEFINE byte == k % 128
  <1>2. byte \in 0 .. 255 /\ byte % 128 = k % 128 /\ ValueSoFar(value, Append(h, byte))
    BY <1>1
  <1> HIDE DEF byte
  <1> QED BY <1>2, NextDigit

LEMMA VarintDigits ==
    ASSUME NEW n \in Nat
    PROVE  \E h : Digits(h, n \div 128) /\ Varint(n) = Append(h, n % 128)
  <1> DEFINE High(f, N) == f = [k \in 0 .. N |-> IF k = 0 THEN << >>
                                    ELSE Append(f[k \div 128], 128 + (k % 128))]
             high == CHOOSE f : High(f, n)
  <1>1. \E f : High(f, n)
    <2> DEFINE S == {k \in 0 .. n : \E f : High(f, k)}
    <2>1. 0 \in S
      <3> DEFINE none == [k \in 0 .. 0 |-> << >>]
      <3>1. High(none, 0)
        OBVIOUS
      <3> HIDE DEF none
      <3>2. 0 \in 0 .. n
        OBVIOUS
      <3> QED BY <3>1, <3>2
    <2>2. ASSUME NEW k \in 1 .. n, k - 1 \in S
          PROVE  k \in S
      <3>1. PICK f : High(f, k - 1)
        BY <2>2
      <3> DEFINE last == Append(f[k \div 128], 128 + (k % 128))
                 g == [i \in 0 .. k |-> IF i = k THEN last ELSE f[i]]
      <3> HIDE DEF last
      <3>2. k # 0 /\ \A i \in 0 .. k : i = k \/ i \in 0 .. k - 1
        OBVIOUS
      <3>3. g[k] = last /\ \A i \in 0 .. k - 1 : g[i] = f[i]
        BY <3>2
      <3>4. \A i \in 0 .. k - 1 :
               f[i] = IF i = 0 THEN << >> ELSE Append(f[i \div 128], 128 + (i % 128))
        BY <3>1
      <3>5. \A i \in 0 .. k : i # 0 => i \div 128 \in 0 .. i - 1 /\ i \div 128 \in 0 .. k - 1
        BY Base128
      <3> HIDE DEF g
      <3>6. \A i \in 0 .. k :
               g[i] = IF i = 0 THEN << >> ELSE Append(g[i \div 128], 128 + (i % 128))
        <4> TAKE i \in 0 .. k
        <4>1. i # 0 => g[i \div 128] = f[i \div 128]
          BY <3>3, <3>5
        <4>2. CASE i = k
          BY <3>2, <3>3, <4>1, <4>2 DEF last
        <4>3. CASE i \in 0 .. k - 1
          BY <3>3, <3>4, <4>1, <4>3
        <4> QED BY <3>2, <4>2, <4>3
      <3>7. High(g, k)
        BY <3>6 DEF g
      <3>8. k \in 0 .. n
        OBVIOUS
      <3> HIDE DEF High
      <3> QED BY <3>7, <3>8
    <2> HIDE DEF S
    <2>3. \A k \in 0 .. n : k \in S
      BY <2>1, <2>2, UpTo
    <2>4. n \in S
      BY <2>3
    <2> QED BY <2>4 DEF S
  <1>2. High(high, n)
    BY <1>1, Zenon
  <1>3. Varint(n) = Append(high[n \div 128], n % 128)
    BY DEF Varint
  <1> HIDE DEF high
  <1>4. /\ high[0] = << >>
        /\ \A k \in 1 .. n : high[k] = Append(high[k \div 128], 128 + (k % 128))
    <2>1. \A k \in 0 .. n : high[k] = IF k = 0 THEN << >>
                             ELSE Append(high[k \div 128], 128 + (k % 128))
      BY <1>2
    <2>2. 0 \in 0 .. n /\ \A k \in 1 .. n : k \in 0 .. n /\ k # 0
      OBVIOUS
    <2> QED BY <2>1, <2>2
  <1> DEFINE S == {k \in 0 .. n : Digits(high[k], k)}
  <1>5. ASSUME NEW k \in 0 .. n, \A m \in 0 .. k - 1 : m \in S
        PROVE  k \in S
    <2>1. CASE k = 0
      <3>1. Digits(<< >>, 0)
        BY DEF Digits, ValueSoFar
      <3> QED BY <1>4, <2>1, <3>1
    <2>2. CASE k # 0
      <3> DEFINE h == high[k \div 128]
      <3>1. k \div 128 \in 0 .. k - 1
        BY <2>2, Base128
      <3>2. Digits(h, k \div 128)
        BY <1>5, <3>1
      <3>3. high[k] = Append(h, 128 + (k % 128))
        <4>1. k \in 1 .. n
          BY <2>2
        <4> QED BY <1>4, <4>1
      <3> HIDE DEF h
      <3>4. 128 + (k % 128) \in 128 .. 255 /\ (128 + (k % 128)) % 128 = k % 128
        <4>1. k \in Nat
          OBVIOUS
        <4>2. k % 128 \in 0 .. 127 /\ (128 + (k % 128)) % 128 = k % 128
          BY <4>1, Base128
        <4>3. \A x \in 0 .. 127 : 128 + x \in 128 .. 255
          OBVIOUS
        <4> QED BY <4>2, <4>3
      <3> DEFINE byte == 128 + (k % 128)
      <3> HIDE DEF byte
      <3>5. byte \in 128 .. 255 /\ byte \in 0 .. 255 /\ byte % 128 = k % 128
        BY <3>4 DEF byte
      <3>6. Append(h, byte) \in Seq(128 .. 255) /\ Len(Append(h, byte)) = Len(h) + 1
        BY <3>2, <3>5 DEF Digits
      <3>7. \A value : ValueSoFar(value, Append(h, byte)) => value[Len(h) + 1] = k
        <4> SUFFICES ASSUME NEW value, ValueSoFar(value, Append(h, byte))
                     PROVE  value[Len(h) + 1] = k
          OBVIOUS
        <4>1. k \in Nat
          OBVIOUS
        <4> QED BY <3>2, <3>5, <4>1, NextDigit
      <3>8. Digits(Append(h, byte), k)
        BY <3>6, <3>7 DEF Digits
      <3> QED BY <3>3, <3>8 DEF byte
    <2> QED BY <2>1, <2>2
  <1> HIDE DEF S
  <1>6. \A k \in 0 .. n : k \in S
    BY <1>5, FromSmaller
  <1>7. n \div 128 \in 0 .. n
    BY Base128
  <1>8. Digits(high[n \div 128], n \div 128)
    BY <1>6, <1>7 DEF S
  <1> QED BY <1>3, <1>8

\* A varint in the stream ends where it does and has its value.
LEMMA VarintHeld ==
    ASSUME NEW packed \in Bytes, NEW p \in Nat \ {0}, NEW n \in Nat,
           Held(packed, p, Varint(n))
    PROVE  /\ VarintEnd(packed, p) = p + Len(Varint(n)) - 1
           /\ VarintValue(packed, p) = n
           /\ Varint(n) \in Bytes /\ Len(Varint(n)) \in Nat \ {0}
  <1>1. PICK h : Digits(h, n \div 128) /\ Varint(n) = Append(h, n % 128)
    BY VarintDigits
  <1> DEFINE v == Varint(n)
             m == Len(h)
             e == p + m
  <1>2. n % 128 \in 0 .. 127 /\ (n % 128) % 128 = n % 128
    BY Base128
  <1>3. /\ m \in Nat /\ Len(v) = m + 1 /\ v[m + 1] = n % 128
        /\ \A i \in 1 .. m : v[i] \in 128 .. 255
    <2> DEFINE last == n % 128
    <2>1. h \in Seq(128 .. 255) /\ v = Append(h, last)
      BY <1>1 DEF Digits
    <2> HIDE DEF last, v
    <2>2. Len(v) = m + 1 /\ v[m + 1] = last /\ m \in Nat /\ \A i \in 1 .. m : v[i] = h[i]
      BY <2>1
    <2>3. \A i \in 1 .. m : h[i] \in 128 .. 255
      BY <2>1, ElementOfSeq
    <2> QED BY <2>2, <2>3, Zenon DEF last
  <1>4. v \in Bytes
    <2>1. h \in Seq(0 .. 255)
      BY <1>1 DEF Digits
    <2> QED BY <1>1, <1>2, <2>1 DEF Bytes
  <1> HIDE DEF v, m
  <1>5. /\ e \in Nat /\ e <= Len(packed) /\ Len(packed) \in Nat
        /\ \A j \in 1 .. m + 1 : packed[p + j - 1] = v[j]
    <2>1. Held(packed, p, v) /\ packed \in Seq(0 .. 255)
      BY DEF v, Bytes
    <2>2. p + (m + 1) - 1 <= Len(packed) /\ \A j \in 1 .. m + 1 : packed[p + j - 1] = v[j]
      BY <1>3, <2>1 DEF Held
    <2>3. Len(packed) \in Nat
      BY <2>1
    <2> QED BY <1>3, <2>2, <2>3
  <1>6. packed[e] = n % 128 /\ packed[e] < 128
    <2>1. m + 1 \in 1 .. m + 1 /\ p + (m + 1) - 1 = e
      BY <1>3
    <2>2. packed[e] = v[m + 1]
      BY <1>5, <2>1
    <2> QED BY <1>2, <1>3, <2>2
  <1>7. ASSUME NEW i \in p .. e - 1
        PROVE  ~(packed[i] < 128)
    <2>1. i - p + 1 \in 1 .. m /\ i - p + 1 \in 1 .. m + 1 /\ p + (i - p + 1) - 1 = i
      BY <1>3
    <2>2. packed[i] = v[i - p + 1]
      BY <1>5, <2>1
    <2>3. packed[i] \in 128 .. 255
      BY <1>3, <2>1, <2>2
    <2> QED BY <2>3
  <1> HIDE DEF e
  <1>8. VarintEnd(packed, p) = e
    <2> DEFINE ends == {i \in p .. Len(packed) : packed[i] < 128}
    <2>1. e \in ends
      BY <1>3, <1>5, <1>6 DEF e
    <2>2. \A i \in ends : e <= i
      <3> TAKE i \in ends
      <3>1. i \in Nat /\ p <= i
        BY <1>5
      <3>2. i \in p .. e - 1 \/ e <= i
        BY <1>5, <3>1
      <3> QED BY <1>7, <3>2
    <2>3. \A i \in ends : (\A j \in ends : i <= j) => i = e
      BY <1>5, <2>1, <2>2
    <2>4. ends # {}
      BY <2>1
    <2>5. VarintEnd(packed, p) = Min(ends)
      BY <2>4 DEF VarintEnd
    <2> HIDE DEF ends
    <2>6. Min(ends) \in ends /\ \A j \in ends : Min(ends) <= j
      BY <2>1, <2>2, Zenon DEF Min
    <2> QED BY <2>3, <2>5, <2>6
  <1> DEFINE N == m + 1
             Value(f, k) == f = [i \in 0 .. k |-> IF i = 0 THEN 0
                                   ELSE (f[i - 1] * 128) + (packed[p + i - 1] % 128)]
             value == CHOOSE f : Value(f, N)
  <1>9. VarintValue(packed, p) = value[N]
    <2>1. VarintEnd(packed, p) - p + 1 = N
      BY <1>3, <1>8 DEF e
    <2> QED BY <2>1 DEF VarintValue
  <1>10. N \in Nat
    BY <1>3
  <1> HIDE DEF N
  <1>11. \E f : Value(f, N)
    <2> DEFINE S == {k \in 0 .. N : \E f : Value(f, k)}
    <2>1. 0 \in S
      <3> DEFINE none == [i \in 0 .. 0 |-> 0]
      <3>1. Value(none, 0)
        OBVIOUS
      <3> HIDE DEF none
      <3>2. 0 \in 0 .. N
        BY <1>10
      <3> QED BY <3>1, <3>2
    <2>2. ASSUME NEW k \in 1 .. N, k - 1 \in S
          PROVE  k \in S
      <3>1. PICK f : Value(f, k - 1)
        BY <2>2
      <3> DEFINE last == (f[k - 1] * 128) + (packed[p + k - 1] % 128)
                 g == [i \in 0 .. k |-> IF i = k THEN last ELSE f[i]]
      <3> HIDE DEF last
      <3>2. k # 0 /\ k \in 0 .. N /\ \A i \in 0 .. k : i = k \/ i \in 0 .. k - 1
        BY <1>10
      <3>3. g[k] = last /\ \A i \in 0 .. k - 1 : g[i] = f[i]
        BY <3>2
      <3>4. \A i \in 0 .. k - 1 :
               f[i] = IF i = 0 THEN 0
                      ELSE (f[i - 1] * 128) + (packed[p + i - 1] % 128)
        BY <3>1
      <3> HIDE DEF g
      <3>5. \A i \in 0 .. k :
               g[i] = IF i = 0 THEN 0
                      ELSE (g[i - 1] * 128) + (packed[p + i - 1] % 128)
        <4> TAKE i \in 0 .. k
        <4>1. i # 0 => i - 1 \in 0 .. k - 1
          BY <3>2
        <4>2. i # 0 => g[i - 1] = f[i - 1]
          BY <3>3, <4>1
        <4>3. CASE i = k
          BY <3>2, <3>3, <4>2, <4>3 DEF last
        <4>4. CASE i \in 0 .. k - 1
          BY <3>3, <3>4, <4>2, <4>4
        <4> QED BY <3>2, <4>3, <4>4
      <3>6. Value(g, k)
        BY <3>5 DEF g
      <3> QED BY <3>2, <3>6
    <2> HIDE DEF S
    <2>3. \A k \in 0 .. N : k \in S
      BY <1>10, <2>1, <2>2, UpTo
    <2>4. N \in S
      BY <1>10, <2>3
    <2> QED BY <2>4 DEF S
  <1>12. Value(value, N)
    BY <1>11, Zenon
  <1> HIDE DEF value
  <1>13. ValueSoFar(value, v)
    <2>1. value[0] = 0
      BY <1>10, <1>12
    <2>2. ASSUME NEW i \in 1 .. m + 1
          PROVE  value[i] = (value[i - 1] * 128) + (v[i] % 128)
      <3>1. i \in 0 .. N /\ i # 0
        BY <1>3 DEF N
      <3>2. value[i] = (value[i - 1] * 128) + (packed[p + i - 1] % 128)
        BY <1>12, <3>1
      <3> QED BY <1>5, <3>2
    <2> QED BY <1>3, <2>1, <2>2 DEF ValueSoFar
  <1>14. value[N] = n
    <2>1. ValueSoFar(value, Append(h, n % 128))
      BY <1>1, <1>13 DEF v
    <2>2. value[Len(h) + 1] = n
      BY <1>1, <2>1, DigitsEnd, Zenon
    <2> QED BY <2>2 DEF N, m
  <1>15. Len(v) \in Nat \ {0} /\ e = p + Len(v) - 1
    BY <1>3 DEF e
  <1> QED BY <1>4, <1>8, <1>9, <1>14, <1>15 DEF v

-----------------------------------------------------------------------------
(* Reading the integers of an operation *)

Reading(s, at, out, args) ==
    /\ DOMAIN s = {"at", "out", "args", "ok"}
    /\ s.ok /\ s.at = at /\ s.out = out /\ s.args = args

LEMMA Changed ==
    ASSUME NEW s, NEW at, NEW out, NEW args, Reading(s, at, out, args),
           NEW p, NEW new, NEW ints
    PROVE  /\ Reading([s EXCEPT !.at = p, !.args = ints], p, out, ints)
           /\ Reading([s EXCEPT !.args = ints, !.at = p], p, out, ints)
           /\ Reading([s EXCEPT !.args = ints], at, out, ints)
           /\ Reading([s EXCEPT !.out = new, !.at = p], p, new, args)
           /\ Reading([s EXCEPT !.out = new], at, new, args)
  BY DEF Reading

LEMMA VarintRead ==
    ASSUME NEW packed \in Bytes, NEW p \in Nat \ {0}, NEW n \in Nat,
           Held(packed, p, Varint(n)), NEW out, NEW args,
           NEW s, Reading(s, p, out, args)
    PROVE  Reading(ReadVarint(s, packed), p + Len(Varint(n)), out, Append(args, n))
  <1> DEFINE m == Len(Varint(n))
             q == p + m
             ints == Append(args, n)
  <1>1. VarintEnd(packed, p) = p + m - 1 /\ VarintValue(packed, p) = n /\ m \in Nat \ {0}
    BY VarintHeld
  <1> HIDE DEF m
  <1>2. VarintEnd(packed, p) # 0 /\ VarintEnd(packed, p) + 1 = q
    BY <1>1
  <1> HIDE DEF q
  <1>3. s.ok /\ s.at = p /\ s.args = args
    BY DEF Reading
  <1>4. ReadVarint(s, packed) = [s EXCEPT !.args = ints, !.at = q]
    BY <1>1, <1>2, <1>3 DEF ReadVarint
  <1> HIDE DEF ints
  <1>5. Reading([s EXCEPT !.args = ints, !.at = q], q, out, ints)
    BY Changed
  <1> QED BY <1>4, <1>5 DEF ints, q, m

LEMMA JoinedBytes ==
    ASSUME NEW a \in Bytes, NEW b \in Bytes
    PROVE  /\ a \o b \in Bytes /\ Len(a \o b) = Len(a) + Len(b)
           /\ Len(a) \in Nat /\ Len(b) \in Nat
  BY ConcatProperties DEF Bytes

LEMMA Opcodes ==
    ASSUME NEW opcode \in 0 .. 4, NEW n \in 0 .. 31
    PROVE  /\ 32 * opcode + n \in 0 .. 255
           /\ (32 * opcode + n) \div 32 = opcode /\ (32 * opcode + n) % 32 = n
  OBVIOUS

LEMMA VarintBytes ==
    ASSUME NEW n \in Nat
    PROVE  Varint(n) \in Bytes /\ Len(Varint(n)) \in Nat \ {0}
  <1>1. PICK h : Digits(h, n \div 128) /\ Varint(n) = Append(h, n % 128)
    BY VarintDigits
  <1> DEFINE last == n % 128
  <1>2. h \in Seq(0 .. 255) /\ last \in 0 .. 255 /\ Varint(n) = Append(h, last)
    BY <1>1, Base128 DEF Digits
  <1> HIDE DEF last
  <1> QED BY <1>2 DEF Bytes

\* The first byte of an operation, and the count if it is not in it.
Byte(opcode, n) == IF n \in 1 .. 31 THEN 32 * opcode + n ELSE 32 * opcode
More(n) == IF n \in 1 .. 31 THEN << >> ELSE Varint(n)

LEMMA FirstIs ==
    ASSUME NEW opcode, NEW n
    PROVE  First(opcode, n) = <<Byte(opcode, n)>> \o More(n)
  <1>1. CASE n \in 1 .. 31
    <2> DEFINE byte == 32 * opcode + n
    <2>1. First(opcode, n) = <<byte>> /\ Byte(opcode, n) = byte /\ More(n) = << >>
      BY <1>1 DEF First, Byte, More
    <2> HIDE DEF byte
    <2>2. <<byte>> \o << >> = <<byte>>
      OBVIOUS
    <2> QED BY <2>1, <2>2
  <1>2. CASE n \notin 1 .. 31
    BY <1>2 DEF First, Byte, More
  <1> QED BY <1>1, <1>2

LEMMA ByteIs ==
    ASSUME NEW n \in Nat, NEW opcode \in 0 .. 4
    PROVE  /\ Byte(opcode, n) \in 0 .. 255 /\ Byte(opcode, n) \div 32 = opcode
           /\ n \in 1 .. 31 => Byte(opcode, n) % 32 = n
           /\ n \notin 1 .. 31 => Byte(opcode, n) % 32 = 0
  <1>1. CASE n \in 1 .. 31
    <2> DEFINE byte == 32 * opcode + n
    <2>1. byte \in 0 .. 255 /\ byte \div 32 = opcode /\ byte % 32 = n
      BY <1>1, Opcodes
    <2> HIDE DEF byte
    <2> QED BY <1>1, <2>1 DEF byte, Byte
  <1>2. CASE n \notin 1 .. 31
    <2>1. /\ 32 * opcode \in 0 .. 255 /\ (32 * opcode) \div 32 = opcode
          /\ (32 * opcode) % 32 = 0
      BY Opcodes
    <2> QED BY <1>2, <2>1 DEF Byte
  <1> QED BY <1>1, <1>2

LEMMA MoreBytes ==
    ASSUME NEW n \in Nat
    PROVE  More(n) \in Bytes
  <1>1. << >> \in Bytes
    BY DEF Bytes
  <1> QED BY <1>1, VarintBytes DEF More

LEMMA CountRead ==
    ASSUME NEW packed \in Bytes, NEW p \in Nat \ {0}, NEW n \in Nat, NEW opcode \in 0 .. 4,
           NEW rest \in Bytes, Held(packed, p, First(opcode, n) \o rest),
           NEW out, NEW args, NEW s, Reading(s, p, out, args)
    PROVE  /\ First(opcode, n) \in Bytes /\ Len(First(opcode, n)) \in Nat \ {0}
           /\ packed[p] \div 32 = opcode /\ p <= Len(packed)
           /\ p + Len(First(opcode, n)) \in Nat \ {0}
           /\ Held(packed, p + Len(First(opcode, n)), rest)
           /\ Reading(ReadCount(s, packed), p + Len(First(opcode, n)), out, <<n>>)
  <1> DEFINE first == First(opcode, n)
             small == n \in 1 .. 31
             more == More(n)
             byte == Byte(opcode, n)
             one == <<byte>>
  <1>1. /\ first = one \o more /\ more \in Bytes
        /\ byte \in 0 .. 255 /\ byte \div 32 = opcode
        /\ small => byte % 32 = n
        /\ ~small => byte % 32 = 0
    <2>1. first = one \o more
      BY FirstIs
    <2>2. more \in Bytes
      BY MoreBytes
    <2>3. byte \in 0 .. 255 /\ byte \div 32 = opcode
      BY ByteIs
    <2>4. small => byte % 32 = n
      BY ByteIs
    <2>5. ~small => byte % 32 = 0
      BY ByteIs
    <2> QED BY <2>1, <2>2, <2>3, <2>4, <2>5
  <1>2. small => more = << >>
    BY DEF More
  <1>3. ~small => more = Varint(n)
    BY DEF More
  <1>4. small => n # 0
    OBVIOUS
  <1>5. Held(packed, p, first \o rest)
    OBVIOUS
  <1> HIDE DEF first, more, byte, small
  <1>6. one \in Bytes /\ Len(one) = 1 /\ one[1] = byte
    BY <1>1 DEF Bytes
  <1> HIDE DEF one
  <1>7. first \in Bytes /\ Len(first) = 1 + Len(more) /\ Len(more) \in Nat
    <2>1. /\ Len(one \o more) = Len(one) + Len(more) /\ one \o more \in Bytes
          /\ Len(more) \in Nat
      BY <1>1, <1>6, JoinedBytes
    <2> QED BY <1>1, <1>6, <2>1
  <1>8. Held(packed, p, first) /\ Held(packed, p + Len(first), rest) /\ p + Len(first) \in Nat \ {0}
    BY <1>5, <1>7, HeldParts
  <1>9. Held(packed, p, one) /\ Held(packed, p + 1, more) /\ p + 1 \in Nat \ {0}
    <2>1. Held(packed, p, one \o more)
      BY <1>1, <1>8
    <2>2. Held(packed, p, one) /\ Held(packed, p + Len(one), more)
      BY <1>1, <1>6, <2>1, HeldParts
    <2> QED BY <1>6, <2>2
  <1>10. packed[p] = byte /\ p <= Len(packed)
    <2>1. p + 1 - 1 <= Len(packed) /\ packed[p + 1 - 1] = one[1]
      BY <1>6, <1>9 DEF Held
    <2>2. p + 1 - 1 = p
      OBVIOUS
    <2> QED BY <1>6, <2>1, <2>2
  <1>11. s.at = p /\ s.args = args
    BY DEF Reading
  <1>12. p + Len(first) = (p + 1) + Len(more)
    BY <1>7
  <1>13. Reading(ReadCount(s, packed), p + Len(first), out, <<n>>)
    <2>1. CASE small
      <3>1. ReadCount(s, packed) = [s EXCEPT !.at = p + 1, !.args = <<n>>]
        BY <1>1, <1>4, <1>10, <1>11, <2>1 DEF ReadCount
      <3>2. Reading([s EXCEPT !.at = p + 1, !.args = <<n>>], p + 1, out, <<n>>)
        BY Changed
      <3>3. p + Len(first) = p + 1
        BY <1>2, <1>7, <2>1
      <3> QED BY <3>1, <3>2, <3>3
    <2>2. CASE ~small
      <3> DEFINE t == [s EXCEPT !.at = p + 1, !.args = << >>]
      <3>1. ReadCount(s, packed) = ReadVarint(t, packed)
        BY <1>1, <1>10, <1>11, <2>2 DEF ReadCount
      <3>2. Reading(t, p + 1, out, << >>)
        BY Changed
      <3> HIDE DEF t
      <3>3. Held(packed, p + 1, Varint(n))
        BY <1>3, <1>9, <2>2
      <3>4. Reading(ReadVarint(t, packed), (p + 1) + Len(Varint(n)), out, Append(<< >>, n))
        BY <1>9, <3>2, <3>3, VarintRead
      <3>5. Append(<< >>, n) = <<n>>
        OBVIOUS
      <3> QED BY <1>3, <1>12, <2>2, <3>1, <3>4, <3>5
    <2> QED BY <2>1, <2>2
  <1> QED BY <1>1, <1>7, <1>8, <1>10, <1>13 DEF first

-----------------------------------------------------------------------------
(* Sequences of bytes in the stream, one after the other *)

\* What has been joined after each of them.
JoinedParts(g, seqs) ==
    /\ g \in [0 .. Len(seqs) -> Bytes] /\ g[0] = << >>
    /\ \A i \in 1 .. Len(seqs) : g[i] = g[i - 1] \o seqs[i]

LEMMA JoinedInTurn ==
    ASSUME NEW seqs \in Seq(Bytes)
    PROVE  \E g : JoinedParts(g, seqs) /\ FlattenSeq(seqs) = g[Len(seqs)]
  <1> DEFINE T == 0 .. 255
  <1>1. seqs \in Seq(Seq(T)) /\ Bytes = Seq(T)
    BY DEF Bytes
  <1> HIDE DEF T
  <1>2. PICK g : /\ g \in [0 .. Len(seqs) -> Seq(T)]
                 /\ g[0] = << >>
                 /\ \A i \in 1 .. Len(seqs) : g[i] = g[i - 1] \o seqs[i]
                 /\ FlattenSeq(seqs) = g[Len(seqs)]
    BY <1>1, Flattened
  <1> QED BY <1>1, <1>2 DEF JoinedParts

LEMMA PrefixLengths ==
    ASSUME NEW seqs \in Seq(Bytes), NEW g, JoinedParts(g, seqs), NEW i \in 1 .. Len(seqs)
    PROVE  /\ g[i - 1] \in Bytes /\ g[i] \in Bytes /\ seqs[i] \in Bytes
           /\ Len(g[i - 1]) \in Nat /\ Len(seqs[i]) \in Nat
           /\ Len(g[i]) = Len(g[i - 1]) + Len(seqs[i])
           /\ g[i] = g[i - 1] \o seqs[i]
  <1>1. i - 1 \in 0 .. Len(seqs) /\ i \in 0 .. Len(seqs)
    OBVIOUS
  <1>2. g[i - 1] \in Bytes /\ g[i] \in Bytes /\ g[i] = g[i - 1] \o seqs[i]
    BY <1>1 DEF JoinedParts
  <1>3. seqs[i] \in Bytes
    OBVIOUS
  <1> QED BY <1>2, <1>3, JoinedBytes

LEMMA HeldInTurn ==
    ASSUME NEW packed \in Bytes, NEW q \in Nat \ {0}, NEW seqs \in Seq(Bytes),
           NEW g, JoinedParts(g, seqs), Held(packed, q, g[Len(seqs)]),
           NEW i \in 1 .. Len(seqs)
    PROVE  /\ Held(packed, q + Len(g[i - 1]), seqs[i])
           /\ q + Len(g[i - 1]) \in Nat \ {0}
  <1> DEFINE N == Len(seqs)
             S == {k \in 0 .. N : Held(packed, q, g[N - k])}
  <1>1. N \in Nat
    OBVIOUS
  <1>2. \A j \in 1 .. N : Held(packed, q, g[j]) =>
           /\ Held(packed, q, g[j - 1]) /\ Held(packed, q + Len(g[j - 1]), seqs[j])
           /\ q + Len(g[j - 1]) \in Nat \ {0}
    <2> TAKE j \in 1 .. N
    <2>1. g[j - 1] \in Bytes /\ seqs[j] \in Bytes /\ g[j] = g[j - 1] \o seqs[j]
      BY PrefixLengths
    <2> HAVE Held(packed, q, g[j])
    <2>2. Held(packed, q, g[j - 1] \o seqs[j])
      BY <2>1
    <2> QED BY <2>1, <2>2, HeldParts
  <1>3. Held(packed, q, g[N])
    OBVIOUS
  <1>4. i \in 1 .. N
    OBVIOUS
  <1> HIDE DEF N
  <1>5. 0 \in S
    <2>1. N - 0 = N /\ 0 \in 0 .. N
      BY <1>1
    <2> QED BY <1>3, <2>1
  <1>6. ASSUME NEW k \in 1 .. N, k - 1 \in S
        PROVE  k \in S
    <2>1. N - (k - 1) \in 1 .. N /\ (N - (k - 1)) - 1 = N - k /\ k \in 0 .. N
      BY <1>1
    <2> QED BY <1>2, <1>6, <2>1
  <1> HIDE DEF S
  <1>7. \A k \in 0 .. N : k \in S
    BY <1>1, <1>5, <1>6, UpTo
  <1>8. N - i \in 0 .. N /\ N - (N - i) = i
    BY <1>1, <1>4
  <1>9. Held(packed, q, g[i])
    BY <1>7, <1>8 DEF S
  <1> QED BY <1>2, <1>4, <1>9

-----------------------------------------------------------------------------
(* Interleaved data *)

LEMMA Multiples ==
    ASSUME NEW i \in Nat \ {0}, NEW size \in Nat
    PROVE  /\ (i - 1) * size \in Nat /\ (i - 1) * size + size = i * size
           /\ i * size = size * i /\ 0 * size = 0
  OBVIOUS

LEMMA BlockAt ==
    ASSUME NEW packed \in Bytes, NEW q \in Nat \ {0}, NEW size \in Nat,
           NEW custom \in Seq(Bytes), \A i \in 1 .. Len(custom) : Len(custom[i]) = size,
           Held(packed, q, FlattenSeq(custom))
    PROVE  /\ \A i \in 1 .. Len(custom) : Slice(packed, q + (i - 1) * size, size) = custom[i]
           /\ Len(FlattenSeq(custom)) = size * Len(custom)
  <1> DEFINE N == Len(custom)
  <1>1. PICK g : JoinedParts(g, custom) /\ FlattenSeq(custom) = g[Len(custom)]
    BY JoinedInTurn
  <1>2. N \in Nat
    OBVIOUS
  <1>3. \A i \in 1 .. N : Len(g[i - 1]) \in Nat /\ Len(g[i]) = Len(g[i - 1]) + size
    <2> TAKE i \in 1 .. N
    <2>1. Len(g[i - 1]) \in Nat /\ Len(g[i]) = Len(g[i - 1]) + Len(custom[i])
      BY <1>1, PrefixLengths
    <2> QED BY <2>1
  <1>4. \A i \in 1 .. N : /\ Held(packed, q + Len(g[i - 1]), custom[i])
                          /\ q + Len(g[i - 1]) \in Nat \ {0}
    BY <1>1, HeldInTurn
  <1>5. \A i \in 1 .. N : Len(custom[i]) = size /\ custom[i] \in Bytes
    OBVIOUS
  <1>6. g[0] = << >> /\ FlattenSeq(custom) = g[N]
    BY <1>1 DEF JoinedParts
  <1> DEFINE S == {k \in 0 .. N : Len(g[k]) = k * size}
  <1> HIDE DEF N
  <1>7. 0 \in S
    <2>1. 0 \in 0 .. N /\ 0 * size = 0 /\ Len(<< >>) = 0
      BY <1>2
    <2> QED BY <1>6, <2>1
  <1>8. ASSUME NEW k \in 1 .. N, k - 1 \in S
        PROVE  k \in S
    <2>1. k \in Nat \ {0} /\ k \in 0 .. N
      BY <1>2
    <2>2. Len(g[k]) = (k - 1) * size + size
      BY <1>3, <1>8
    <2>3. (k - 1) * size + size = k * size
      BY <2>1, Multiples
    <2> QED BY <2>1, <2>2, <2>3
  <1> HIDE DEF S
  <1>9. \A k \in 0 .. N : k \in S
    BY <1>2, <1>7, <1>8, UpTo
  <1>10. ASSUME NEW i \in 1 .. N
         PROVE  Slice(packed, q + (i - 1) * size, size) = custom[i]
    <2>1. i - 1 \in 0 .. N
      BY <1>2
    <2>2. Len(g[i - 1]) = (i - 1) * size
      BY <1>9, <2>1 DEF S
    <2>3. Slice(packed, q + Len(g[i - 1]), Len(custom[i])) = custom[i]
      BY <1>4, <1>5, HeldSlice
    <2> QED BY <1>5, <2>2, <2>3
  <1>11. Len(FlattenSeq(custom)) = size * N
    <2>1. N \in S
      BY <1>2, <1>9
    <2>2. Len(g[N]) = N * size
      BY <2>1 DEF S
    <2>3. N * size = size * N
      BY <1>2
    <2> QED BY <1>6, <2>2, <2>3
  <1> QED BY <1>10, <1>11 DEF N

LEMMA WovenRead ==
    ASSUME NEW packed \in Bytes, NEW q \in Nat \ {0}, NEW size \in Nat,
           NEW custom \in Seq(Bytes), \A i \in 1 .. Len(custom) : Len(custom[i]) = size,
           Held(packed, q, FlattenSeq(custom)), NEW common
    PROVE  Interleaved(packed, common, size, Len(custom), q) = Woven(common, custom)
  <1> DEFINE read == [i \in 1 .. Len(custom) |->
                         common \o Slice(packed, q + (i - 1) * size, size)]
             meant == [i \in DOMAIN custom |-> common \o custom[i]]
  <1>1. \A i \in 1 .. Len(custom) : Slice(packed, q + (i - 1) * size, size) = custom[i]
    BY BlockAt
  <1>2. DOMAIN custom = 1 .. Len(custom)
    OBVIOUS
  <1>3. read = meant
    BY <1>1, <1>2
  <1>4. Interleaved(packed, common, size, Len(custom), q) = FlattenSeq(read) \o common
    BY DEF Interleaved
  <1>5. Woven(common, custom) = FlattenSeq(meant) \o common
    BY DEF Woven
  <1> QED BY <1>3, <1>4, <1>5

LEMMA PairAppended ==
    ASSUME NEW n \in Nat, NEW m \in Nat
    PROVE  Append(<<n>>, m) = <<n, m>>
  <1> DEFINE a == Append(<<n>>, m)
             b == <<n, m>>
  <1>1. <<n>> \in Seq(Nat) /\ b \in Seq(Nat) /\ Len(<<n>>) = 1 /\ Len(b) = 2
    OBVIOUS
  <1>2. a \in Seq(Nat) /\ Len(a) = 2 /\ a[1] = n /\ a[2] = m
    BY <1>1, AppendProperties
  <1>3. b[1] = n /\ b[2] = m /\ \A i \in 1 .. 2 : i = 1 \/ i = 2
    OBVIOUS
  <1> HIDE DEF a, b
  <1>4. Len(a) = Len(b) /\ \A i \in 1 .. Len(a) : a[i] = b[i]
    BY <1>1, <1>2, <1>3
  <1> QED BY <1>1, <1>2, <1>4, SeqEqual DEF a, b

LEMMA TripleAppended ==
    ASSUME NEW n \in Nat, NEW m \in Nat, NEW k \in Nat
    PROVE  Append(<<n, m>>, k) = <<n, m, k>>
  <1> DEFINE a == Append(<<n, m>>, k)
             b == <<n, m, k>>
  <1>1. /\ <<n, m>> \in Seq(Nat) /\ b \in Seq(Nat) /\ Len(<<n, m>>) = 2 /\ Len(b) = 3
        /\ <<n, m>>[1] = n /\ <<n, m>>[2] = m
    OBVIOUS
  <1>2. a \in Seq(Nat) /\ Len(a) = 3 /\ a[1] = n /\ a[2] = m /\ a[3] = k
    BY <1>1, AppendProperties
  <1>3. b[1] = n /\ b[2] = m /\ b[3] = k /\ \A i \in 1 .. 3 : i = 1 \/ i = 2 \/ i = 3
    OBVIOUS
  <1> HIDE DEF a, b
  <1>4. Len(a) = Len(b) /\ \A i \in 1 .. Len(a) : a[i] = b[i]
    BY <1>1, <1>2, <1>3
  <1> QED BY <1>1, <1>2, <1>4, SeqEqual DEF a, b

-----------------------------------------------------------------------------
(* Operations, whatever they are followed by *)

LEMMA FirstIsBytes ==
    ASSUME NEW n \in Nat, NEW opcode \in 0 .. 4
    PROVE  First(opcode, n) \in Bytes /\ Len(First(opcode, n)) \in Nat \ {0}
  <1> DEFINE byte == Byte(opcode, n)
             more == More(n)
             one == <<byte>>
  <1>1. First(opcode, n) = one \o more
    BY FirstIs
  <1>2. byte \in 0 .. 255
    BY ByteIs
  <1>3. more \in Bytes
    BY MoreBytes
  <1> HIDE DEF byte, more
  <1>4. one \in Bytes /\ Len(one) = 1
    BY <1>2 DEF Bytes
  <1> HIDE DEF one
  <1>5. one \o more \in Bytes /\ Len(one \o more) = 1 + Len(more) /\ Len(more) \in Nat
    BY <1>3, <1>4, JoinedBytes
  <1> QED BY <1>1, <1>5

\* What is read of an operation of this opcode and count, whose integers end
\* where rest begins.
Ready(packed, p, s, out, opcode, q, ints) ==
    /\ p <= Len(packed) /\ packed[p] \div 32 = opcode
    /\ Reading(ReadArgs(s, packed, opcode), q, out, ints)

LEMMA CountAlone ==
    ASSUME NEW packed \in Bytes, NEW p \in Nat \ {0}, NEW n \in Nat, NEW opcode \in 0 .. 4,
           opcode \in {0, 1}, Held(packed, p, First(opcode, n)),
           NEW out, NEW args, NEW s, Reading(s, p, out, args)
    PROVE  Ready(packed, p, s, out, opcode, p + Len(First(opcode, n)), <<n>>)
  <1> DEFINE first == First(opcode, n)
  <1>1. first \in Bytes
    BY FirstIsBytes
  <1>2. << >> \in Bytes /\ first \o << >> = first
    BY <1>1 DEF Bytes
  <1>3. Held(packed, p, first \o << >>)
    BY <1>2
  <1>4. /\ packed[p] \div 32 = opcode /\ p <= Len(packed)
        /\ Reading(ReadCount(s, packed), p + Len(first), out, <<n>>)
    BY <1>2, <1>3, CountRead
  <1>5. ReadArgs(s, packed, opcode) = ReadCount(s, packed)
    BY DEF ReadArgs
  <1> QED BY <1>4, <1>5 DEF Ready

LEMMA CountAndVarint ==
    ASSUME NEW packed \in Bytes, NEW p \in Nat \ {0}, NEW n \in Nat, NEW m \in Nat,
           Held(packed, p, First(2, n) \o Varint(m)),
           NEW out, NEW args, NEW s, Reading(s, p, out, args)
    PROVE  Ready(packed, p, s, out, 2, p + Len(First(2, n) \o Varint(m)), <<n, m>>)
  <1> DEFINE first == First(2, n)
             v == Varint(m)
             q == p + Len(first)
             t == ReadCount(s, packed)
  <1>1. first \in Bytes /\ v \in Bytes /\ 2 \in 0 .. 4
    BY FirstIsBytes, VarintBytes
  <1>2. /\ packed[p] \div 32 = 2 /\ p <= Len(packed) /\ q \in Nat \ {0}
        /\ Held(packed, q, v) /\ Reading(t, q, out, <<n>>)
    <2>1. Held(packed, p, First(2, n) \o v)
      OBVIOUS
    <2> HIDE DEF v
    <2>2. ASSUME NEW opcode \in 0 .. 4, Held(packed, p, First(opcode, n) \o v)
          PROVE  /\ packed[p] \div 32 = opcode /\ p <= Len(packed)
                 /\ p + Len(First(opcode, n)) \in Nat \ {0}
                 /\ Held(packed, p + Len(First(opcode, n)), v)
                 /\ Reading(ReadCount(s, packed), p + Len(First(opcode, n)), out, <<n>>)
      <3>1. v \in Bytes
        BY <1>1
      <3> QED BY <2>2, <3>1, CountRead, Zenon
    <2> QED BY <1>1, <2>1, <2>2
  <1> HIDE DEF t, q
  <1>3. Reading(ReadVarint(t, packed), q + Len(v), out, Append(<<n>>, m))
    BY <1>2, VarintRead
  <1>4. Append(<<n>>, m) = <<n, m>>
    BY PairAppended
  <1>5. q + Len(v) = p + Len(first \o v)
    BY <1>1, JoinedBytes DEF q
  <1>6. ReadArgs(s, packed, 2) = ReadVarint(t, packed)
    BY DEF ReadArgs, t
  <1> QED BY <1>2, <1>3, <1>4, <1>5, <1>6 DEF Ready

LEMMA CountAndTwo ==
    ASSUME NEW packed \in Bytes, NEW p \in Nat \ {0}, NEW n \in Nat \ {0},
           NEW opcode \in {3, 4}, NEW m \in Nat, NEW k \in Nat,
           Held(packed, p, First(opcode, n) \o (Varint(m) \o Varint(k))),
           NEW out, NEW args, NEW s, Reading(s, p, out, args)
    PROVE  Ready(packed, p, s, out, opcode,
                 p + Len(First(opcode, n) \o (Varint(m) \o Varint(k))), <<n, m, k>>)
  <1> DEFINE first == First(opcode, n)
             v == Varint(m)
             w == Varint(k)
             q == p + Len(first)
             t == ReadCount(s, packed)
             u == ReadVarint(t, packed)
  <1>1. first \in Bytes /\ v \in Bytes /\ w \in Bytes /\ v \o w \in Bytes /\ opcode \in 0 .. 4
    <2>1. opcode \in 0 .. 4
      OBVIOUS
    <2> QED BY <2>1, FirstIsBytes, VarintBytes, JoinedBytes
  <1>2. /\ packed[p] \div 32 = opcode /\ p <= Len(packed) /\ q \in Nat \ {0}
        /\ Held(packed, q, v \o w) /\ Reading(t, q, out, <<n>>)
    BY <1>1, CountRead
  <1>3. q + (Len(v) + Len(w)) = p + Len(first \o (v \o w)) /\ Len(v) \in Nat /\ Len(w) \in Nat
    BY <1>1, JoinedBytes
  <1> HIDE DEF q
  <1>4. /\ Held(packed, q, v) /\ Held(packed, q + Len(v), w)
        /\ q + Len(v) \in Nat \ {0}
    BY <1>1, <1>2, HeldParts
  <1> HIDE DEF t, u
  <1>5. Reading(u, q + Len(v), out, Append(<<n>>, m))
    BY <1>2, <1>4, VarintRead DEF u
  <1>6. Append(<<n>>, m) = <<n, m>> /\ Append(<<n, m>>, k) = <<n, m, k>>
    BY PairAppended, TripleAppended
  <1>7. Reading(ReadVarint(u, packed), (q + Len(v)) + Len(w), out, Append(<<n, m>>, k))
    BY <1>4, <1>5, <1>6, VarintRead
  <1>8. ReadCommon(t, packed) = t
    <2>1. <<n>> # <<0>>
      <3>1. <<n>>[1] = n /\ <<0>>[1] = 0
        OBVIOUS
      <3> QED BY <3>1
    <2>2. t.args = <<n>>
      BY <1>2 DEF Reading
    <2> QED BY <2>1, <2>2 DEF ReadCommon
  <1>9. ReadArgs(s, packed, opcode) = ReadVarint(u, packed)
    BY <1>8 DEF ReadArgs, t, u
  <1>10. (q + Len(v)) + Len(w) = p + Len(first \o (v \o w))
    BY <1>2, <1>3
  <1> QED BY <1>2, <1>6, <1>7, <1>9, <1>10 DEF Ready

\* An operation that was stored as these bytes and stands for those.
Done(packed, p, s, out, stored, bytes) ==
    /\ p <= Len(packed)
    /\ \E args : Reading(Operation(packed, s), p + Len(stored), out \o bytes, args)

LEMMA OperationIs ==
    ASSUME NEW packed, NEW p, NEW s, NEW out, NEW opcode, NEW q, NEW ints,
           Ready(packed, p, s, out, opcode, q, ints), s.at = p
    PROVE  /\ Reading(ReadArgs(s, packed, opcode), q, out, ints) /\ p <= Len(packed)
           /\ Operation(packed, s) = Perform(packed, opcode, ReadArgs(s, packed, opcode))
  BY DEF Ready, Operation

LEMMA ZerosDone ==
    ASSUME NEW packed \in Bytes, NEW p \in Nat \ {0}, NEW n \in Nat,
           Held(packed, p, First(0, n)),
           NEW out, NEW args, NEW s, Reading(s, p, out, args)
    PROVE  Done(packed, p, s, out, First(0, n), Zeros(n))
  <1> DEFINE q == p + Len(First(0, n))
             ints == <<n>>
             t == ReadArgs(s, packed, 0)
  <1>1. Ready(packed, p, s, out, 0, q, ints) /\ s.at = p
    BY CountAlone DEF Reading
  <1>2. ints[1] = n
    OBVIOUS
  <1> HIDE DEF q, ints
  <1>3. /\ Reading(t, q, out, ints) /\ p <= Len(packed)
        /\ Operation(packed, s) = Perform(packed, 0, t)
    BY <1>1, OperationIs
  <1> HIDE DEF t
  <1>4. t.ok /\ t.args[1] = n /\ t.out = out
    BY <1>2, <1>3 DEF Reading
  <1>5. Perform(packed, 0, t) = [t EXCEPT !.out = out \o Zeros(n)]
    BY <1>4 DEF Perform
  <1>6. Reading([t EXCEPT !.out = out \o Zeros(n)], q, out \o Zeros(n), ints)
    BY <1>3, Changed
  <1> QED BY <1>3, <1>5, <1>6 DEF Done, q

LEMMA BlockDone ==
    ASSUME NEW packed \in Bytes, NEW p \in Nat \ {0}, NEW data \in Bytes,
           Held(packed, p, First(1, Len(data)) \o data),
           NEW out, NEW args, NEW s, Reading(s, p, out, args)
    PROVE  Done(packed, p, s, out, First(1, Len(data)) \o data, data)
  <1> DEFINE n == Len(data)
             first == First(1, n)
             q == p + Len(first)
             e == q + n
             ints == <<n>>
             t == ReadArgs(s, packed, 1)
  <1>1. n \in Nat /\ first \in Bytes
    BY FirstIsBytes DEF Bytes
  <1>2. /\ Held(packed, p, first) /\ Held(packed, q, data) /\ q \in Nat \ {0}
        /\ Len(first \o data) = Len(first) + n
    BY <1>1, HeldParts
  <1>3. Ready(packed, p, s, out, 1, q, ints) /\ s.at = p
    BY <1>1, <1>2, CountAlone DEF Reading
  <1>4. Slice(packed, q, n) = data
    BY <1>2, HeldSlice
  <1>5. e = p + Len(first \o data)
    BY <1>1, <1>2, FirstIsBytes
  <1>6. ints[1] = n
    OBVIOUS
  <1> HIDE DEF q, n, e, ints
  <1>7. /\ Reading(t, q, out, ints) /\ p <= Len(packed)
        /\ Operation(packed, s) = Perform(packed, 1, t)
    BY <1>3, OperationIs
  <1> HIDE DEF t
  <1>8. t.ok /\ t.args[1] = n /\ t.out = out /\ t.at = q
    BY <1>6, <1>7 DEF Reading
  <1>9. Perform(packed, 1, t) = [t EXCEPT !.out = out \o data, !.at = e]
    BY <1>4, <1>8 DEF Perform, CopyBlock, e
  <1>10. Reading([t EXCEPT !.out = out \o data, !.at = e], e, out \o data, ints)
    BY <1>7, Changed
  <1> QED BY <1>5, <1>7, <1>9, <1>10 DEF Done, n

LEMMA RepeatDone ==
    ASSUME NEW packed \in Bytes, NEW p \in Nat \ {0}, NEW data \in Bytes,
           NEW n \in Nat \ {0},
           Held(packed, p, (First(2, Len(data)) \o Varint(n - 1)) \o data),
           NEW out, NEW args, NEW s, Reading(s, p, out, args)
    PROVE  Done(packed, p, s, out, (First(2, Len(data)) \o Varint(n - 1)) \o data,
                Times(data, n))
  <1> DEFINE k == Len(data)
             front == First(2, k) \o Varint(n - 1)
             q == p + Len(front)
             e == q + k
             bytes == Times(data, n)
             ints == <<k, n - 1>>
             t == ReadArgs(s, packed, 2)
  <1>1. k \in Nat /\ n - 1 \in Nat /\ (n - 1) + 1 = n
    BY DEF Bytes
  <1>2. front \in Bytes
    <2>1. First(2, k) \in Bytes
      BY <1>1, FirstIsBytes
    <2>2. Varint(n - 1) \in Bytes
      BY <1>1, VarintBytes
    <2> QED BY <2>1, <2>2, JoinedBytes
  <1>3. /\ Held(packed, p, front) /\ Held(packed, q, data) /\ q \in Nat \ {0}
        /\ Len(front \o data) = Len(front) + k /\ Len(front) \in Nat
    BY <1>2, HeldParts, JoinedBytes
  <1>4. Ready(packed, p, s, out, 2, q, ints) /\ s.at = p
    BY <1>1, <1>3, CountAndVarint DEF Reading
  <1>5. Slice(packed, q, k) = data
    BY <1>3, HeldSlice
  <1>6. e = p + Len(front \o data)
    BY <1>1, <1>3
  <1>7. ints[1] = k /\ ints[2] + 1 = n
    BY <1>1
  <1> HIDE DEF q, k, e, ints, bytes
  <1>8. /\ Reading(t, q, out, ints) /\ p <= Len(packed)
        /\ Operation(packed, s) = Perform(packed, 2, t)
    BY <1>4, OperationIs
  <1> HIDE DEF t
  <1>9. t.ok /\ t.args[1] = k /\ t.args[2] + 1 = n /\ t.out = out /\ t.at = q
    BY <1>7, <1>8 DEF Reading
  <1>10. Perform(packed, 2, t) = [t EXCEPT !.out = out \o bytes, !.at = e]
    <2>1. Perform(packed, 2, t) = RepeatBlock(packed, t)
      BY <1>9 DEF Perform
    <2>2. Slice(packed, t.at, t.args[1]) = data /\ t.at + t.args[1] = e
      BY <1>5, <1>9 DEF e
    <2>3. Times(Slice(packed, t.at, t.args[1]), t.args[2] + 1) = bytes
      BY <1>9, <2>2, Zenon DEF bytes
    <2>4. t.out \o Times(Slice(packed, t.at, t.args[1]), t.args[2] + 1) = out \o bytes
      BY <1>9, <2>3, Zenon
    <2>5. RepeatBlock(packed, t) = [t EXCEPT !.out = out \o bytes, !.at = e]
      BY <2>2, <2>4, Zenon DEF RepeatBlock
    <2> QED BY <2>1, <2>5
  <1>11. Reading([t EXCEPT !.out = out \o bytes, !.at = e], e, out \o bytes, ints)
    BY <1>8, Changed
  <1> QED BY <1>6, <1>8, <1>10, <1>11 DEF Done, k, bytes

\* The blocks between the common ones all have the size given.
Custom(custom, size) ==
    custom \in Seq(Bytes) /\ \A i \in 1 .. Len(custom) : Len(custom[i]) = size

LEMMA WovenHeld ==
    ASSUME NEW packed \in Bytes, NEW q \in Nat \ {0}, NEW size \in Nat,
           NEW custom, Custom(custom, size), NEW flat, flat = FlattenSeq(custom),
           Held(packed, q, flat), NEW common
    PROVE  Interleaved(packed, common, size, Len(custom), q) = Woven(common, custom)
  <1>1. custom \in Seq(Bytes) /\ \A i \in 1 .. Len(custom) : Len(custom[i]) = size
    BY DEF Custom
  <1> QED BY <1>1, WovenRead

LEMMA LengthHeld ==
    ASSUME NEW packed \in Bytes, NEW q \in Nat \ {0}, NEW size \in Nat,
           NEW custom, Custom(custom, size), NEW flat, flat = FlattenSeq(custom),
           Held(packed, q, flat)
    PROVE  Len(flat) = size * Len(custom)
  <1>1. custom \in Seq(Bytes) /\ \A i \in 1 .. Len(custom) : Len(custom[i]) = size
    BY DEF Custom
  <1> QED BY <1>1, BlockAt

\* The bytes an operation of interleaved data is stored as.
Preamble(opcode, n, size, k) == First(opcode, n) \o (Varint(size) \o Varint(k))
CommonBytes(data, size, custom) ==
    (Preamble(3, Len(data), size, Len(custom)) \o data) \o FlattenSeq(custom)
ApartBytes(n, size, custom) == Preamble(4, n, size, Len(custom)) \o FlattenSeq(custom)

LEMMA CommonDone ==
    ASSUME NEW packed \in Bytes, NEW p \in Nat \ {0}, NEW data \in Bytes, data # << >>,
           NEW size \in Nat, NEW custom, Custom(custom, size),
           FlattenSeq(custom) \in Bytes, Held(packed, p, CommonBytes(data, size, custom)),
           NEW out, NEW args, NEW s, Reading(s, p, out, args)
    PROVE  Done(packed, p, s, out, CommonBytes(data, size, custom), Woven(data, custom))
  <1> DEFINE n == Len(data)
             k == Len(custom)
             front == Preamble(3, n, size, k)
             flat == FlattenSeq(custom)
             q == p + Len(front)
             at == q + n
             e == at + size * k
             bytes == Woven(data, custom)
             ints == <<n, size, k>>
             t == ReadArgs(s, packed, 3)
  <1>1. n \in Nat \ {0} /\ k \in Nat
    BY DEF Bytes, Custom
  <1>2. front \in Bytes
    <2>1. First(3, n) \in Bytes /\ Varint(size) \in Bytes /\ Varint(k) \in Bytes
      BY <1>1, FirstIsBytes, VarintBytes
    <2> QED BY <2>1, JoinedBytes DEF Preamble
  <1> HIDE DEF front
  <1>3. /\ Held(packed, p, front \o data) /\ Held(packed, p + Len(front \o data), flat)
        /\ p + Len(front \o data) \in Nat \ {0}
        /\ Len((front \o data) \o flat) = Len(front \o data) + Len(flat)
    <2>1. Held(packed, p, (front \o data) \o flat) /\ front \o data \in Bytes
      BY <1>2, JoinedBytes DEF CommonBytes, front
    <2>2. flat \in Bytes
      OBVIOUS
    <2> DEFINE start == front \o data
    <2>3. start \in Bytes /\ Held(packed, p, start \o flat)
      BY <2>1
    <2> HIDE DEF flat, start
    <2>4. /\ Held(packed, p, start) /\ Held(packed, p + Len(start), flat)
          /\ p + Len(start) \in Nat \ {0} /\ Len(start \o flat) = Len(start) + Len(flat)
      BY <2>2, <2>3, HeldParts
    <2> QED BY <2>4 DEF start
  <1>4. /\ Held(packed, p, front) /\ Held(packed, q, data) /\ q \in Nat \ {0}
        /\ Len(front \o data) = Len(front) + n /\ Len(front) \in Nat
    BY <1>2, <1>3, HeldParts, JoinedBytes
  <1>5. at = p + Len(front \o data)
    BY <1>1, <1>4
  <1>6. Held(packed, at, flat) /\ at \in Nat \ {0}
    BY <1>3, <1>5
  <1>7. Len(flat) = size * k
    BY <1>6, LengthHeld
  <1>8. e = p + Len((front \o data) \o flat)
    <2> DEFINE all == size * k
    <2>1. all \in Nat /\ e = at + all /\ Len(flat) = all
      BY <1>1, <1>7
    <2>2. Len(front \o data) \in Nat
      BY <1>1, <1>4
    <2> DEFINE part == Len(front \o data)
               whole == Len((front \o data) \o flat)
    <2>3. whole = part + Len(flat) /\ part \in Nat /\ at = p + part
      BY <1>3, <1>5, <2>2, Zenon
    <2> HIDE DEF all, e, at, part, whole
    <2>4. e = p + whole
      BY <2>1, <2>3
    <2> QED BY <2>4 DEF whole
  <1>9. Interleaved(packed, data, size, k, at) = bytes
    BY <1>6, WovenHeld
  <1>10. Ready(packed, p, s, out, 3, q, ints) /\ s.at = p
    <2> DEFINE two == Varint(size) \o Varint(k)
    <2>1. front = First(3, n) \o two
      BY DEF front, Preamble
    <2>2. Held(packed, p, First(3, n) \o two) /\ q = p + Len(First(3, n) \o two)
      BY <1>4, <2>1
    <2>3. s.at = p
      BY DEF Reading
    <2> HIDE DEF front, q, k, n
    <2> QED BY <1>1, <2>2, <2>3, CountAndTwo
  <1>11. Slice(packed, q, n) = data
    BY <1>4, HeldSlice
  <1>12. ints[1] = n /\ ints[2] = size /\ ints[3] = k
    OBVIOUS
  <1> HIDE DEF n, k, q, at, e, bytes, ints
  <1>13. /\ Reading(t, q, out, ints) /\ p <= Len(packed)
         /\ Operation(packed, s) = Perform(packed, 3, t)
    BY <1>10, OperationIs
  <1> HIDE DEF t
  <1>14. t.ok /\ t.args[1] = n /\ t.args[2] = size /\ t.args[3] = k /\ t.out = out /\ t.at = q
    BY <1>12, <1>13 DEF Reading
  <1>15. Perform(packed, 3, t) = [t EXCEPT !.out = out \o bytes, !.at = e]
    <2>1. Perform(packed, 3, t) = InterleaveCommon(packed, t)
      BY <1>14 DEF Perform
    <2>2. t.at + t.args[1] = at /\ at + t.args[2] * t.args[3] = e
      BY <1>14 DEF at, e
    <2>3. Interleaved(packed, Slice(packed, t.at, t.args[1]), t.args[2], t.args[3], at) = bytes
      BY <1>9, <1>11, <1>14
    <2>4. InterleaveCommon(packed, t) = [t EXCEPT !.out = out \o bytes, !.at = e]
      BY <1>14, <2>2, <2>3, Zenon DEF InterleaveCommon
    <2> QED BY <2>1, <2>4
  <1>16. Reading([t EXCEPT !.out = out \o bytes, !.at = e], e, out \o bytes, ints)
    BY <1>13, Changed
  <1> QED BY <1>8, <1>13, <1>15, <1>16 DEF Done, bytes, CommonBytes, front, n, k

LEMMA ApartDone ==
    ASSUME NEW packed \in Bytes, NEW p \in Nat \ {0}, NEW n \in Nat \ {0},
           NEW size \in Nat, NEW custom, Custom(custom, size),
           FlattenSeq(custom) \in Bytes, Held(packed, p, ApartBytes(n, size, custom)),
           NEW out, NEW args, NEW s, Reading(s, p, out, args)
    PROVE  Done(packed, p, s, out, ApartBytes(n, size, custom), Woven(Zeros(n), custom))
  <1> DEFINE k == Len(custom)
             front == Preamble(4, n, size, k)
             flat == FlattenSeq(custom)
             q == p + Len(front)
             e == q + size * k
             bytes == Woven(Zeros(n), custom)
             ints == <<n, size, k>>
             t == ReadArgs(s, packed, 4)
  <1>1. k \in Nat
    BY DEF Custom
  <1>2. front \in Bytes
    <2>1. First(4, n) \in Bytes /\ Varint(size) \in Bytes /\ Varint(k) \in Bytes
      BY <1>1, FirstIsBytes, VarintBytes
    <2> QED BY <2>1, JoinedBytes DEF Preamble
  <1> HIDE DEF front
  <1>3. /\ Held(packed, p, front) /\ Held(packed, q, flat) /\ q \in Nat \ {0}
        /\ Len(front \o flat) = Len(front) + Len(flat) /\ Len(front) \in Nat
    <2>1. Held(packed, p, front \o flat)
      BY DEF ApartBytes, front
    <2> HIDE DEF flat
    <2>2. flat \in Bytes
      BY DEF flat
    <2> QED BY <1>2, <2>1, <2>2, HeldParts, JoinedBytes
  <1>4. Len(flat) = size * k
    BY <1>3, LengthHeld
  <1>5. e = p + Len(front \o flat)
    <2> DEFINE all == size * k
    <2>1. all \in Nat /\ e = q + all /\ Len(flat) = all
      BY <1>1, <1>4
    <2>2. q = p + Len(front) /\ Len(front) \in Nat
      BY <1>3
    <2> HIDE DEF all, e, q
    <2> QED BY <1>3, <2>1, <2>2
  <1>6. Interleaved(packed, Zeros(n), size, k, q) = bytes
    <2> DEFINE zeros == Zeros(n)
    <2> HIDE DEF zeros
    <2>1. Held(packed, q, flat) /\ q \in Nat \ {0}
      BY <1>3
    <2> HIDE DEF q
    <2>2. Interleaved(packed, zeros, size, Len(custom), q) = Woven(zeros, custom)
      BY <2>1, WovenHeld
    <2> QED BY <2>2 DEF zeros
  <1>7. Ready(packed, p, s, out, 4, q, ints) /\ s.at = p
    <2> DEFINE two == Varint(size) \o Varint(k)
    <2>1. front = First(4, n) \o two
      BY DEF front, Preamble
    <2>2. Held(packed, p, First(4, n) \o two) /\ q = p + Len(First(4, n) \o two)
      BY <1>3, <2>1
    <2>3. s.at = p
      BY DEF Reading
    <2> HIDE DEF front, q, k
    <2> QED BY <1>1, <2>2, <2>3, CountAndTwo
  <1>8. ints[1] = n /\ ints[2] = size /\ ints[3] = k
    OBVIOUS
  <1> HIDE DEF k, q, e, bytes, ints
  <1>9. /\ Reading(t, q, out, ints) /\ p <= Len(packed)
        /\ Operation(packed, s) = Perform(packed, 4, t)
    BY <1>7, OperationIs
  <1> HIDE DEF t
  <1>10. t.ok /\ t.args[1] = n /\ t.args[2] = size /\ t.args[3] = k /\ t.out = out /\ t.at = q
    BY <1>8, <1>9 DEF Reading
  <1>11. Perform(packed, 4, t) = [t EXCEPT !.out = out \o bytes, !.at = e]
    <2>1. Perform(packed, 4, t) = InterleaveZeros(packed, t)
      BY <1>10 DEF Perform
    <2>2. t.at + t.args[2] * t.args[3] = e
      BY <1>10 DEF e
    <2>3. Interleaved(packed, Zeros(t.args[1]), t.args[2], t.args[3], t.at) = bytes
      BY <1>6, <1>10
    <2>4. InterleaveZeros(packed, t) = [t EXCEPT !.out = out \o bytes, !.at = e]
      BY <1>10, <2>2, <2>3, Zenon DEF InterleaveZeros
    <2> QED BY <2>1, <2>4
  <1>12. Reading([t EXCEPT !.out = out \o bytes, !.at = e], e, out \o bytes, ints)
    BY <1>9, Changed
  <1> QED BY <1>5, <1>9, <1>11, <1>12 DEF Done, bytes, ApartBytes, front, k

LEMMA FlatIsBytes ==
    ASSUME NEW seqs \in Seq(Bytes)
    PROVE  FlattenSeq(seqs) \in Bytes
  <1>1. PICK g : JoinedParts(g, seqs) /\ FlattenSeq(seqs) = g[Len(seqs)]
    BY JoinedInTurn
  <1>2. Len(seqs) \in 0 .. Len(seqs)
    OBVIOUS
  <1> QED BY <1>1, <1>2 DEF JoinedParts

LEMMA CustomIs ==
    ASSUME NEW size \in Nat, NEW custom \in Blocks(size)
    PROVE  Custom(custom, size)
  <1> DEFINE B == {block \in Bytes : Len(block) = size}
  <1>1. custom \in Seq(B)
    BY DEF Blocks
  <1>2. \A b \in B : b \in Bytes /\ Len(b) = size
    OBVIOUS
  <1> HIDE DEF B
  <1>3. \A i \in 1 .. Len(custom) : custom[i] \in B
    BY <1>1, ElementOfSeq
  <1>4. custom \in Seq(Bytes)
    BY <1>1, <1>2
  <1> QED BY <1>2, <1>3, <1>4 DEF Custom

LEMMA Forms ==
    ASSUME NEW o \in PackedOperations
    PROVE  \/ o.op = "zeros" /\ o.n \in Nat
           \/ o.op = "block" /\ o.data \in Bytes
           \/ o.op = "repeat" /\ o.data \in Bytes /\ o.n \in Nat \ {0}
           \/ /\ o.op = "common" /\ o.data \in Bytes /\ o.data # << >>
              /\ o.size \in Nat /\ Custom(o.custom, o.size)
           \/ o.op = "apart" /\ o.n \in Nat \ {0} /\ o.size \in Nat /\ Custom(o.custom, o.size)
  <1>1. CASE o \in [op : {"zeros"}, n : Nat]
    BY <1>1
  <1>2. CASE o \in [op : {"block"}, data : Bytes]
    BY <1>2
  <1>3. CASE o \in [op : {"repeat"}, data : Bytes, n : Nat \ {0}]
    BY <1>3
  <1>4. CASE /\ o \in [op : {"common"}, data : Bytes, size : Nat, custom : Seq(Bytes)]
             /\ o.data # << >> /\ o.custom \in Blocks(o.size)
    <2>1. o.op = "common" /\ o.data \in Bytes /\ o.size \in Nat
      BY <1>4
    <2> QED BY <1>4, <2>1, CustomIs
  <1>5. CASE /\ o \in [op : {"apart"}, n : Nat \ {0}, size : Nat, custom : Seq(Bytes)]
             /\ o.custom \in Blocks(o.size)
    <2>1. o.op = "apart" /\ o.n \in Nat \ {0} /\ o.size \in Nat
      BY <1>5
    <2> QED BY <1>5, <2>1, CustomIs
  <1> QED BY <1>1, <1>2, <1>3, <1>4, <1>5 DEF PackedOperations

LEMMA WovenBytes ==
    ASSUME NEW common \in Bytes, NEW custom, NEW size, Custom(custom, size)
    PROVE  Woven(common, custom) \in Bytes
  <1> DEFINE parts == [i \in DOMAIN custom |-> common \o custom[i]]
  <1>1. custom \in Seq(Bytes) /\ DOMAIN custom = 1 .. Len(custom) /\ Len(custom) \in Nat
    BY DEF Custom
  <1>2. \A i \in 1 .. Len(custom) : common \o custom[i] \in Bytes
    BY <1>1, JoinedBytes
  <1>3. parts \in Seq(Bytes)
    BY <1>1, <1>2
  <1>4. FlattenSeq(parts) \in Bytes
    BY <1>3, FlatIsBytes
  <1> QED BY <1>4, JoinedBytes DEF Woven

LEMMA MeaningBytes ==
    ASSUME NEW o \in PackedOperations
    PROVE  Meaning(o) \in Bytes
  <1>1. CASE o.op = "zeros" /\ o.n \in Nat
    BY <1>1 DEF Meaning, Zeros, Bytes
  <1>2. CASE o.op = "block" /\ o.data \in Bytes
    BY <1>2 DEF Meaning
  <1>3. CASE o.op = "repeat" /\ o.data \in Bytes /\ o.n \in Nat \ {0}
    <2> DEFINE copies == [i \in 1 .. o.n |-> o.data]
    <2>1. copies \in Seq(Bytes)
      BY <1>3
    <2>2. FlattenSeq(copies) \in Bytes
      BY <2>1, FlatIsBytes
    <2> QED BY <1>3, <2>2 DEF Meaning, Times
  <1>4. CASE /\ o.op = "common" /\ o.data \in Bytes /\ o.data # << >>
             /\ o.size \in Nat /\ Custom(o.custom, o.size)
    BY <1>4, WovenBytes DEF Meaning
  <1>5. CASE o.op = "apart" /\ o.n \in Nat \ {0} /\ o.size \in Nat /\ Custom(o.custom, o.size)
    <2>1. Zeros(o.n) \in Bytes
      BY <1>5 DEF Zeros, Bytes
    <2> QED BY <1>5, <2>1, WovenBytes DEF Meaning
  <1> QED BY <1>1, <1>2, <1>3, <1>4, <1>5, Forms

\* First some bytes, then others.
LEMMA FrontBytes ==
    ASSUME NEW a \in Bytes, Len(a) \in Nat \ {0}, NEW b \in Bytes
    PROVE  a \o b \in Bytes /\ Len(a \o b) \in Nat \ {0}
  <1>1. a \o b \in Bytes /\ Len(a \o b) = Len(a) + Len(b) /\ Len(b) \in Nat
    BY JoinedBytes
  <1> HIDE DEF Bytes
  <1> DEFINE m == Len(a)
             n == Len(b)
  <1>2. m \in Nat \ {0} /\ n \in Nat
    BY <1>1
  <1> HIDE DEF m, n
  <1>3. m + n \in Nat \ {0}
    BY <1>2
  <1> QED BY <1>1, <1>3 DEF m, n

LEMMA EncodedBytes ==
    ASSUME NEW o \in PackedOperations
    PROVE  Encoded(o) \in Bytes /\ Len(Encoded(o)) \in Nat \ {0}
  <1>1. \A data \in Bytes : Len(data) \in Nat
    BY DEF Bytes
  <1>2. \A custom, size : Custom(custom, size) =>
            Len(custom) \in Nat /\ FlattenSeq(custom) \in Bytes
    BY FlatIsBytes DEF Custom
  <1>3. \A n \in Nat : \A opcode \in {0, 1, 2, 3, 4} :
            First(opcode, n) \in Bytes /\ Len(First(opcode, n)) \in Nat \ {0}
    <2> TAKE n \in Nat
    <2> TAKE opcode \in {0, 1, 2, 3, 4}
    <2>1. opcode \in 0 .. 4
      OBVIOUS
    <2> QED BY <2>1, FirstIsBytes
  <1>4. CASE o.op = "zeros" /\ o.n \in Nat
    BY <1>4, <1>3 DEF Encoded
  <1>5. CASE o.op = "block" /\ o.data \in Bytes
    <2>1. First(1, Len(o.data)) \in Bytes /\ Len(First(1, Len(o.data))) \in Nat \ {0}
      BY <1>5, <1>1, <1>3
    <2>2. Encoded(o) = First(1, Len(o.data)) \o o.data
      BY <1>5 DEF Encoded
    <2> QED BY <1>5, <2>1, <2>2, FrontBytes
  <1>6. CASE o.op = "repeat" /\ o.data \in Bytes /\ o.n \in Nat \ {0}
    <2> DEFINE first == First(2, Len(o.data))
               front == first \o Varint(o.n - 1)
    <2>1. first \in Bytes /\ Len(first) \in Nat \ {0}
      BY <1>6, <1>1, <1>3
    <2>2. Varint(o.n - 1) \in Bytes
      <3>1. o.n - 1 \in Nat
        BY <1>6
      <3> QED BY <3>1, VarintBytes
    <2>3. Encoded(o) = front \o o.data
      BY <1>6 DEF Encoded
    <2> HIDE DEF first
    <2>4. front \in Bytes /\ Len(front) \in Nat \ {0}
      BY <2>1, <2>2, FrontBytes
    <2> HIDE DEF front
    <2> QED BY <1>6, <2>3, <2>4, FrontBytes
  <1>7. CASE /\ o.op = "common" /\ o.data \in Bytes /\ o.data # << >>
             /\ o.size \in Nat /\ Custom(o.custom, o.size)
    <2> DEFINE first == First(3, Len(o.data))
               front == first \o Interleaves(o)
               most == front \o o.data
               flat == FlattenSeq(o.custom)
    <2>1. first \in Bytes /\ Len(first) \in Nat \ {0}
      BY <1>7, <1>1, <1>3
    <2>2. Interleaves(o) \in Bytes /\ flat \in Bytes
      BY <1>7, <1>2, VarintBytes, JoinedBytes DEF Interleaves
    <2>3. Encoded(o) = most \o flat
      BY <1>7 DEF Encoded
    <2> HIDE DEF first, flat
    <2>4. front \in Bytes /\ Len(front) \in Nat \ {0}
      BY <2>1, <2>2, FrontBytes
    <2> HIDE DEF front
    <2>5. most \in Bytes /\ Len(most) \in Nat \ {0}
      BY <1>7, <2>4, FrontBytes
    <2> HIDE DEF most
    <2> QED BY <2>2, <2>3, <2>5, FrontBytes
  <1>8. CASE o.op = "apart" /\ o.n \in Nat \ {0} /\ o.size \in Nat /\ Custom(o.custom, o.size)
    <2> DEFINE first == First(4, o.n)
               front == first \o Interleaves(o)
               flat == FlattenSeq(o.custom)
    <2>1. first \in Bytes /\ Len(first) \in Nat \ {0}
      BY <1>8, <1>3
    <2>2. Interleaves(o) \in Bytes /\ flat \in Bytes
      BY <1>8, <1>2, VarintBytes, JoinedBytes DEF Interleaves
    <2>3. Encoded(o) = front \o flat
      BY <1>8 DEF Encoded
    <2> HIDE DEF first, flat
    <2>4. front \in Bytes /\ Len(front) \in Nat \ {0}
      BY <2>1, <2>2, FrontBytes
    <2> HIDE DEF front
    <2> QED BY <2>2, <2>3, <2>4, FrontBytes
  <1> QED BY <1>4, <1>5, <1>6, <1>7, <1>8, Forms

\* Whatever is packed in an operation is given back when it is expanded.
LEMMA OperationDone ==
    ASSUME NEW packed \in Bytes, NEW p \in Nat \ {0}, NEW o \in PackedOperations,
           Held(packed, p, Encoded(o)),
           NEW out, NEW args, NEW s, Reading(s, p, out, args)
    PROVE  Done(packed, p, s, out, Encoded(o), Meaning(o))
  <1>1. \A custom, size : Custom(custom, size) => FlattenSeq(custom) \in Bytes
    BY FlatIsBytes DEF Custom
  <1>2. CASE o.op = "zeros" /\ o.n \in Nat
    <2>1. Encoded(o) = First(0, o.n) /\ Meaning(o) = Zeros(o.n)
      BY <1>2 DEF Encoded, Meaning
    <2> QED BY <1>2, <2>1, ZerosDone
  <1>3. CASE o.op = "block" /\ o.data \in Bytes
    <2>1. Encoded(o) = First(1, Len(o.data)) \o o.data /\ Meaning(o) = o.data
      BY <1>3 DEF Encoded, Meaning
    <2> QED BY <1>3, <2>1, BlockDone
  <1>4. CASE o.op = "repeat" /\ o.data \in Bytes /\ o.n \in Nat \ {0}
    <2>1. /\ Encoded(o) = (First(2, Len(o.data)) \o Varint(o.n - 1)) \o o.data
          /\ Meaning(o) = Times(o.data, o.n)
      BY <1>4 DEF Encoded, Meaning
    <2> QED BY <1>4, <2>1, RepeatDone
  <1>5. CASE /\ o.op = "common" /\ o.data \in Bytes /\ o.data # << >>
             /\ o.size \in Nat /\ Custom(o.custom, o.size)
    <2>1. /\ Encoded(o) = CommonBytes(o.data, o.size, o.custom)
          /\ Meaning(o) = Woven(o.data, o.custom)
      BY <1>5 DEF Encoded, Meaning, Interleaves, CommonBytes, Preamble
    <2>2. FlattenSeq(o.custom) \in Bytes
      BY <1>5, <1>1
    <2> QED BY <1>5, <2>1, <2>2, CommonDone
  <1>6. CASE o.op = "apart" /\ o.n \in Nat \ {0} /\ o.size \in Nat /\ Custom(o.custom, o.size)
    <2>1. /\ Encoded(o) = ApartBytes(o.n, o.size, o.custom)
          /\ Meaning(o) = Woven(Zeros(o.n), o.custom)
      BY <1>6 DEF Encoded, Meaning, Interleaves, ApartBytes, Preamble
    <2>2. FlattenSeq(o.custom) \in Bytes
      BY <1>6, <1>1
    <2> QED BY <1>6, <2>1, <2>2, ApartDone
  <1> QED BY <1>2, <1>3, <1>4, <1>5, <1>6, Forms

-----------------------------------------------------------------------------
(* The whole stream *)

\* A part that is as long as all of them is all of them.
LEMMA WholePrefix ==
    ASSUME NEW seqs \in Seq(Bytes), NEW h, JoinedParts(h, seqs), NEW k \in 0 .. Len(seqs)
    PROVE  /\ Len(h[k]) \in Nat /\ Len(h[Len(seqs)]) \in Nat
           /\ Len(h[k]) <= Len(h[Len(seqs)])
           /\ Len(h[k]) >= Len(h[Len(seqs)]) => h[k] = h[Len(seqs)]
  <1> DEFINE N == Len(seqs)
             All(i) == /\ Len(h[i]) <= Len(h[N])
                       /\ Len(h[i]) >= Len(h[N]) => h[i] = h[N]
             S == {j \in 0 .. N : All(N - j)}
  <1>1. N \in Nat /\ k \in 0 .. N
    OBVIOUS
  <1>2. \A i \in 0 .. N : h[i] \in Bytes /\ Len(h[i]) \in Nat
    BY DEF JoinedParts, Bytes
  <1>3. \A i \in 1 .. N : /\ seqs[i] \in Bytes /\ Len(seqs[i]) \in Nat
                          /\ Len(h[i]) = Len(h[i - 1]) + Len(seqs[i])
                          /\ h[i] = h[i - 1] \o seqs[i] /\ h[i - 1] \in Bytes
    BY PrefixLengths
  <1> HIDE DEF N
  <1>4. N \in 0 .. N /\ N - 0 = N /\ 0 \in 0 .. N
    BY <1>1
  <1>5. 0 \in S
    BY <1>2, <1>4
  <1>6. ASSUME NEW j \in 1 .. N, j - 1 \in S
        PROVE  j \in S
    <2> DEFINE i == N - (j - 1)
    <2>1. i \in 1 .. N /\ i \in 0 .. N /\ i - 1 \in 0 .. N /\ i - 1 = N - j /\ j \in 0 .. N
      BY <1>1
    <2>2. All(i)
      BY <1>6
    <2> HIDE DEF i
    <2>3. All(i - 1)
      <3>1. /\ Len(h[i]) = Len(h[i - 1]) + Len(seqs[i]) /\ Len(seqs[i]) \in Nat
            /\ Len(h[i - 1]) \in Nat /\ Len(h[i]) \in Nat /\ Len(h[N]) \in Nat
        BY <1>2, <1>3, <1>4, <2>1
      <3> DEFINE a == Len(h[i - 1])
                 b == Len(seqs[i])
                 c == Len(h[i])
                 d == Len(h[N])
      <3>2. c = a + b /\ a \in Nat /\ b \in Nat /\ c \in Nat /\ d \in Nat
        BY <3>1
      <3>3. c <= d /\ (c >= d => h[i] = h[N])
        BY <2>2
      <3> HIDE DEF a, b, c, d
      <3>4. a <= d
        BY <3>2, <3>3
      <3>5. Len(h[i - 1]) <= Len(h[N])
        BY <3>4 DEF a, d
      <3>6. ASSUME Len(h[i - 1]) >= Len(h[N])
            PROVE  h[i - 1] = h[N]
        <4>1. a >= d
          BY <3>6 DEF a, d
        <4>2. c >= d /\ b = 0
          BY <3>2, <3>3, <4>1
        <4>3. h[i] = h[N] /\ Len(seqs[i]) = 0
          BY <3>3, <4>2 DEF b
        <4>4. seqs[i] = << >>
          BY <1>3, <2>1, <4>3 DEF Bytes
        <4>5. h[i - 1] \o << >> = h[i - 1]
          BY <1>3, <2>1 DEF Bytes
        <4> QED BY <1>3, <2>1, <4>3, <4>4, <4>5
      <3> QED BY <3>5, <3>6
    <2> QED BY <2>1, <2>3
  <1> HIDE DEF S
  <1>7. \A j \in 0 .. N : j \in S
    BY <1>1, <1>5, <1>6, UpTo
  <1>8. N - k \in 0 .. N /\ N - (N - k) = k
    BY <1>1
  <1>9. All(k)
    BY <1>7, <1>8 DEF S
  <1> QED BY <1>1, <1>2, <1>4, <1>9 DEF N

LEMMA AtLeastOne ==
    ASSUME NEW seqs \in Seq(Bytes), NEW g, JoinedParts(g, seqs),
           \A i \in 1 .. Len(seqs) : Len(seqs[i]) # 0
    PROVE  Len(seqs) <= Len(g[Len(seqs)]) /\ Len(g[Len(seqs)]) \in Nat
  <1> DEFINE N == Len(seqs)
             S == {k \in 0 .. N : k <= Len(g[k]) /\ Len(g[k]) \in Nat}
  <1>1. N \in Nat
    OBVIOUS
  <1>2. \A i \in 1 .. N : /\ Len(seqs[i]) \in Nat /\ Len(seqs[i]) # 0
                          /\ Len(g[i - 1]) \in Nat
                          /\ Len(g[i]) = Len(g[i - 1]) + Len(seqs[i])
    BY PrefixLengths
  <1>3. Len(g[0]) = 0
    BY DEF JoinedParts
  <1> HIDE DEF N
  <1>4. 0 \in S
    BY <1>1, <1>3
  <1>5. ASSUME NEW k \in 1 .. N, k - 1 \in S
        PROVE  k \in S
    <2> DEFINE a == Len(g[k - 1])
               b == Len(seqs[k])
               c == Len(g[k])
    <2>1. b \in Nat /\ b # 0 /\ a \in Nat /\ c = a + b
      BY <1>2
    <2>2. k - 1 <= a
      BY <1>5
    <2>3. k \in 0 .. N /\ k \in Nat
      BY <1>1
    <2> HIDE DEF a, b, c
    <2>4. k <= c /\ c \in Nat
      BY <2>1, <2>2, <2>3
    <2> QED BY <2>3, <2>4 DEF c
  <1> HIDE DEF S
  <1>6. \A k \in 0 .. N : k \in S
    BY <1>1, <1>4, <1>5, UpTo
  <1>7. N \in S
    BY <1>1, <1>6
  <1> QED BY <1>7 DEF S, N

Start == [at |-> 1, out |-> << >>, args |-> << >>, ok |-> TRUE]

\* The states the loop of Expand goes through.
Turns(f, packed, size, n) ==
    f = [i \in 0 .. n |-> IF i = 0 THEN Start ELSE Turn(packed, size, f[i - 1])]

LEMMA ExpandTurns ==
    ASSUME NEW packed \in Bytes, NEW size
    PROVE  \E after : /\ after[0] = Start
                      /\ \A i \in 1 .. Len(packed) :
                            after[i] = Turn(packed, size, after[i - 1])
                      /\ Expand(packed, size) = Expansion(after[Len(packed)], size)
  <1> DEFINE N == Len(packed)
             after == CHOOSE f : Turns(f, packed, size, N)
  <1>1. N \in Nat
    BY DEF Bytes
  <1>2. Expand(packed, size) = Expansion(after[N], size)
    BY DEF Expand, Turns, Start
  <1> HIDE DEF N
  <1>3. \E f : Turns(f, packed, size, N)
    <2> DEFINE S == {k \in 0 .. N : \E f : Turns(f, packed, size, k)}
    <2>1. 0 \in S
      <3> DEFINE none == [i \in 0 .. 0 |-> Start]
      <3>1. Turns(none, packed, size, 0)
        BY DEF Turns
      <3> HIDE DEF none
      <3>2. 0 \in 0 .. N
        BY <1>1
      <3> QED BY <3>1, <3>2
    <2>2. ASSUME NEW k \in 1 .. N, k - 1 \in S
          PROVE  k \in S
      <3>1. PICK f : Turns(f, packed, size, k - 1)
        BY <2>2
      <3> DEFINE last == Turn(packed, size, f[k - 1])
                 g == [i \in 0 .. k |-> IF i = k THEN last ELSE f[i]]
      <3> HIDE DEF last
      <3>2. k # 0 /\ k \in 0 .. N /\ \A i \in 0 .. k : i = k \/ i \in 0 .. k - 1
        BY <1>1
      <3>3. g[k] = last /\ \A i \in 0 .. k - 1 : g[i] = f[i]
        BY <3>2
      <3>4. \A i \in 0 .. k - 1 :
               f[i] = IF i = 0 THEN Start ELSE Turn(packed, size, f[i - 1])
        BY <3>1 DEF Turns
      <3> HIDE DEF g
      <3>5. \A i \in 0 .. k :
               g[i] = IF i = 0 THEN Start ELSE Turn(packed, size, g[i - 1])
        <4> TAKE i \in 0 .. k
        <4>1. i # 0 => i - 1 \in 0 .. k - 1
          BY <3>2
        <4>2. i # 0 => g[i - 1] = f[i - 1]
          BY <3>3, <4>1
        <4>3. CASE i = k
          BY <3>2, <3>3, <4>2, <4>3 DEF last
        <4>4. CASE i \in 0 .. k - 1
          BY <3>3, <3>4, <4>2, <4>4
        <4> QED BY <3>2, <4>3, <4>4
      <3>6. Turns(g, packed, size, k)
        BY <3>5 DEF g, Turns
      <3> QED BY <3>2, <3>6
    <2> HIDE DEF S
    <2>3. \A k \in 0 .. N : k \in S
      BY <1>1, <2>1, <2>2, UpTo
    <2>4. N \in S
      BY <1>1, <2>3
    <2> QED BY <2>4 DEF S
  <1>4. Turns(after, packed, size, N)
    BY <1>3, Zenon
  <1> HIDE DEF after
  <1>5. after[0] = Start /\ \A i \in 1 .. N : after[i] = Turn(packed, size, after[i - 1])
    <2>1. \A i \in 0 .. N : after[i] = IF i = 0 THEN Start
                                       ELSE Turn(packed, size, after[i - 1])
      BY <1>4 DEF Turns
    <2>2. 0 \in 0 .. N /\ \A i \in 1 .. N : i \in 0 .. N /\ i # 0
      BY <1>1
    <2> QED BY <2>1, <2>2
  <1> QED BY <1>2, <1>5 DEF N

LEMMA PartsAreBytes ==
    ASSUME NEW ops \in Seq(PackedOperations)
    PROVE  /\ [i \in DOMAIN ops |-> Encoded(ops[i])] \in Seq(Bytes)
           /\ [i \in DOMAIN ops |-> Meaning(ops[i])] \in Seq(Bytes)
           /\ Len([i \in DOMAIN ops |-> Encoded(ops[i])]) = Len(ops)
           /\ Len([i \in DOMAIN ops |-> Meaning(ops[i])]) = Len(ops)
           /\ \A i \in 1 .. Len(ops) :
                 /\ ops[i] \in PackedOperations
                 /\ [j \in DOMAIN ops |-> Encoded(ops[j])][i] = Encoded(ops[i])
                 /\ [j \in DOMAIN ops |-> Meaning(ops[j])][i] = Meaning(ops[i])
           /\ Len(ops) \in Nat
  <1>1. DOMAIN ops = 1 .. Len(ops) /\ Len(ops) \in Nat
    OBVIOUS
  <1>2. \A i \in 1 .. Len(ops) : ops[i] \in PackedOperations
    BY ElementOfSeq
  <1>3. \A i \in 1 .. Len(ops) : Encoded(ops[i]) \in Bytes /\ Meaning(ops[i]) \in Bytes
    BY <1>2, EncodedBytes, MeaningBytes
  <1> QED BY <1>1, <1>2, <1>3

LEMMA HeldAll ==
    ASSUME NEW s \in Bytes
    PROVE  Held(s, 1, s)
  BY DEF Held, Bytes

\* Whatever operations a section is packed into, its expansion succeeds and
\* gives the bytes they stand for.
LEMMA ExpandedAsPacked ==
    ASSUME NEW ops \in Seq(PackedOperations)
    PROVE  /\ Expand(StoredAs(ops), Len(MeaningOf(ops))).ok
           /\ Expand(StoredAs(ops), Len(MeaningOf(ops))).bytes = MeaningOf(ops)
           /\ MeaningOf(ops) \in Bytes
  <1> DEFINE enc == [i \in DOMAIN ops |-> Encoded(ops[i])]
             mean == [i \in DOMAIN ops |-> Meaning(ops[i])]
             N == Len(ops)
             packed == StoredAs(ops)
             size == Len(MeaningOf(ops))
             P == Len(packed)
  <1>1. /\ enc \in Seq(Bytes) /\ mean \in Seq(Bytes) /\ Len(enc) = N /\ Len(mean) = N
        /\ \A i \in 1 .. N : /\ ops[i] \in PackedOperations
                             /\ enc[i] = Encoded(ops[i]) /\ mean[i] = Meaning(ops[i])
        /\ N \in Nat
    BY PartsAreBytes
  <1>2. StoredAs(ops) = FlattenSeq(enc) /\ MeaningOf(ops) = FlattenSeq(mean)
    BY DEF StoredAs, MeaningOf
  <1> HIDE DEF enc, mean, N
  <1>3. PICK g : JoinedParts(g, enc) /\ packed = g[N]
    BY <1>1, <1>2, JoinedInTurn
  <1>4. PICK h : JoinedParts(h, mean) /\ MeaningOf(ops) = h[N]
    BY <1>1, <1>2, JoinedInTurn
  <1>5. /\ \A k \in 0 .. N : g[k] \in Bytes /\ h[k] \in Bytes
        /\ g[0] = << >> /\ h[0] = << >>
    BY <1>1, <1>3, <1>4 DEF JoinedParts
  <1>6. 0 \in 0 .. N /\ N \in 0 .. N
    BY <1>1
  <1>7. packed \in Bytes /\ MeaningOf(ops) \in Bytes
    BY <1>3, <1>4, <1>5, <1>6
  <1> HIDE DEF packed
  <1>8. P \in Nat /\ size \in Nat
    BY <1>7 DEF Bytes
  <1>9. \A i \in 1 .. N : Encoded(ops[i]) \in Bytes /\ Len(Encoded(ops[i])) \in Nat \ {0}
    BY <1>1, EncodedBytes
  <1>10. N <= P
    <2>1. \A i \in 1 .. Len(enc) : Len(enc[i]) # 0
      BY <1>1, <1>9
    <2> QED BY <1>1, <1>3, <2>1, AtLeastOne
  <1>11. \A k \in 0 .. N : /\ Len(h[k]) \in Nat /\ Len(h[k]) <= size
                           /\ Len(h[k]) >= size => h[k] = h[N]
    BY <1>1, <1>4, WholePrefix
  <1>12. \A i \in 1 .. N : /\ Held(packed, 1 + Len(g[i - 1]), Encoded(ops[i]))
                           /\ 1 + Len(g[i - 1]) \in Nat \ {0}
    <2>1. Held(packed, 1, g[N])
      BY <1>3, <1>7, HeldAll
    <2>2. \A i \in 1 .. N : /\ Held(packed, 1 + Len(g[i - 1]), enc[i])
                            /\ 1 + Len(g[i - 1]) \in Nat \ {0}
      <3> TAKE i \in 1 .. N
      <3>1. i \in 1 .. Len(enc) /\ enc \in Seq(Bytes) /\ JoinedParts(g, enc)
            /\ Held(packed, 1, g[Len(enc)]) /\ 1 \in Nat \ {0}
        BY <1>1, <1>3, <2>1
      <3> QED BY <1>7, <3>1, HeldInTurn
    <2> QED BY <1>1, <2>2
  <1>13. \A i \in 1 .. N : /\ Len(g[i]) = Len(g[i - 1]) + Len(Encoded(ops[i]))
                           /\ h[i] = h[i - 1] \o Meaning(ops[i])
                           /\ Len(g[i - 1]) \in Nat
    <2> TAKE i \in 1 .. N
    <2> HIDE DEF packed, size
    <2>1. Len(g[i]) = Len(g[i - 1]) + Len(enc[i]) /\ Len(g[i - 1]) \in Nat
      <3>1. i \in 1 .. Len(enc) /\ enc \in Seq(Bytes) /\ JoinedParts(g, enc)
        BY <1>1, <1>3
      <3> QED BY <3>1, PrefixLengths, Zenon
    <2>2. h[i] = h[i - 1] \o mean[i]
      <3>1. i \in 1 .. Len(mean) /\ mean \in Seq(Bytes) /\ JoinedParts(h, mean)
        BY <1>1, <1>4
      <3> QED BY <3>1, PrefixLengths, Zenon
    <2> QED BY <1>1, <2>1, <2>2
  <1> HIDE DEF size, P
  <1>14. PICK after : /\ after[0] = Start
                      /\ \A i \in 1 .. P : after[i] = Turn(packed, size, after[i - 1])
                      /\ Expand(packed, size) = Expansion(after[P], size)
    BY <1>7, ExpandTurns DEF P
  <1> DEFINE Come(i, k) == /\ \E args : Reading(after[i], 1 + Len(g[k]), h[k], args)
                           /\ k = i \/ k = N \/ Len(h[k]) >= size
             S == {i \in 0 .. P : \E k \in 0 .. N : Come(i, k)}
  <1>15. 0 \in S
    <2>1. Reading(Start, 1, << >>, << >>)
      BY DEF Reading, Start
    <2>2. Len(g[0]) = 0 /\ 1 + 0 = 1
      BY <1>5
    <2>3. Come(0, 0)
      BY <1>5, <1>14, <2>1, <2>2
    <2>4. 0 \in 0 .. P
      BY <1>8
    <2> QED BY <1>6, <2>3, <2>4
  <1>16. ASSUME NEW i \in 1 .. P, i - 1 \in S
         PROVE  i \in S
    <2>1. PICK k \in 0 .. N : Come(i - 1, k)
      BY <1>16
    <2>2. PICK args : Reading(after[i - 1], 1 + Len(g[k]), h[k], args)
      BY <2>1
    <2> DEFINE s == after[i - 1]
    <2>3. s.ok /\ s.at = 1 + Len(g[k]) /\ s.out = h[k]
      BY <2>2 DEF Reading
    <2>4. after[i] = Turn(packed, size, s)
      BY <1>14
    <2>5. i \in 0 .. P /\ i \in Nat
      BY <1>8
    <2>6. CASE k = N \/ Len(h[k]) >= size
      <3>1. ~(s.at <= P /\ Len(s.out) < size)
        <4>1. CASE k = N
          <5>1. s.at = 1 + P
            BY <1>3, <2>3, <4>1 DEF P
          <5> QED BY <1>8, <5>1
        <4>2. CASE Len(h[k]) >= size
          <5>1. Len(h[k]) \in Nat
            BY <1>11
          <5> QED BY <1>8, <2>3, <4>2, <5>1
        <4> QED BY <2>6, <4>1, <4>2
      <3>2. after[i] = s
        BY <2>4, <3>1 DEF Turn, P
      <3>3. Come(i, k)
        BY <2>2, <2>6, <3>2
      <3> QED BY <2>5, <3>3
    <2>7. CASE k # N /\ ~(Len(h[k]) >= size)
      <3>1. k = i - 1 /\ i \in 1 .. N /\ i \in 0 .. N
        BY <1>1, <2>1, <2>5, <2>7
      <3>2. Done(packed, 1 + Len(g[k]), s, h[k], Encoded(ops[i]), Meaning(ops[i]))
        <4>1. /\ ops[i] \in PackedOperations /\ Held(packed, 1 + Len(g[k]), Encoded(ops[i]))
              /\ 1 + Len(g[k]) \in Nat \ {0}
          BY <1>1, <1>12, <3>1
        <4> HIDE DEF s
        <4> QED BY <1>7, <2>2, <4>1, OperationDone DEF s
      <3>3. s.at <= P
        BY <2>3, <3>2 DEF Done, P
      <3>4. Len(s.out) < size
        <4>1. Len(h[k]) \in Nat
          BY <1>11
        <4> QED BY <1>8, <2>3, <2>7, <4>1
      <3>5. after[i] = Operation(packed, s)
        BY <2>3, <2>4, <3>3, <3>4 DEF Turn, P
      <3>6. PICK ints : Reading(after[i], (1 + Len(g[k])) + Len(Encoded(ops[i])),
                                h[k] \o Meaning(ops[i]), ints)
        BY <3>2, <3>5 DEF Done
      <3>7. (1 + Len(g[k])) + Len(Encoded(ops[i])) = 1 + Len(g[i])
        <4>1. /\ Len(g[i]) = Len(g[k]) + Len(Encoded(ops[i]))
              /\ Len(Encoded(ops[i])) \in Nat /\ Len(g[k]) \in Nat
          BY <1>9, <1>13, <3>1
        <4> DEFINE a == Len(g[i])
                   b == Len(g[k])
                   c == Len(Encoded(ops[i]))
        <4>2. a = b + c /\ c \in Nat /\ b \in Nat
          BY <4>1
        <4> HIDE DEF a, b, c
        <4>3. (1 + b) + c = 1 + a
          BY <4>2
        <4> QED BY <4>3 DEF a, b, c
      <3>8. h[k] \o Meaning(ops[i]) = h[i]
        BY <1>13, <3>1
      <3>9. Come(i, i)
        BY <3>6, <3>7, <3>8
      <3> QED BY <2>5, <3>1, <3>9
    <2> QED BY <2>6, <2>7
  <1>17. \A i \in 0 .. P : i \in S
    <2> HIDE DEF S
    <2> QED BY <1>8, <1>15, <1>16, UpTo
  <1>18. PICK k \in 0 .. N : Come(P, k)
    <2> HIDE DEF S
    <2>1. P \in S
      BY <1>8, <1>17
    <2> QED BY <2>1 DEF S
  <1>19. h[k] = h[N]
    <2>1. k = N \/ Len(h[k]) >= size
      BY <1>1, <1>8, <1>10, <1>18
    <2> QED BY <1>11, <2>1
  <1>20. after[P].ok /\ after[P].out = h[N]
    BY <1>18, <1>19 DEF Reading
  <1>21. Len(h[N]) = size
    BY <1>4 DEF size
  <1>22. Expansion(after[P], size).ok /\ Expansion(after[P], size).bytes = h[N]
    BY <1>20, <1>21 DEF Expansion
  <1> QED BY <1>4, <1>7, <1>14, <1>22 DEF size, packed

\* A slice of n bytes, and zeros up to n.
LEMMA JoinedElements ==
    ASSUME NEW a \in Bytes, NEW b \in Bytes
    PROVE  /\ \A k \in 1 .. Len(a) : (a \o b)[k] = a[k]
           /\ \A k \in 1 .. Len(b) : (a \o b)[Len(a) + k] = b[k]
  BY ConcatProperties DEF Bytes

LEMMA Filled ==
    ASSUME NEW b \in Bytes, NEW n \in Nat
    PROVE  Slice(b, 1, n) \o Zeros(n - Len(Slice(b, 1, n)))
               = [k \in 1 .. n |-> IF k <= Len(b) THEN b[k] ELSE 0]
  <1> DEFINE m == Len(b)
             e == IF n <= m THEN n ELSE m
             s == Slice(b, 1, n)
             z == Zeros(n - e)
             f == [k \in 1 .. n |-> IF k <= m THEN b[k] ELSE 0]
  <1>1. m \in Nat /\ b \in Seq(0 .. 255)
    BY DEF Bytes
  <1>2. Min({1 + n - 1, m}) = e
    <2>1. 1 + n - 1 = n
      OBVIOUS
    <2>2. CASE n <= m
      BY <1>1, <2>1, <2>2, MinOfTwo
    <2>3. CASE m <= n
      <3>1. Min({m, n}) = m
        BY <1>1, <2>3, MinOfTwo
      <3>2. {n, m} = {m, n}
        OBVIOUS
      <3>3. e = m
        BY <1>1, <2>3
      <3> QED BY <2>1, <3>1, <3>2, <3>3, Zenon
    <2> QED BY <1>1, <2>2, <2>3
  <1>3. s = SubSeq(b, 1, e)
    BY <1>2 DEF Slice
  <1>4. e \in Nat /\ e <= m /\ e <= n
    BY <1>1
  <1> HIDE DEF e, m, s
  <1>5. s \in Seq(0 .. 255) /\ Len(s) = e /\ \A k \in 1 .. e : s[k] = b[k]
    <2>1. \A i \in 1 .. e : b[i] \in 0 .. 255
      <3>1. \A i \in 1 .. e : i \in 1 .. Len(b)
        BY <1>1, <1>4 DEF m
      <3> QED BY <1>1, <3>1, ElementOfSeq
    <2>2. SubSeq(b, 1, e) = [k \in 1 .. e |-> b[k]]
      BY <1>1, <1>4
    <2> QED BY <1>3, <1>4, <2>1, <2>2
  <1>6. z \in Seq(0 .. 255) /\ Len(z) = n - e /\ \A k \in 1 .. n - e : z[k] = 0
    <2>1. n - e \in Nat
      BY <1>4
    <2> DEFINE r == n - e
    <2> HIDE DEF r
    <2>2. [i \in 1 .. r |-> 0] \in Seq(0 .. 255) /\ Len([i \in 1 .. r |-> 0]) = r
      BY <2>1 DEF r
    <2> QED BY <2>2 DEF Zeros, r
  <1> HIDE DEF z
  <1>7. /\ s \o z \in Seq(0 .. 255) /\ Len(s \o z) = n
        /\ \A k \in 1 .. e : (s \o z)[k] = b[k]
        /\ \A k \in 1 .. n - e : (s \o z)[e + k] = 0
    <2>1. s \in Bytes /\ z \in Bytes
      BY <1>5, <1>6 DEF Bytes
    <2>2. Len(s \o z) = Len(s) + Len(z) /\ s \o z \in Bytes
      BY <2>1, JoinedBytes
    <2>3. /\ \A k \in 1 .. Len(s) : (s \o z)[k] = s[k]
          /\ \A k \in 1 .. Len(z) : (s \o z)[Len(s) + k] = z[k]
      BY <2>1, JoinedElements
    <2>4. /\ Len(s \o z) = Len(s) + Len(z) /\ s \o z \in Seq(0 .. 255)
          /\ \A k \in 1 .. Len(s) : (s \o z)[k] = s[k]
          /\ \A k \in 1 .. Len(z) : (s \o z)[Len(s) + k] = z[k]
      BY <2>2, <2>3 DEF Bytes
    <2>5. e + (n - e) = n
      BY <1>4
    <2> QED BY <1>5, <1>6, <2>4, <2>5
  <1>8. \A k \in 1 .. n : (s \o z)[k] = IF k <= m THEN b[k] ELSE 0
    <2> TAKE k \in 1 .. n
    <2>1. CASE k <= e
      <3>1. k \in 1 .. e /\ k <= m
        BY <1>1, <1>4, <2>1
      <3> QED BY <1>7, <3>1
    <2>2. CASE ~(k <= e)
      <3>1. k - e \in 1 .. n - e /\ e + (k - e) = k
        BY <1>4, <2>2
      <3>2. ~(k <= m)
        BY <1>1, <2>2 DEF e
      <3> QED BY <1>7, <3>1, <3>2
    <2> QED BY <2>1, <2>2
  <1>9. s \o z = f
    <2> DEFINE c == s \o z
    <2>1. c \in Seq(0 .. 255) /\ Len(c) = n
      BY <1>7
    <2>2. \A k \in 1 .. n : c[k] = IF k <= m THEN b[k] ELSE 0
      BY <1>8
    <2> HIDE DEF c
    <2>3. c = [k \in 1 .. n |-> c[k]]
      BY <2>1
    <2>4. c = f
      BY <2>2, <2>3
    <2> QED BY <2>4 DEF c
  <1> QED BY <1>5, <1>9 DEF s, z, m

-----------------------------------------------------------------------------
(* The images of a fragment *)

LEMMA SectionsAre ==
    ASSUME container \in Containers
    PROVE  /\ Len(Sections) \in Nat /\ DOMAIN Sections = 1 .. Len(Sections)
           /\ \A i \in DOMAIN Sections :
                 /\ Sections[i].stored \in Bytes /\ Sections[i].total \in Nat
                 /\ Sections[i].contents \in Seq(PackedOperations)
  <1>1. Sections \in Seq(ToSet(Sections))
    BY LoadAssumption DEF Sections
  <1>2. Len(Sections) \in Nat /\ DOMAIN Sections = 1 .. Len(Sections)
    BY <1>1
  <1>3. \A i \in DOMAIN Sections : Sections[i] \in ToSet(container.sections)
    BY DEF ToSet, Sections
  <1> QED BY <1>2, <1>3, SectionAssumption

\* The first section of packed data is the only one.
LEMMA OnePacked ==
    ASSUME container \in Containers, Cardinality(PackedSections) <= 1,
           NEW i \in PackedSections
    PROVE  Min(PackedSections) = i
  <1>1. IsFiniteSet(PackedSections)
    <2>1. PackedSections \subseteq 1 .. Len(Sections) /\ Len(Sections) \in Nat
      BY SectionsAre DEF PackedSections
    <2>2. IsFiniteSet(1 .. Len(Sections))
      BY <2>1, FS_Interval
    <2> QED BY <2>1, <2>2, FS_Subset
  <1>2. PackedSections = {i}
    <2> SUFFICES ASSUME NEW j \in PackedSections, j # i
                 PROVE  FALSE
      OBVIOUS
    <2>1. Cardinality({i, j}) <= Cardinality(PackedSections)
      BY <1>1, FS_Subset
    <2>2. IsFiniteSet({i}) /\ Cardinality({i}) = 1
      BY FS_Singleton
    <2>3. Cardinality({i} \union {j}) = 2
      BY <2>2, FS_AddElement
    <2>4. {i} \union {j} = {i, j}
      OBVIOUS
    <2>5. Cardinality(PackedSections) \in Nat
      BY <1>1, FS_CardinalityType
    <2> QED BY <2>1, <2>3, <2>4, <2>5
  <1>3. i \in Int
    BY SectionsAre DEF PackedSections
  <1>4. {i} = {i, i} /\ Min({i, i}) = i
    BY <1>3, MinOfTwo
  <1> QED BY <1>2, <1>4

LEMMA ImageIsLinked ==
    ASSUME container \in Containers, PackedOnce, NEW i \in DOMAIN Sections
    PROVE  /\ i \in PackedSections => SectionImage(i).ok
           /\ SectionImage(i).ok => SectionImage(i).bytes = Linked(Sections[i])
  <1> DEFINE section == Sections[i]
             n == section.total
             b == IF section.kind = "pattern_initialized_data"
                  THEN MeaningOf(section.contents) ELSE section.stored
             x == IF i \in PackedSections THEN Unpacked
                  ELSE [ok |-> TRUE, bytes |-> section.stored]
  <1>1. n \in Nat
    BY SectionsAre
  <1>2. i \in PackedSections <=> section.kind = "pattern_initialized_data"
    BY DEF PackedSections
  <1>3. x.ok /\ x.bytes = b /\ b \in Bytes
    <2>1. CASE i \in PackedSections
      <3> DEFINE ops == section.contents
      <3>1. /\ ops \in Seq(PackedOperations)
            /\ section.stored = StoredAs(ops) /\ section.unpacked = Len(MeaningOf(ops))
        BY <2>1, SectionsAre DEF PackedOnce
      <3>2. Unpacked = Expand(section.stored, section.unpacked)
        BY <2>1, OnePacked DEF Unpacked, PackedOnce
      <3> HIDE DEF section, ops
      <3>3. /\ Expand(StoredAs(ops), Len(MeaningOf(ops))).ok
            /\ Expand(StoredAs(ops), Len(MeaningOf(ops))).bytes = MeaningOf(ops)
            /\ MeaningOf(ops) \in Bytes
        BY <3>1, ExpandedAsPacked
      <3> QED BY <1>2, <2>1, <3>1, <3>2, <3>3 DEF ops
    <2>2. CASE i \notin PackedSections
      BY <1>2, <2>2, SectionsAre
    <2> QED BY <2>1, <2>2
  <1> DEFINE image == SectionImage(i)
  <1>4. CASE ~InFile(i)
    <2>1. ~image.ok
      BY <1>4 DEF SectionImage
    <2>2. i \notin PackedSections
      BY <1>4, OnePacked DEF InFile, PackedOnce
    <2> QED BY <2>1, <2>2
  <1>5. CASE InFile(i)
    <2>1. image = [ok |-> x.ok, bytes |-> Slice(x.bytes, 1, n)
                                              \o Zeros(n - Len(Slice(x.bytes, 1, n)))]
      BY <1>5 DEF SectionImage, FullImage
    <2>2. Linked(section) = [k \in 1 .. n |-> IF k <= Len(b) THEN b[k] ELSE 0]
      BY DEF Linked
    <2> HIDE DEF x, b, n, section
    <2>3. image.ok
      BY <1>3, <2>1
    <2>4. image.bytes = Slice(b, 1, n) \o Zeros(n - Len(Slice(b, 1, n)))
      BY <1>3, <2>1
    <2>5. image.bytes = Linked(section)
      BY <1>1, <1>3, <2>2, <2>4, Filled
    <2> QED BY <2>3, <2>5 DEF section
  <1> QED BY <1>4, <1>5

-----------------------------------------------------------------------------
(* Sequences of sequences joined *)

LEMMA FlatType ==
    ASSUME NEW T, NEW seqs \in Seq(Seq(T))
    PROVE  FlattenSeq(seqs) \in Seq(T)
  <1>1. PICK g : g \in [0 .. Len(seqs) -> Seq(T)] /\ FlattenSeq(seqs) = g[Len(seqs)]
    BY Flattened
  <1>2. Len(seqs) \in 0 .. Len(seqs)
    OBVIOUS
  <1> QED BY <1>1, <1>2

LEMMA FlatEmpty == FlattenSeq(<< >>) = << >>
  BY DEF FlattenSeq

LEMMA AppendIs ==
    ASSUME NEW T, NEW s \in Seq(T), NEW x \in T
    PROVE  /\ Append(s, x) \in Seq(T) /\ Len(Append(s, x)) = Len(s) + 1
           /\ Len(s) \in Nat /\ Append(s, x)[Len(s) + 1] = x
           /\ \A i \in 1 .. Len(s) : Append(s, x)[i] = s[i]
  BY AppendProperties

\* One more sequence is joined at the end.
LEMMA FlatAppend ==
    ASSUME NEW T, NEW seqs \in Seq(Seq(T)), NEW s \in Seq(T)
    PROVE  FlattenSeq(Append(seqs, s)) = FlattenSeq(seqs) \o s
  <1> DEFINE more == Append(seqs, s)
             N == Len(seqs)
  <1>1. /\ more \in Seq(Seq(T)) /\ Len(more) = N + 1 /\ N \in Nat /\ more[N + 1] = s
        /\ \A i \in 1 .. N : more[i] = seqs[i]
    <2> DEFINE U == Seq(T)
    <2>1. seqs \in Seq(U) /\ s \in U
      OBVIOUS
    <2> HIDE DEF U
    <2>2. /\ more \in Seq(U) /\ Len(more) = N + 1 /\ N \in Nat /\ more[N + 1] = s
          /\ \A i \in 1 .. N : more[i] = seqs[i]
      BY <2>1, AppendIs
    <2> QED BY <2>2 DEF U
  <1>2. PICK g : /\ g[0] = << >> /\ \A i \in 1 .. N : g[i] = g[i - 1] \o seqs[i]
                 /\ FlattenSeq(seqs) = g[N]
    BY Flattened
  <1> HIDE DEF more
  <1>3. PICK h : /\ h[0] = << >> /\ \A i \in 1 .. Len(more) : h[i] = h[i - 1] \o more[i]
                 /\ FlattenSeq(more) = h[Len(more)]
    <2>1. more \in Seq(Seq(T))
      BY <1>1
    <2> QED BY <2>1, Flattened
  <1> HIDE DEF N
  <1> DEFINE S == {i \in 0 .. N : g[i] = h[i]}
  <1>4. 0 \in S
    BY <1>1, <1>2, <1>3
  <1>5. ASSUME NEW i \in 1 .. N, i - 1 \in S
        PROVE  i \in S
    <2>1. i \in 0 .. N /\ i \in 1 .. N + 1 /\ g[i - 1] = h[i - 1] /\ more[i] = seqs[i]
      BY <1>1, <1>5
    <2>2. g[i] = g[i - 1] \o seqs[i] /\ h[i] = h[i - 1] \o more[i]
      BY <1>1, <1>2, <1>3, <2>1
    <2> QED BY <2>1, <2>2
  <1> HIDE DEF S
  <1>6. \A i \in 0 .. N : i \in S
    BY <1>1, <1>4, <1>5, UpTo
  <1>7. g[N] = h[N]
    BY <1>1, <1>6 DEF S
  <1>8. h[N + 1] = h[N] \o s
    <2>1. N + 1 \in 1 .. N + 1 /\ (N + 1) - 1 = N
      BY <1>1
    <2> QED BY <1>1, <1>3, <2>1
  <1> QED BY <1>2, <1>3, <1>7, <1>8 DEF more, N

LEMMA LastApart ==
    ASSUME NEW T, NEW s \in Seq(T), NEW k \in 1 .. Len(s)
    PROVE  /\ SubSeq(s, 1, k) = Append(SubSeq(s, 1, k - 1), s[k])
           /\ SubSeq(s, 1, k - 1) \in Seq(T) /\ SubSeq(s, 1, k) \in Seq(T)
           /\ s[k] \in T /\ Len(SubSeq(s, 1, k - 1)) = k - 1
           /\ SubSeq(s, 1, Len(s)) = s /\ SubSeq(s, 1, 0) = << >>
  <1>1. /\ Len(s) \in Nat /\ k \in 1 .. Len(s) /\ k - 1 \in 0 .. Len(s) /\ s[k] \in T
        /\ \A i \in 1 .. Len(s) : s[i] \in T
    OBVIOUS
  <1>2. SubSeq(s, 1, k) = [i \in 1 .. k |-> s[i]]
    OBVIOUS
  <1>3. SubSeq(s, 1, k - 1) = [i \in 1 .. k - 1 |-> s[i]]
    OBVIOUS
  <1>4. SubSeq(s, 1, k - 1) \in Seq(T) /\ SubSeq(s, 1, k) \in Seq(T)
    OBVIOUS
  <1> DEFINE a == SubSeq(s, 1, k - 1)
             b == Append(a, s[k])
  <1>5. Len(a) = k - 1 /\ \A i \in 1 .. k - 1 : a[i] = s[i]
    BY <1>1, <1>3
  <1>6. a \in Seq(T)
    BY <1>4
  <1> HIDE DEF a
  <1>7. /\ b \in Seq(T) /\ Len(b) = Len(a) + 1 /\ b[Len(a) + 1] = s[k]
        /\ \A i \in 1 .. Len(a) : b[i] = a[i]
    BY <1>1, <1>6, AppendIs
  <1> HIDE DEF b
  <1>8. b = [i \in 1 .. k |-> s[i]]
    <2>1. Len(b) = k /\ b = [i \in 1 .. k |-> b[i]]
      BY <1>1, <1>5, <1>7
    <2>2. \A i \in 1 .. k : b[i] = s[i]
      <3> TAKE i \in 1 .. k
      <3>1. CASE i = k
        BY <1>1, <1>5, <1>7, <3>1
      <3>2. CASE i # k
        <4>1. i \in 1 .. k - 1
          BY <1>1, <3>2
        <4> QED BY <1>5, <1>7, <4>1
      <3> QED BY <3>1, <3>2
    <2> QED BY <2>1, <2>2
  <1>9. SubSeq(s, 1, Len(s)) = s /\ SubSeq(s, 1, 0) = << >>
    OBVIOUS
  <1> QED BY <1>1, <1>2, <1>4, <1>5, <1>8, <1>9 DEF a, b

LEMMA AppendToJoined ==
    ASSUME NEW T, NEW a \in Seq(T), NEW c \in Seq(T), NEW x \in T
    PROVE  a \o Append(c, x) = Append(a \o c, x) /\ a \o c \in Seq(T)
  <1>1. a \o c \in Seq(T) /\ <<x>> \in Seq(T)
    OBVIOUS
  <1>2. Append(c, x) = c \o <<x>> /\ Append(a \o c, x) = (a \o c) \o <<x>>
    BY <1>1, AppendIsConcat
  <1> QED BY <1>1, <1>2, ConcatAssociative

\* Those of two sequences joined.
LEMMA FlatConcat ==
    ASSUME NEW T, NEW a \in Seq(Seq(T)), NEW b \in Seq(Seq(T))
    PROVE  FlattenSeq(a \o b) = FlattenSeq(a) \o FlattenSeq(b)
  <1> DEFINE U == Seq(T)
             N == Len(b)
             part(k) == SubSeq(b, 1, k)
             S == {k \in 0 .. N : FlattenSeq(a \o part(k)) = FlattenSeq(a) \o FlattenSeq(part(k))}
  <1>1. a \in Seq(U) /\ b \in Seq(U) /\ N \in Nat
    OBVIOUS
  <1>2. \A s \in U, t \in U, u \in U : (s \o t) \o u = s \o (t \o u)
    BY ConcatAssociative
  <1>3. FlattenSeq(a) \in U /\ \A k \in 0 .. N : part(k) \in Seq(U) /\ FlattenSeq(part(k)) \in U
    <2>1. FlattenSeq(a) \in U
      BY FlatType
    <2>2. ASSUME NEW k \in 0 .. N
          PROVE  part(k) \in Seq(U) /\ FlattenSeq(part(k)) \in U
      <3>1. part(k) \in Seq(Seq(T))
        OBVIOUS
      <3> HIDE DEF part
      <3> QED BY <3>1, FlatType
    <2> QED BY <2>1, <2>2
  <1>4. FlattenSeq(a) \o << >> = FlattenSeq(a)
    BY <1>3
  <1>5. \A s : s \in Seq(U) <=> s \in Seq(Seq(T))
    OBVIOUS
  <1>6. \A s \in Seq(U), x \in U : FlattenSeq(Append(s, x)) = FlattenSeq(s) \o x
    BY FlatAppend
  <1> HIDE DEF U
  <1>7. 0 \in S
    <2>1. part(0) = << >> /\ a \o << >> = a
      BY <1>1
    <2>2. 0 \in 0 .. N
      BY <1>1
    <2> HIDE DEF part, N
    <2> QED BY <1>4, <2>1, <2>2, FlatEmpty
  <1>8. ASSUME NEW k \in 1 .. N, k - 1 \in S
        PROVE  k \in S
    <2> DEFINE x == b[k]
               c == part(k - 1)
    <2>1. part(k) = Append(c, x) /\ c \in Seq(U) /\ x \in U
      BY <1>1, LastApart
    <2>2. FlattenSeq(a \o c) = FlattenSeq(a) \o FlattenSeq(c) /\ k \in 0 .. N /\ k - 1 \in 0 .. N
      BY <1>1, <1>8
    <2>3. FlattenSeq(c) \in U
      BY <1>3, <2>2
    <2> HIDE DEF c, x
    <2>4. a \o Append(c, x) = Append(a \o c, x) /\ a \o c \in Seq(U)
      BY <1>1, <2>1, AppendToJoined
    <2>5. FlattenSeq(Append(c, x)) = FlattenSeq(c) \o x
      BY <1>6, <2>1
    <2>6. FlattenSeq(Append(a \o c, x)) = FlattenSeq(a \o c) \o x
      BY <1>6, <2>1, <2>4
    <2>7. (FlattenSeq(a) \o FlattenSeq(c)) \o x = FlattenSeq(a) \o (FlattenSeq(c) \o x)
      BY <1>2, <1>3, <2>1, <2>3
    <2>8. FlattenSeq(a \o part(k)) = FlattenSeq(a) \o FlattenSeq(part(k))
      BY <2>1, <2>2, <2>4, <2>5, <2>6, <2>7
    <2> QED BY <2>2, <2>8
  <1> HIDE DEF S
  <1>9. \A k \in 0 .. N : k \in S
    BY <1>1, <1>7, <1>8, UpTo
  <1>10. part(N) = b /\ N \in S
    BY <1>1, <1>9
  <1> QED BY <1>10 DEF S

\* What a function gives of each element, one by one and joined.
Maps(E, X, U) == E \in [X -> U]
Mapped(E, s) == [k \in DOMAIN s |-> E[s[k]]]
Each(E, s) == FlattenSeq(Mapped(E, s))

LEMMA MappedIs ==
    ASSUME NEW X, NEW U, NEW E, Maps(E, X, U), NEW s \in Seq(X)
    PROVE  /\ Mapped(E, s) \in Seq(U) /\ Len(Mapped(E, s)) = Len(s)
           /\ \A k \in 1 .. Len(s) : Mapped(E, s)[k] = E[s[k]]
           /\ Len(s) \in Nat
  <1>1. Len(s) \in Nat /\ DOMAIN s = 1 .. Len(s) /\ \A k \in 1 .. Len(s) : s[k] \in X
    OBVIOUS
  <1>2. \A k \in 1 .. Len(s) : E[s[k]] \in U
    BY <1>1 DEF Maps
  <1> QED BY <1>1, <1>2 DEF Mapped

LEMMA MappedConcat ==
    ASSUME NEW X, NEW U, NEW E, Maps(E, X, U), NEW a \in Seq(X), NEW b \in Seq(X)
    PROVE  Mapped(E, a \o b) = Mapped(E, a) \o Mapped(E, b)
  <1> DEFINE c == a \o b
             m == Len(a)
             n == Len(b)
             f == Mapped(E, a)
             g == Mapped(E, b)
             h == Mapped(E, c)
  <1>1. /\ c \in Seq(X) /\ Len(c) = m + n /\ m \in Nat /\ n \in Nat
        /\ \A i \in 1 .. m + n : c[i] = IF i <= m THEN a[i] ELSE b[i - m]
    BY ConcatProperties
  <1>2. f \in Seq(U) /\ Len(f) = m /\ \A k \in 1 .. m : f[k] = E[a[k]]
    BY MappedIs
  <1>3. g \in Seq(U) /\ Len(g) = n /\ \A k \in 1 .. n : g[k] = E[b[k]]
    BY MappedIs
  <1> HIDE DEF c
  <1>4. h \in Seq(U) /\ Len(h) = Len(c) /\ \A k \in 1 .. Len(c) : h[k] = E[c[k]]
    BY <1>1, MappedIs
  <1> HIDE DEF f, g, h
  <1>5. /\ f \o g \in Seq(U) /\ Len(f \o g) = Len(f) + Len(g)
        /\ \A i \in 1 .. Len(f) + Len(g) : (f \o g)[i] = IF i <= Len(f) THEN f[i]
                                                         ELSE g[i - Len(f)]
    <2>1. f \in Seq(U) /\ g \in Seq(U)
      BY <1>2, <1>3
    <2> HIDE DEF m, n
    <2> QED BY <2>1, ConcatProperties
  <1> HIDE DEF m, n
  <1> DEFINE j == f \o g
  <1>6. /\ j \in Seq(U) /\ Len(j) = m + n
        /\ \A i \in 1 .. m + n : j[i] = IF i <= m THEN f[i] ELSE g[i - m]
    BY <1>2, <1>3, <1>5
  <1> HIDE DEF j
  <1>7. \A i \in 1 .. m + n : h[i] = j[i]
    <2> TAKE i \in 1 .. m + n
    <2>1. h[i] = E[c[i]]
      BY <1>1, <1>4
    <2>2. CASE i <= m
      <3>1. i \in 1 .. m
        BY <1>1, <2>2
      <3> QED BY <1>1, <1>2, <1>6, <2>1, <2>2, <3>1
    <2>3. CASE ~(i <= m)
      <3>1. i - m \in 1 .. n
        BY <1>1, <2>3
      <3> QED BY <1>1, <1>3, <1>6, <2>1, <2>3, <3>1
    <2> QED BY <2>2, <2>3
  <1>8. h \in Seq(U) /\ Len(h) = m + n
    BY <1>1, <1>4
  <1>9. h = j
    <2>1. Len(h) = Len(j) /\ \A i \in 1 .. Len(h) : h[i] = j[i]
      BY <1>6, <1>7, <1>8
    <2> QED BY <1>6, <1>8, <2>1, SeqEqual
  <1> QED BY <1>9 DEF f, g, h, c, j

LEMMA EachConcat ==
    ASSUME NEW X, NEW Y, NEW E, Maps(E, X, Seq(Y)), NEW a \in Seq(X), NEW b \in Seq(X)
    PROVE  Each(E, a \o b) = Each(E, a) \o Each(E, b)
  <1> DEFINE U == Seq(Y)
             f == Mapped(E, a)
             g == Mapped(E, b)
  <1>1. Maps(E, X, U)
    OBVIOUS
  <1> HIDE DEF U
  <1>2. f \in Seq(U) /\ g \in Seq(U)
    BY <1>1, MappedIs
  <1>3. Mapped(E, a \o b) = f \o g
    BY <1>1, MappedConcat
  <1> HIDE DEF f, g
  <1>4. f \in Seq(Seq(Y)) /\ g \in Seq(Seq(Y))
    BY <1>2 DEF U
  <1>5. FlattenSeq(f \o g) = FlattenSeq(f) \o FlattenSeq(g)
    BY <1>4, FlatConcat
  <1> QED BY <1>3, <1>5 DEF Each, f, g

LEMMA EachType ==
    ASSUME NEW X, NEW Y, NEW E, Maps(E, X, Seq(Y)), NEW s \in Seq(X)
    PROVE  Each(E, s) \in Seq(Y)
  <1> DEFINE f == Mapped(E, s)
             U == Seq(Y)
  <1>1. Maps(E, X, U)
    OBVIOUS
  <1> HIDE DEF U
  <1>2. f \in Seq(U)
    BY <1>1, MappedIs
  <1> HIDE DEF f
  <1>3. f \in Seq(Seq(Y))
    BY <1>2 DEF U
  <1>4. FlattenSeq(f) \in Seq(Y)
    BY <1>3, FlatType
  <1> QED BY <1>4 DEF Each, f

LEMMA FlatOne ==
    ASSUME NEW T, NEW s \in Seq(T)
    PROVE  FlattenSeq(<<s>>) = s
  <1>1. << >> \in Seq(Seq(T)) /\ << >> \o s = s /\ Append(<< >>, s) = <<s>>
    OBVIOUS
  <1>2. FlattenSeq(Append(<< >>, s)) = FlattenSeq(<< >>) \o s
    BY <1>1, FlatAppend
  <1> QED BY <1>1, <1>2, FlatEmpty

LEMMA EachNone ==
    ASSUME NEW E
    PROVE  Each(E, << >>) = << >>
  <1>1. Mapped(E, << >>) = << >>
    BY DEF Mapped
  <1> QED BY <1>1, FlatEmpty DEF Each

LEMMA EachOne ==
    ASSUME NEW X, NEW Y, NEW E, Maps(E, X, Seq(Y)), NEW x \in X
    PROVE  Each(E, <<x>>) = E[x]
  <1>1. Mapped(E, <<x>>) = <<E[x]>>
    BY DEF Mapped
  <1>2. E[x] \in Seq(Y)
    BY DEF Maps
  <1> QED BY <1>1, <1>2, FlatOne DEF Each

\* Of the elements of all of them, and of each of them, joined.
LEMMA EachFlat ==
    ASSUME NEW X, NEW Y, NEW E, Maps(E, X, Seq(Y)), NEW all \in Seq(Seq(X))
    PROVE  Each(E, FlattenSeq(all)) = FlattenSeq([i \in DOMAIN all |-> Each(E, all[i])])
  <1> DEFINE N == Len(all)
             parts == [i \in DOMAIN all |-> Each(E, all[i])]
  <1>1. N \in Nat /\ DOMAIN all = 1 .. N /\ \A i \in 1 .. N : all[i] \in Seq(X)
    OBVIOUS
  <1>2. PICK g : /\ g \in [0 .. N -> Seq(X)] /\ g[0] = << >>
                 /\ \A i \in 1 .. N : g[i] = g[i - 1] \o all[i]
                 /\ FlattenSeq(all) = g[N]
    BY Flattened
  <1> HIDE DEF N
  <1>3. \A i \in 1 .. N : Each(E, all[i]) \in Seq(Y)
    BY <1>1, EachType
  <1>4. parts \in Seq(Seq(Y)) /\ Len(parts) = N /\ \A i \in 1 .. N : parts[i] = Each(E, all[i])
    <2> DEFINE U == Seq(Y)
    <2>1. \A i \in 1 .. N : Each(E, all[i]) \in U
      BY <1>3
    <2> HIDE DEF U
    <2>2. /\ parts \in Seq(U) /\ Len(parts) = N
          /\ \A i \in 1 .. N : parts[i] = Each(E, all[i])
      BY <1>1, <2>1
    <2> QED BY <2>2 DEF U
  <1> HIDE DEF parts
  <1>5. PICK h : /\ h[0] = << >> /\ \A i \in 1 .. N : h[i] = h[i - 1] \o parts[i]
                 /\ FlattenSeq(parts) = h[N]
    <2>1. PICK h : /\ h[0] = << >> /\ \A i \in 1 .. Len(parts) : h[i] = h[i - 1] \o parts[i]
                   /\ FlattenSeq(parts) = h[Len(parts)]
      BY <1>4, Flattened
    <2> QED BY <1>4, <2>1
  <1> DEFINE S == {i \in 0 .. N : Each(E, g[i]) = h[i]}
  <1>6. 0 \in S
    <2>1. 0 \in 0 .. N
      BY <1>1
    <2> QED BY <1>2, <1>5, <2>1, EachNone
  <1>7. ASSUME NEW i \in 1 .. N, i - 1 \in S
        PROVE  i \in S
    <2>1. i \in 0 .. N /\ i - 1 \in 0 .. N /\ Each(E, g[i - 1]) = h[i - 1]
      BY <1>1, <1>7
    <2> DEFINE a == g[i - 1]
               b == all[i]
    <2>2. a \in Seq(X) /\ b \in Seq(X) /\ g[i] = a \o b
      BY <1>1, <1>2, <2>1
    <2>3. h[i] = h[i - 1] \o Each(E, b)
      BY <1>4, <1>5
    <2>4. h[i - 1] = Each(E, a)
      BY <2>1
    <2> HIDE DEF a, b
    <2>5. Each(E, a \o b) = Each(E, a) \o Each(E, b)
      BY <2>2, EachConcat
    <2> QED BY <2>1, <2>2, <2>3, <2>4, <2>5
  <1> HIDE DEF S
  <1>8. \A i \in 0 .. N : i \in S
    BY <1>1, <1>6, <1>7, UpTo
  <1>9. N \in S
    BY <1>1, <1>8
  <1> QED BY <1>2, <1>5, <1>9 DEF S, parts

-----------------------------------------------------------------------------
(* The operations of an instruction *)

\* Instructions that have all their words.
Whole == {text \in Seq(Word) : text # << >> /\ Complete(text)}

OpNames == {"move", "position", "c", "d", "next_import", "import", "section",
            "set_c", "set_d", "error"}
Ops == [op : OpNames, n : Nat]

LEMMA WordsAre == \A n \in Word : n \in Nat
  <1> DEFINE last == 65535
  <1>1. last \in Nat
    OBVIOUS
  <1>2. Word = 0 .. last
    BY DEF Word
  <1> HIDE DEF last
  <1> QED BY <1>1, <1>2

LEMMA BitsAre ==
    ASSUME NEW word \in Nat
    PROVE  /\ Bits(word, 0, 6) \in Nat /\ Bits(word, 0, 8) \in Nat /\ Bits(word, 0, 9) \in Nat
           /\ Bits(word, 0, 10) \in Nat /\ Bits(word, 0, 12) \in Nat
           /\ Bits(word, 6, 4) \in Nat /\ Bits(word, 6, 8) \in Nat /\ Bits(word, 8, 4) \in Nat
           /\ 2^16 \in Nat
  BY DEF Bits

LEMMA AgainIs ==
    ASSUME NEW T, NEW s \in Seq(T), NEW n \in Nat
    PROVE  Again(s, n) \in Seq(T)
  <1> DEFINE f == [i \in 1 .. n |-> s]
             U == Seq(T)
  <1>1. s \in U
    OBVIOUS
  <1> HIDE DEF U
  <1>2. f \in Seq(U)
    BY <1>1
  <1> HIDE DEF f
  <1>3. f \in Seq(Seq(T))
    BY <1>2 DEF U
  <1>4. FlattenSeq(f) \in Seq(T)
    BY <1>3, FlatType
  <1> QED BY <1>4 DEF Again, f

LEMMA OpIs ==
    ASSUME NEW name \in OpNames, NEW n \in Nat
    PROVE  Op(name, n) \in Ops /\ Op(name, n).op = name
  BY DEF Op, Ops

LEMMA RunIs ==
    ASSUME NEW s \in Seq(Ops), NEW word \in Nat
    PROVE  Again(s, Bits(word, 0, 9) + 1) \in Seq(Ops)
  <1> DEFINE n == Bits(word, 0, 9) + 1
  <1>1. n \in Nat
    <2> DEFINE b == Bits(word, 0, 9)
    <2>1. b \in Nat
      BY BitsAre, Zenon
    <2> HIDE DEF b
    <2>2. b + 1 \in Nat
      BY <2>1
    <2> QED BY <2>2 DEF b
  <1> HIDE DEF n
  <1>2. Again(s, n) \in Seq(Ops)
    BY <1>1, AgainIs, Zenon
  <1> QED BY <1>2 DEF n

LEMMA Subops == 0 # 1 /\ 0 # 2 /\ 1 # 2 /\ 1 # 0 /\ 2 # 0 /\ 2 # 1
  OBVIOUS

LEMMA ElementaryIs ==
    ASSUME NEW text \in Whole
    PROVE  Elementary(text) \in Seq(Ops)
  <1> DEFINE word == text[1]
             kind == KindOf(word)
             run == Bits(word, 0, 9) + 1
             subop == Bits(word, 6, 4)
             e == Elementary(text)
  <1>1. word \in Nat /\ Len(text) = LengthOf(word) /\ text \in Seq(Word)
    <2>1. text \in Seq(Word) /\ text # << >> /\ Len(text) = LengthOf(word)
      BY DEF Whole, Complete
    <2>2. \A t \in Seq(Word) : t # << >> => t[1] \in Word
      OBVIOUS
    <2> QED BY <2>1, <2>2, WordsAre
  <1>2. kind \in Long => text[2] \in Nat
    <2>1. ASSUME kind \in Long
          PROVE  Len(text) = 2
      BY <1>1, <2>1 DEF LengthOf
    <2>2. \A t \in Seq(Word) : Len(t) = 2 => t[2] \in Word
      OBVIOUS
    <2> QED BY <1>1, <2>1, <2>2, WordsAre
  <1>3. /\ run \in Nat /\ run - 1 \in Nat
        /\ 4 * Bits(word, 6, 8) \in Nat /\ Bits(word, 0, 6) \in Nat
        /\ Bits(word, 0, 12) + 1 \in Nat
    <2>1. /\ Bits(word, 0, 9) \in Nat /\ Bits(word, 6, 8) \in Nat
          /\ Bits(word, 0, 6) \in Nat /\ Bits(word, 0, 12) \in Nat
      BY <1>1, BitsAre, Zenon
    <2>2. \A n \in Nat : n + 1 \in Nat /\ n + 1 - 1 \in Nat /\ 4 * n \in Nat
      OBVIOUS
    <2>3. run \in Nat /\ run - 1 \in Nat
      <3>1. PICK n \in Nat : run = n + 1
        BY <2>1, Zenon
      <3> HIDE DEF run
      <3> QED BY <3>1
    <2>4. 4 * Bits(word, 6, 8) \in Nat
      BY <2>1, <2>2, Zenon
    <2>5. Bits(word, 0, 12) + 1 \in Nat
      BY <2>1, <2>2, Zenon
    <2> QED BY <2>1, <2>3, <2>4, <2>5
  <1>4. ASSUME kind \in Long
        PROVE  /\ Bits(word, 0, 10) * 2^16 + text[2] \in Nat
               /\ Bits(word, 0, 6) * 2^16 + text[2] \in Nat
    <2> DEFINE second == text[2]
    <2>1. second \in Nat
      BY <1>2, <1>4
    <2> DEFINE a == Bits(word, 0, 10)
               b == Bits(word, 0, 6)
               c == 2^16
    <2>2. a \in Nat /\ b \in Nat /\ c \in Nat
      <3> HIDE DEF word
      <3> QED BY <1>1, BitsAre
    <2> HIDE DEF a, b, c, second
    <2>3. a * c + second \in Nat /\ b * c + second \in Nat
      BY <2>1, <2>2
    <2> QED BY <2>3 DEF a, b, c, second
  <1>5. \A name \in OpNames : \A n \in Nat : <<Op(name, n)>> \in Seq(Ops)
    BY OpIs
  <1>6. /\ \A s \in Seq(Ops) : Again(s, run) \in Seq(Ops)
        /\ <<Op("c", 0)>> \in Seq(Ops) /\ <<Op("d", 0)>> \in Seq(Ops)
        /\ <<Op("next_import", 0)>> \in Seq(Ops) /\ <<Op("error", 0)>> \in Seq(Ops)
        /\ <<Op("c", 0), Op("d", 0), Op("move", 4)>> \in Seq(Ops)
        /\ <<Op("c", 0), Op("d", 0)>> \in Seq(Ops) /\ <<Op("d", 0), Op("move", 4)>> \in Seq(Ops)
    <2>1. \A s \in Seq(Ops) : Again(s, run) \in Seq(Ops)
      BY <1>1, RunIs
    <2>2. /\ Op("c", 0) \in Ops /\ Op("d", 0) \in Ops /\ Op("move", 4) \in Ops
          /\ Op("next_import", 0) \in Ops /\ Op("error", 0) \in Ops
      BY OpIs DEF OpNames
    <2> HIDE DEF run
    <2> QED BY <2>1, <2>2
  <1>7. {"move", "import", "set_c", "set_d", "section", "position"} \subseteq OpNames
    BY DEF OpNames
  <1>8. CASE kind = "skip"
    <2>1. e = <<Op("move", 4 * Bits(word, 6, 8))>> \o Again(<<Op("d", 0)>>, Bits(word, 0, 6))
      BY <1>8, Zenon DEF Elementary
    <2>2. <<Op("move", 4 * Bits(word, 6, 8))>> \in Seq(Ops)
      BY <1>3, <1>5, <1>7
    <2>3. Again(<<Op("d", 0)>>, Bits(word, 0, 6)) \in Seq(Ops)
      BY <1>3, <1>6, AgainIs
    <2> QED BY <2>1, <2>2, <2>3, ConcatProperties
  <1>9. CASE kind = "c"
    <2>1. e = Again(<<Op("c", 0)>>, run)
      BY <1>9, Zenon DEF Elementary
    <2> QED BY <2>1, <1>6
  <1>10. CASE kind = "d"
    <2>1. e = Again(<<Op("d", 0)>>, run)
      BY <1>10, Zenon DEF Elementary
    <2> QED BY <2>1, <1>6
  <1>11. CASE kind = "tv12"
    <2>1. e = Again(<<Op("c", 0), Op("d", 0), Op("move", 4)>>, run)
      BY <1>11, Zenon DEF Elementary
    <2> QED BY <2>1, <1>6
  <1>12. CASE kind = "tv8"
    <2>1. e = Again(<<Op("c", 0), Op("d", 0)>>, run)
      BY <1>12, Zenon DEF Elementary
    <2> QED BY <2>1, <1>6
  <1>13. CASE kind = "vtable8"
    <2>1. e = Again(<<Op("d", 0), Op("move", 4)>>, run)
      BY <1>13, Zenon DEF Elementary
    <2> QED BY <2>1, <1>6
  <1>14. CASE kind = "import_run"
    <2>1. e = Again(<<Op("next_import", 0)>>, run)
      BY <1>14, Zenon DEF Elementary
    <2> QED BY <2>1, <1>6
  <1>15. CASE kind = "sm_import"
    <2>1. e = <<Op("import", run - 1)>>
      BY <1>15, Zenon DEF Elementary
    <2> QED BY <2>1, <1>3, <1>5, <1>7
  <1>16. CASE kind = "sm_c"
    <2>1. e = <<Op("set_c", run - 1)>>
      BY <1>16, Zenon DEF Elementary
    <2> QED BY <2>1, <1>3, <1>5, <1>7
  <1>17. CASE kind = "sm_d"
    <2>1. e = <<Op("set_d", run - 1)>>
      BY <1>17, Zenon DEF Elementary
    <2> QED BY <2>1, <1>3, <1>5, <1>7
  <1>18. CASE kind = "sm_section"
    <2>1. e = <<Op("section", run - 1)>>
      BY <1>18, Zenon DEF Elementary
    <2> QED BY <2>1, <1>3, <1>5, <1>7
  <1>19. CASE kind = "incr"
    <2>1. e = <<Op("move", Bits(word, 0, 12) + 1)>>
      BY <1>19, Zenon DEF Elementary
    <2> QED BY <2>1, <1>3, <1>5, <1>7
  <1>20. CASE kind = "set_position"
    <2>1. e = <<Op("position", Bits(word, 0, 10) * 2^16 + text[2])>>
      BY <1>20, Zenon DEF Elementary
    <2> QED BY <2>1, <1>4, <1>5, <1>7, <1>20 DEF Long
  <1>21. CASE kind = "lg_import"
    <2>1. e = <<Op("import", Bits(word, 0, 10) * 2^16 + text[2])>>
      BY <1>21, Zenon DEF Elementary
    <2> QED BY <2>1, <1>4, <1>5, <1>7, <1>21 DEF Long
  <1>22. CASE kind = "lg_section" /\ subop = 0
    <2>0. kind = "lg_section" /\ subop = 0
      BY <1>22
    <2>1. e = <<Op("section", Bits(word, 0, 6) * 2^16 + text[2])>>
      BY <2>0, Subops, Zenon DEF Elementary
    <2> QED BY <2>1, <1>4, <1>5, <1>7, <2>0 DEF Long
  <1>23. CASE kind = "lg_section" /\ subop = 1
    <2>0. kind = "lg_section" /\ subop = 1
      BY <1>23
    <2>1. e = <<Op("set_c", Bits(word, 0, 6) * 2^16 + text[2])>>
      BY <2>0, Subops, Zenon DEF Elementary
    <2> QED BY <2>1, <1>4, <1>5, <1>7, <2>0 DEF Long
  <1>24. CASE kind = "lg_section" /\ subop = 2
    <2>0. kind = "lg_section" /\ subop = 2
      BY <1>24
    <2>1. e = <<Op("set_d", Bits(word, 0, 6) * 2^16 + text[2])>>
      BY <2>0, Subops, Zenon DEF Elementary
    <2> QED BY <2>1, <1>4, <1>5, <1>7, <2>0 DEF Long
  <1>25. CASE /\ kind # "skip" /\ kind # "c" /\ kind # "d" /\ kind # "tv12"
              /\ kind # "tv8" /\ kind # "vtable8" /\ kind # "import_run" /\ kind # "sm_import"
              /\ kind # "sm_c" /\ kind # "sm_d" /\ kind # "sm_section" /\ kind # "incr"
              /\ kind # "set_position" /\ kind # "lg_import"
              /\ ~(kind = "lg_section" /\ subop = 0)
              /\ ~(kind = "lg_section" /\ subop = 1)
              /\ ~(kind = "lg_section" /\ subop = 2)
    <2>1. e = <<Op("error", 0)>>
      BY <1>25, Zenon DEF Elementary
    <2> QED BY <2>1, <1>6
  <1> HIDE DEF kind, subop
  <1> QED BY <1>8, <1>9, <1>10, <1>11, <1>12, <1>13, <1>14, <1>15, <1>16, <1>17, <1>18, <1>19,
             <1>20, <1>21, <1>22, <1>23, <1>24, <1>25, Zenon

-----------------------------------------------------------------------------
(* The instructions of a stream *)

ReadInTurn(f, words, k) ==
    f = [n \in 0 .. k |-> IF n = 0 THEN << >> ELSE ReadWord(f[n - 1], words[n])]

\* The function of Instructions exists.
LEMMA InstructionsRead ==
    ASSUME NEW T, NEW words \in Seq(T)
    PROVE  \E read : /\ read[0] = << >>
                     /\ \A i \in 1 .. Len(words) : read[i] = ReadWord(read[i - 1], words[i])
                     /\ Instructions(words) = read[Len(words)]
  <1> DEFINE N == Len(words)
             read == CHOOSE f : ReadInTurn(f, words, N)
  <1>1. N \in Nat
    OBVIOUS
  <1>2. Instructions(words) = read[N]
    BY DEF Instructions, ReadInTurn
  <1> HIDE DEF N
  <1>3. \E f : ReadInTurn(f, words, N)
    <2> DEFINE S == {k \in 0 .. N : \E f : ReadInTurn(f, words, k)}
    <2>1. 0 \in S
      <3> DEFINE none == [i \in 0 .. 0 |-> << >>]
      <3>1. ReadInTurn(none, words, 0)
        BY DEF ReadInTurn
      <3> HIDE DEF none
      <3>2. 0 \in 0 .. N
        BY <1>1
      <3> QED BY <3>1, <3>2
    <2>2. ASSUME NEW k \in 1 .. N, k - 1 \in S
          PROVE  k \in S
      <3>1. PICK f : ReadInTurn(f, words, k - 1)
        BY <2>2
      <3> DEFINE last == ReadWord(f[k - 1], words[k])
                 g == [i \in 0 .. k |-> IF i = k THEN last ELSE f[i]]
      <3> HIDE DEF last
      <3>2. k # 0 /\ k \in 0 .. N /\ \A i \in 0 .. k : i = k \/ i \in 0 .. k - 1
        BY <1>1
      <3>3. g[k] = last /\ \A i \in 0 .. k - 1 : g[i] = f[i]
        BY <3>2
      <3>4. \A i \in 0 .. k - 1 :
               f[i] = IF i = 0 THEN << >> ELSE ReadWord(f[i - 1], words[i])
        BY <3>1 DEF ReadInTurn
      <3> HIDE DEF g
      <3>5. \A i \in 0 .. k :
               g[i] = IF i = 0 THEN << >> ELSE ReadWord(g[i - 1], words[i])
        <4> TAKE i \in 0 .. k
        <4>1. i # 0 => i - 1 \in 0 .. k - 1
          BY <3>2
        <4>2. i # 0 => g[i - 1] = f[i - 1]
          BY <3>3, <4>1
        <4>3. CASE i = k
          BY <3>2, <3>3, <4>2, <4>3 DEF last
        <4>4. CASE i \in 0 .. k - 1
          BY <3>3, <3>4, <4>2, <4>4
        <4> QED BY <3>2, <4>3, <4>4
      <3>6. ReadInTurn(g, words, k)
        BY <3>5 DEF g, ReadInTurn
      <3> QED BY <3>2, <3>6
    <2> HIDE DEF S
    <2>3. \A k \in 0 .. N : k \in S
      BY <1>1, <2>1, <2>2, UpTo
    <2>4. N \in S
      BY <1>1, <2>3
    <2> QED BY <2>4 DEF S
  <1>4. ReadInTurn(read, words, N)
    BY <1>3, Zenon
  <1> HIDE DEF read
  <1>5. read[0] = << >> /\ \A i \in 1 .. N : read[i] = ReadWord(read[i - 1], words[i])
    <2>1. \A i \in 0 .. N : read[i] = IF i = 0 THEN << >> ELSE ReadWord(read[i - 1], words[i])
      BY <1>4 DEF ReadInTurn
    <2>2. 0 \in 0 .. N /\ \A i \in 1 .. N : i \in 0 .. N /\ i # 0
      BY <1>1
    <2> QED BY <2>1, <2>2
  <1> QED BY <1>2, <1>5 DEF N

LEMMA NoInstructions == Instructions(<< >>) = << >>
  <1>1. << >> \in Seq(Nat) /\ Len(<< >>) = 0
    OBVIOUS
  <1>2. PICK f : f[0] = << >> /\ Instructions(<< >>) = f[Len(<< >>)]
    BY <1>1, InstructionsRead
  <1> QED BY <1>1, <1>2

\* One more word is read after the others.
LEMMA ReadAppended ==
    ASSUME NEW T, NEW words \in Seq(T), NEW w \in T
    PROVE  Instructions(Append(words, w)) = ReadWord(Instructions(words), w)
  <1> DEFINE N == Len(words)
             more == Append(words, w)
  <1>1. /\ more \in Seq(T) /\ Len(more) = N + 1 /\ N \in Nat /\ more[N + 1] = w
        /\ \A i \in 1 .. N : more[i] = words[i]
    BY AppendIs
  <1>2. PICK g : /\ g[0] = << >> /\ \A i \in 1 .. N : g[i] = ReadWord(g[i - 1], words[i])
                 /\ Instructions(words) = g[N]
    BY InstructionsRead
  <1> HIDE DEF more, N
  <1>3. PICK h : /\ h[0] = << >> /\ \A i \in 1 .. Len(more) : h[i] = ReadWord(h[i - 1], more[i])
                 /\ Instructions(more) = h[Len(more)]
    BY <1>1, InstructionsRead
  <1> DEFINE S == {i \in 0 .. N : g[i] = h[i]}
  <1>4. 0 \in S
    BY <1>1, <1>2, <1>3
  <1>5. ASSUME NEW i \in 1 .. N, i - 1 \in S
        PROVE  i \in S
    <2>1. i \in 0 .. N /\ i \in 1 .. N + 1 /\ g[i - 1] = h[i - 1] /\ more[i] = words[i]
      BY <1>1, <1>5
    <2>2. g[i] = ReadWord(g[i - 1], words[i]) /\ h[i] = ReadWord(h[i - 1], more[i])
      BY <1>1, <1>2, <1>3, <2>1
    <2> QED BY <2>1, <2>2
  <1> HIDE DEF S
  <1>6. \A i \in 0 .. N : i \in S
    BY <1>1, <1>4, <1>5, UpTo
  <1>7. g[N] = h[N]
    BY <1>1, <1>6 DEF S
  <1>8. h[N + 1] = ReadWord(h[N], w)
    <2>1. N + 1 \in 1 .. N + 1 /\ (N + 1) - 1 = N
      BY <1>1
    <2> QED BY <1>1, <1>3, <2>1
  <1> QED BY <1>1, <1>2, <1>3, <1>7, <1>8 DEF more, N

LEMMA LengthsAre ==
    ASSUME NEW word
    PROVE  LengthOf(word) \in {1, 2}
  BY DEF LengthOf

\* The texts of a stream: the last may lack its second word.
Texts == {text \in Seq(Word) : text # << >> /\ Len(text) <= LengthOf(text[1])}
Reads(texts) == /\ texts \in Seq(Texts)
                /\ \A i \in 1 .. Len(texts) - 1 : Complete(texts[i])

LEMMA TextIs ==
    ASSUME NEW w \in Word
    PROVE  <<w>> \in Texts /\ <<w>>[1] = w /\ Len(<<w>>) = 1
  BY LengthsAre DEF Texts

LEMMA ReadsOn ==
    ASSUME NEW texts, Reads(texts), NEW w \in Word
    PROVE  Reads(ReadWord(texts, w))
  <1> DEFINE N == Len(texts)
             last == texts[N]
             one == <<w>>
  <1>1. /\ texts \in Seq(Texts) /\ N \in Nat /\ \A i \in 1 .. N - 1 : Complete(texts[i])
        /\ texts # << >> => N >= 1 /\ last \in Texts
        /\ Last(texts) = last
    BY DEF Reads, Last
  <1>2. one \in Texts
    BY TextIs
  <1>3. CASE texts # << >> /\ ~Complete(last)
    <2> DEFINE longer == Append(last, w)
               next1 == [texts EXCEPT ![N] = longer]
    <2>1. ReadWord(texts, w) = next1
      BY <1>1, <1>3 DEF ReadWord
    <2>2. longer \in Texts /\ Complete(longer)
      <3>1. last \in Seq(Word) /\ last # << >> /\ Len(last) <= LengthOf(last[1])
        BY <1>1, <1>3 DEF Texts
      <3>2. Len(last) # LengthOf(last[1])
        BY <1>3 DEF Complete
      <3>3. Len(last) \in Nat /\ Len(last) # 0
        BY <3>1
      <3>4. LengthOf(last[1]) \in {1, 2}
        BY LengthsAre
      <3> HIDE DEF last
      <3>5. Len(last) = 1 /\ LengthOf(last[1]) = 2
        <4> DEFINE n == Len(last)
                   l == LengthOf(last[1])
        <4>1. n \in Nat /\ n # 0 /\ n <= l /\ n # l /\ l \in {1, 2}
          BY <3>1, <3>2, <3>3, <3>4
        <4> HIDE DEF n, l
        <4>2. n = 1 /\ l = 2
          BY <4>1
        <4> QED BY <4>2 DEF n, l
      <3>6. /\ longer \in Seq(Word) /\ Len(longer) = Len(last) + 1
            /\ \A i \in 1 .. Len(last) : longer[i] = last[i]
        BY <3>1, AppendIs
      <3> HIDE DEF longer
      <3>7. longer[1] = last[1] /\ Len(longer) = 2
        BY <3>5, <3>6
      <3>8. longer # << >>
        BY <3>7
      <3>9. LengthOf(longer[1]) = 2
        BY <3>5, <3>7
      <3>10. Len(longer) <= LengthOf(longer[1]) /\ Len(longer) = LengthOf(longer[1])
        BY <3>7, <3>9
      <3> QED BY <3>6, <3>8, <3>10, Zenon DEF Texts, Complete
    <2> HIDE DEF longer
    <2>3. next1 \in Seq(Texts) /\ Len(next1) = N /\ \A i \in 1 .. N - 1 : next1[i] = texts[i]
      BY <1>1, <1>3, <2>2
    <2> HIDE DEF next1
    <2>4. Reads(next1)
      BY <1>1, <2>3 DEF Reads
    <2> QED BY <2>1, <2>4
  <1>4. CASE ~(texts # << >> /\ ~Complete(last))
    <2> DEFINE next1 == Append(texts, one)
    <2>1. ReadWord(texts, w) = next1
      BY <1>1, <1>4 DEF ReadWord
    <2> HIDE DEF one
    <2>2. /\ next1 \in Seq(Texts) /\ Len(next1) = N + 1
          /\ \A i \in 1 .. N : next1[i] = texts[i]
      BY <1>1, <1>2, AppendIs
    <2>3. \A i \in 1 .. N : Complete(texts[i])
      <3> TAKE i \in 1 .. N
      <3>1. i \in 1 .. N - 1 \/ (i = N /\ texts # << >>)
        BY <1>1
      <3> QED BY <1>1, <1>4, <3>1
    <2> HIDE DEF next1
    <2>4. \A i \in 1 .. Len(next1) - 1 : Complete(next1[i])
      <3>1. Len(next1) - 1 = N
        BY <1>1, <2>2
      <3> QED BY <2>2, <2>3, <3>1
    <2>5. Reads(next1)
      BY <2>2, <2>4 DEF Reads
    <2> QED BY <2>1, <2>5
  <1> QED BY <1>3, <1>4

LEMMA InstructionsAre ==
    ASSUME NEW words \in Seq(Word)
    PROVE  Reads(Instructions(words))
  <1> DEFINE N == Len(words)
  <1>1. N \in Nat /\ \A i \in 1 .. N : words[i] \in Word
    OBVIOUS
  <1>2. PICK g : /\ g[0] = << >> /\ \A i \in 1 .. N : g[i] = ReadWord(g[i - 1], words[i])
                 /\ Instructions(words) = g[N]
    BY InstructionsRead
  <1> HIDE DEF N
  <1> DEFINE S == {i \in 0 .. N : Reads(g[i])}
  <1>3. 0 \in S
    <2>1. << >> \in Seq(Texts) /\ Len(<< >>) = 0
      OBVIOUS
    <2>2. Reads(<< >>)
      BY <2>1 DEF Reads
    <2> QED BY <1>1, <1>2, <2>2
  <1>4. ASSUME NEW i \in 1 .. N, i - 1 \in S
        PROVE  i \in S
    <2>1. i \in 0 .. N /\ Reads(g[i - 1]) /\ words[i] \in Word
      BY <1>1, <1>4
    <2>2. Reads(ReadWord(g[i - 1], words[i]))
      BY <2>1, ReadsOn
    <2> QED BY <1>2, <2>1, <2>2
  <1> HIDE DEF S
  <1>5. \A i \in 0 .. N : i \in S
    BY <1>1, <1>3, <1>4, UpTo
  <1>6. N \in S
    BY <1>1, <1>5
  <1> QED BY <1>2, <1>6 DEF S

LEMMA PairIs ==
    ASSUME NEW s \in Seq(Word), Len(s) = 2
    PROVE  s = <<s[1], s[2]>>
  <1> DEFINE pair == <<s[1], s[2]>>
  <1>1. s[1] \in Word /\ s[2] \in Word
    <2>1. 1 \in 1 .. Len(s) /\ 2 \in 1 .. Len(s)
      OBVIOUS
    <2> QED BY <2>1, ElementOfSeq
  <1>2. pair \in Seq(Word) /\ Len(pair) = 2 /\ pair[1] = s[1] /\ pair[2] = s[2]
    BY <1>1
  <1> HIDE DEF pair
  <1>3. \A i \in 1 .. 2 : i = 1 \/ i = 2
    OBVIOUS
  <1>4. Len(s) = Len(pair) /\ \A i \in 1 .. Len(s) : s[i] = pair[i]
    BY <1>2, <1>3
  <1>5. s = pair
    BY <1>2, <1>4, SeqEqual
  <1> QED BY <1>5 DEF pair

LEMMA WholeIs ==
    ASSUME NEW text \in Whole
    PROVE  /\ text \in Seq(Word) /\ text[1] \in Word
           /\ \/ LengthOf(text[1]) = 1 /\ text = <<text[1]>>
              \/ LengthOf(text[1]) = 2 /\ text[2] \in Word /\ text = <<text[1], text[2]>>
  <1>1. text \in Seq(Word) /\ text # << >> /\ Len(text) = LengthOf(text[1])
    BY DEF Whole, Complete
  <1>2. LengthOf(text[1]) \in {1, 2}
    BY LengthsAre
  <1>3. CASE LengthOf(text[1]) = 1
    <2>1. Len(text) = 1
      BY <1>1, <1>3
    <2>2. \A t \in Seq(Word) : Len(t) = 1 => t[1] \in Word /\ t = <<t[1]>>
      OBVIOUS
    <2> QED BY <1>1, <1>3, <2>1, <2>2
  <1>4. CASE LengthOf(text[1]) = 2
    <2>1. Len(text) = 2
      BY <1>1, <1>4
    <2>2. \A t \in Seq(Word) : Len(t) = 2 => t[1] \in Word
      OBVIOUS
    <2>3. \A t \in Seq(Word) : Len(t) = 2 => t[2] \in Word
      OBVIOUS
    <2>4. text[1] \in Word /\ text[2] \in Word
      BY <1>1, <2>1, <2>2, <2>3
    <2> QED BY <1>1, <1>4, <2>1, <2>4, PairIs
  <1> QED BY <1>2, <1>3, <1>4

\* A word after whole instructions begins one.
LEMMA WordBegins ==
    ASSUME NEW texts \in Seq(Whole), NEW w
    PROVE  ReadWord(texts, w) = Append(texts, <<w>>)
  <1>1. texts # << >> => Last(texts) \in Whole
    <2>1. ASSUME texts # << >>
          PROVE  texts[Len(texts)] \in Whole
      BY <2>1
    <2> QED BY <2>1 DEF Last
  <1>2. texts # << >> => Complete(Last(texts))
    BY <1>1 DEF Whole
  <1> QED BY <1>2 DEF ReadWord

LEMMA WordEnds ==
    ASSUME NEW texts \in Seq(Whole), NEW w \in Word, NEW v \in Word, LengthOf(w) = 2
    PROVE  ReadWord(Append(texts, <<w>>), v) = Append(texts, <<w, v>>)
  <1> DEFINE U == Seq(Word)
             one == <<w>>
             two == <<w, v>>
             begun == Append(texts, one)
             N == Len(texts)
  <1>1. /\ one \in U /\ two \in U /\ Append(one, v) = two /\ Len(one) = 1 /\ one[1] = w
    <2>1. one \in U /\ Len(one) = 1 /\ one[1] = w
      OBVIOUS
    <2>2. two \in U
      OBVIOUS
    <2>3. Append(one, v) = two
      <3>2. w \in Nat /\ v \in Nat
        BY WordsAre, Zenon
      <3> QED BY <3>2, PairAppended
    <2> QED BY <2>1, <2>2, <2>3
  <1>2. texts \in Seq(U)
    <2>1. \A t \in Whole : t \in U
      BY DEF Whole
    <2> HIDE DEF U
    <2> QED BY <2>1
  <1> HIDE DEF U, one, two
  <1>3. /\ begun \in Seq(U) /\ Len(begun) = N + 1 /\ N \in Nat /\ begun[N + 1] = one
        /\ \A i \in 1 .. N : begun[i] = texts[i]
    BY <1>1, <1>2, AppendIs
  <1> DEFINE done == Append(texts, two)
  <1>4. /\ done \in Seq(U) /\ Len(done) = N + 1 /\ done[N + 1] = two
        /\ \A i \in 1 .. N : done[i] = texts[i]
    BY <1>1, <1>2, AppendIs
  <1> HIDE DEF begun, done, N
  <1>5. begun # << >> /\ Last(begun) = one
    BY <1>3 DEF Last
  <1>6. ~Complete(one)
    BY <1>1 DEF Complete
  <1> DEFINE read == [begun EXCEPT ![Len(begun)] = Append(@, v)]
  <1>7. ReadWord(begun, v) = read
    BY <1>5, <1>6 DEF ReadWord
  <1>8. /\ read \in Seq(U) /\ Len(read) = N + 1 /\ read[N + 1] = two
        /\ \A i \in 1 .. N : read[i] = texts[i]
    <2> DEFINE longer == Append(begun[Len(begun)], v)
    <2>1. longer = two
      BY <1>1, <1>3
    <2>2. read = [begun EXCEPT ![N + 1] = two]
      BY <1>3, <2>1
    <2> HIDE DEF read
    <2> QED BY <1>1, <1>3, <2>2
  <1> HIDE DEF read
  <1>9. read = done
    <2>1. Len(read) = Len(done) /\ \A i \in 1 .. Len(read) : read[i] = done[i]
      <3>1. Len(read) = Len(done) /\ Len(read) = N + 1
        BY <1>4, <1>8
      <3>2. \A i \in 1 .. N + 1 : i = N + 1 \/ i \in 1 .. N
        BY <1>3
      <3>3. \A i \in 1 .. N + 1 : read[i] = done[i]
        BY <1>4, <1>8, <3>2
      <3> QED BY <3>1, <3>3
    <2> QED BY <1>4, <1>8, <2>1, SeqEqual
  <1> QED BY <1>7, <1>9 DEF begun, done, one, two

LEMMA WholeAppended ==
    ASSUME NEW words \in Seq(Word), NEW texts \in Seq(Whole), Instructions(words) = texts,
           NEW text \in Whole
    PROVE  Instructions(words \o text) = Append(texts, text)
  <1> DEFINE w == text[1]
  <1>1. w \in Word
    BY WholeIs
  <1>2. CASE LengthOf(w) = 1 /\ text = <<w>>
    <2> HIDE DEF w
    <2>1. words \o <<w>> = Append(words, w)
      BY <1>1, AppendIsConcat
    <2>2. Instructions(Append(words, w)) = ReadWord(texts, w)
      BY <1>1, ReadAppended
    <2> QED BY <1>2, <2>1, <2>2, WordBegins
  <1>3. CASE LengthOf(w) = 2 /\ text[2] \in Word /\ text = <<w, text[2]>>
    <2> DEFINE v == text[2]
               begun == Append(words, w)
    <2>1. v \in Word /\ text = <<w, v>> /\ LengthOf(w) = 2
      BY <1>3
    <2> HIDE DEF w, v
    <2>2. words \o <<w, v>> = Append(begun, v)
      BY <1>1, <2>1
    <2>3. begun \in Seq(Word)
      BY <1>1
    <2>4. Instructions(begun) = ReadWord(texts, w)
      BY <1>1, ReadAppended
    <2> HIDE DEF begun
    <2>5. Instructions(Append(begun, v)) = ReadWord(Instructions(begun), v)
      BY <2>1, <2>3, ReadAppended
    <2>6. ReadWord(Append(texts, <<w>>), v) = Append(texts, <<w, v>>)
      BY <1>1, <2>1, WordEnds
    <2> QED BY <2>1, <2>2, <2>4, <2>5, <2>6, WordBegins
  <1> QED BY <1>2, <1>3, WholeIs

\* Whole instructions one after the other are read as themselves.
LEMMA WholeRead ==
    ASSUME NEW all \in Seq(Whole)
    PROVE  Instructions(FlattenSeq(all)) = all /\ FlattenSeq(all) \in Seq(Word)
  <1> DEFINE U == Seq(Word)
             N == Len(all)
             part(k) == SubSeq(all, 1, k)
             S == {k \in 0 .. N : Instructions(FlattenSeq(part(k))) = part(k)}
  <1>1. N \in Nat /\ \A k \in 0 .. N : part(k) \in Seq(Whole)
    OBVIOUS
  <1>2. \A s \in Seq(Whole) : s \in Seq(Seq(Word))
    <2>1. \A t \in Whole : t \in U
      BY DEF Whole
    <2> HIDE DEF U
    <2>2. \A s \in Seq(Whole) : s \in Seq(U)
      BY <2>1
    <2> QED BY <2>2 DEF U
  <1>3. \A s \in Seq(Whole) : FlattenSeq(s) \in Seq(Word)
    BY <1>2, FlatType
  <1>4. 0 \in S
    <2>1. part(0) = << >> /\ 0 \in 0 .. N
      BY <1>1
    <2> HIDE DEF part
    <2> QED BY <2>1, FlatEmpty, NoInstructions
  <1>5. ASSUME NEW k \in 1 .. N, k - 1 \in S
        PROVE  k \in S
    <2> DEFINE c == part(k - 1)
               x == all[k]
    <2>1. part(k) = Append(c, x) /\ c \in Seq(Whole) /\ x \in Whole
      BY LastApart
    <2>2. Instructions(FlattenSeq(c)) = c /\ k \in 0 .. N
      BY <1>1, <1>5
    <2> HIDE DEF c, x
    <2>3. FlattenSeq(c) \in Seq(Word) /\ c \in Seq(Seq(Word)) /\ x \in Seq(Word)
      BY <1>2, <1>3, <2>1, WholeIs
    <2>4. FlattenSeq(Append(c, x)) = FlattenSeq(c) \o x
      BY <2>3, FlatAppend
    <2>5. Instructions(FlattenSeq(c) \o x) = Append(c, x)
      BY <2>1, <2>2, <2>3, WholeAppended
    <2>6. Instructions(FlattenSeq(part(k))) = part(k)
      BY <2>1, <2>4, <2>5
    <2> QED BY <2>2, <2>6
  <1> HIDE DEF S
  <1>6. \A k \in 0 .. N : k \in S
    BY <1>1, <1>4, <1>5, UpTo
  <1>7. part(N) = all /\ N \in S
    BY <1>1, <1>6
  <1> QED BY <1>3, <1>7 DEF S

-----------------------------------------------------------------------------
(* Operations one after the other *)

DoneInTurn(f, ops, env, k) ==
    f = [n \in 0 .. k |-> IF n = 0 THEN Begin(env) ELSE Step(f[n - 1], env, ops[n])]

\* The function of Relocated exists.
LEMMA StepsTaken ==
    ASSUME NEW words, NEW env, Operations(words) \in Seq(Ops)
    PROVE  \E after : /\ after[0] = Begin(env)
                      /\ \A i \in 1 .. Len(Operations(words)) :
                            after[i] = Step(after[i - 1], env, Operations(words)[i])
                      /\ Relocated(words, env) = after[Len(Operations(words))]
  <1> DEFINE ops == Operations(words)
             N == Len(ops)
             after == CHOOSE f : DoneInTurn(f, ops, env, N)
             start == Begin(env)
  <1>1. N \in Nat
    OBVIOUS
  <1>2. Relocated(words, env) = after[N]
    BY DEF Relocated, DoneInTurn
  <1> HIDE DEF N, ops, start
  <1>3. \E f : DoneInTurn(f, ops, env, N)
    <2> DEFINE S == {k \in 0 .. N : \E f : DoneInTurn(f, ops, env, k)}
    <2>1. 0 \in S
      <3> DEFINE none == [i \in 0 .. 0 |-> start]
      <3>1. DoneInTurn(none, ops, env, 0)
        BY DEF DoneInTurn, start
      <3> HIDE DEF none
      <3>2. 0 \in 0 .. N
        BY <1>1
      <3> QED BY <3>1, <3>2
    <2>2. ASSUME NEW k \in 1 .. N, k - 1 \in S
          PROVE  k \in S
      <3>1. PICK f : DoneInTurn(f, ops, env, k - 1)
        BY <2>2
      <3> DEFINE last == Step(f[k - 1], env, ops[k])
                 g == [i \in 0 .. k |-> IF i = k THEN last ELSE f[i]]
      <3> HIDE DEF last
      <3>2. k # 0 /\ k \in 0 .. N /\ \A i \in 0 .. k : i = k \/ i \in 0 .. k - 1
        BY <1>1
      <3>3. g[k] = last /\ \A i \in 0 .. k - 1 : g[i] = f[i]
        BY <3>2
      <3>4. \A i \in 0 .. k - 1 :
               f[i] = IF i = 0 THEN start ELSE Step(f[i - 1], env, ops[i])
        BY <3>1 DEF DoneInTurn, start
      <3> HIDE DEF g
      <3>5. \A i \in 0 .. k :
               g[i] = IF i = 0 THEN start ELSE Step(g[i - 1], env, ops[i])
        <4> TAKE i \in 0 .. k
        <4>1. i # 0 => i - 1 \in 0 .. k - 1
          BY <3>2
        <4>2. i # 0 => g[i - 1] = f[i - 1]
          BY <3>3, <4>1
        <4>3. CASE i = k
          BY <3>2, <3>3, <4>2, <4>3 DEF last
        <4>4. CASE i \in 0 .. k - 1
          BY <3>3, <3>4, <4>2, <4>4
        <4> QED BY <3>2, <4>3, <4>4
      <3>6. DoneInTurn(g, ops, env, k)
        BY <3>5 DEF g, DoneInTurn, start
      <3> QED BY <3>2, <3>6
    <2> HIDE DEF S
    <2>3. \A k \in 0 .. N : k \in S
      BY <1>1, <2>1, <2>2, UpTo
    <2>4. N \in S
      BY <1>1, <2>3
    <2> QED BY <2>4 DEF S
  <1>4. DoneInTurn(after, ops, env, N)
    BY <1>3, Zenon
  <1> HIDE DEF after
  <1>5. after[0] = start /\ \A i \in 1 .. N : after[i] = Step(after[i - 1], env, ops[i])
    <2>1. \A i \in 0 .. N : after[i] = IF i = 0 THEN start ELSE Step(after[i - 1], env, ops[i])
      BY <1>4 DEF DoneInTurn, start
    <2>2. 0 \in 0 .. N /\ \A i \in 1 .. N : i \in 0 .. N /\ i # 0
      BY <1>1
    <2> QED BY <2>1, <2>2
  <1> QED BY <1>2, <1>5 DEF N, ops, start

\* No operation adds or removes a part of the state.
LEMMA PartsKept ==
    ASSUME NEW s, NEW env, NEW o
    PROVE  DOMAIN Step(s, env, o) = DOMAIN s
  <1> DEFINE known == o.n \in 0 .. Len(env.deltas) - 1
             delta == env.deltas[o.n + 1]
             a == Apply(s, env, o)
  <1>1. \A t : DOMAIN Wrong(t) = DOMAIN t
    BY DEF Wrong
  <1>2. \A value : DOMAIN AddWord(s, env, value) = DOMAIN s
    BY <1>1 DEF AddWord
  <1>3. \A i : DOMAIN AddImport(s, env, i) = DOMAIN s
    BY <1>1, <1>2 DEF AddImport
  <1>4. CASE o.op = "move"
    <2>1. a = [s EXCEPT !.pos = @ + o.n]
      BY <1>4, Zenon DEF Apply
    <2> QED BY <2>1 DEF Step
  <1>5. CASE o.op = "position"
    <2>1. a = [s EXCEPT !.pos = o.n]
      BY <1>5, Zenon DEF Apply
    <2> QED BY <2>1 DEF Step
  <1>6. CASE o.op = "c"
    <2>1. a = AddWord(s, env, s.c)
      BY <1>6, Zenon DEF Apply
    <2> QED BY <2>1, <1>2 DEF Step
  <1>7. CASE o.op = "d"
    <2>1. a = AddWord(s, env, s.d)
      BY <1>7, Zenon DEF Apply
    <2> QED BY <2>1, <1>2 DEF Step
  <1>8. CASE o.op = "next_import"
    <2>1. a = AddImport(s, env, s.import)
      BY <1>8, Zenon DEF Apply
    <2> QED BY <2>1, <1>3 DEF Step
  <1>9. CASE o.op = "import"
    <2>1. a = AddImport(s, env, o.n)
      BY <1>9, Zenon DEF Apply
    <2> QED BY <2>1, <1>3 DEF Step
  <1>10. CASE o.op = "section" /\ known
    <2>1. a = AddWord(s, env, delta)
      BY <1>10, Zenon DEF Apply
    <2> QED BY <2>1, <1>2 DEF Step
  <1>11. CASE o.op = "set_c" /\ known
    <2>1. a = [s EXCEPT !.c = delta]
      BY <1>11, Zenon DEF Apply
    <2> QED BY <2>1 DEF Step
  <1>12. CASE o.op = "set_d" /\ known
    <2>1. a = [s EXCEPT !.d = delta]
      BY <1>12, Zenon DEF Apply
    <2> QED BY <2>1 DEF Step
  <1>13. CASE /\ o.op # "move" /\ o.op # "position" /\ o.op # "c" /\ o.op # "d"
              /\ o.op # "next_import" /\ o.op # "import"
              /\ ~(o.op = "section" /\ known) /\ ~(o.op = "set_c" /\ known)
              /\ ~(o.op = "set_d" /\ known)
    <2>1. a = Wrong(s)
      BY <1>13, Zenon DEF Apply
    <2> QED BY <2>1, <1>1 DEF Step
  <1> HIDE DEF known
  <1> QED BY <1>4, <1>5, <1>6, <1>7, <1>8, <1>9, <1>10, <1>11, <1>12, <1>13, Zenon

LEMMA ErrorStops ==
    ASSUME NEW s, NEW env, NEW o, "ok" \in DOMAIN s, ~s.ok \/ o.op = "error"
    PROVE  ~Step(s, env, o).ok
  <1>1. CASE ~s.ok
    BY <1>1, Zenon DEF Step
  <1>2. CASE s.ok
    <2>1. o.op = "error"
      BY <1>2
    <2>2. Apply(s, env, o) = Wrong(s)
      BY <2>1, Zenon DEF Apply
    <2>3. ~Wrong(s).ok
      BY DEF Wrong
    <2>4. Step(s, env, o) = Wrong(s)
      BY <1>2, <2>2, Zenon DEF Step
    <2> QED BY <2>3, <2>4, Zenon
  <1> QED BY <1>1, <1>2, Zenon

\* A stream whose relocation succeeds has no instruction that is wrong.
LEMMA NoErrors ==
    ASSUME NEW words, NEW env, Operations(words) \in Seq(Ops), Relocated(words, env).ok
    PROVE  \A n \in 1 .. Len(Operations(words)) : Operations(words)[n].op # "error"
  <1> DEFINE ops == Operations(words)
             N == Len(ops)
  <1>1. N \in Nat
    OBVIOUS
  <1>2. PICK after : /\ after[0] = Begin(env)
                     /\ \A i \in 1 .. N : after[i] = Step(after[i - 1], env, ops[i])
                     /\ Relocated(words, env) = after[N]
    BY StepsTaken
  <1>3. "ok" \in DOMAIN Begin(env)
    BY DEF Begin
  <1> HIDE DEF N, ops
  <1> SUFFICES ASSUME NEW n \in 1 .. N, ops[n].op = "error"
               PROVE  FALSE
    BY DEF N, ops
  <1> DEFINE S == {i \in 0 .. N : "ok" \in DOMAIN after[i] /\ (n <= i => ~after[i].ok)}
  <1>4. 0 \in S
    BY <1>1, <1>2, <1>3
  <1>5. ASSUME NEW i \in 1 .. N, i - 1 \in S
        PROVE  i \in S
    <2> DEFINE s == after[i - 1]
               t == after[i]
    <2>1. /\ i \in 0 .. N /\ "ok" \in DOMAIN s /\ (n <= i - 1 => ~s.ok)
          /\ t = Step(s, env, ops[i])
      BY <1>1, <1>2, <1>5
    <2> HIDE DEF s, t
    <2>2. "ok" \in DOMAIN t
      BY <2>1, PartsKept
    <2>3. ASSUME n <= i
          PROVE  ~t.ok
      <3>1. n <= i - 1 \/ n = i
        BY <1>1, <2>3
      <3>2. ~s.ok \/ ops[i].op = "error"
        BY <2>1, <3>1
      <3> QED BY <2>1, <3>2, ErrorStops
    <2>4. "ok" \in DOMAIN after[i] /\ (n <= i => ~after[i].ok)
      BY <2>2, <2>3, Zenon DEF t
    <2> QED BY <2>1, <2>4
  <1> HIDE DEF S
  <1>6. \A i \in 0 .. N : i \in S
    BY <1>1, <1>4, <1>5, UpTo
  <1>7. ~after[N].ok
    <2>1. N \in S /\ n <= N
      BY <1>1, <1>6
    <2> QED BY <2>1 DEF S
  <1> QED BY <1>2, <1>7

-----------------------------------------------------------------------------
(* Parts of sequences *)

LEMMA PartIs ==
    ASSUME NEW T, NEW s \in Seq(T), NEW m \in 1 .. Len(s) + 1, NEW n \in 0 .. Len(s), m <= n + 1
    PROVE  /\ SubSeq(s, m, n) \in Seq(T) /\ Len(SubSeq(s, m, n)) = n - m + 1
           /\ \A i \in 1 .. n - m + 1 : SubSeq(s, m, n)[i] = s[m + i - 1]
  <1> DEFINE p == SubSeq(s, m, n)
             l == n - m + 1
  <1>1. l \in Nat /\ Len(s) \in Nat /\ m \in Nat /\ n \in Nat
    OBVIOUS
  <1>2. p = [i \in 1 .. l |-> s[m + i - 1]]
    OBVIOUS
  <1>3. \A i \in 1 .. l : m + i - 1 \in 1 .. Len(s)
    OBVIOUS
  <1> HIDE DEF p, l
  <1>4. p \in Seq(T) /\ Len(p) = l /\ \A i \in 1 .. l : p[i] = s[m + i - 1]
    BY <1>1, <1>2, <1>3
  <1> QED BY <1>4 DEF p, l

LEMMA Halves ==
    ASSUME NEW T, NEW s \in Seq(T), NEW m \in 0 .. Len(s)
    PROVE  /\ s = SubSeq(s, 1, m) \o SubSeq(s, m + 1, Len(s))
           /\ SubSeq(s, 1, m) \in Seq(T) /\ SubSeq(s, m + 1, Len(s)) \in Seq(T)
  <1> DEFINE N == Len(s)
             a == SubSeq(s, 1, m)
             b == SubSeq(s, m + 1, N)
             c == a \o b
  <1>1. N \in Nat /\ m \in 0 .. N /\ 1 \in 1 .. N + 1 /\ m + 1 \in 1 .. N + 1 /\ N \in 0 .. N
    OBVIOUS
  <1>2. a \in Seq(T) /\ Len(a) = m /\ \A i \in 1 .. m : a[i] = s[i]
    <2>1. /\ a \in Seq(T) /\ Len(a) = m - 1 + 1
          /\ \A i \in 1 .. m - 1 + 1 : a[i] = s[1 + i - 1]
      BY <1>1, PartIs
    <2> HIDE DEF a, N
    <2> QED BY <1>1, <2>1
  <1>3. b \in Seq(T) /\ Len(b) = N - m /\ \A i \in 1 .. N - m : b[i] = s[m + i]
    <2>1. /\ b \in Seq(T) /\ Len(b) = N - (m + 1) + 1
          /\ \A i \in 1 .. N - (m + 1) + 1 : b[i] = s[m + 1 + i - 1]
      BY <1>1, PartIs
    <2> HIDE DEF b, N
    <2>2. N - (m + 1) + 1 = N - m /\ \A i \in 1 .. N - m : m + 1 + i - 1 = m + i
      BY <1>1
    <2>3. \A i \in 1 .. N - m : b[i] = s[m + i]
      BY <2>1, <2>2
    <2> QED BY <2>1, <2>2, <2>3
  <1> HIDE DEF a, b
  <1>4. /\ c \in Seq(T) /\ Len(c) = Len(a) + Len(b)
        /\ \A i \in 1 .. Len(a) + Len(b) : c[i] = IF i <= Len(a) THEN a[i] ELSE b[i - Len(a)]
    BY <1>2, <1>3, ConcatProperties
  <1> HIDE DEF c
  <1>5. Len(c) = N /\ \A i \in 1 .. N : c[i] = s[i]
    <2>1. Len(c) = N
      BY <1>1, <1>2, <1>3, <1>4
    <2>2. ASSUME NEW i \in 1 .. N
          PROVE  c[i] = s[i]
      <3>1. CASE i <= m
        BY <1>1, <1>2, <1>3, <1>4, <3>1
      <3>2. CASE ~(i <= m)
        <4>1. i - m \in 1 .. N - m /\ m + (i - m) = i
          BY <1>1, <3>2
        <4>2. c[i] = b[i - m]
          BY <1>1, <1>2, <1>3, <1>4, <3>2
        <4> QED BY <1>3, <4>1, <4>2
      <3> QED BY <3>1, <3>2
    <2> QED BY <2>1, <2>2
  <1>6. s = c
    <2>1. Len(s) = Len(c) /\ \A i \in 1 .. Len(s) : s[i] = c[i]
      BY <1>5 DEF N
    <2> QED BY <1>4, <2>1, SeqEqual
  <1> QED BY <1>2, <1>3, <1>6 DEF a, b, c, N

\* The last of two sequences joined.
LEMMA LatestIs ==
    ASSUME NEW T, NEW a \in Seq(T), NEW b \in Seq(T)
    PROVE  Latest(a \o b, Len(b)) = b
  <1> DEFINE m == Len(a)
             n == Len(b)
             c == a \o b
             p == Latest(c, n)
  <1>1. /\ c \in Seq(T) /\ Len(c) = m + n /\ m \in Nat /\ n \in Nat
        /\ \A i \in 1 .. m + n : c[i] = IF i <= m THEN a[i] ELSE b[i - m]
    BY ConcatProperties
  <1>2. p = SubSeq(c, Len(c) - n + 1, Len(c))
    BY DEF Latest
  <1> HIDE DEF c, p, m, n
  <1>3. Len(c) - n + 1 = m + 1 /\ Len(c) - (m + 1) + 1 = n
    BY <1>1
  <1>4. p = SubSeq(c, m + 1, Len(c))
    BY <1>2, <1>3
  <1>5. /\ p \in Seq(T) /\ Len(p) = Len(c) - (m + 1) + 1
        /\ \A i \in 1 .. Len(c) - (m + 1) + 1 : p[i] = c[m + 1 + i - 1]
    <2>1. m + 1 \in 1 .. Len(c) + 1 /\ Len(c) \in 0 .. Len(c) /\ m + 1 <= Len(c) + 1
      BY <1>1
    <2> DEFINE k == m + 1
    <2>2. k \in 1 .. Len(c) + 1 /\ k <= Len(c) + 1
      BY <2>1
    <2> HIDE DEF k
    <2>3. /\ SubSeq(c, k, Len(c)) \in Seq(T) /\ Len(SubSeq(c, k, Len(c))) = Len(c) - k + 1
          /\ \A i \in 1 .. Len(c) - k + 1 : SubSeq(c, k, Len(c))[i] = c[k + i - 1]
      BY <1>1, <2>1, <2>2, PartIs
    <2> QED BY <1>4, <2>3 DEF k
  <1>6. Len(p) = n /\ \A i \in 1 .. n : p[i] = b[i]
    <2>1. Len(p) = n
      BY <1>3, <1>5
    <2>2. ASSUME NEW i \in 1 .. n
          PROVE  p[i] = b[i]
      <3>1. m + 1 + i - 1 = m + i /\ m + i \in 1 .. m + n /\ ~(m + i <= m) /\ m + i - m = i
        BY <1>1
      <3>2. p[i] = c[m + i]
        BY <1>3, <1>5, <3>1
      <3> QED BY <1>1, <3>1, <3>2
    <2> QED BY <2>1, <2>2
  <1>7. b \in Seq(T) /\ Len(b) = n
    BY DEF n
  <1>8. p = b
    <2>1. Len(p) = Len(b) /\ \A i \in 1 .. Len(p) : p[i] = b[i]
      BY <1>6, <1>7
    <2> QED BY <1>5, <1>7, <2>1, SeqEqual
  <1> QED BY <1>8 DEF p, c, n

\* What is in one of the sequences is in all of them joined.
LEMMA Among ==
    ASSUME NEW T, NEW all \in Seq(Seq(T)), NEW i \in 1 .. Len(all), NEW j \in 1 .. Len(all[i])
    PROVE  \E n \in 1 .. Len(FlattenSeq(all)) : FlattenSeq(all)[n] = all[i][j]
  <1> DEFINE N == Len(all)
             x == all[i][j]
             s == all[i]
  <1>1. N \in Nat /\ \A k \in 1 .. N : all[k] \in Seq(T)
    OBVIOUS
  <1>2. PICK g : /\ g \in [0 .. N -> Seq(T)] /\ g[0] = << >>
                 /\ \A k \in 1 .. N : g[k] = g[k - 1] \o all[k]
                 /\ FlattenSeq(all) = g[N]
    BY Flattened
  <1>3. s \in Seq(T) /\ j \in 1 .. Len(s) /\ x = s[j] /\ i \in 1 .. N
    OBVIOUS
  <1> HIDE DEF N, x
  <1> DEFINE S == {k \in 0 .. N : i <= k => \E n \in 1 .. Len(g[k]) : g[k][n] = x}
  <1>4. 0 \in S
    BY <1>1, <1>3
  <1>5. ASSUME NEW k \in 1 .. N, k - 1 \in S
        PROVE  k \in S
    <2> DEFINE a == g[k - 1]
               b == all[k]
               c == a \o b
    <2>1. /\ k \in 0 .. N /\ k - 1 \in 0 .. N /\ g[k] = c /\ a \in Seq(T) /\ b \in Seq(T)
          /\ (i <= k - 1 => \E n \in 1 .. Len(a) : a[n] = x)
      <3>1. k \in 0 .. N /\ k - 1 \in 0 .. N
        BY <1>1
      <3>2. i <= k - 1 => \E n \in 1 .. Len(g[k - 1]) : g[k - 1][n] = x
        BY <1>5
      <3> QED BY <1>1, <1>2, <3>1, <3>2
    <2>2. i = k => s = b
      OBVIOUS
    <2> HIDE DEF a, b, s
    <2>3. /\ c \in Seq(T) /\ Len(c) = Len(a) + Len(b)
          /\ \A n \in 1 .. Len(a) + Len(b) : c[n] = IF n <= Len(a) THEN a[n] ELSE b[n - Len(a)]
      BY <2>1, ConcatProperties
    <2>4. Len(a) \in Nat /\ Len(b) \in Nat
      BY <2>1
    <2> HIDE DEF c
    <2>5. ASSUME i <= k
          PROVE  \E n \in 1 .. Len(c) : c[n] = x
      <3>1. CASE i = k
        <4>1. j \in 1 .. Len(b) /\ x = b[j]
          BY <1>3, <2>2, <3>1
        <4>2. Len(a) + j \in 1 .. Len(c) /\ c[Len(a) + j] = b[j]
          <5>1. /\ Len(a) + j \in 1 .. Len(a) + Len(b) /\ ~(Len(a) + j <= Len(a))
                /\ Len(a) + j - Len(a) = j
            BY <2>4, <4>1
          <5> QED BY <2>3, <5>1
        <4> QED BY <4>1, <4>2
      <3>2. CASE i # k
        <4>1. i <= k - 1
          BY <1>1, <1>3, <2>5, <3>2
        <4>2. PICK n \in 1 .. Len(a) : a[n] = x
          BY <2>1, <4>1
        <4>3. n \in 1 .. Len(c) /\ c[n] = a[n]
          BY <2>3, <2>4
        <4> QED BY <4>2, <4>3
      <3> QED BY <3>1, <3>2
    <2> QED BY <2>1, <2>5
  <1> HIDE DEF S
  <1>6. \A k \in 0 .. N : k \in S
    BY <1>1, <1>4, <1>5, UpTo
  <1>7. N \in S /\ i <= N
    BY <1>1, <1>3, <1>6
  <1>8. \E n \in 1 .. Len(g[N]) : g[N][n] = x
    BY <1>7 DEF S
  <1> QED BY <1>2, <1>8 DEF x

-----------------------------------------------------------------------------
(* A repeat and its block written out *)

LEMMA EachAgain ==
    ASSUME NEW X, NEW Y, NEW E, Maps(E, X, Seq(Y)), NEW s \in Seq(X), NEW n \in Nat
    PROVE  Each(E, Again(s, n)) = Again(Each(E, s), n)
  <1> DEFINE U == Seq(X)
             all == [i \in 1 .. n |-> s]
             e == Each(E, s)
  <1>1. s \in U
    OBVIOUS
  <1> HIDE DEF U
  <1>2. all \in Seq(U) /\ DOMAIN all = 1 .. n /\ \A i \in 1 .. n : all[i] = s
    BY <1>1
  <1>3. Again(s, n) = FlattenSeq(all) /\ Again(e, n) = FlattenSeq([i \in 1 .. n |-> e])
    BY DEF Again
  <1> HIDE DEF all
  <1>4. all \in Seq(Seq(X))
    BY <1>2 DEF U
  <1>5. Each(E, FlattenSeq(all)) = FlattenSeq([i \in DOMAIN all |-> Each(E, all[i])])
    BY <1>4, EachFlat
  <1>6. [i \in DOMAIN all |-> Each(E, all[i])] = [i \in 1 .. n |-> e]
    BY <1>2
  <1> QED BY <1>3, <1>5, <1>6

El == [text \in Whole |-> Elementary(text)]
Self == [s \in Seq(Word) |-> s]
Plain == {text \in Whole : ~IsRepeat(text)}

LEMMA ElMaps == Maps(El, Whole, Seq(Ops))
  BY ElementaryIs DEF Maps, El

LEMMA SelfMaps == Maps(Self, Seq(Word), Seq(Word))
  <1> DEFINE U == Seq(Word)
  <1> HIDE DEF U
  <1>1. [s \in U |-> s] \in [U -> U]
    OBVIOUS
  <1> QED BY <1>1 DEF Maps, Self, U

LEMMA ElementaryEach ==
    ASSUME NEW s \in Seq(Whole)
    PROVE  ElementaryOf(s) = Each(El, s) /\ Each(El, s) \in Seq(Ops)
  <1>1. \A i \in DOMAIN s : s[i] \in Whole
    OBVIOUS
  <1>2. [i \in DOMAIN s |-> Elementary(s[i])] = [i \in DOMAIN s |-> El[s[i]]]
    BY <1>1 DEF El
  <1>3. Each(El, s) \in Seq(Ops)
    BY ElMaps, EachType
  <1> QED BY <1>2, <1>3 DEF ElementaryOf, Each, Mapped

LEMMA SelfEach ==
    ASSUME NEW s \in Seq(Seq(Word))
    PROVE  Each(Self, s) = FlattenSeq(s)
  <1> DEFINE U == Seq(Word)
  <1>1. s \in Seq(U)
    OBVIOUS
  <1> HIDE DEF U
  <1>2. \A i \in DOMAIN s : s[i] \in U
    BY <1>1
  <1>3. \A t \in U : Self[t] = t
    BY DEF Self, U
  <1>4. [i \in DOMAIN s |-> Self[s[i]]] = s
    BY <1>1, <1>2, <1>3
  <1> QED BY <1>4 DEF Each, Mapped

LEMMA WholeTexts == \A s \in Seq(Whole) : s \in Seq(Seq(Word))
  <1> DEFINE U == Seq(Word)
  <1>1. \A t \in Whole : t \in U
    BY DEF Whole
  <1> HIDE DEF U
  <1>2. \A s \in Seq(Whole) : s \in Seq(U)
    BY <1>1
  <1> QED BY <1>2 DEF U

\* A block is the last words before its repeat.
LEMMA BlockIs ==
    ASSUME NEW before \in Seq(Whole), NEW words \in Nat, Block(before, words) # << >>
    PROVE  /\ Block(before, words) \in Seq(Whole)
           /\ FlattenSeq(Block(before, words)) = Latest(FlattenSeq(before), words)
  <1> DEFINE N == Len(before)
             exact == {k \in 1 .. N : Len(FlattenSeq(Latest(before, k))) = words}
             k == CHOOSE x \in exact : TRUE
             block == Latest(before, k)
             rest == SubSeq(before, 1, N - k)
  <1>1. Block(before, words) = IF exact = {} THEN << >> ELSE block
    BY Zenon DEF Block
  <1>2. exact # {}
    BY <1>1
  <1>3. k \in exact
    BY <1>2
  <1> HIDE DEF k
  <1>4. k \in 1 .. N /\ Len(FlattenSeq(block)) = words /\ N \in Nat
    BY <1>3
  <1>5. N - k \in 0 .. N
    BY <1>4
  <1>6. block = SubSeq(before, N - k + 1, N)
    BY DEF Latest
  <1>7. before = rest \o block /\ rest \in Seq(Whole) /\ block \in Seq(Whole)
    <2> DEFINE m == N - k
    <2>1. m \in 0 .. N
      BY <1>5
    <2> HIDE DEF m
    <2>2. /\ before = SubSeq(before, 1, m) \o SubSeq(before, m + 1, N)
          /\ SubSeq(before, 1, m) \in Seq(Whole) /\ SubSeq(before, m + 1, N) \in Seq(Whole)
      BY <2>1, Halves
    <2> QED BY <1>6, <2>2 DEF m
  <1> HIDE DEF block, rest, N, exact
  <1>8. rest \in Seq(Seq(Word)) /\ block \in Seq(Seq(Word))
    BY <1>7, WholeTexts
  <1>9. FlattenSeq(rest \o block) = FlattenSeq(rest) \o FlattenSeq(block)
    BY <1>8, FlatConcat
  <1>10. FlattenSeq(rest) \in Seq(Word) /\ FlattenSeq(block) \in Seq(Word)
    BY <1>8, FlatType
  <1> DEFINE a == FlattenSeq(rest)
             b == FlattenSeq(block)
  <1>11. Latest(a \o b, Len(b)) = b
    <2>1. a \in Seq(Word) /\ b \in Seq(Word)
      BY <1>10
    <2> HIDE DEF a, b
    <2> QED BY <2>1, LatestIs
  <1> QED BY <1>1, <1>2, <1>4, <1>7, <1>9, <1>11

LEMMA RepeatIs ==
    ASSUME NEW text \in Whole, IsRepeat(text)
    PROVE  BlockWords(text) \in Nat /\ RepeatTimes(text) \in Nat
  <1> DEFINE w == text[1]
             kind == KindOf(w)
  <1>1. w \in Nat /\ kind \in {"sm_repeat", "lg_repeat"}
    BY WholeIs, WordsAre, Zenon DEF IsRepeat, Repeats
  <1>2. \A n \in Nat : n + 1 \in Nat
    OBVIOUS
  <1>3. /\ Bits(w, 8, 4) \in Nat /\ Bits(w, 6, 4) \in Nat /\ Bits(w, 0, 8) \in Nat
        /\ Bits(w, 0, 6) \in Nat /\ 2^16 \in Nat
    BY <1>1, BitsAre, Zenon
  <1>4. CASE kind = "sm_repeat"
    BY <1>2, <1>3, <1>4, Zenon DEF BlockWords, RepeatTimes
  <1>5. CASE kind = "lg_repeat"
    <2>1. text[2] \in Nat
      <3>1. LengthOf(w) = 2
        BY <1>5 DEF LengthOf, Long
      <3>2. text[2] \in Word
        BY <3>1, WholeIs
      <3> QED BY <3>2, WordsAre, Zenon
    <2>2. \A a \in Nat, b \in Nat, c \in Nat : a * b + c \in Nat
      OBVIOUS
    <2>3. Bits(w, 0, 6) * 2^16 + text[2] \in Nat
      BY <1>3, <2>1, <2>2, Zenon
    <2>4. kind # "sm_repeat"
      BY <1>5
    <2>5. RepeatTimes(text) = Bits(w, 0, 6) * 2^16 + text[2] /\ BlockWords(text) = Bits(w, 6, 4) + 1
      BY <2>4, Zenon DEF RepeatTimes, BlockWords
    <2> QED BY <1>2, <1>3, <2>3, <2>5, Zenon
  <1> QED BY <1>1, <1>4, <1>5, Zenon

Failing == <<Op("error", 0)>>

LEMMA FailingIs == Failing \in Seq(Ops) /\ Len(Failing) = 1 /\ Failing[1].op = "error"
  <1>1. Op("error", 0) \in Ops /\ Op("error", 0).op = "error"
    BY OpIs DEF OpNames
  <1> QED BY <1>1 DEF Failing

BeforeOf(texts, i) == SubSeq(texts, 1, i - 1)
BlockOf(texts, i) == Block(BeforeOf(texts, i), BlockWords(texts[i]))
Nested(block) == \E i \in DOMAIN block : IsRepeat(block[i])

LEMMA BeforeIs ==
    ASSUME NEW texts, Reads(texts), NEW i \in 1 .. Len(texts)
    PROVE  BeforeOf(texts, i) \in Seq(Whole) /\ texts[i] \in Texts
  <1> DEFINE N == Len(texts)
             a == BeforeOf(texts, i)
  <1>1. texts \in Seq(Texts) /\ N \in Nat /\ \A k \in 1 .. N - 1 : Complete(texts[k])
    BY DEF Reads
  <1>2. /\ a \in Seq(Texts) /\ Len(a) = i - 1 /\ \A k \in 1 .. i - 1 : a[k] = texts[k]
    <2>1. 1 \in 1 .. Len(texts) + 1 /\ i - 1 \in 0 .. Len(texts) /\ 1 <= i - 1 + 1
      BY <1>1
    <2> DEFINE n == i - 1
    <2>2. n \in 0 .. Len(texts) /\ 1 <= n + 1
      BY <2>1
    <2> HIDE DEF n
    <2>3. /\ SubSeq(texts, 1, n) \in Seq(Texts) /\ Len(SubSeq(texts, 1, n)) = n - 1 + 1
          /\ \A k \in 1 .. n - 1 + 1 : SubSeq(texts, 1, n)[k] = texts[1 + k - 1]
      BY <1>1, <2>1, <2>2, PartIs
    <2> DEFINE p == SubSeq(texts, 1, n)
    <2>4. p = a
      BY DEF n, BeforeOf
    <2> HIDE DEF p
    <2>5. Len(p) = n /\ n \in Int /\ \A k \in 1 .. n : p[k] = texts[k]
      BY <2>2, <2>3 DEF p
    <2> QED BY <2>3, <2>4, <2>5 DEF n, p
  <1> HIDE DEF a, N
  <1>3. \A k \in 1 .. i - 1 : a[k] \in Whole
    <2> TAKE k \in 1 .. i - 1
    <2>1. k \in 1 .. N - 1
      BY <1>1 DEF N
    <2>2. a[k] \in Texts /\ Complete(a[k])
      BY <1>1, <1>2, <2>1
    <2> QED BY <2>2 DEF Texts, Whole
  <1>4. a \in Seq(Whole)
    BY <1>2, <1>3
  <1> QED BY <1>1, <1>4 DEF a

LEMMA InstructionIs ==
    ASSUME NEW texts, Reads(texts), NEW i \in 1 .. Len(texts)
    PROVE  Instruction(texts, i) \in Seq(Ops)
  <1> DEFINE text == texts[i]
             block == BlockOf(texts, i)
             before == BeforeOf(texts, i)
  <1>1. before \in Seq(Whole) /\ text \in Texts
    BY BeforeIs
  <1>2. Failing \in Seq(Ops)
    BY FailingIs
  <1>3. CASE ~Complete(text)
    BY <1>2, <1>3 DEF Instruction, Failing
  <1>4. CASE Complete(text) /\ ~IsRepeat(text)
    <2>1. text \in Whole
      BY <1>1, <1>4 DEF Texts, Whole
    <2> QED BY <1>4, <2>1, ElementaryIs DEF Instruction
  <1>5. CASE Complete(text) /\ IsRepeat(text)
    <2>1. text \in Whole
      BY <1>1, <1>5 DEF Texts, Whole
    <2> DEFINE n == RepeatTimes(text)
               e == IF Nested(block) THEN Failing ELSE ElementaryOf(block)
    <2>2. n \in Nat /\ BlockWords(text) \in Nat
      BY <1>5, <2>1, RepeatIs
    <2>3. Instruction(texts, i) = IF block = << >> THEN Failing ELSE Again(e, n)
      BY <1>5, Zenon DEF Instruction, Repeated, Failing, Nested, BlockOf, BeforeOf
    <2>4. ASSUME block # << >>
          PROVE  Again(e, n) \in Seq(Ops)
      <3>1. block \in Seq(Whole)
        <4> HIDE DEF before, text
        <4>1. Block(before, BlockWords(text)) # << >>
          BY <2>4 DEF BlockOf, before, text
        <4>2. Block(before, BlockWords(text)) \in Seq(Whole)
          BY <1>1, <2>2, <4>1, BlockIs
        <4> QED BY <4>2 DEF BlockOf, before, text
      <3> HIDE DEF block
      <3>2. ElementaryOf(block) \in Seq(Ops)
        BY <3>1, ElementaryEach
      <3>3. e \in Seq(Ops)
        BY <1>2, <3>2, Zenon
      <3> HIDE DEF e, n
      <3> QED BY <2>2, <3>3, AgainIs
    <2> QED BY <1>2, <2>3, <2>4
  <1> QED BY <1>3, <1>4, <1>5

\* What a section's stream has in place of an instruction, repeats written
\* out; and the instructions that are read there.
PlainAt(texts, i) ==
    LET text == texts[i]
        word == text[1]
        before == FlattenSeq(BeforeOf(texts, i))
    IN  IF KindOf(word) = "sm_repeat"
        THEN Again(Latest(before, Bits(word, 8, 4) + 1), Bits(word, 0, 8) + 1)
        ELSE IF KindOf(word) = "lg_repeat"
        THEN Again(Latest(before, Bits(word, 6, 4) + 1), Bits(word, 0, 6) * 2^16 + text[2])
        ELSE text

Chunk(texts, i) ==
    IF IsRepeat(texts[i]) THEN Again(BlockOf(texts, i), RepeatTimes(texts[i]))
    ELSE <<texts[i]>>

Flawless(ops) == \A n \in 1 .. Len(ops) : ops[n].op # "error"

LEMMA PlainRepeat ==
    ASSUME NEW texts, NEW i, IsRepeat(texts[i])
    PROVE  PlainAt(texts, i) = Again(Latest(FlattenSeq(BeforeOf(texts, i)), BlockWords(texts[i])),
                                     RepeatTimes(texts[i]))
  <1> DEFINE kind == KindOf(texts[i][1])
  <1>1. CASE kind = "sm_repeat"
    BY <1>1, Zenon DEF PlainAt, BlockWords, RepeatTimes
  <1>2. CASE kind = "lg_repeat"
    BY <1>2, Zenon DEF PlainAt, BlockWords, RepeatTimes
  <1> QED BY <1>1, <1>2, Zenon DEF IsRepeat, Repeats

LEMMA NeverTimes == \A s : Again(s, 0) = << >>
  <1>1. \A s : [i \in 1 .. 0 |-> s] = << >>
    OBVIOUS
  <1> QED BY <1>1, FlatEmpty DEF Again

LEMMA FailingAgain ==
    ASSUME NEW n \in Nat \ {0}
    PROVE  ~Flawless(Again(Failing, n))
  <1> DEFINE U == Seq(Ops)
             all == [i \in 1 .. n |-> Failing]
             ops == FlattenSeq(all)
  <1>1. Failing \in U /\ Len(Failing) = 1 /\ Failing[1].op = "error"
    BY FailingIs
  <1> HIDE DEF U
  <1>2. all \in Seq(U) /\ Len(all) = n /\ all[1] = Failing
    BY <1>1
  <1>3. Again(Failing, n) = ops
    BY DEF Again
  <1> HIDE DEF all
  <1>4. all \in Seq(Seq(Ops)) /\ 1 \in 1 .. Len(all) /\ 1 \in 1 .. Len(all[1])
    <2>1. 1 \in 1 .. Len(all) /\ 1 \in 1 .. Len(all[1])
      <3>1. 1 \in 1 .. n /\ 1 \in 1 .. 1
        OBVIOUS
      <3>2. Len(all) = n /\ Len(all[1]) = 1
        BY <1>1, <1>2, Zenon
      <3> QED BY <3>1, <3>2, Zenon
    <2> QED BY <1>2, <2>1 DEF U
  <1>5. \E k \in 1 .. Len(ops) : ops[k] = all[1][1]
    BY <1>4, Among
  <1>6. PICK k \in 1 .. Len(ops) : ops[k].op = "error"
    BY <1>1, <1>2, <1>5
  <1> QED BY <1>3, <1>6 DEF Flawless

\* An instruction that is not wrong is whole, and its chunk has no repeats, is
\* written as the stream has it and does the same.
LEMMA ChunkIs ==
    ASSUME NEW texts, Reads(texts), NEW i \in 1 .. Len(texts), Flawless(Instruction(texts, i))
    PROVE  /\ Chunk(texts, i) \in Seq(Plain)
           /\ FlattenSeq(Chunk(texts, i)) = PlainAt(texts, i)
           /\ Each(El, Chunk(texts, i)) = Instruction(texts, i)
  <1> DEFINE text == texts[i]
             before == BeforeOf(texts, i)
             block == BlockOf(texts, i)
             chunk == Chunk(texts, i)
             ops == Instruction(texts, i)
  <1>1. before \in Seq(Whole) /\ text \in Texts
    BY BeforeIs
  <1>2. ~Flawless(Failing)
    <2>1. 1 \in 1 .. Len(Failing) /\ Failing[1].op = "error"
      BY FailingIs
    <2> QED BY <2>1 DEF Flawless
  <1>3. Complete(text)
    <2>1. ~Complete(text) => ops = Failing
      BY DEF Instruction, Failing
    <2> QED BY <1>2, <2>1
  <1>4. text \in Whole
    BY <1>1, <1>3 DEF Texts, Whole
  <1>5. CASE ~IsRepeat(text)
    <2>1. chunk = <<text>> /\ ops = Elementary(text)
      BY <1>3, <1>5 DEF Chunk, Instruction
    <2>2. text \in Plain
      BY <1>4, <1>5 DEF Plain
    <2>3. text \in Seq(Word)
      BY <1>4 DEF Whole
    <2>4. PlainAt(texts, i) = text
      BY <1>5, Zenon DEF PlainAt, IsRepeat, Repeats
    <2>5. El[text] = Elementary(text)
      BY <1>4 DEF El
    <2> HIDE DEF text
    <2>6. <<text>> \in Seq(Plain) /\ FlattenSeq(<<text>>) = text
      BY <2>2, <2>3, FlatOne
    <2>7. Each(El, <<text>>) = El[text]
      BY <1>4, ElMaps, EachOne
    <2> QED BY <2>1, <2>4, <2>5, <2>6, <2>7
  <1>6. CASE IsRepeat(text)
    <2> DEFINE n == RepeatTimes(text)
               k == BlockWords(text)
               e == IF Nested(block) THEN Failing ELSE ElementaryOf(block)
    <2>1. n \in Nat /\ k \in Nat
      BY <1>4, <1>6, RepeatIs
    <2>2. ops = IF block = << >> THEN Failing ELSE Again(e, n)
      BY <1>3, <1>6, Zenon DEF Instruction, Repeated, Failing, Nested, BlockOf, BeforeOf
    <2>3. block # << >> /\ ops = Again(e, n)
      BY <1>2, <2>2
    <2>4. chunk = Again(block, n)
      BY <1>6 DEF Chunk
    <2>5. PlainAt(texts, i) = Again(Latest(FlattenSeq(before), k), n)
      BY <1>6, PlainRepeat
    <2>6. block \in Seq(Whole) /\ FlattenSeq(block) = Latest(FlattenSeq(before), k)
      <3>1. block = Block(before, k)
        BY DEF BlockOf
      <3> HIDE DEF before, k, block
      <3> QED BY <1>1, <2>1, <2>3, <3>1, BlockIs
    <2> HIDE DEF block, n, e, k, ops, chunk
    <2>7. FlattenSeq(Again(block, n)) = Again(FlattenSeq(block), n)
      <3>1. block \in Seq(Seq(Word))
        BY <2>6, WholeTexts
      <3>2. Each(Self, block) = FlattenSeq(block)
        BY <3>1, SelfEach
      <3>3. Each(Self, Again(block, n)) = Again(Each(Self, block), n)
        BY <2>1, <3>1, SelfMaps, EachAgain
      <3> DEFINE U == Seq(Word)
      <3>4. block \in Seq(U)
        BY <3>1
      <3> HIDE DEF U
      <3>5. Again(block, n) \in Seq(U)
        BY <2>1, <3>4, AgainIs
      <3>6. Each(Self, Again(block, n)) = FlattenSeq(Again(block, n))
        <4>1. Again(block, n) \in Seq(Seq(Word))
          BY <3>5 DEF U
        <4> HIDE DEF U
        <4> QED BY <4>1, SelfEach
      <3> QED BY <3>2, <3>3, <3>6
    <2>8. CASE ~Nested(block)
      <3>1. e = ElementaryOf(block)
        BY <2>8 DEF e
      <3>2. ElementaryOf(block) = Each(El, block)
        BY <2>6, ElementaryEach
      <3>3. Each(El, Again(block, n)) = Again(Each(El, block), n)
        BY <2>1, <2>6, ElMaps, EachAgain
      <3>4. block \in Seq(Plain)
        <4>1. \A j \in DOMAIN block : block[j] \in Whole /\ ~IsRepeat(block[j])
          BY <2>6, <2>8 DEF Nested
        <4>2. \A j \in DOMAIN block : block[j] \in Plain
          BY <4>1 DEF Plain
        <4> QED BY <2>6, <4>2
      <3>5. Again(block, n) \in Seq(Plain)
        BY <2>1, <3>4, AgainIs
      <3> QED BY <2>3, <2>4, <2>5, <2>6, <2>7, <3>1, <3>2, <3>3, <3>5 DEF ops, chunk
    <2>9. CASE Nested(block)
      <3>1. n = 0
        <4>1. ops = Again(Failing, n)
          BY <2>3, <2>9 DEF e
        <4>2. Flawless(ops)
          BY DEF ops
        <4> QED BY <2>1, <4>1, <4>2, FailingAgain
      <3>2. chunk = << >> /\ ops = << >> /\ Again(FlattenSeq(block), n) = << >>
        BY <2>3, <2>4, <3>1, NeverTimes
      <3>3. PlainAt(texts, i) = << >>
        BY <2>5, <2>6, <3>2
      <3> QED BY <3>2, <3>3, FlatEmpty, EachNone DEF ops, chunk
    <2> QED BY <2>8, <2>9
  <1> QED BY <1>5, <1>6

LEMMA PlainTexts ==
    /\ \A s \in Seq(Plain) : s \in Seq(Whole) /\ s \in Seq(Seq(Word))
    /\ \A all \in Seq(Seq(Plain)) : all \in Seq(Seq(Whole)) /\ all \in Seq(Seq(Seq(Word)))
  <1> DEFINE P == Seq(Plain)
             W == Seq(Whole)
             U == Seq(Word)
             V == Seq(U)
  <1>1. \A t \in Plain : t \in Whole
    BY DEF Plain
  <1>2. \A s \in P : s \in W
    BY <1>1
  <1>3. \A s \in P : s \in V
    BY <1>2, WholeTexts
  <1> HIDE DEF P, W, V, U
  <1>4. \A all \in Seq(P) : all \in Seq(W)
    BY <1>2
  <1>5. \A all \in Seq(P) : all \in Seq(V)
    BY <1>3
  <1> QED BY <1>2, <1>3, <1>4, <1>5 DEF P, W, U, V

LEMMA OperationsAre ==
    ASSUME NEW words \in Seq(Word)
    PROVE  /\ Operations(words) \in Seq(Ops)
           /\ Flawless(Operations(words)) =>
                \A i \in 1 .. Len(Instructions(words)) :
                    Flawless(Instruction(Instructions(words), i))
  <1> DEFINE texts == Instructions(words)
             N == Len(texts)
             U == Seq(Ops)
             parts == [i \in DOMAIN texts |-> Instruction(texts, i)]
             ops == FlattenSeq(parts)
  <1>1. Reads(texts)
    BY InstructionsAre
  <1>2. Operations(words) = ops
    BY DEF Operations
  <1> HIDE DEF texts
  <1>3. N \in Nat /\ DOMAIN texts = 1 .. N
    BY <1>1 DEF Reads
  <1>4. \A i \in 1 .. N : Instruction(texts, i) \in U
    BY <1>1, InstructionIs
  <1> HIDE DEF N, U
  <1>5. /\ parts \in Seq(U) /\ Len(parts) = N
        /\ \A i \in 1 .. N : parts[i] = Instruction(texts, i)
    BY <1>3, <1>4
  <1> HIDE DEF parts
  <1>6. parts \in Seq(Seq(Ops))
    BY <1>5 DEF U
  <1>7. ops \in Seq(Ops)
    BY <1>6, FlatType
  <1>8. ASSUME Flawless(ops), NEW i \in 1 .. N
        PROVE  Flawless(Instruction(texts, i))
    <2> SUFFICES ASSUME NEW j \in 1 .. Len(parts[i])
                 PROVE  parts[i][j].op # "error"
      BY <1>5 DEF Flawless
    <2>1. i \in 1 .. Len(parts)
      BY <1>5
    <2>2. PICK n \in 1 .. Len(ops) : ops[n] = parts[i][j]
      BY <1>6, <2>1, Among
    <2> QED BY <1>8, <2>2 DEF Flawless
  <1> QED BY <1>2, <1>7, <1>8 DEF texts, N

\* The operations of instructions that are no repeats are theirs in turn.
LEMMA PlainOperations ==
    ASSUME NEW all \in Seq(Plain)
    PROVE  FlattenSeq([j \in DOMAIN all |-> Instruction(all, j)]) = Each(El, all)
  <1>1. \A j \in DOMAIN all : all[j] \in Plain
    OBVIOUS
  <1>2. \A j \in DOMAIN all : Instruction(all, j) = El[all[j]]
    <2> TAKE j \in DOMAIN all
    <2>1. all[j] \in Whole /\ Complete(all[j]) /\ ~IsRepeat(all[j])
      BY <1>1 DEF Plain, Whole
    <2>2. Instruction(all, j) = Elementary(all[j])
      BY <2>1 DEF Instruction
    <2> QED BY <2>1, <2>2 DEF El
  <1>3. [j \in DOMAIN all |-> Instruction(all, j)] = [j \in DOMAIN all |-> El[all[j]]]
    BY <1>2
  <1> QED BY <1>3 DEF Each, Mapped

\* With its repeats written out a stream that succeeds does the same.
LEMMA SameOperations ==
    ASSUME NEW words \in Seq(Word), Flawless(Operations(words))
    PROVE  Operations(WrittenOut(words)) = Operations(words)
  <1> DEFINE texts == Instructions(words)
             N == Len(texts)
             U == Seq(Plain)
             chunks == [i \in 1 .. N |-> Chunk(texts, i)]
             all == FlattenSeq(chunks)
  <1>1. Reads(texts)
    BY InstructionsAre
  <1>2. \A i \in 1 .. N : Flawless(Instruction(texts, i))
    BY OperationsAre
  <1>3. /\ Operations(words) = FlattenSeq([i \in DOMAIN texts |-> Instruction(texts, i)])
        /\ WrittenOut(words) = FlattenSeq([i \in DOMAIN texts |-> PlainAt(texts, i)])
    BY DEF Operations, WrittenOut, PlainAt, BeforeOf
  <1> HIDE DEF texts
  <1>4. N \in Nat /\ DOMAIN texts = 1 .. N
    BY <1>1 DEF Reads
  <1>5. \A i \in 1 .. N : /\ Chunk(texts, i) \in U
                          /\ FlattenSeq(Chunk(texts, i)) = PlainAt(texts, i)
                          /\ Each(El, Chunk(texts, i)) = Instruction(texts, i)
    BY <1>1, <1>2, ChunkIs
  <1> HIDE DEF N, U
  <1>6. /\ chunks \in Seq(U) /\ DOMAIN chunks = 1 .. N
        /\ \A i \in 1 .. N : chunks[i] = Chunk(texts, i)
    BY <1>4, <1>5
  <1> HIDE DEF chunks
  <1>7. chunks \in Seq(Seq(Plain))
    BY <1>6 DEF U
  <1>8. chunks \in Seq(Seq(Whole)) /\ chunks \in Seq(Seq(Seq(Word)))
    BY <1>7, PlainTexts
  <1>9. all \in Seq(Plain)
    BY <1>7, FlatType
  <1>10. FlattenSeq(all) = WrittenOut(words)
    <2>1. all \in Seq(Seq(Word))
      BY <1>9, PlainTexts
    <2>2. Each(Self, all) = FlattenSeq(all)
      BY <2>1, SelfEach
    <2>3. Each(Self, all) = FlattenSeq([i \in DOMAIN chunks |-> Each(Self, chunks[i])])
      <3> DEFINE X == Seq(Word)
      <3>1. Maps(Self, X, Seq(Word)) /\ chunks \in Seq(Seq(X))
        BY <1>8, SelfMaps
      <3> HIDE DEF X
      <3> QED BY <3>1, EachFlat
    <2>4. \A i \in 1 .. N : Each(Self, chunks[i]) = PlainAt(texts, i)
      <3> TAKE i \in 1 .. N
      <3>1. chunks[i] \in Seq(Seq(Word))
        BY <1>5, <1>6, PlainTexts DEF U
      <3>2. Each(Self, chunks[i]) = FlattenSeq(chunks[i])
        BY <3>1, SelfEach
      <3> QED BY <1>5, <1>6, <3>2
    <2>5. [i \in DOMAIN chunks |-> Each(Self, chunks[i])] = [i \in DOMAIN texts |-> PlainAt(texts, i)]
      BY <1>4, <1>6, <2>4
    <2> QED BY <1>3, <2>2, <2>3, <2>5
  <1>11. Each(El, all) = Operations(words)
    <2>1. Each(El, all) = FlattenSeq([i \in DOMAIN chunks |-> Each(El, chunks[i])])
      BY <1>8, ElMaps, EachFlat
    <2>2. [i \in DOMAIN chunks |-> Each(El, chunks[i])]
            = [i \in DOMAIN texts |-> Instruction(texts, i)]
      BY <1>4, <1>5, <1>6
    <2> QED BY <1>3, <2>1, <2>2
  <1>12. Instructions(WrittenOut(words)) = all
    <2>1. all \in Seq(Whole)
      BY <1>9, PlainTexts
    <2> HIDE DEF all
    <2>2. Instructions(FlattenSeq(all)) = all
      BY <2>1, WholeRead
    <2> QED BY <1>10, <2>2
  <1>13. Operations(WrittenOut(words)) = Each(El, all)
    <2>1. Operations(WrittenOut(words)) = FlattenSeq([j \in DOMAIN all |-> Instruction(all, j)])
      BY <1>12 DEF Operations
    <2> HIDE DEF all
    <2> QED BY <1>9, <2>1, PlainOperations
  <1> QED BY <1>11, <1>13

LEMMA SameRelocation ==
    ASSUME NEW words \in Seq(Word), NEW env, Relocated(words, env).ok
    PROVE  Relocated(WrittenOut(words), env) = Relocated(words, env)
  <1>1. Operations(words) \in Seq(Ops)
    BY OperationsAre
  <1>2. Flawless(Operations(words))
    BY <1>1, NoErrors DEF Flawless
  <1>3. Operations(WrittenOut(words)) = Operations(words)
    BY <1>2, SameOperations
  <1> QED BY <1>3 DEF Relocated

-----------------------------------------------------------------------------
(* The loader *)

Phases == {"bind", "map", "describe", "relocate", "loaded", "failed"}

GuestRange == [at : Nat, size : Nat \ {0}, perms : {"r", "rw", "rwx", "rx"}]

Mappings == mapped \subseteq GuestRange

\* Past the first step every import that is not weak has a slot.
AllBound == phase \notin {"bind", "failed"} => Missing = {}

Described ==
    phase \in {"relocate", "loaded"} =>
        descriptors = [i \in DOMAIN container.imports |->
                          IF container.imports[i].name \in DOMAIN Slots
                          THEN Slots[container.imports[i].name] ELSE 0]

\* An executable section is mapped where it is.
CodeAt(at) ==
    \E i \in DOMAIN Sections : at = BaseOf(i) /\ Sections[i].total > 0 /\ Executable(i)

\* What can be both written and executed is where an executable section is.
WritableIsCode ==
    \A m \in mapped : m.perms = "rwx" => phase # "loaded" /\ CodeAt(m.at)

\* Two mapped ranges share a byte.
Share(m, n) == m.at < n.at + n.size /\ n.at < m.at + m.size
MappedApart == \A m, n \in mapped : m # n => ~Share(m, n)

LoadInv ==
    /\ container \in Containers /\ phase \in Phases
    /\ AllBound /\ Described
    /\ Mappings /\ WritableIsCode /\ MappedApart

-----------------------------------------------------------------------------
(* The invariant *)

LEMMA BasesAre ==
    ASSUME container \in Containers, NEW i \in DOMAIN Sections
    PROVE  BaseOf(i) \in Nat
  <1>1. i \in Nat /\ i >= 1 /\ SectionBase \in Nat /\ SectionStride \in Nat
    BY SectionsAre, LoadAssumption
  <1>2. SectionStride * (i - 1) \in Nat
    BY <1>1
  <1> QED BY <1>1, <1>2 DEF BaseOf

\* The container is mapped whole.
LEMMA ImageSizeIs ==
    ASSUME container \in Containers
    PROVE  ImageSize \in Nat \ {0} /\ ImageSize >= container.size
  <1> DEFINE n == container.size
             S == {n, 1}
  <1>1. n \in Nat
    BY LoadAssumption
  <1> HIDE DEF n
  <1>2. \E x \in S : \A y \in S : x >= y
    BY <1>1, n >= 1 \/ 1 >= n
  <1>3. Max(S) \in S /\ \A y \in S : Max(S) >= y
    BY <1>2 DEF Max
  <1> QED BY <1>1, <1>3 DEF ImageSize, n

LEMMA MappingIs ==
    ASSUME NEW at, NEW size, NEW perms
    PROVE  /\ Mapping(at, size, perms).at = at
           /\ Mapping(at, size, perms).size = size
           /\ Mapping(at, size, perms).perms = perms
  BY DEF Mapping

\* A range that overlaps none of those mapped may be mapped.
LEMMA MapKeeps ==
    ASSUME Mappings, MappedApart, WritableIsCode, phase # "loaded", phase' # "loaded",
           NEW at \in Nat, NEW size \in Nat \ {0}, NEW perms \in {"r", "rw", "rwx"},
           ~Overlaps(at, size), perms = "rwx" => CodeAt(at),
           mapped' = mapped \union {Mapping(at, size, perms)}, container' = container
    PROVE  Mappings' /\ MappedApart' /\ WritableIsCode'
  <1> DEFINE new == Mapping(at, size, perms)
  <1>1. new.at = at /\ new.size = size /\ new.perms = perms
    BY MappingIs
  <1>2. Mappings'
    <2>1. new \in GuestRange
      BY DEF Mapping, GuestRange
    <2> HIDE DEF new
    <2> QED BY <2>1 DEF Mappings, new
  <1>3. \A x : CodeAt(x)' = CodeAt(x)
    BY DEF CodeAt, BaseOf, Executable, Sections
  <1> HIDE DEF new
  <1>4. mapped' = mapped \union {new}
    BY DEF new
  <1>5. \A m \in mapped : ~Share(new, m) /\ ~Share(m, new)
    BY <1>1 DEF Overlaps, Share
  <1>6. MappedApart'
    BY <1>4, <1>5 DEF MappedApart
  <1>7. WritableIsCode'
    BY <1>1, <1>3, <1>4 DEF WritableIsCode
  <1> QED BY <1>2, <1>6, <1>7

\* The steps that map nothing.
LEMMA UnmappedKeeps ==
    ASSUME LoadInv, phase # "loaded", phase' \in Phases, phase' # "loaded",
           UNCHANGED <<container, mapped>>
    PROVE  Mappings' /\ MappedApart' /\ WritableIsCode'
  BY DEF LoadInv, Mappings, MappedApart, WritableIsCode, CodeAt, Sections, BaseOf, Executable

LEMMA FailKeeps ==
    ASSUME LoadInv, phase # "loaded", Fail
    PROVE  LoadInv'
  <1>1. phase' = "failed" /\ UNCHANGED <<container, mapped>>
    BY DEF Fail
  <1>2. Mappings' /\ MappedApart' /\ WritableIsCode'
    BY <1>1, UnmappedKeeps DEF Phases
  <1> QED BY <1>1, <1>2 DEF LoadInv, Phases, AllBound, Described

LEMMA BindKeeps == ASSUME LoadInv, Bind PROVE LoadInv'
  <1>1. CASE Fail
    BY <1>1, FailKeeps DEF Bind
  <1>2. CASE Missing = {} /\ phase' = "map"
             /\ UNCHANGED <<container, next, mapped, memory, descriptors>>
    <2>1. Mappings' /\ MappedApart' /\ WritableIsCode'
      BY <1>2, UnmappedKeeps DEF Bind, Phases
    <2>2. Missing' = Missing
      BY <1>2 DEF Missing
    <2> QED BY <1>2, <2>1, <2>2 DEF LoadInv, Phases, AllBound, Described
  <1> QED BY <1>1, <1>2 DEF Bind

LEMMA MapSectionKeeps == ASSUME LoadInv, MapSection PROVE LoadInv'
  <1> DEFINE size  == Sections[next].total
             perms == IF Executable(next) THEN "rwx" ELSE "rw"
  <1>1. phase = "map" /\ next \in DOMAIN Sections
    BY DEF MapSection
  <1>2. CASE Fail
    BY <1>1, <1>2, FailKeeps
  <1>3. CASE /\ size = 0 \/ ~Overlaps(BaseOf(next), size)
             /\ mapped' = IF size = 0 THEN mapped
                          ELSE mapped \union {Mapping(BaseOf(next), size, perms)}
             /\ phase' \in {"map", "failed"}
             /\ UNCHANGED <<container, descriptors>>
    <2>1. Mappings' /\ MappedApart' /\ WritableIsCode'
      <3>1. CASE size = 0
        BY <1>1, <1>3, <3>1, UnmappedKeeps DEF Phases
      <3>2. CASE size # 0
        <4>1. size \in Nat \ {0} /\ BaseOf(next) \in Nat
          BY <1>1, <3>2, SectionsAre, BasesAre DEF LoadInv
        <4>2. perms = "rwx" => CodeAt(BaseOf(next))
          BY <1>1, <4>1 DEF CodeAt
        <4>3. perms \in {"r", "rw", "rwx"}
          OBVIOUS
        <4> HIDE DEF perms, size
        <4>4. /\ Mappings /\ MappedApart /\ WritableIsCode
              /\ phase # "loaded" /\ phase' # "loaded" /\ container' = container
              /\ ~Overlaps(BaseOf(next), size)
              /\ mapped' = mapped \union {Mapping(BaseOf(next), size, perms)}
          BY <1>1, <1>3, <3>2 DEF LoadInv
        <4> QED BY <4>1, <4>2, <4>3, <4>4, MapKeeps
      <3> QED BY <3>1, <3>2
    <2>2. Missing' = Missing
      BY <1>3 DEF Missing
    <2> QED BY <1>1, <1>3, <2>1, <2>2 DEF LoadInv, Phases, AllBound, Described
  <1> QED BY <1>1, <1>2, <1>3 DEF MapSection

LEMMA MapContainerKeeps == ASSUME LoadInv, MapContainer PROVE LoadInv'
  <1>1. phase = "map"
    BY DEF MapContainer
  <1>2. CASE Fail
    BY <1>1, <1>2, FailKeeps
  <1>3. CASE /\ ~Overlaps(ImageBase, ImageSize) /\ phase' = "describe"
             /\ mapped' = mapped \union {Mapping(ImageBase, ImageSize, "r")}
             /\ UNCHANGED <<container, next, memory, descriptors>>
    <2>1. Mappings' /\ MappedApart' /\ WritableIsCode'
      <3>1. ImageSize \in Nat \ {0} /\ ImageBase \in Nat
        BY ImageSizeIs, LoadAssumption DEF LoadInv
      <3> QED BY <1>1, <1>3, <3>1, MapKeeps DEF LoadInv
    <2>2. Missing' = Missing
      BY <1>3 DEF Missing
    <2> QED BY <1>1, <1>3, <2>1, <2>2 DEF LoadInv, Phases, AllBound, Described
  <1> QED BY <1>2, <1>3 DEF MapContainer

LEMMA MapDescriptorsKeeps == ASSUME LoadInv, MapDescriptors PROVE LoadInv'
  <1> DEFINE size == 8 * Len(container.imports)
  <1>1. phase = "describe"
    BY DEF MapDescriptors
  <1>2. CASE Fail
    BY <1>1, <1>2, FailKeeps
  <1>3. CASE /\ ~(size > 0 /\ Overlaps(DescriptorBase, size))
             /\ mapped' = IF size = 0 THEN mapped
                          ELSE mapped \union {Mapping(DescriptorBase, size, "rw")}
             /\ descriptors' = [i \in DOMAIN container.imports |->
                                   IF container.imports[i].name \in DOMAIN Slots
                                   THEN Slots[container.imports[i].name] ELSE 0]
             /\ phase' = "relocate" /\ container' = container
    <2>1. Mappings' /\ MappedApart' /\ WritableIsCode'
      <3>1. CASE size = 0
        BY <1>1, <1>3, <3>1, UnmappedKeeps DEF Phases
      <3>2. CASE size # 0
        <4>1. size > 0 /\ size \in Nat \ {0} /\ DescriptorBase \in Nat
          <5>1. Len(container.imports) \in Nat
            BY LoadAssumption DEF LoadInv
          <5> QED BY <3>2, <5>1, LoadAssumption
        <4> HIDE DEF size
        <4> QED BY <1>1, <1>3, <3>2, <4>1, MapKeeps DEF LoadInv
      <3> QED BY <3>1, <3>2
    <2>2. Missing' = Missing
      BY <1>3 DEF Missing
    <2> QED BY <1>1, <1>3, <2>1, <2>2 DEF LoadInv, Phases, AllBound, Described
  <1> QED BY <1>2, <1>3 DEF MapDescriptors

LEMMA RelocateHeaderKeeps == ASSUME LoadInv, RelocateHeader PROVE LoadInv'
  <1>1. phase = "relocate"
    BY DEF RelocateHeader
  <1>2. CASE Fail
    BY <1>1, <1>2, FailKeeps
  <1>3. CASE UNCHANGED <<container, phase, mapped, descriptors>>
    <2>1. Mappings' /\ MappedApart' /\ WritableIsCode'
      BY <1>1, <1>3, UnmappedKeeps DEF LoadInv
    <2>2. Missing' = Missing
      BY <1>3 DEF Missing
    <2> QED BY <1>1, <1>3, <2>1, <2>2 DEF LoadInv, Phases, AllBound, Described
  <1> QED BY <1>2, <1>3 DEF RelocateHeader

LEMMA ProtectKeeps == ASSUME LoadInv, Protect PROVE LoadInv'
  <1>1. /\ phase = "relocate" /\ phase' = "loaded"
        /\ mapped' = {Protected(m) : m \in mapped}
        /\ UNCHANGED <<container, next, memory, descriptors>>
    BY DEF Protect
  <1>2. ASSUME NEW m \in mapped
        PROVE  /\ Protected(m).at = m.at /\ Protected(m).size = m.size
               /\ Protected(m).perms # "rwx" /\ Protected(m) \in GuestRange
    <2>1. m \in GuestRange
      BY DEF LoadInv, Mappings
    <2>2. Protected(m) = IF CodeAt(m.at) THEN [m EXCEPT !.perms = "rx"] ELSE m
      BY DEF Protected, CodeAt
    <2>3. ~CodeAt(m.at) => m.perms # "rwx"
      BY DEF LoadInv, WritableIsCode
    <2> QED BY <2>1, <2>2, <2>3 DEF GuestRange
  <1>3. Mappings' /\ WritableIsCode'
    BY <1>1, <1>2 DEF Mappings, WritableIsCode
  <1>4. MappedApart'
    <2> SUFFICES ASSUME NEW m \in mapped, NEW n \in mapped, Protected(m) # Protected(n)
                 PROVE  ~Share(Protected(m), Protected(n))
      BY <1>1 DEF MappedApart
    <2>1. ~Share(m, n)
      BY DEF LoadInv, MappedApart
    <2> QED BY <1>2, <2>1 DEF Share
  <1>5. Missing' = Missing
    BY <1>1 DEF Missing
  <1> QED BY <1>1, <1>3, <1>4, <1>5 DEF LoadInv, Phases, AllBound, Described

LEMMA LoadInit == Init => LoadInv
  <1> SUFFICES ASSUME Init PROVE LoadInv
    OBVIOUS
  <1>1. mapped = GuestRanges /\ container \in Containers /\ phase = "bind"
    BY DEF Init
  <1>2. Mappings
    BY <1>1, GuestAssumption DEF Mappings, GuestRange
  <1>3. WritableIsCode
    BY <1>1, GuestAssumption DEF WritableIsCode
  <1>4. MappedApart
    <2> SUFFICES ASSUME NEW m \in GuestRanges, NEW n \in GuestRanges, m # n
                 PROVE  ~Share(m, n)
      BY <1>1 DEF MappedApart
    <2>1. {m.at, m.size, n.at, n.size} \subseteq Nat
      BY GuestAssumption
    <2>2. m.at + m.size <= n.at \/ n.at + n.size <= m.at
      BY GuestAssumption
    <2> QED BY <2>1, <2>2 DEF Share
  <1> QED BY <1>1, <1>2, <1>3, <1>4 DEF LoadInv, Phases, AllBound, Described

LEMMA LoadStep == LoadInv /\ [Next]_vars => LoadInv'
  <1> SUFFICES ASSUME LoadInv, [Next]_vars PROVE LoadInv'
    OBVIOUS
  <1>1. CASE UNCHANGED vars
    <2>1. Missing' = Missing
      BY <1>1 DEF vars, Missing
    <2>2. AllBound' /\ Described'
      BY <1>1, <2>1 DEF LoadInv, vars, AllBound, Described
    <2>3. Mappings' /\ WritableIsCode' /\ MappedApart'
      BY <1>1 DEF LoadInv, vars, Mappings, WritableIsCode, MappedApart, CodeAt,
                  Sections, BaseOf, Executable
    <2> QED BY <1>1, <2>2, <2>3 DEF LoadInv, vars
  <1> QED BY <1>1, BindKeeps, MapSectionKeeps, MapContainerKeeps, MapDescriptorsKeeps,
             RelocateHeaderKeeps, ProtectKeeps DEF Next

-----------------------------------------------------------------------------
(* Where things are mapped *)

\* What the code of a section may do, at last and while it is relocated.
SectionMapping(i, code) ==
    Mapping(BaseOf(i), Sections[i].total, IF Executable(i) THEN code ELSE "rw")
Needed(i) == Sections[i].total > 0
SectionsSoFar ==
    \A i \in DOMAIN Sections : i < next /\ Needed(i) => SectionMapping(i, "rwx") \in mapped
SectionsWritable == \A i \in DOMAIN Sections : Needed(i) => SectionMapping(i, "rwx") \in mapped
SectionsProtected == \A i \in DOMAIN Sections : Needed(i) => SectionMapping(i, "rx") \in mapped
ContainerAt == Mapping(ImageBase, ImageSize, "r") \in mapped
DescriptorsAt ==
    container.imports # << >> =>
        Mapping(DescriptorBase, 8 * Len(container.imports), "rw") \in mapped

\* When a fragment is loaded the guest's own ranges are as they were, every
\* section is mapped at its base with all its bytes, code to be executed and
\* the rest to be written, and so are the container and the descriptors.
LaidOut ==
    phase = "loaded" =>
        /\ GuestRanges \subseteq mapped
        /\ SectionsProtected /\ ContainerAt /\ DescriptorsAt

\* What each phase has mapped.
PlacedInv ==
    phase # "failed" =>
        /\ GuestRanges \subseteq mapped
        /\ phase = "bind" => next = 1
        /\ phase = "map" => next \in Nat \ {0} /\ SectionsSoFar
        /\ phase \in {"describe", "relocate"} => SectionsWritable /\ ContainerAt
        /\ phase = "relocate" => DescriptorsAt
        /\ phase = "loaded" => SectionsProtected /\ ContainerAt /\ DescriptorsAt

\* What is mapped stays mapped.
LEMMA PlacesKept ==
    ASSUME container' = container, mapped \subseteq mapped'
    PROVE  /\ (SectionsSoFar /\ next' = next) => SectionsSoFar'
           /\ SectionsWritable => SectionsWritable'
           /\ SectionsProtected => SectionsProtected'
           /\ ContainerAt => ContainerAt'
           /\ DescriptorsAt => DescriptorsAt'
  <1>1. /\ Sections' = Sections /\ ImageSize' = ImageSize
        /\ \A i, code : SectionMapping(i, code)' = SectionMapping(i, code) /\ Needed(i)' = Needed(i)
    BY DEF SectionMapping, Needed, Sections, BaseOf, Executable, ImageSize
  <1> QED BY <1>1 DEF SectionsSoFar, SectionsWritable, SectionsProtected, ContainerAt,
                       DescriptorsAt

LEMMA MapSectionPlaces == ASSUME LoadInv, PlacedInv, MapSection PROVE PlacedInv'
  <1> SUFFICES ASSUME phase' # "failed" PROVE PlacedInv'
    BY DEF PlacedInv
  <1> DEFINE size == Sections[next].total
             new  == Mapping(BaseOf(next), size, IF Executable(next) THEN "rwx" ELSE "rw")
  <1>1. /\ phase = "map" /\ phase' = "map" /\ next \in DOMAIN Sections
        /\ mapped' = IF size = 0 THEN mapped ELSE mapped \union {new}
        /\ next' = next + 1 /\ container' = container
    BY DEF MapSection, Fail
  <1>2. /\ GuestRanges \subseteq mapped /\ next \in Nat \ {0} /\ SectionsSoFar
    BY <1>1 DEF PlacedInv
  <1>3. DOMAIN Sections = 1 .. Len(Sections) /\ Len(Sections) \in Nat
    BY SectionsAre DEF LoadInv
  <1>4. Needed(next) => SectionMapping(next, "rwx") \in mapped'
    BY <1>1 DEF SectionMapping, Needed
  <1>5. mapped \subseteq mapped'
    BY <1>1
  <1> HIDE DEF size, new
  <1>6. Sections' = Sections /\ \A i : /\ SectionMapping(i, "rwx")' = SectionMapping(i, "rwx")
                                      /\ Needed(i)' = Needed(i)
    BY <1>1 DEF SectionMapping, Needed, Sections, BaseOf, Executable
  <1>7. ASSUME NEW i \in DOMAIN Sections, i < next + 1, Needed(i)
        PROVE  SectionMapping(i, "rwx") \in mapped'
    <2>1. CASE i = next
      BY <1>4, <1>7, <2>1
    <2>2. CASE i # next
      <3>1. i < next
        BY <1>2, <1>3, <1>7, <2>2
      <3> QED BY <1>2, <1>5, <1>7, <3>1 DEF SectionsSoFar
    <2> QED BY <2>1, <2>2
  <1>8. SectionsSoFar'
    BY <1>1, <1>6, <1>7 DEF SectionsSoFar
  <1>9. next' \in Nat \ {0}
    BY <1>1, <1>2
  <1> QED BY <1>1, <1>2, <1>5, <1>8, <1>9 DEF PlacedInv

LEMMA MapContainerPlaces == ASSUME LoadInv, PlacedInv, MapContainer PROVE PlacedInv'
  <1> SUFFICES ASSUME phase' # "failed" PROVE PlacedInv'
    BY DEF PlacedInv
  <1>1. /\ phase = "map" /\ phase' = "describe" /\ next \notin DOMAIN Sections
        /\ mapped' = mapped \union {Mapping(ImageBase, ImageSize, "r")}
        /\ container' = container
    BY DEF MapContainer, Fail
  <1>2. GuestRanges \subseteq mapped /\ next \in Nat \ {0} /\ SectionsSoFar
    BY <1>1 DEF PlacedInv
  <1>3. DOMAIN Sections = 1 .. Len(Sections) /\ Len(Sections) \in Nat
    BY SectionsAre DEF LoadInv
  <1>4. SectionsWritable
    <2>1. \A i \in DOMAIN Sections : i < next
      BY <1>1, <1>2, <1>3
    <2> QED BY <1>2, <2>1 DEF SectionsSoFar, SectionsWritable
  <1>5. mapped \subseteq mapped' /\ ImageSize' = ImageSize
    BY <1>1 DEF ImageSize
  <1>6. ContainerAt'
    BY <1>1, <1>5 DEF ContainerAt
  <1>7. SectionsWritable'
    BY <1>1, <1>4, <1>5, PlacesKept
  <1> QED BY <1>1, <1>2, <1>5, <1>6, <1>7 DEF PlacedInv

LEMMA MapDescriptorsPlaces == ASSUME LoadInv, PlacedInv, MapDescriptors PROVE PlacedInv'
  <1> SUFFICES ASSUME phase' # "failed" PROVE PlacedInv'
    BY DEF PlacedInv
  <1> DEFINE size == 8 * Len(container.imports)
             new  == Mapping(DescriptorBase, size, "rw")
  <1>1. /\ phase = "describe" /\ phase' = "relocate" /\ container' = container
        /\ mapped' = IF size = 0 THEN mapped ELSE mapped \union {new}
    BY DEF MapDescriptors, Fail
  <1>2. GuestRanges \subseteq mapped /\ SectionsWritable /\ ContainerAt
    BY <1>1 DEF PlacedInv
  <1>3. container.imports # << >> => size # 0
    <2>1. container.imports \in Seq(ToSet(container.imports))
      BY LoadAssumption DEF LoadInv
    <2>2. container.imports # << >> => Len(container.imports) # 0
      BY <2>1, EmptySeq
    <2>3. Len(container.imports) \in Nat
      BY <2>1
    <2> QED BY <2>2, <2>3
  <1>4. mapped \subseteq mapped'
    BY <1>1
  <1>5. DescriptorsAt'
    BY <1>1, <1>3 DEF DescriptorsAt
  <1>6. container' = container
    BY <1>1
  <1> HIDE DEF new, size
  <1>7. SectionsWritable' /\ ContainerAt'
    BY <1>2, <1>4, <1>6, PlacesKept
  <1> QED BY <1>1, <1>2, <1>4, <1>5, <1>7 DEF PlacedInv

\* Only an executable section's own mapping is tightened: any other range at
\* its base would share a byte with it.
LEMMA ProtectedIs ==
    ASSUME LoadInv, SectionsWritable, NEW m \in mapped
    PROVE  /\ m.perms # "rwx" => Protected(m) = m
           /\ \A i \in DOMAIN Sections :
                 Sections[i].total > 0 /\ m = SectionMapping(i, "rwx")
                    => Protected(m) = SectionMapping(i, "rx")
  <1>2. Protected(m) = IF CodeAt(m.at) THEN [m EXCEPT !.perms = "rx"] ELSE m
    BY DEF Protected, CodeAt
  <1>3. m.perms # "rwx" => ~CodeAt(m.at)
    <2> SUFFICES ASSUME m.perms # "rwx", NEW i \in DOMAIN Sections, m.at = BaseOf(i),
                        Sections[i].total > 0, Executable(i)
                 PROVE  FALSE
      BY DEF CodeAt
    <2> DEFINE n == Mapping(BaseOf(i), Sections[i].total, "rwx")
    <2>1. n = SectionMapping(i, "rwx")
      BY DEF SectionMapping
    <2>2. n.at = m.at /\ n.size = Sections[i].total /\ n.perms = "rwx"
      BY MappingIs
    <2> HIDE DEF n
    <2>3. n \in mapped
      BY <2>1 DEF SectionsWritable, Needed
    <2>4. ~Share(m, n)
      BY <2>2, <2>3 DEF LoadInv, MappedApart
    <2>5. m \in GuestRange /\ n \in GuestRange
      BY <2>3 DEF LoadInv, Mappings
    <2>6. {m.at, m.size, n.at, n.size} \subseteq Nat /\ m.size > 0 /\ n.size > 0
      BY <2>5 DEF GuestRange
    <2> QED BY <2>2, <2>4, <2>6 DEF Share
  <1>4. ASSUME NEW i \in DOMAIN Sections, Sections[i].total > 0,
               m = SectionMapping(i, "rwx")
        PROVE  Protected(m) = SectionMapping(i, "rx")
    <2>1. CASE Executable(i)
      <3>1. m = Mapping(BaseOf(i), Sections[i].total, "rwx")
        BY <1>4, <2>1 DEF SectionMapping
      <3>2. CodeAt(m.at)
        BY <1>4, <2>1, <3>1, MappingIs DEF CodeAt
      <3>3. [m EXCEPT !.perms = "rx"] = Mapping(BaseOf(i), Sections[i].total, "rx")
        BY <3>1 DEF Mapping
      <3> QED BY <1>2, <2>1, <3>2, <3>3 DEF SectionMapping
    <2>2. CASE ~Executable(i)
      <3>1. m = SectionMapping(i, "rx") /\ m.perms # "rwx"
        BY <1>4, <2>2, MappingIs DEF SectionMapping
      <3> QED BY <1>2, <1>3, <3>1
    <2> QED BY <2>1, <2>2
  <1> QED BY <1>2, <1>3, <1>4

LEMMA ProtectPlaces == ASSUME LoadInv, PlacedInv, Protect PROVE PlacedInv'
  <1>1. /\ phase = "relocate" /\ phase' = "loaded" /\ container' = container
        /\ mapped' = {Protected(m) : m \in mapped}
    BY DEF Protect
  <1>2. /\ GuestRanges \subseteq mapped /\ SectionsWritable
        /\ ContainerAt /\ DescriptorsAt
    BY <1>1 DEF PlacedInv
  <1>3. \A m \in mapped : m.perms # "rwx" => m \in mapped'
    BY <1>1, <1>2, ProtectedIs
  <1>4. GuestRanges \subseteq mapped'
    <2>1. \A m \in GuestRanges : m.perms # "rwx"
      BY GuestAssumption
    <2> QED BY <1>2, <1>3, <2>1
  <1>5. ContainerAt'
    <2>1. ImageSize' = ImageSize
      BY <1>1 DEF ImageSize
    <2> QED BY <1>2, <1>3, <2>1, MappingIs DEF ContainerAt
  <1>6. DescriptorsAt'
    BY <1>1, <1>2, <1>3, MappingIs DEF DescriptorsAt
  <1>7. ASSUME NEW i \in DOMAIN Sections, Needed(i)
        PROVE  SectionMapping(i, "rx") \in mapped'
    <2>1. SectionMapping(i, "rwx") \in mapped
      BY <1>2, <1>7 DEF SectionsWritable
    <2>2. Protected(SectionMapping(i, "rwx")) = SectionMapping(i, "rx")
      BY <1>2, <1>7, <2>1, ProtectedIs DEF Needed
    <2> QED BY <1>1, <2>1, <2>2
  <1>8. SectionsProtected'
    <2>1. Sections' = Sections /\ \A i : /\ SectionMapping(i, "rx")' = SectionMapping(i, "rx")
                                        /\ Needed(i)' = Needed(i)
      BY <1>1 DEF SectionMapping, Needed, Sections, BaseOf, Executable
    <2> QED BY <1>7, <2>1 DEF SectionsProtected
  <1> QED BY <1>1, <1>4, <1>5, <1>6, <1>8 DEF PlacedInv

LEMMA PlacedInit == Init => PlacedInv
  BY DEF Init, PlacedInv

LEMMA PlacedStep == LoadInv /\ PlacedInv /\ [Next]_vars => PlacedInv'
  <1> SUFFICES ASSUME LoadInv, PlacedInv, [Next]_vars PROVE PlacedInv'
    OBVIOUS
  <1>1. CASE UNCHANGED vars
    <2>1. /\ container' = container /\ mapped' = mapped /\ phase' = phase /\ next' = next
      BY <1>1 DEF vars
    <2>2. container' = container /\ mapped \subseteq mapped'
      BY <2>1
    <2>3. /\ SectionsSoFar => SectionsSoFar'
          /\ SectionsWritable => SectionsWritable'
          /\ SectionsProtected => SectionsProtected'
          /\ ContainerAt => ContainerAt'
          /\ DescriptorsAt => DescriptorsAt'
      BY <2>1, <2>2, PlacesKept
    <2> QED BY <2>1, <2>2, <2>3 DEF PlacedInv
  <1>2. CASE Bind
    <2> SUFFICES ASSUME phase' # "failed" PROVE PlacedInv'
      BY DEF PlacedInv
    <2>1. /\ phase = "bind" /\ phase' = "map" /\ UNCHANGED <<container, next, mapped>>
      BY <1>2 DEF Bind, Fail
    <2>2. next = 1 /\ GuestRanges \subseteq mapped
      BY <2>1 DEF PlacedInv
    <2>3. DOMAIN Sections = 1 .. Len(Sections) /\ Len(Sections) \in Nat /\ Sections' = Sections
      BY <2>1, SectionsAre DEF LoadInv, Sections
    <2>4. next' = 1 /\ \A i \in DOMAIN Sections' : ~(i < 1)
      BY <2>1, <2>2, <2>3
    <2>5. SectionsSoFar'
      BY <2>4 DEF SectionsSoFar
    <2> QED BY <2>1, <2>2, <2>5 DEF PlacedInv
  <1>3. CASE RelocateHeader
    <2> SUFFICES ASSUME phase' # "failed" PROVE PlacedInv'
      BY DEF PlacedInv
    <2>1. /\ phase = "relocate" /\ phase' = "relocate" /\ UNCHANGED <<container, mapped>>
      BY <1>3 DEF RelocateHeader, Fail
    <2>2. container' = container /\ mapped \subseteq mapped'
      BY <2>1
    <2>3. GuestRanges \subseteq mapped /\ SectionsWritable /\ ContainerAt /\ DescriptorsAt
      BY <2>1 DEF PlacedInv
    <2>4. SectionsWritable' /\ ContainerAt' /\ DescriptorsAt'
      BY <2>2, <2>3, PlacesKept
    <2> QED BY <2>1, <2>2, <2>3, <2>4 DEF PlacedInv
  <1> QED BY <1>1, <1>2, <1>3, MapSectionPlaces, MapContainerPlaces, MapDescriptorsPlaces,
             ProtectPlaces DEF Next

-----------------------------------------------------------------------------
(* What is in memory *)

\* As many sections as have been mapped are in memory, and all of them once the
\* container is; each has the bytes it was linked from.
Images ==
    /\ Len(memory) \in Nat /\ memory = [i \in 1 .. Len(memory) |-> memory[i]]
    /\ Len(memory) <= Len(Sections)
    /\ phase \in {"bind", "map"} => next = Len(memory) + 1
    /\ phase \in {"describe", "relocate", "loaded"} => Len(memory) = Len(Sections)
    /\ PackedOnce => \A i \in 1 .. Len(memory) : OwnImage(i)

ImageInv == phase # "failed" => Images

LEMMA AppendedTo ==
    ASSUME NEW s, Len(s) \in Nat, s = [i \in 1 .. Len(s) |-> s[i]], NEW x
    PROVE  /\ Len(Append(s, x)) = Len(s) + 1 /\ Append(s, x)[Len(s) + 1] = x
           /\ \A i \in 1 .. Len(s) : Append(s, x)[i] = s[i]
           /\ Append(s, x) = [i \in 1 .. Len(s) + 1 |-> Append(s, x)[i]]
  <1> DEFINE T == {s[i] : i \in 1 .. Len(s)} \union {x}
             n == Len(s)
             t == Append(s, x)
  <1>1. \A i \in 1 .. n : s[i] \in T
    OBVIOUS
  <1>2. x \in T
    OBVIOUS
  <1> HIDE DEF T
  <1>3. s \in Seq(T) /\ n \in Nat
    BY <1>1
  <1>4. /\ t \in Seq(T) /\ Len(t) = n + 1 /\ t[n + 1] = x
        /\ \A i \in 1 .. n : t[i] = s[i]
    BY <1>2, <1>3, AppendProperties
  <1> HIDE DEF t
  <1>5. t = [i \in 1 .. Len(t) |-> t[i]]
    BY <1>4
  <1> QED BY <1>4, <1>5 DEF t

LEMMA SameFragment ==
    ASSUME container' = container
    PROVE  Sections' = Sections /\ PackedSections' = PackedSections /\ PackedOnce' = PackedOnce
  BY DEF Sections, PackedSections, PackedOnce

LEMMA OwnImages ==
    ASSUME container' = container, NEW i, memory'[i].bytes = Linked(Sections[i])
    PROVE  OwnImage(i)'
  BY SameFragment DEF OwnImage

\* The steps that change neither memory nor, before the last section, next.
LEMMA MemoryKept ==
    ASSUME Images, UNCHANGED <<container, memory>>,
           phase' \in {"bind", "map"} => next' = Len(memory) + 1,
           phase' \in {"describe", "relocate", "loaded"} => Len(memory) = Len(Sections)
    PROVE  Images'
  <1>1. Sections' = Sections /\ PackedOnce' = PackedOnce
    BY SameFragment
  <1>2. PackedOnce => \A i \in 1 .. Len(memory) : OwnImage(i)'
    BY <1>1 DEF Images, OwnImage
  <1> QED BY <1>1, <1>2 DEF Images

LEMMA BindFills == ASSUME ImageInv, Bind PROVE ImageInv'
  <1> SUFFICES ASSUME phase' # "failed" PROVE Images'
    BY DEF ImageInv
  <1>1. phase = "bind" /\ phase' = "map" /\ UNCHANGED <<container, next, memory>>
    BY DEF Bind, Fail
  <1>2. Images /\ next = Len(memory) + 1
    BY <1>1 DEF ImageInv, Images
  <1> QED BY <1>1, <1>2, MemoryKept

LEMMA MapSectionFills == ASSUME LoadInv, ImageInv, MapSection PROVE ImageInv'
  <1> SUFFICES ASSUME phase' # "failed" PROVE Images'
    BY DEF ImageInv
  <1> DEFINE size == Sections[next].total
             image == SectionImage(next)
             new == [patches |-> << >>, bytes |-> IF size = 0 THEN << >> ELSE image.bytes]
             n == Len(memory)
  <1>1. /\ phase = "map" /\ phase' = "map" /\ next \in DOMAIN Sections
        /\ memory' = Append(memory, new) /\ next' = next + 1 /\ container' = container
    BY DEF MapSection, Fail
  <1>9. size # 0 => image.ok
    <2>1. size \in Nat
      BY <1>1, SectionsAre DEF LoadInv
    <2>2. ~(size > 0 /\ ~image.ok)
      BY DEF MapSection, Fail
    <2> HIDE DEF size, image
    <2> QED BY <2>1, <2>2
  <1>2. Images /\ next = n + 1 /\ n \in Nat /\ container \in Containers
    BY <1>1 DEF ImageInv, Images, LoadInv
  <1>3. Sections' = Sections /\ PackedOnce' = PackedOnce
    BY <1>1, SameFragment
  <1>4. new.bytes = IF size = 0 THEN << >> ELSE image.bytes
    OBVIOUS
  <1> HIDE DEF new
  <1>5. /\ Len(memory') = n + 1 /\ memory'[n + 1] = new
        /\ \A i \in 1 .. n : memory'[i] = memory[i]
        /\ memory' = [i \in 1 .. n + 1 |-> memory'[i]]
    BY <1>1, <1>2, AppendedTo DEF Images
  <1>6. n + 1 <= Len(Sections)
    BY <1>1, <1>2, SectionsAre
  <1>7. ASSUME PackedOnce
        PROVE  \A i \in 1 .. n + 1 : OwnImage(i)'
    <2>1. new.bytes = Linked(Sections[next])
      <3>1. CASE size = 0
        <4>1. Linked(Sections[next]) = << >>
          BY <3>1 DEF Linked
        <4> QED BY <1>4, <3>1, <4>1
      <3>2. CASE size # 0
        <4>1. image.ok
          BY <1>9, <3>2
        <4> QED BY <1>1, <1>2, <1>4, <1>7, <3>2, <4>1, ImageIsLinked
      <3> QED BY <3>1, <3>2
    <2>2. \A i \in 1 .. n : memory[i].bytes = Linked(Sections[i])
      BY <1>2, <1>7 DEF Images, OwnImage
    <2>3. \A i \in 1 .. n + 1 : memory'[i].bytes = Linked(Sections[i])
      <3> TAKE i \in 1 .. n + 1
      <3>1. CASE i = n + 1
        BY <1>2, <1>5, <2>1, <3>1
      <3>2. CASE i # n + 1
        <4>1. i \in 1 .. n
          BY <1>2, <3>2
        <4> QED BY <1>5, <2>2, <4>1
      <3> QED BY <3>1, <3>2
    <2> QED BY <1>1, <2>3, OwnImages
  <1> HIDE DEF n
  <1>8. next' = (n + 1) + 1 /\ n + 1 \in Nat
    BY <1>1, <1>2
  <1> QED BY <1>1, <1>3, <1>5, <1>6, <1>7, <1>8 DEF Images

LEMMA MapContainerFills == ASSUME LoadInv, ImageInv, MapContainer PROVE ImageInv'
  <1> SUFFICES ASSUME phase' # "failed" PROVE Images'
    BY DEF ImageInv
  <1>1. /\ phase = "map" /\ phase' = "describe" /\ next \notin DOMAIN Sections
        /\ UNCHANGED <<container, next, memory>>
    BY DEF MapContainer, Fail
  <1>2. /\ Images /\ next = Len(memory) + 1 /\ Len(memory) \in Nat
        /\ Len(memory) <= Len(Sections)
    BY <1>1 DEF ImageInv, Images
  <1>3. Len(memory) = Len(Sections)
    <2>1. Len(Sections) \in Nat /\ DOMAIN Sections = 1 .. Len(Sections)
      BY SectionsAre DEF LoadInv
    <2> QED BY <1>1, <1>2, <2>1
  <1> QED BY <1>1, <1>2, <1>3, MemoryKept

LEMMA MapDescriptorsFills == ASSUME ImageInv, MapDescriptors PROVE ImageInv'
  <1> SUFFICES ASSUME phase' # "failed" PROVE Images'
    BY DEF ImageInv
  <1>1. phase = "describe" /\ phase' = "relocate" /\ UNCHANGED <<container, memory>>
    BY DEF MapDescriptors, Fail
  <1>2. Images /\ Len(memory) = Len(Sections)
    BY <1>1 DEF ImageInv, Images
  <1> QED BY <1>1, <1>2, MemoryKept

LEMMA RelocateHeaderFills == ASSUME LoadInv, ImageInv, RelocateHeader PROVE ImageInv'
  <1> SUFFICES ASSUME phase' # "failed" PROVE Images'
    BY DEF ImageInv
  <1> DEFINE at == container.headers[next].section
             n == Len(memory)
             image == SectionImage(at)
  <1>1. PICK patches :
          /\ phase = "relocate" /\ phase' = "relocate" /\ at \in DOMAIN Sections /\ image.ok
          /\ memory' = [memory EXCEPT ![at] = [bytes |-> image.bytes, patches |-> patches]]
          /\ container' = container
    BY DEF RelocateHeader, Fail
  <1>2. Images /\ n = Len(Sections) /\ n \in Nat /\ container \in Containers
    BY <1>1 DEF ImageInv, Images, LoadInv
  <1>3. Sections' = Sections /\ PackedOnce' = PackedOnce
    BY <1>1, SameFragment
  <1>4. at \in 1 .. n
    BY <1>1, <1>2, SectionsAre
  <1> DEFINE new == [bytes |-> image.bytes, patches |-> patches]
  <1>5. new.bytes = image.bytes
    OBVIOUS
  <1> HIDE DEF at, new
  <1>6. memory = [i \in 1 .. n |-> memory[i]]
    BY <1>2 DEF Images
  <1>7. memory' = [i \in 1 .. n |-> IF i = at THEN new ELSE memory[i]]
    BY <1>1, <1>6 DEF new
  <1>8. Len(memory') = n
    <2> HIDE DEF n
    <2> QED BY <1>2, <1>7
  <1>9. \A i \in 1 .. n : memory'[i] = IF i = at THEN new ELSE memory[i]
    BY <1>7
  <1>10. ASSUME PackedOnce
         PROVE  \A i \in 1 .. n : OwnImage(i)'
    <2>1. image.bytes = Linked(Sections[at])
      BY <1>1, <1>2, <1>10, ImageIsLinked
    <2>2. \A i \in 1 .. n : memory[i].bytes = Linked(Sections[i])
      BY <1>2, <1>10 DEF Images, OwnImage
    <2> HIDE DEF image
    <2>3. \A i \in 1 .. n : memory'[i].bytes = Linked(Sections[i])
      BY <1>5, <1>9, <2>1, <2>2
    <2> QED BY <1>1, <2>3, OwnImages
  <1> HIDE DEF n
  <1>11. memory' = [i \in 1 .. n |-> memory'[i]]
    BY <1>7
  <1> QED BY <1>1, <1>2, <1>3, <1>8, <1>10, <1>11 DEF Images

LEMMA ProtectFills == ASSUME ImageInv, Protect PROVE ImageInv'
  <1> SUFFICES ASSUME phase' # "failed" PROVE Images'
    BY DEF ImageInv
  <1>1. phase = "relocate" /\ phase' = "loaded" /\ UNCHANGED <<container, memory>>
    BY DEF Protect
  <1>2. Images /\ Len(memory) = Len(Sections)
    BY <1>1 DEF ImageInv, Images
  <1> QED BY <1>1, <1>2, MemoryKept

LEMMA ImageInit == ASSUME Init PROVE ImageInv
  <1>1. memory = << >> /\ next = 1 /\ phase = "bind" /\ container \in Containers
    BY DEF Init
  <1>2. Len(memory) = 0 /\ memory = [i \in 1 .. Len(memory) |-> memory[i]]
    BY <1>1
  <1>3. Len(Sections) \in Nat
    BY <1>1, SectionsAre
  <1> QED BY <1>1, <1>2, <1>3 DEF ImageInv, Images

LEMMA ImageStep == LoadInv /\ ImageInv /\ [Next]_vars => ImageInv'
  <1> SUFFICES ASSUME LoadInv, ImageInv, [Next]_vars PROVE ImageInv'
    OBVIOUS
  <1>1. CASE UNCHANGED vars
    <2> SUFFICES ASSUME phase' # "failed" PROVE Images'
      BY DEF ImageInv
    <2>1. UNCHANGED <<container, phase, next, memory>>
      BY <1>1 DEF vars
    <2>2. Images
      BY <2>1 DEF ImageInv
    <2> QED BY <2>1, <2>2, MemoryKept DEF Images
  <1> QED BY <1>1, BindFills, MapSectionFills, MapContainerFills, MapDescriptorsFills,
             RelocateHeaderFills, ProtectFills DEF Next

-----------------------------------------------------------------------------
(* What the headers do *)

HeaderOf(i) == container.headers[i]
Result(i) == Relocated(HeaderOf(i).words, Environment(HeaderOf(i).section))
Alone(i) == \A j \in DOMAIN container.headers \ {i} : HeaderOf(j).section # HeaderOf(i).section

\* The headers before n have succeeded, and one alone for its section has its
\* result there.
Patched(n) ==
    \A i \in DOMAIN container.headers :
        i < n => /\ HeaderOf(i).section \in DOMAIN Sections
                 /\ Result(i).ok
                 /\ Alone(i) => memory[HeaderOf(i).section].patches = Result(i).patches

PatchInv ==
    /\ phase = "relocate" => next \in Nat /\ next >= 1 /\ Patched(next)
    /\ phase = "loaded" => Patched(Len(container.headers) + 1)

LEMMA HeadersAre ==
    ASSUME container \in Containers
    PROVE  /\ Len(container.headers) \in Nat
           /\ DOMAIN container.headers = 1 .. Len(container.headers)
           /\ \A i \in DOMAIN container.headers : HeaderOf(i).words \in Seq(Word)
  <1>1. container.headers \in Seq(ToSet(container.headers))
    BY HeaderAssumption
  <1>2. \A i \in DOMAIN container.headers : container.headers[i] \in ToSet(container.headers)
    BY DEF ToSet
  <1>3. \A i \in DOMAIN container.headers : container.headers[i].words \in Seq(Word)
    BY <1>2, HeaderAssumption
  <1>4. \A i \in DOMAIN container.headers : HeaderOf(i).words \in Seq(Word)
    BY <1>3 DEF HeaderOf
  <1>5. /\ Len(container.headers) \in Nat
        /\ DOMAIN container.headers = 1 .. Len(container.headers)
    BY <1>1
  <1> QED BY <1>4, <1>5

LEMMA SameHeaders ==
    ASSUME container' = container
    PROVE  \A i : /\ HeaderOf(i)' = HeaderOf(i) /\ Result(i)' = Result(i) /\ Alone(i)' = Alone(i)
                  /\ (DOMAIN Sections)' = DOMAIN Sections
  BY DEF HeaderOf, Result, Alone, Environment, Sections, BaseOf

LEMMA MapDescriptorsPatches == ASSUME LoadInv, MapDescriptors PROVE PatchInv'
  <1>1. phase' = "failed" \/ (phase' = "relocate" /\ next' = 1 /\ container' = container)
    BY DEF MapDescriptors, Fail
  <1>2. CASE phase' = "failed"
    BY <1>2 DEF PatchInv
  <1>3. CASE phase' = "relocate" /\ next' = 1 /\ container' = container
    <2>1. DOMAIN container.headers = 1 .. Len(container.headers) /\ Len(container.headers) \in Nat
      BY HeadersAre DEF LoadInv
    <2>2. \A i \in DOMAIN container.headers : ~(i < 1)
      BY <2>1
    <2>3. Patched(next)'
      BY <1>3, <2>2 DEF Patched
    <2> QED BY <1>3, <2>3 DEF PatchInv
  <1> QED BY <1>1, <1>2, <1>3

LEMMA RelocateHeaderPatches ==
    ASSUME LoadInv, ImageInv, PatchInv, RelocateHeader
    PROVE  PatchInv'
  <1> DEFINE at == HeaderOf(next).section
             n == Len(memory)
             new == [bytes |-> SectionImage(at).bytes, patches |-> Result(next).patches]
  <1>1. CASE phase' = "failed"
    BY <1>1 DEF PatchInv
  <1>2. CASE phase' # "failed"
    <2>1. /\ phase = "relocate" /\ phase' = "relocate" /\ at \in DOMAIN Sections
          /\ next \in DOMAIN container.headers /\ Result(next).ok
          /\ memory' = [memory EXCEPT ![at] = new]
          /\ next' = next + 1 /\ container' = container
      BY <1>2 DEF RelocateHeader, Fail, Result, HeaderOf
    <2>2. /\ memory = [i \in 1 .. n |-> memory[i]] /\ n = Len(Sections) /\ n \in Nat
          /\ container \in Containers
      BY <2>1 DEF ImageInv, Images, LoadInv
    <2>3. at \in 1 .. n
      BY <2>1, <2>2, SectionsAre
    <2>4. new.patches = Result(next).patches
      OBVIOUS
    <2> HIDE DEF new, n, at
    <2>5. memory'[at] = new /\ \A i \in 1 .. n : i # at => memory'[i] = memory[i]
      BY <2>1, <2>2, <2>3
    <2>6. DOMAIN Sections = 1 .. n
      BY <2>2, SectionsAre
    <2>7. next \in Nat /\ next >= 1 /\ Patched(next)
      BY <2>1 DEF PatchInv
    <2>8. /\ DOMAIN container.headers = 1 .. Len(container.headers)
          /\ Len(container.headers) \in Nat
      BY <2>2, HeadersAre
    <2>9. ASSUME NEW i \in DOMAIN container.headers, i < next + 1
          PROVE  /\ HeaderOf(i).section \in DOMAIN Sections
                 /\ Result(i).ok
                 /\ Alone(i) => memory'[HeaderOf(i).section].patches = Result(i).patches
      <3>1. CASE i = next
        BY <2>1, <2>4, <2>5, <3>1 DEF at
      <3>2. CASE i # next
        <4>1. i < next
          BY <2>7, <2>8, <2>9, <3>2
        <4>2. /\ HeaderOf(i).section \in DOMAIN Sections
              /\ Result(i).ok
              /\ Alone(i) => memory[HeaderOf(i).section].patches = Result(i).patches
          BY <2>7, <4>1 DEF Patched
        <4>3. Alone(i) => HeaderOf(i).section # at
          BY <2>1, <3>2 DEF Alone, at
        <4>4. Alone(i) => memory'[HeaderOf(i).section] = memory[HeaderOf(i).section]
          BY <2>5, <2>6, <4>2, <4>3
        <4> QED BY <4>2, <4>4
      <3> QED BY <3>1, <3>2
    <2>10. Patched(next)'
      <3> SUFFICES ASSUME NEW i \in DOMAIN container'.headers, i < next'
                   PROVE  /\ HeaderOf(i)'.section \in (DOMAIN Sections)'
                          /\ (Result(i).ok)'
                          /\ Alone(i)' => memory'[HeaderOf(i)'.section].patches
                                            = Result(i)'.patches
        BY DEF Patched
      <3> QED BY <2>1, <2>9, SameHeaders
    <2>11. next' \in Nat /\ next' >= 1
      BY <2>1, <2>7
    <2> QED BY <2>1, <2>10, <2>11 DEF PatchInv
  <1> QED BY <1>1, <1>2

LEMMA ProtectPatches == ASSUME LoadInv, PatchInv, Protect PROVE PatchInv'
  <1> DEFINE N == Len(container.headers)
  <1>1. /\ phase = "relocate" /\ phase' = "loaded" /\ next \notin DOMAIN container.headers
        /\ UNCHANGED <<container, memory>>
    BY DEF Protect
  <1>2. next \in Nat /\ next >= 1 /\ Patched(next)
    BY <1>1 DEF PatchInv
  <1>3. N \in Nat /\ DOMAIN container.headers = 1 .. N
    BY HeadersAre DEF LoadInv
  <1>4. \A i \in DOMAIN container.headers : i < next
    BY <1>1, <1>2, <1>3
  <1>5. Patched(N + 1)'
    BY <1>1, <1>2, <1>4, SameHeaders DEF Patched
  <1>6. Len(container.headers)' = N
    BY <1>1
  <1> QED BY <1>1, <1>5, <1>6 DEF PatchInv

LEMMA PatchStep == LoadInv /\ ImageInv /\ PatchInv /\ [Next]_vars => PatchInv'
  <1> SUFFICES ASSUME LoadInv, ImageInv, PatchInv, [Next]_vars PROVE PatchInv'
    OBVIOUS
  <1>1. CASE UNCHANGED vars
    <2>1. UNCHANGED <<container, phase, next, memory>>
      BY <1>1 DEF vars
    <2> QED BY <2>1, SameHeaders DEF PatchInv, Patched
  <1>2. CASE Bind
    BY <1>2 DEF Bind, Fail, PatchInv
  <1>3. CASE MapSection
    BY <1>3 DEF MapSection, Fail, PatchInv
  <1>4. CASE MapContainer
    BY <1>4 DEF MapContainer, Fail, PatchInv
  <1> QED BY <1>1, <1>2, <1>3, <1>4, MapDescriptorsPatches, RelocateHeaderPatches,
             ProtectPatches DEF Next

-----------------------------------------------------------------------------
(* The theorems *)

\* The inductive invariant: the imports are bound before anything is mapped,
\* and what may be written and executed is only where executable sections
\* are, until the last step (loader.load).
THEOREM LoadInvariant == Spec => []LoadInv
  <1> QED BY LoadInit, LoadStep, PTL DEF Spec

\* Each import of a loaded fragment that is not weak has the slot of its name
\* in its descriptor (loader.load's check of the imports).
THEOREM ImportsAreBound == Spec => []ImportsBound
  <1>1. LoadInv => ImportsBound
    <2> SUFFICES ASSUME LoadInv, phase = "loaded", NEW i \in DOMAIN container.imports,
                        ~container.imports[i].weak
                 PROVE  /\ container.imports[i].name \in DOMAIN Slots
                        /\ descriptors[i] = Slots[container.imports[i].name]
      BY DEF ImportsBound
    <2>1. Missing = {}
      BY DEF LoadInv, AllBound
    <2>2. container.imports[i] \in ToSet(container.imports)
      BY DEF ToSet
    <2>3. container.imports[i].name \in DOMAIN Slots
      BY <2>1, <2>2 DEF Missing
    <2> QED BY <2>3 DEF LoadInv, Described
  <1> QED BY <1>1, LoadInvariant, PTL

\* No mapping of a loaded fragment can be both written and executed,
\* whichever kinds of section it has (loader._map_image).
THEOREM CodeIsNotWritable == Spec => []NoWritableCode
  <1>1. LoadInv => NoWritableCode
    BY DEF LoadInv, WritableIsCode, NoWritableCode
  <1> QED BY <1>1, LoadInvariant, PTL

\* In no state of a load do two mapped ranges share a byte, the guest's own
\* included; and a loaded fragment is there whole: each section at its base
\* with all its bytes, executable if it is code and else writable, the
\* container with all its bytes, the descriptors, and the guest's own ranges
\* with the permissions they had (loader.load's calls of map and protect, for
\* any fragment, any bases and any ranges of the guest).
THEOREM MappingsApart == Spec => [](MappedApart /\ LaidOut)
  <1>1. LoadInv => MappedApart
    BY DEF LoadInv
  <1>2. PlacedInv => LaidOut
    BY DEF PlacedInv, LaidOut
  <1>3. Spec => []PlacedInv
    BY PlacedInit, PlacedStep, LoadInvariant, PTL DEF Spec
  <1> QED BY <1>1, <1>2, <1>3, LoadInvariant, PTL

\* Every section of a loaded fragment holds the bytes the linker stored or
\* packed for it, whatever operations it packed them into and however large
\* their counts are, and zeros up to its size (PEF.pidata, section_image and
\* loader.load; of fragments with at most one section of packed data, stored as
\* the format has it).
THEOREM ImagesAreLinked == Spec => []ImagesAsLinked
  <1>1. LoadInv /\ ImageInv => ImagesAsLinked
    <2> SUFFICES ASSUME LoadInv, ImageInv, PackedOnce
                 PROVE  /\ \A i \in PackedSections : SectionImage(i).ok
                        /\ phase = "loaded" => \A i \in DOMAIN Sections : OwnImage(i)
      BY DEF ImagesAsLinked
    <2>1. container \in Containers
      BY DEF LoadInv
    <2>2. \A i \in PackedSections : SectionImage(i).ok
      BY <2>1, ImageIsLinked DEF PackedSections
    <2>3. ASSUME phase = "loaded"
          PROVE  \A i \in DOMAIN Sections : OwnImage(i)
      BY <2>1, <2>3, SectionsAre DEF ImageInv, Images
    <2> QED BY <2>2, <2>3
  <1>2. Spec => []ImageInv
    <2>1. Init => ImageInv
      BY ImageInit
    <2> QED BY <2>1, ImageStep, LoadInvariant, PTL DEF Spec
  <1> QED BY <1>1, <1>2, LoadInvariant, PTL

\* A repeat does what its block does written out that many times, whatever the
\* block holds and however often it is repeated: a section of a loaded fragment
\* that one header relocates has the words its stream without repeats gives
\* (apply_relocations in pef.py).
THEOREM RepeatsAreShorthand == Spec => []RelocatedAsWrittenOut
  <1>1. LoadInv /\ PatchInv => RelocatedAsWrittenOut
    <2> SUFFICES ASSUME LoadInv, PatchInv, phase = "loaded",
                        NEW i \in DOMAIN container.headers, Alone(i)
                 PROVE  LET plain == Relocated(WrittenOut(HeaderOf(i).words),
                                               Environment(HeaderOf(i).section))
                        IN  plain.ok /\ memory[HeaderOf(i).section].patches = plain.patches
      BY DEF RelocatedAsWrittenOut, HeaderOf, Alone
    <2> DEFINE words == HeaderOf(i).words
               env == Environment(HeaderOf(i).section)
    <2>1. /\ words \in Seq(Word) /\ Len(container.headers) \in Nat
          /\ DOMAIN container.headers = 1 .. Len(container.headers)
      BY HeadersAre DEF LoadInv
    <2>2. i < Len(container.headers) + 1
      BY <2>1
    <2>3. /\ Relocated(words, env).ok
          /\ memory[HeaderOf(i).section].patches = Relocated(words, env).patches
      BY <2>2 DEF PatchInv, Patched, Result
    <2> HIDE DEF words, env
    <2>4. Relocated(WrittenOut(words), env) = Relocated(words, env)
      BY <2>1, <2>3, SameRelocation
    <2> QED BY <2>3, <2>4 DEF words, env
  <1>2. Spec => []ImageInv
    <2>1. Init => ImageInv
      BY ImageInit
    <2> QED BY <2>1, ImageStep, LoadInvariant, PTL DEF Spec
  <1>3. Spec => []PatchInv
    <2>1. Init => PatchInv
      BY DEF Init, PatchInv
    <2> QED BY <1>2, <2>1, PatchStep, LoadInvariant, PTL DEF Spec
  <1> QED BY <1>1, <1>3, LoadInvariant, PTL

=============================================================================
