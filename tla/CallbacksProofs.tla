-------------------------- MODULE CallbacksProofs --------------------------
(***************************************************************************)
(* Theorems about the scratch range and the identifiers (Callbacks), for   *)
(* any files, panels and cookie slots, and about the chain of resource     *)
(* files (Resources), which the callbacks leave alone.                     *)
(***************************************************************************)
EXTENDS Callbacks, FiniteSetTheorems, SequenceTheorems, TLAPS

Blocks == [at : Nat, size : Nat \ {0}]

\* The blocks of a heap follow one another, up to its first free byte.
GoodHeap(heap) ==
    /\ heap.next \in Nat
    /\ heap.got \in Seq(Blocks)
    /\ \A i, j \in DOMAIN heap.got :
          /\ heap.got[i].at + heap.got[i].size <= heap.next
          /\ i < j => heap.got[i].at + heap.got[i].size <= heap.got[j].at

\* Numbers below n, each of one key.
Numbering(f, n) ==
    /\ \A x \in DOMAIN f : f[x] \in Nat /\ f[x] < n
    /\ \A x, y \in DOMAIN f : f[x] = f[y] => x = y

\* The answers of a kind are what the table f says.
Says(answers, kind, f) ==
    \A a \in answers : a.kind = kind => a.key \in DOMAIN f /\ a.value = f[a.key]

Kinds == {"main", "file", "secret", "license"}

\* The main file's id is the one that is in no table.
Constants(answers) ==
    \A a \in answers : /\ a.kind \in Kinds
                       /\ a.kind = "main" => a.key = MainFile /\ a.value = 0

\* Once there is an id, 0 is one.
ZeroTaken(f) == DOMAIN f # {} => \E x \in DOMAIN f : f[x] = 0

\* Every answer is what its table still says.
Identifiers ==
    /\ IsFiniteSet(DOMAIN fileIds)
    /\ Numbering(fileIds, Cardinality(DOMAIN fileIds))
    /\ Numbering(secrets, scratch) /\ Numbering(licenses, scratch)
    /\ Says(given, "file", fileIds) /\ Says(given, "secret", secrets) /\ Says(given, "license", licenses)
    /\ Constants(given) /\ ZeroTaken(fileIds)

CallbacksInv == GoodHeap(Now) /\ Identifiers

-----------------------------------------------------------------------------
(* Guest.alloc *)

LEMMA Alignment ==
    ASSUME NEW n \in Nat, NEW align \in {1, 4}
    PROVE  AlignUp(n, align) \in Nat /\ n <= AlignUp(n, align)
  <1>1. CASE align = 1
    BY <1>1 DEF AlignUp
  <1>2. CASE align = 4
    BY <1>2 DEF AlignUp
  <1> QED BY <1>1, <1>2

LEMMA MaxOfTwo ==
    ASSUME NEW m \in Nat, NEW n \in Nat \ {0}
    PROVE  /\ Max({m, n}) \in Nat \ {0} /\ Max({n, m}) \in Nat \ {0}
           /\ Max({m, n}) >= m /\ Max({n, m}) >= m
  <1>1. \E x \in {m, n} : \A y \in {m, n} : x >= y
    BY m >= n \/ n >= m
  <1>2. Max({m, n}) \in {m, n} /\ \A y \in {m, n} : Max({m, n}) >= y
    BY <1>1 DEF Max
  <1>3. Max({n, m}) = Max({m, n})
    <2>1. {n, m} = {m, n}
      OBVIOUS
    <2> QED BY <2>1, Zenon
  <1> QED BY <1>2, <1>3

\* What is given out begins where nothing was.
LEMMA AfterKeeps ==
    ASSUME NEW heap, GoodHeap(heap), NEW size \in Nat, NEW align \in {1, 4}
    PROVE  /\ GoodHeap(After(heap, size, align))
           /\ After(heap, size, align).next \in Nat
           /\ AlignUp(heap.next, align) \in Nat
           /\ heap.next <= AlignUp(heap.next, align)
           /\ AlignUp(heap.next, align) < After(heap, size, align).next
  <1> DEFINE at    == AlignUp(heap.next, align)
             taken == Max({size, 1})
             block == [at |-> at, size |-> taken]
             new   == After(heap, size, align)
  <1>1. at \in Nat /\ heap.next <= at /\ heap.next \in Nat
    BY Alignment DEF GoodHeap
  <1>2. taken \in Nat \ {0}
    BY MaxOfTwo
  <1>3. new.next = at + taken /\ new.got = Append(heap.got, block)
    BY DEF After, EndOf
  <1>4. block \in Blocks /\ block.at = at /\ block.size = taken
    BY <1>1, <1>2 DEF Blocks
  <1> HIDE DEF at, taken, block, new
  <1>5. heap.got \in Seq(Blocks) /\ new.got \in Seq(Blocks)
    BY <1>3, <1>4, AppendProperties DEF GoodHeap
  <1>6. /\ Len(new.got) = Len(heap.got) + 1 /\ new.got[Len(heap.got) + 1] = block
        /\ \A i \in 1 .. Len(heap.got) : new.got[i] = heap.got[i]
    BY <1>3, <1>4, <1>5, AppendProperties
  <1>7. /\ DOMAIN heap.got = 1 .. Len(heap.got) /\ Len(heap.got) \in Nat
        /\ DOMAIN new.got = 1 .. Len(heap.got) + 1
    BY <1>5, <1>6, LenProperties
  <1>8. ASSUME NEW i \in DOMAIN heap.got
        PROVE  /\ heap.got[i].at \in Nat /\ heap.got[i].size \in Nat
               /\ heap.got[i].at + heap.got[i].size <= heap.next
    <2>1. heap.got[i] \in Blocks
      BY <1>5, <1>7, ElementOfSeq
    <2>2. heap.got[i].at + heap.got[i].size <= heap.next
      BY DEF GoodHeap
    <2> QED BY <2>1, <2>2 DEF Blocks
  <1>9. ASSUME NEW i \in DOMAIN new.got, NEW j \in DOMAIN new.got
        PROVE  /\ new.got[i].at + new.got[i].size <= new.next
               /\ i < j => new.got[i].at + new.got[i].size <= new.got[j].at
    <2>1. CASE i = Len(heap.got) + 1
      BY <1>1, <1>2, <1>3, <1>4, <1>6, <1>7, <2>1
    <2>2. CASE i \in DOMAIN heap.got /\ j = Len(heap.got) + 1
      <3>1. new.got[i] = heap.got[i] /\ new.got[j] = block
        BY <1>6, <1>7, <2>2
      <3>2. /\ heap.got[i].at \in Nat /\ heap.got[i].size \in Nat
            /\ heap.got[i].at + heap.got[i].size <= heap.next
        BY <1>8, <2>2
      <3>3. new.got[i].at = heap.got[i].at /\ new.got[i].size = heap.got[i].size
            /\ new.got[j].at = at
        BY <1>4, <3>1
      <3>4. heap.got[i].at + heap.got[i].size <= at
        BY <1>1, <3>2
      <3>5. heap.got[i].at + heap.got[i].size <= new.next
        BY <1>1, <1>2, <1>3, <3>2, <3>4
      <3> QED BY <3>3, <3>4, <3>5
    <2>3. CASE i \in DOMAIN heap.got /\ j \in DOMAIN heap.got
      <3>1. new.got[i] = heap.got[i] /\ new.got[j] = heap.got[j]
        BY <1>6, <1>7, <2>3
      <3>2. /\ heap.got[i].at \in Nat /\ heap.got[i].size \in Nat
            /\ heap.got[i].at + heap.got[i].size <= heap.next
        BY <1>8, <2>3
      <3>3. i < j => heap.got[i].at + heap.got[i].size <= heap.got[j].at
        BY <2>3 DEF GoodHeap
      <3> QED BY SMTT(40), <1>1, <1>2, <1>3, <3>1, <3>2, <3>3
    <2> QED BY <1>7, <2>1, <2>2, <2>3
  <1>10. GoodHeap(new)
    BY <1>1, <1>2, <1>3, <1>5, <1>9 DEF GoodHeap
  <1> QED BY <1>1, <1>2, <1>3, <1>10 DEF at, new

LEMMA WordKeeps ==
    ASSUME NEW heap, GoodHeap(heap)
    PROVE  /\ GoodHeap(Word(heap)) /\ Word(heap).next \in Nat
           /\ WordAt(heap) \in Nat
           /\ heap.next <= WordAt(heap) /\ WordAt(heap) < Word(heap).next
  BY AfterKeeps DEF Word, WordAt

LEMMA AllocKeeps ==
    ASSUME NEW heap, GoodHeap(heap), Alloc(heap)
    PROVE  GoodHeap(Now)' /\ scratch' = heap.next
  BY DEF Alloc, GoodHeap, Now

-----------------------------------------------------------------------------
(* Tables of identifiers *)

LEMMA NumberingGrows ==
    ASSUME NEW f, NEW n \in Nat, Numbering(f, n), NEW m \in Nat, n <= m
    PROVE  Numbering(f, m)
  BY DEF Numbering

\* A new key gets a number that was not given.
LEMMA EntryJoins ==
    ASSUME NEW f, NEW n \in Nat, Numbering(f, n), NEW key, key \notin DOMAIN f,
           NEW value \in Nat, n <= value, NEW m \in Nat, value < m
    PROVE  /\ Numbering(WithEntry(f, key, value), m)
           /\ DOMAIN WithEntry(f, key, value) = DOMAIN f \union {key}
           /\ WithEntry(f, key, value)[key] = value
           /\ \A x \in DOMAIN f : WithEntry(f, key, value)[x] = f[x]
  <1> DEFINE g == WithEntry(f, key, value)
  <1>1. /\ DOMAIN g = DOMAIN f \union {key} /\ g[key] = value
        /\ \A x \in DOMAIN f : g[x] = f[x]
    BY DEF WithEntry
  <1> HIDE DEF g
  <1>2. Numbering(g, m)
    BY <1>1 DEF Numbering
  <1> QED BY <1>1, <1>2 DEF g

\* An answer from a table that kept its entries.
LEMMA GiveKeeps ==
    ASSUME NEW kind, NEW f, NEW g, NEW key, NEW value, Says(given, kind, f),
           DOMAIN f \subseteq DOMAIN g, \A x \in DOMAIN f : g[x] = f[x],
           key \in DOMAIN g, g[key] = value, Give(kind, key, value)
    PROVE  Says(given', kind, g)
  BY DEF Says, Give

LEMMA OthersKeep ==
    ASSUME NEW kind, NEW f, NEW other, other # kind, NEW key, NEW value,
           Says(given, kind, f), Give(other, key, value)
    PROVE  Says(given', kind, f)
  BY DEF Says, Give

-----------------------------------------------------------------------------
(* The invariant *)

\* Tables that stay as they are, in a heap that only grows.
LEMMA TablesStay ==
    ASSUME CallbacksInv, UNCHANGED <<fileIds, secrets, licenses, given>>,
           GoodHeap(Now)', scratch <= scratch'
    PROVE  CallbacksInv'
  <1>1. scratch \in Nat /\ scratch' \in Nat
    BY DEF CallbacksInv, GoodHeap, Now
  <1>2. Numbering(secrets, scratch') /\ Numbering(licenses, scratch')
    BY <1>1, NumberingGrows DEF CallbacksInv, Identifiers
  <1>3. Identifiers'
    BY <1>2 DEF CallbacksInv, Identifiers
  <1> QED BY <1>3 DEF CallbacksInv

LEMMA HeapStays ==
    ASSUME CallbacksInv, UNCHANGED <<scratch, blocks>>
    PROVE  GoodHeap(Now)' /\ scratch <= scratch'
  BY DEF CallbacksInv, GoodHeap, Now

\* The callbacks that only allocate.
LEMMA AllocatingKeeps ==
    ASSUME CallbacksInv, NEW size \in Nat, Alloc(After(Now, size, 4))
    PROVE  /\ GoodHeap(Now)' /\ scratch \in Nat /\ scratch' \in Nat
           /\ AlignUp(scratch, 4) \in Nat /\ scratch <= AlignUp(scratch, 4)
           /\ AlignUp(scratch, 4) < scratch' /\ scratch <= scratch'
  <1> DEFINE heap == After(Now, size, 4)
  <1>1. GoodHeap(Now) /\ Now.next = scratch /\ scratch \in Nat
    BY DEF CallbacksInv, GoodHeap, Now
  <1>2. /\ GoodHeap(heap) /\ heap.next \in Nat
        /\ AlignUp(scratch, 4) \in Nat /\ scratch <= AlignUp(scratch, 4)
        /\ AlignUp(scratch, 4) < heap.next
    BY <1>1, AfterKeeps
  <1> HIDE DEF heap
  <1>3. GoodHeap(Now)' /\ scratch' = heap.next
    BY <1>2, AllocKeeps DEF heap
  <1> QED BY <1>1, <1>2, <1>3

LEMMA FileIdKeeps ==
    ASSUME CallbacksInv, NEW file, GoodHeap(Now)', scratch <= scratch',
           fileIds' = WithEntry(fileIds, file, FileId(file)),
           Give("file", file, FileId(file)), UNCHANGED <<secrets, licenses>>
    PROVE  CallbacksInv'
  <1> DEFINE count == Cardinality(DOMAIN fileIds)
             id    == FileId(file)
  <1>1. /\ scratch \in Nat /\ scratch' \in Nat
        /\ IsFiniteSet(DOMAIN fileIds) /\ count \in Nat
        /\ Identifiers
    BY FS_CardinalityType DEF CallbacksInv, GoodHeap, Now, Identifiers
  <1>2. Numbering(secrets', scratch') /\ Numbering(licenses', scratch')
    BY <1>1, NumberingGrows DEF Identifiers
  <1>3. DOMAIN fileIds' = DOMAIN fileIds \union {file}
    BY DEF WithEntry
  <1>4. /\ IsFiniteSet(DOMAIN fileIds')
        /\ Cardinality(DOMAIN fileIds') = IF file \in DOMAIN fileIds THEN count
                                          ELSE count + 1
    BY <1>1, <1>3, FS_AddElement
  <1>5. /\ Numbering(fileIds', Cardinality(DOMAIN fileIds'))
        /\ \A x \in DOMAIN fileIds : fileIds'[x] = fileIds[x]
        /\ fileIds'[file] = id
    <2>1. CASE file \in DOMAIN fileIds
      <3>1. /\ DOMAIN fileIds' = DOMAIN fileIds
            /\ \A x \in DOMAIN fileIds' : fileIds'[x] = fileIds[x]
            /\ id = fileIds[file] /\ Cardinality(DOMAIN fileIds') = count
        BY <1>3, <1>4, <2>1 DEF WithEntry, FileId
      <3>2. Numbering(fileIds, count)
        BY <1>1 DEF Identifiers
      <3> HIDE DEF id, count
      <3>3. Numbering(fileIds', count)
        BY <3>1, <3>2 DEF Numbering
      <3> QED BY <2>1, <3>1, <3>3
    <2>2. CASE file \notin DOMAIN fileIds
      <3>1. id = count /\ Cardinality(DOMAIN fileIds') = count + 1
        BY <1>4, <2>2 DEF FileId
      <3>2. Numbering(fileIds, count)
        BY <1>1 DEF Identifiers
      <3> HIDE DEF id, count
      <3>3. fileIds' = WithEntry(fileIds, file, id)
        BY DEF id
      <3>4. Numbering(WithEntry(fileIds, file, id), count + 1)
        <4>1. count \in Nat /\ id \in Nat /\ count + 1 \in Nat
          BY <1>1, <3>1
        <4>2. count <= id /\ id < count + 1
          BY <4>1, <3>1
        <4> QED BY <2>2, <3>2, <4>1, <4>2, EntryJoins
      <3>5. /\ WithEntry(fileIds, file, id)[file] = id
            /\ \A x \in DOMAIN fileIds : WithEntry(fileIds, file, id)[x] = fileIds[x]
        BY <2>2 DEF WithEntry
      <3> QED BY <3>1, <3>3, <3>4, <3>5
    <2> QED BY <2>1, <2>2
  <1> HIDE DEF id, count
  <1>6. Says(given', "file", fileIds')
    BY <1>1, <1>3, <1>5, GiveKeeps DEF Identifiers, id
  <1>7. Says(given', "secret", secrets') /\ Says(given', "license", licenses')
    BY <1>1, OthersKeep DEF Identifiers
  <1>8. Constants(given)'
    BY <1>1 DEF Identifiers, Constants, Kinds, Give
  <1>9. ZeroTaken(fileIds')
    <2>1. CASE DOMAIN fileIds = {}
      <3>1. id = 0 /\ file \in DOMAIN fileIds'
        BY <1>3, <2>1, FS_EmptySet DEF id, FileId
      <3> QED BY <1>5, <3>1 DEF ZeroTaken
    <2>2. CASE DOMAIN fileIds # {}
      <3>1. PICK x \in DOMAIN fileIds : fileIds[x] = 0
        BY <1>1, <2>2 DEF Identifiers, ZeroTaken
      <3>2. x \in DOMAIN fileIds' /\ fileIds'[x] = 0
        BY <1>3, <1>5, <3>1
      <3> QED BY <3>2 DEF ZeroTaken
    <2> QED BY <2>1, <2>2
  <1> QED BY <1>2, <1>4, <1>5, <1>6, <1>7, <1>8, <1>9 DEF CallbacksInv, Identifiers

LEMMA SecretKeeps ==
    ASSUME CallbacksInv, NEW panel \in DOMAIN Panels, CWSecretGetNamedPreferences(panel)
    PROVE  CallbacksInv'
  <1> DEFINE size == Max({1, Panels[panel]})
  <1>1. size \in Nat
    BY CallbacksAssumption, MaxOfTwo
  <1>2. GoodHeap(Now) /\ Now.next = scratch /\ scratch \in Nat /\ Identifiers
    BY DEF CallbacksInv, GoodHeap, Now
  <1>3. UNCHANGED <<fileIds, licenses>>
    BY DEF CWSecretGetNamedPreferences
  <1>4. CASE NewSecret(panel)
    <2> DEFINE first == PanelBytes(panel)
               heap  == Word(first)
               at    == WordAt(first)
    <2>1. GoodHeap(first) /\ first.next \in Nat /\ scratch <= first.next
      <3>1. first = After(Now, size, 4)
        BY DEF PanelBytes
      <3> HIDE DEF size, first
      <3>2. /\ GoodHeap(After(Now, size, 4)) /\ After(Now, size, 4).next \in Nat
            /\ AlignUp(scratch, 4) \in Nat /\ scratch <= AlignUp(scratch, 4)
            /\ AlignUp(scratch, 4) < After(Now, size, 4).next
        BY <1>1, <1>2, AfterKeeps
      <3> QED BY <1>2, <3>1, <3>2
    <2>2. /\ panel \notin DOMAIN secrets /\ Alloc(heap)
          /\ secrets' = WithEntry(secrets, panel, at) /\ Give("secret", panel, at)
      BY <1>4 DEF NewSecret
    <2> HIDE DEF first
    <2>3. /\ GoodHeap(heap) /\ heap.next \in Nat
          /\ at \in Nat /\ first.next <= at /\ at < heap.next
      BY <2>1, WordKeeps
    <2> HIDE DEF at, heap
    <2>4. GoodHeap(Now)' /\ scratch' = heap.next
      BY <2>2, <2>3, AllocKeeps
    <2>5. scratch <= at /\ at < scratch' /\ scratch' \in Nat /\ scratch <= scratch'
      BY <1>2, <2>1, <2>3, <2>4
    <2>6. /\ Numbering(secrets', scratch')
          /\ DOMAIN secrets' = DOMAIN secrets \union {panel} /\ secrets'[panel] = at
          /\ \A x \in DOMAIN secrets : secrets'[x] = secrets[x]
      <3>1. /\ secrets' = WithEntry(secrets, panel, at) /\ panel \notin DOMAIN secrets
            /\ scratch \in Nat /\ scratch' \in Nat /\ at \in Nat
            /\ scratch <= at /\ at < scratch'
        BY <1>2, <2>2, <2>3, <2>5
      <3>2. Numbering(secrets, scratch)
        BY <1>2 DEF Identifiers
      <3>3. Numbering(WithEntry(secrets, panel, at), scratch')
        BY <3>1, <3>2, EntryJoins
      <3>4. /\ DOMAIN WithEntry(secrets, panel, at) = DOMAIN secrets \union {panel}
            /\ WithEntry(secrets, panel, at)[panel] = at
            /\ \A x \in DOMAIN secrets : WithEntry(secrets, panel, at)[x] = secrets[x]
        BY <3>1 DEF WithEntry
      <3> QED BY <3>1, <3>3, <3>4
    <2>7. Numbering(licenses', scratch')
      BY <1>2, <1>3, <2>5, NumberingGrows DEF Identifiers
    <2>8. Says(given', "secret", secrets')
      BY <1>2, <2>2, <2>6, GiveKeeps DEF Identifiers
    <2>9. Says(given', "file", fileIds') /\ Says(given', "license", licenses')
      BY <1>2, <1>3, <2>2, OthersKeep DEF Identifiers
    <2>10. Constants(given)'
      BY <1>2, <2>2 DEF Identifiers, Constants, Kinds, Give
    <2> QED BY <1>2, <1>3, <2>4, <2>6, <2>7, <2>8, <2>9, <2>10
            DEF CallbacksInv, Identifiers
  <1>5. CASE SecretHalfway(panel)
    <2>1. GoodHeap(Now)' /\ scratch <= scratch'
      BY <1>1, <1>5, AllocatingKeeps DEF SecretHalfway, PanelBytes
    <2>2. UNCHANGED <<fileIds, secrets, licenses, given>>
      BY <1>3, <1>5 DEF SecretHalfway
    <2> QED BY <2>1, <2>2, TablesStay
  <1>6. CASE OldSecret(panel)
    <2>1. /\ panel \in DOMAIN secrets /\ Give("secret", panel, secrets[panel])
          /\ UNCHANGED <<scratch, blocks, secrets>>
      BY <1>6 DEF OldSecret
    <2>2. Says(given', "secret", secrets')
      BY <1>2, <2>1, GiveKeeps DEF Identifiers
    <2>3. Says(given', "file", fileIds') /\ Says(given', "license", licenses')
      BY <1>2, <1>3, <2>1, OthersKeep DEF Identifiers
    <2>4. Constants(given)'
      BY <1>2, <2>1 DEF Identifiers, Constants, Kinds, Give
    <2>5. GoodHeap(Now)'
      BY <2>1, HeapStays
    <2> QED BY <1>2, <1>3, <2>1, <2>2, <2>3, <2>4, <2>5 DEF CallbacksInv, Identifiers
  <1> QED BY <1>4, <1>5, <1>6 DEF CWSecretGetNamedPreferences

LEMMA LicenseKeeps ==
    ASSUME CallbacksInv, NEW cookie, CWCheckoutLicense(cookie)
    PROVE  CallbacksInv'
  <1>1. GoodHeap(Now) /\ Now.next = scratch /\ scratch \in Nat /\ Identifiers
    BY DEF CallbacksInv, GoodHeap, Now
  <1>2. UNCHANGED <<fileIds, secrets>>
    BY DEF CWCheckoutLicense
  <1>3. CASE cookie \in DOMAIN licenses
    <2>1. /\ Give("license", cookie, licenses[cookie])
          /\ UNCHANGED <<scratch, blocks, licenses>>
      BY <1>3 DEF CWCheckoutLicense
    <2>2. Says(given', "license", licenses')
      BY <1>1, <1>3, <2>1, GiveKeeps DEF Identifiers
    <2>3. Says(given', "file", fileIds') /\ Says(given', "secret", secrets')
      BY <1>1, <1>2, <2>1, OthersKeep DEF Identifiers
    <2>4. Constants(given)'
      BY <1>1, <2>1 DEF Identifiers, Constants, Kinds, Give
    <2>5. GoodHeap(Now)'
      BY <2>1, HeapStays
    <2> QED BY <1>1, <1>2, <2>1, <2>2, <2>3, <2>4, <2>5 DEF CallbacksInv, Identifiers
  <1>4. CASE cookie \notin DOMAIN licenses
    <2> DEFINE at == WordAt(Now)
    <2>1. /\ Alloc(Word(Now)) /\ licenses' = WithEntry(licenses, cookie, at)
          /\ Give("license", cookie, at)
      BY <1>4 DEF CWCheckoutLicense
    <2>2. /\ GoodHeap(Now)' /\ scratch' \in Nat /\ scratch <= scratch'
          /\ at \in Nat /\ scratch <= at /\ at < scratch'
      BY <1>1, <2>1, AllocatingKeeps DEF Word, WordAt
    <2> HIDE DEF at
    <2>3. /\ Numbering(licenses', scratch')
          /\ DOMAIN licenses' = DOMAIN licenses \union {cookie}
          /\ licenses'[cookie] = at
          /\ \A x \in DOMAIN licenses : licenses'[x] = licenses[x]
      <3>1. /\ licenses' = WithEntry(licenses, cookie, at) /\ cookie \notin DOMAIN licenses
            /\ scratch \in Nat /\ scratch' \in Nat /\ at \in Nat
            /\ scratch <= at /\ at < scratch'
        BY <1>1, <1>4, <2>1, <2>2
      <3>2. Numbering(licenses, scratch)
        BY <1>1 DEF Identifiers
      <3>3. Numbering(WithEntry(licenses, cookie, at), scratch')
        BY <3>1, <3>2, EntryJoins
      <3>4. /\ DOMAIN WithEntry(licenses, cookie, at) = DOMAIN licenses \union {cookie}
            /\ WithEntry(licenses, cookie, at)[cookie] = at
            /\ \A x \in DOMAIN licenses : WithEntry(licenses, cookie, at)[x] = licenses[x]
        BY <3>1 DEF WithEntry
      <3> QED BY <3>1, <3>3, <3>4
    <2>4. Numbering(secrets', scratch')
      BY <1>1, <1>2, <2>2, NumberingGrows DEF Identifiers
    <2>5. Says(given', "license", licenses')
      BY <1>1, <2>1, <2>3, GiveKeeps DEF Identifiers
    <2>6. Says(given', "file", fileIds') /\ Says(given', "secret", secrets')
      BY <1>1, <1>2, <2>1, OthersKeep DEF Identifiers
    <2>7. Constants(given)'
      BY <1>1, <2>1 DEF Identifiers, Constants, Kinds, Give
    <2> QED BY <1>1, <1>2, <2>2, <2>3, <2>4, <2>5, <2>6, <2>7
            DEF CallbacksInv, Identifiers
  <1> QED BY <1>3, <1>4

LEMMA MainFileIdKeeps == ASSUME CallbacksInv, CWGetMainFileID PROVE CallbacksInv'
  <1>1. /\ Identifiers /\ Give("main", MainFile, 0)
        /\ UNCHANGED <<scratch, blocks, fileIds, secrets, licenses>>
    BY DEF CallbacksInv, CWGetMainFileID
  <1>2. /\ Says(given', "file", fileIds) /\ Says(given', "secret", secrets)
        /\ Says(given', "license", licenses)
    BY <1>1, OthersKeep DEF Identifiers
  <1>3. Constants(given')
    BY <1>1 DEF Identifiers, Constants, Kinds, Give
  <1>4. Identifiers'
    BY <1>1, <1>2, <1>3 DEF Identifiers
  <1>5. GoodHeap(Now)'
    BY <1>1, HeapStays
  <1> QED BY <1>4, <1>5 DEF CallbacksInv

LEMMA CallbacksInit == Init => CallbacksInv
  <1> SUFFICES ASSUME Init PROVE CallbacksInv
    OBVIOUS
  <1> DEFINE none  == [next |-> 0, got |-> << >>]
             named == After(After(After(none, 64, 4), 36, 4), 13, 1)
  <1>1. GoodHeap(none)
    BY DEF GoodHeap
  <1>2. GoodHeap(named)
    <2> HIDE DEF none
    <2>1. GoodHeap(After(none, 64, 4))
      BY <1>1, AfterKeeps
    <2>2. GoodHeap(After(After(none, 64, 4), 36, 4))
      BY <2>1, AfterKeeps
    <2> QED BY <2>2, AfterKeeps
  <1> HIDE DEF named
  <1>3. GoodHeap(Word(Word(Word(Word(named)))))
    BY <1>2, WordKeeps
  <1>4. GoodHeap(Loaded)
    BY <1>3 DEF Loaded, named
  <1>5. GoodHeap(Now)
    BY <1>4 DEF Init, Now, GoodHeap
  <1>6. /\ DOMAIN fileIds = {} /\ DOMAIN secrets = {} /\ DOMAIN licenses = {}
        /\ given = {}
    BY DEF Init
  <1>7. Identifiers
    BY <1>6, FS_EmptySet DEF Identifiers, Numbering, Says, Constants, ZeroTaken
  <1> QED BY <1>5, <1>7 DEF CallbacksInv

LEMMA CallbacksStep == CallbacksInv /\ [Next]_vars => CallbacksInv'
  <1> SUFFICES ASSUME CallbacksInv, [Next]_vars PROVE CallbacksInv'
    OBVIOUS
  <1>1. CASE UNCHANGED callbacks
    <2>1. UNCHANGED <<fileIds, secrets, licenses, given>> /\ UNCHANGED <<scratch, blocks>>
      BY <1>1 DEF callbacks
    <2> QED BY <2>1, HeapStays, TablesStay
  <1>2. ASSUME NEW file \in DOMAIN Files, TextPointer(file)
        PROVE  GoodHeap(Now)' /\ scratch <= scratch'
    <2>1. Files[file] + 1 \in Nat
      BY CallbacksAssumption
    <2> QED BY <1>2, <2>1, AllocatingKeeps DEF TextPointer
  <1>3. CASE CWGetMainFileText
    BY <1>2, <1>3, CallbacksAssumption, TablesStay DEF CWGetMainFileText
  <1>4. ASSUME NEW file \in DOMAIN Files, CWFindAndLoadFile(file) PROVE CallbacksInv'
    BY <1>2, <1>4, FileIdKeeps DEF CWFindAndLoadFile
  <1>5. ASSUME NEW pointer \in texts, CWReleaseFileText(pointer) PROVE CallbacksInv'
    BY <1>5, HeapStays, TablesStay DEF CWReleaseFileText
  <1>6. ASSUME NEW panel \in DOMAIN Panels, CWSecretGetNamedPreferences(panel)
        PROVE  CallbacksInv'
    BY <1>6, SecretKeeps
  <1>7. ASSUME NEW cookie \in Cookies, CWCheckoutLicense(cookie) PROVE CallbacksInv'
    BY <1>7, LicenseKeeps
  <1>8. CASE CreateUnicodeToTextInfo
    <2>1. GoodHeap(Now)' /\ scratch <= scratch'
      BY <1>8, AllocatingKeeps DEF CreateUnicodeToTextInfo, Word
    <2> QED BY <1>8, <2>1, TablesStay DEF CreateUnicodeToTextInfo
  <1>9. ASSUME NEW token \in infos, DisposeUnicodeToTextInfo(token) PROVE CallbacksInv'
    BY <1>9, HeapStays, TablesStay DEF DisposeUnicodeToTextInfo
  <1>10. CASE UNCHANGED vars
    BY <1>1, <1>10 DEF vars, callbacks
  <1> QED BY <1>1, <1>3, <1>4, <1>5, <1>6, <1>7, <1>8, <1>9, <1>10, MainFileIdKeeps
          DEF Next, Callback

-----------------------------------------------------------------------------
(* The theorems about the scratch range and the identifiers *)

\* The inductive invariant: the blocks given out follow one another up to the
\* first free byte, and each table numbers its keys apart, pointers by blocks
\* given out before (Guest.alloc, Session._file_id, Session._secret_pointer).
THEOREM CallbacksInvariant == Spec => []CallbacksInv
  <1> QED BY CallbacksInit, CallbacksStep, PTL DEF Spec

\* Nothing the plug-in is given shares a byte with anything else it is given,
\* in a scratch range of any size (Guest.alloc and its callers).
THEOREM ScratchBlocksApart == Spec => []ScratchApart
  <1>1. CallbacksInv => ScratchApart
    BY DEF CallbacksInv, GoodHeap, Now, ScratchApart
  <1> QED BY <1>1, CallbacksInvariant, PTL

\* What two answers of one kind say of each other.
LEMMA SameKey ==
    ASSUME NEW kind, NEW f, NEW n, Says(given, kind, f), Numbering(f, n),
           NEW a \in given, NEW b \in given, a.kind = kind, b.kind = kind
    PROVE  a.key = b.key <=> a.value = b.value
  <1>1. /\ a.key \in DOMAIN f /\ a.value = f[a.key]
        /\ b.key \in DOMAIN f /\ b.value = f[b.key]
    BY DEF Says
  <1>2. f[a.key] = f[b.key] => a.key = b.key
    BY <1>1 DEF Numbering
  <1>3. a.key = b.key => f[a.key] = f[b.key]
    BY Zenon
  <1> QED BY <1>1, <1>2, <1>3, Zenon

\* A found file's id, a panel's word and a cookie slot's token stay what they
\* were the first time, and are nobody else's (pluginlib.py:304); and the main
\* file's constant id is that of the main file when found, and of no other,
\* if it was the first file found (CWGetMainFileID, Session._file_id).
THEOREM AnswersAreStable == Spec => []AnswersStable
  <1>1. ASSUME CallbacksInv, NEW a \in given, NEW b \in given, a.kind = b.kind
        PROVE  a.key = b.key <=> a.value = b.value
    <2>1. Identifiers
      BY <1>1 DEF CallbacksInv
    <2>2. CASE a.kind = "file"
      BY <1>1, <2>1, <2>2, SameKey DEF Identifiers
    <2>3. CASE a.kind = "secret"
      BY <1>1, <2>1, <2>3, SameKey DEF Identifiers
    <2>4. CASE a.kind = "license"
      BY <1>1, <2>1, <2>4, SameKey DEF Identifiers
    <2>5. CASE a.kind = "main"
      BY <1>1, <2>1, <2>5 DEF Identifiers, Constants
    <2> QED BY <2>1, <2>2, <2>3, <2>4, <2>5 DEF Identifiers, Constants, Kinds
  <1>2. ASSUME CallbacksInv, MainFoundFirst, NEW a \in given, NEW b \in given,
               a.kind = "main", b.kind = "file"
        PROVE  a.key = b.key <=> a.value = b.value
    <2>1. /\ a.key = MainFile /\ a.value = 0
          /\ b.key \in DOMAIN fileIds /\ b.value = fileIds[b.key]
      BY <1>2 DEF CallbacksInv, Identifiers, Constants, Says
    <2>2. PICK x \in DOMAIN fileIds : fileIds[x] = 0
      BY <1>2, <2>1 DEF CallbacksInv, Identifiers, ZeroTaken
    <2>3. x = MainFile /\ (fileIds[b.key] = 0 => b.key = MainFile)
      BY <1>2, <2>1, <2>2 DEF MainFoundFirst
    <2> QED BY <2>1, <2>2, <2>3
  <1>3. CallbacksInv => AnswersStable
    BY <1>1, <1>2 DEF AnswersStable
  <1> QED BY <1>3, CallbacksInvariant, PTL

-----------------------------------------------------------------------------
(* The chain of resource files *)

Entry == [file : DOMAIN Strings, ref : Nat \ {0}, open : BOOLEAN]

\* The files the client has open, by the order in which it opened them.
Opened(h) == {m \in DOMAIN h : h[m].open}

\* The numbers in o are those of the files open in h, one each, in the order
\* in which they were opened.
InOrder(o, h) ==
    /\ \A i \in DOMAIN o : \E m \in Opened(h) : o[i] = h[m].ref
    /\ \A m \in Opened(h) : \E i \in DOMAIN o : o[i] = h[m].ref
    /\ \A m, n \in Opened(h) : h[m].ref = h[n].ref => m = n
    /\ \A i, j \in DOMAIN o : o[i] = o[j] => i = j
    /\ \A i, j \in DOMAIN o : \A m, n \in Opened(h) :
          o[i] = h[m].ref /\ o[j] = h[n].ref /\ i < j => m < n

\* A number of an open file names that file.
Registered(f, h) ==
    /\ IsFiniteSet(DOMAIN f) /\ Cardinality(DOMAIN f) <= Len(h)
    /\ \A m \in Opened(h) : h[m].ref \in DOMAIN f /\ f[h[m].ref] = h[m].file

\* The current file is the one the client uses, which is open.
Current ==
    \/ using = 0 /\ current = 0
    \/ using \in Opened(held) /\ current = held[using].ref

ChainInv ==
    /\ held \in Seq(Entry) /\ order \in Seq(Nat \ {0})
    /\ InOrder(order, held) /\ Registered(files, held) /\ Current

LEMMA LeastOf ==
    ASSUME NEW S \in SUBSET Nat, S # {}
    PROVE  \E n \in S : \A m \in S : n <= m
  <1>1. \E n \in S : \A m \in S : ~(<<m, n>> \in OpToRel(<, Nat))
    BY WFMin, NatLessThanWellFounded
  <1>2. \A m, n \in Nat : <<m, n>> \notin OpToRel(<, Nat) => n <= m
    BY DEF OpToRel
  <1> QED BY <1>1, <1>2

LEMMA GreatestOf ==
    ASSUME NEW n \in Nat, NEW S \in SUBSET (0 .. n), S # {}
    PROVE  Max(S) \in S /\ \A m \in S : m <= Max(S)
  <1> DEFINE T == {n - m : m \in S}
  <1>1. T \in SUBSET Nat /\ T # {}
    <2>1. \A m \in S : n - m \in Nat
      OBVIOUS
    <2>2. T \subseteq Nat
      BY <2>1
    <2>3. T # {}
      BY Zenon
    <2> QED BY <2>2, <2>3
  <1>2. PICK t \in T : \A u \in T : t <= u
    BY <1>1, LeastOf
  <1>3. PICK x \in S : t = n - x
    BY <1>2
  <1>4. ASSUME NEW m \in S PROVE x >= m
    <2>1. n - m \in T
      BY Zenon
    <2>2. n - x <= n - m
      BY <1>2, <1>3, <2>1
    <2>3. m \in Nat /\ x \in Nat
      OBVIOUS
    <2> QED BY <2>2, <2>3
  <1>5. \E y \in S : \A m \in S : y >= m
    BY <1>4
  <1>6. Max(S) \in S /\ \A m \in S : Max(S) >= m
    BY <1>5 DEF Max
  <1>7. S \subseteq Nat
    OBVIOUS
  <1> QED BY <1>6, <1>7

\* A number is in the order once, and so is found where it is.
LEMMA PlaceOf ==
    ASSUME NEW s \in Seq(Nat \ {0}), NEW k \in DOMAIN s,
           \A i, j \in DOMAIN s : s[i] = s[j] => i = j, NEW e, e = s[k]
    PROVE  {i \in 1 .. Len(s) : s[i] = e} = {k} /\ Min({k}) = k
  <1>1. DOMAIN s = 1 .. Len(s) /\ k \in Nat
    BY LenProperties
  <1>2. {i \in 1 .. Len(s) : s[i] = e} = {k}
    BY <1>1
  <1>3. \E x \in {k} : \A y \in {k} : x <= y
    BY <1>1
  <1> QED BY <1>2, <1>3 DEF Min

LEMMA Removed ==
    ASSUME NEW s \in Seq(Nat \ {0}), NEW k \in DOMAIN s,
           \A i, j \in DOMAIN s : s[i] = s[j] => i = j, NEW e, e = s[k]
    PROVE  /\ RemoveFirst(s, e) \in Seq(Nat \ {0})
           /\ Len(s) \in Nat \ {0} /\ Len(RemoveFirst(s, e)) = Len(s) - 1
           /\ \A i \in 1 .. Len(s) - 1 :
                 RemoveFirst(s, e)[i] = IF i < k THEN s[i] ELSE s[i + 1]
  <1> DEFINE before == SubSeq(s, 1, k - 1)
             after  == SubSeq(s, k + 1, Len(s))
  <1>1. DOMAIN s = 1 .. Len(s) /\ Len(s) \in Nat /\ k \in Nat /\ 1 <= k /\ k <= Len(s)
    BY LenProperties
  <1>2. \A i \in 1 .. Len(s) : s[i] \in Nat \ {0}
    BY ElementOfSeq
  <1>3. /\ before \in Seq(Nat \ {0}) /\ Len(before) = k - 1
        /\ \A i \in 1 .. k - 1 : before[i] = s[i]
    <2>1. /\ before \in Seq(Nat \ {0})
          /\ Len(before) = IF 1 <= k - 1 THEN (k - 1) - 1 + 1 ELSE 0
          /\ \A i \in 1 .. (k - 1) - 1 + 1 : before[i] = s[1 + i - 1]
      <3>1. 1 \in Int /\ k - 1 \in Int /\ \A i \in 1 .. k - 1 : s[i] \in Nat \ {0}
        BY <1>1, <1>2
      <3> QED BY <3>1, SubSeqProperties
    <2> HIDE DEF before
    <2> QED BY <1>1, <2>1
  <1>4. /\ after \in Seq(Nat \ {0}) /\ Len(after) = Len(s) - k
        /\ \A i \in 1 .. Len(s) - k : after[i] = s[k + i]
    <2>1. /\ after \in Seq(Nat \ {0})
          /\ Len(after) = IF k + 1 <= Len(s) THEN Len(s) - (k + 1) + 1 ELSE 0
          /\ \A i \in 1 .. Len(s) - (k + 1) + 1 : after[i] = s[(k + 1) + i - 1]
      <3>1. k + 1 \in Int /\ Len(s) \in Int /\ \A i \in k + 1 .. Len(s) : s[i] \in Nat \ {0}
        BY <1>1, <1>2
      <3> QED BY SMTT(40), <3>1, SubSeqProperties
    <2> HIDE DEF after
    <2>2. Len(after) = Len(s) - k
      BY SMTT(40), <1>1, <2>1
    <2>3. ASSUME NEW i \in 1 .. Len(s) - k PROVE after[i] = s[k + i]
      <3>1. i \in 1 .. Len(s) - (k + 1) + 1 /\ (k + 1) + i - 1 = k + i
        BY <1>1
      <3> QED BY <2>1, <3>1
    <2> QED BY <2>1, <2>2, <2>3
  <1>5. RemoveFirst(s, e) = before \o after
    <2>1. SelectInSeq(s, LAMBDA v : v = e) = k
      <3>1. {i \in 1 .. Len(s) : s[i] = e} = {k} /\ Min({k}) = k
        BY PlaceOf
      <3> QED BY <3>1 DEF SelectInSeq
    <2>2. \E i \in 1 .. Len(s) : s[i] = e
      BY <1>1
    <2> QED BY <2>1, <2>2 DEF RemoveFirst, RemoveAt
  <1> HIDE DEF before, after
  <1>6. /\ before \o after \in Seq(Nat \ {0})
        /\ Len(before \o after) = Len(before) + Len(after)
        /\ \A i \in 1 .. Len(before) + Len(after) : (before \o after)[i] =
              IF i <= Len(before) THEN before[i] ELSE after[i - Len(before)]
    <2>1. before \in Seq(Nat \ {0}) /\ after \in Seq(Nat \ {0})
      BY <1>3, <1>4
    <2> QED BY <2>1, ConcatProperties
  <1>7. ASSUME NEW i \in 1 .. Len(s) - 1
        PROVE  (before \o after)[i] = IF i < k THEN s[i] ELSE s[i + 1]
    <2>1. (before \o after)[i] =
              IF i <= k - 1 THEN before[i] ELSE after[i - (k - 1)]
      <3>1. Len(before) = k - 1 /\ Len(before) + Len(after) = Len(s) - 1
        BY <1>1, <1>3, <1>4
      <3>2. i \in 1 .. Len(before) + Len(after)
        BY <3>1
      <3> QED BY <1>6, <3>1, <3>2
    <2>2. CASE i < k
      BY <1>1, <1>3, <2>1, <2>2
    <2>3. CASE i >= k
      <3>1. i - (k - 1) \in 1 .. Len(s) - k /\ k + (i - (k - 1)) = i + 1
        BY <1>1, <2>3
      <3>2. after[i - (k - 1)] = s[i + 1]
        BY <1>4, <3>1
      <3>3. ~(i < k) /\ ~(i <= k - 1)
        BY <1>1, <2>3
      <3> QED BY <2>1, <3>2, <3>3
    <2>4. i < k \/ i >= k
      BY <1>1
    <2> QED BY <2>2, <2>3, <2>4
  <1>8. Len(before \o after) = Len(s) - 1
    BY <1>1, <1>3, <1>4, <1>6
  <1>9. Len(s) \in Nat \ {0}
    BY <1>1
  <1>10. before \o after \in Seq(Nat \ {0})
    BY <1>6
  <1> QED BY <1>5, <1>7, <1>8, <1>9, <1>10, Zenon

\* There is a number to give, and no open file has it.
LEMMA NumberIsFree ==
    ASSUME ChainInv, Len(held) < MaxOpens
    PROVE  NextRefnum \in Nat \ {0} /\ NextRefnum \notin DOMAIN files
  <1> DEFINE unused == (1 .. MaxOpens + 1) \ DOMAIN files
  <1>1. /\ MaxOpens \in Nat /\ Len(held) \in Nat
        /\ IsFiniteSet(DOMAIN files) /\ Cardinality(DOMAIN files) <= Len(held)
        /\ Cardinality(DOMAIN files) \in Nat
    BY ResourcesAssumption, LenProperties, FS_CardinalityType DEF ChainInv, Registered
  <1>2. unused # {}
    <2> SUFFICES ASSUME 1 .. MaxOpens + 1 \in SUBSET DOMAIN files PROVE FALSE
      OBVIOUS
    <2>1. Cardinality(1 .. MaxOpens + 1) <= Cardinality(DOMAIN files)
      BY <1>1, FS_Subset
    <2>2. Cardinality(1 .. MaxOpens + 1) = MaxOpens + 1
      BY <1>1, FS_Interval
    <2> QED BY <1>1, <2>1, <2>2
  <1>3. PICK n \in unused : \A m \in unused : n <= m
    <2>1. unused \in SUBSET Nat
      BY <1>1
    <2> HIDE DEF unused
    <2> QED BY <1>2, <2>1, LeastOf
  <1>4. n \in 1 .. MaxOpens + 1 /\ n \notin DOMAIN files
        /\ \A m \in 1 .. n - 1 : m \in DOMAIN files
    BY <1>1, <1>3
  <1>5. NextRefnum \in 1 .. MaxOpens + 1 /\ NextRefnum \notin DOMAIN files
    BY <1>4 DEF NextRefnum
  <1> QED BY <1>1, <1>5

LEMMA OpenKeeps ==
    ASSUME ChainInv, NEW file, Open(file)
    PROVE  ChainInv'
  <1> DEFINE ref   == NextRefnum
             new   == Len(held) + 1
             entry == [file |-> file, ref |-> ref, open |-> TRUE]
             last  == Len(order) + 1
  <1>1. /\ ref \in Nat \ {0} /\ ref \notin DOMAIN files /\ file \in DOMAIN Strings
        /\ held' = Append(held, entry) /\ order' = Append(order, ref)
        /\ current' = ref /\ using' = new
        /\ DOMAIN files' = DOMAIN files \union {ref} /\ files'[ref] = file
        /\ \A r \in DOMAIN files : files'[r] = files[r]
    BY NumberIsFree DEF Open
  <1>2. entry \in Entry /\ entry.file = file /\ entry.ref = ref /\ entry.open = TRUE
    BY <1>1 DEF Entry
  <1> HIDE DEF ref, entry
  <1>3. /\ held \in Seq(Entry) /\ order \in Seq(Nat \ {0})
        /\ InOrder(order, held) /\ Registered(files, held)
    BY DEF ChainInv
  <1>4. /\ Len(held) \in Nat /\ DOMAIN held = 1 .. Len(held)
        /\ Len(order) \in Nat /\ DOMAIN order = 1 .. Len(order)
    BY <1>3, LenProperties
  <1>5. /\ held' \in Seq(Entry) /\ Len(held') = new
        /\ held'[new] = entry /\ \A m \in 1 .. Len(held) : held'[m] = held[m]
    BY <1>1, <1>2, <1>3, AppendProperties
  <1>6. /\ order' \in Seq(Nat \ {0}) /\ Len(order') = last
        /\ order'[last] = ref /\ \A i \in 1 .. Len(order) : order'[i] = order[i]
    BY <1>1, <1>3, AppendProperties
  <1>7. DOMAIN held' = 1 .. new /\ DOMAIN order' = 1 .. last
    BY <1>5, <1>6, LenProperties
  <1>8. /\ new \in Nat /\ last \in Nat /\ new \notin DOMAIN held /\ last \notin DOMAIN order
        /\ DOMAIN held' = DOMAIN held \union {new}
        /\ DOMAIN order' = DOMAIN order \union {last}
        /\ \A m \in DOMAIN held : m \in Nat /\ m < new
        /\ \A i \in DOMAIN order : i \in Nat /\ i < last
    BY <1>4, <1>7
  <1>9. /\ Opened(held') = Opened(held) \union {new}
        /\ held'[new].ref = ref /\ held'[new].file = file
        /\ \A m \in Opened(held) : held'[m].ref = held[m].ref /\ held'[m].file = held[m].file
        /\ \A i \in DOMAIN order : order'[i] = order[i]
        /\ Opened(held) \subseteq DOMAIN held
    BY <1>2, <1>4, <1>5, <1>6, <1>8 DEF Opened
  <1>10. \A m \in Opened(held) : held[m].ref # ref
    BY <1>1, <1>3 DEF Registered
  <1> HIDE DEF new, last
  <1>11. InOrder(order', held')
    <2>1. ASSUME NEW i \in DOMAIN order'
          PROVE  \E m \in Opened(held') : order'[i] = held'[m].ref
      <3>1. CASE i = last
        BY <1>6, <1>9, <3>1
      <3>2. CASE i \in DOMAIN order
        <4>1. PICK m \in Opened(held) : order[i] = held[m].ref
          BY <1>3, <3>2 DEF InOrder
        <4> QED BY <1>9, <3>2, <4>1
      <3> QED BY <1>8, <3>1, <3>2
    <2>2. ASSUME NEW m \in Opened(held')
          PROVE  \E i \in DOMAIN order' : order'[i] = held'[m].ref
      <3>1. CASE m = new
        BY <1>6, <1>8, <1>9, <3>1
      <3>2. CASE m \in Opened(held)
        <4>1. PICK i \in DOMAIN order : order[i] = held[m].ref
          BY <1>3, <3>2 DEF InOrder
        <4> QED BY <1>8, <1>9, <3>2, <4>1
      <3> QED BY <1>9, <3>1, <3>2
    <2>3. \A m, n \in Opened(held') : held'[m].ref = held'[n].ref => m = n
      BY ZenonT(40), <1>3, <1>9, <1>10 DEF InOrder
    <2>4. ASSUME NEW i \in DOMAIN order PROVE order[i] # ref
      <3>1. PICK m \in Opened(held) : order[i] = held[m].ref
        BY <1>3 DEF InOrder
      <3> QED BY <1>10, <3>1
    <2>5. ASSUME NEW i \in DOMAIN order', NEW j \in DOMAIN order', order'[i] = order'[j]
          PROVE  i = j
      <3>1. order'[last] = ref
        BY <1>6
      <3>2. \A l \in DOMAIN order' :
               l = last \/ (l \in DOMAIN order /\ order'[l] = order[l])
        <4>1. DOMAIN order' = DOMAIN order \union {last}
          BY <1>8
        <4>2. \A l \in DOMAIN order : order'[l] = order[l]
          BY <1>9
        <4> QED BY <4>1, <4>2
      <3>3. i = last <=> j = last
        BY <2>4, <2>5, <3>1, <3>2
      <3>4. \A l, m \in DOMAIN order : order[l] = order[m] => l = m
        BY <1>3 DEF InOrder
      <3> QED BY <2>5, <3>2, <3>3, <3>4
    <2>6. ASSUME NEW i \in DOMAIN order', NEW j \in DOMAIN order',
                 NEW m \in Opened(held'), NEW n \in Opened(held'),
                 order'[i] = held'[m].ref, order'[j] = held'[n].ref, i < j
          PROVE  m < n
      <3>1. i # last
        BY <1>8, <2>6
      <3>2. i \in DOMAIN order /\ order'[i] = order[i]
        BY <1>8, <1>9, <3>1
      <3>3. m # new
        BY <1>9, <2>4, <2>6, <3>2
      <3>4. m \in Opened(held) /\ held'[m].ref = held[m].ref
        BY <1>9, <3>3
      <3>5. CASE n = new
        BY <1>8, <1>9, <3>4, <3>5
      <3>6. CASE n # new
        <4>1. n \in Opened(held) /\ held'[n].ref = held[n].ref
          BY <1>9, <3>6
        <4>2. j \in DOMAIN order /\ order'[j] = order[j]
          <5>1. order'[j] # ref
            BY <1>10, <2>6, <4>1
          <5>2. j # last
            BY <1>6, <5>1
          <5> QED BY <1>8, <1>9, <5>2
        <4>3. order[i] = held[m].ref /\ order[j] = held[n].ref
          BY <2>6, <3>2, <3>4, <4>1, <4>2
        <4> QED BY <1>3, <2>6, <3>2, <3>4, <4>1, <4>2, <4>3 DEF InOrder
      <3> QED BY <3>5, <3>6
    <2> QED BY <2>1, <2>2, <2>3, <2>5, <2>6 DEF InOrder
  <1>12. Registered(files', held')
    <2>1. /\ IsFiniteSet(DOMAIN files) /\ Cardinality(DOMAIN files) <= Len(held)
          /\ Cardinality(DOMAIN files) \in Nat
      BY <1>3, FS_CardinalityType DEF Registered
    <2>2. /\ IsFiniteSet(DOMAIN files')
          /\ Cardinality(DOMAIN files') = Cardinality(DOMAIN files) + 1
      BY SMTT(40), <1>1, <2>1, FS_AddElement
    <2>3. Cardinality(DOMAIN files') <= Len(held')
      BY <1>4, <1>5, <2>1, <2>2 DEF new
    <2>4. ASSUME NEW m \in Opened(held')
          PROVE  held'[m].ref \in DOMAIN files' /\ files'[held'[m].ref] = held'[m].file
      <3>1. CASE m = new
        BY <1>1, <1>9, <3>1
      <3>2. CASE m \in Opened(held)
        <4>1. held[m].ref \in DOMAIN files /\ files[held[m].ref] = held[m].file
          BY <1>3, <3>2 DEF Registered
        <4> QED BY <1>1, <1>9, <3>2, <4>1
      <3> QED BY <1>9, <3>1, <3>2
    <2> QED BY <2>2, <2>3, <2>4 DEF Registered
  <1>13. Current'
    BY <1>1, <1>9 DEF Current
  <1> QED BY <1>5, <1>6, <1>11, <1>12, <1>13 DEF ChainInv

LEMMA UseKeeps ==
    ASSUME ChainInv, NEW n, Use(n)
    PROVE  ChainInv'
  <1>1. /\ n \in Opened(held) /\ current' = held[n].ref /\ using' = n
        /\ UNCHANGED <<files, order, held>>
    BY DEF Use, Opened
  <1>2. Current'
    BY <1>1 DEF Current
  <1> QED BY <1>1, <1>2 DEF ChainInv

LEMMA CloseKeeps ==
    ASSUME ChainInv, NEW n, Close(n)
    PROVE  ChainInv'
  <1> DEFINE ref == held[n].ref
  <1>1. /\ n \in DOMAIN held /\ n \in Opened(held)
        /\ DOMAIN files' = DOMAIN files \ {ref}
        /\ \A r \in DOMAIN files \ {ref} : files'[r] = files[r]
        /\ order' = RemoveFirst(order, ref)
        /\ current' = IF order' = << >> THEN 0 ELSE Last(order')
        /\ held' = [held EXCEPT ![n].open = FALSE]
        /\ using' = LastOpen(held')
    BY DEF Close, Opened
  <1>2. /\ held \in Seq(Entry) /\ order \in Seq(Nat \ {0})
        /\ InOrder(order, held) /\ Registered(files, held)
    BY DEF ChainInv
  <1>3. /\ Len(held) \in Nat /\ DOMAIN held = 1 .. Len(held)
        /\ Len(order) \in Nat /\ DOMAIN order = 1 .. Len(order)
    BY <1>2, LenProperties
  <1>4. \A m \in DOMAIN held : held[m] \in Entry
    BY <1>2, <1>3, ElementOfSeq
  <1>5. /\ held' \in Seq(Entry) /\ Len(held') = Len(held) /\ DOMAIN held' = DOMAIN held
        /\ \A m \in DOMAIN held : /\ held'[m].ref = held[m].ref
                                  /\ held'[m].file = held[m].file
                                  /\ m # n => held'[m] = held[m]
        /\ ~held'[n].open
    <2> DEFINE entry == [held[n] EXCEPT !.open = FALSE]
    <2>1. /\ entry \in Entry /\ entry.ref = held[n].ref /\ entry.file = held[n].file
          /\ entry.open = FALSE
      BY <1>1, <1>4 DEF Entry
    <2>2. held' = [held EXCEPT ![n] = entry]
      BY <1>1
    <2> HIDE DEF entry
    <2>3. /\ held' \in Seq(Entry) /\ Len(held') = Len(held)
          /\ \A m \in 1 .. Len(held) : held'[m] = IF m = n THEN entry ELSE held[m]
      <3>1. held \in Seq(Entry) /\ n \in 1 .. Len(held) /\ entry \in Entry
        BY <1>1, <1>2, <1>3, <2>1
      <3> QED BY <2>2, <3>1, ExceptSeq
    <2>4. DOMAIN held' = DOMAIN held
      BY <2>2
    <2> QED BY <1>1, <1>3, <2>1, <2>3, <2>4
  <1>6. /\ Opened(held') = Opened(held) \ {n} /\ Opened(held) \subseteq DOMAIN held
        /\ \A m \in Opened(held) : held'[m].ref = held[m].ref /\ held'[m].file = held[m].file
    <2>1. Opened(held) \subseteq DOMAIN held
      BY DEF Opened
    <2>2. ASSUME NEW m \in DOMAIN held
          PROVE  m \in Opened(held') <=> m \in Opened(held) /\ m # n
      <3>1. CASE m = n
        <4>1. ~held'[m].open
          BY <1>5, <3>1, Zenon
        <4> QED BY <3>1, <4>1, Zenon DEF Opened
      <3>2. CASE m # n
        <4>1. held'[m] = held[m] /\ DOMAIN held' = DOMAIN held
          BY <1>5, <3>2
        <4>2. held'[m].open <=> held[m].open
          BY <4>1, Zenon
        <4>3. m \in Opened(held') <=> held'[m].open
          BY <4>1, Zenon DEF Opened
        <4>4. m \in Opened(held) <=> held[m].open
          BY Zenon DEF Opened
        <4> QED BY <3>2, <4>2, <4>3, <4>4
      <3> QED BY <3>1, <3>2
    <2>3. Opened(held') \subseteq DOMAIN held
      BY <1>5 DEF Opened
    <2>4. Opened(held') = Opened(held) \ {n}
      BY <2>1, <2>2, <2>3, Zenon
    <2>5. ASSUME NEW m \in Opened(held)
          PROVE  held'[m].ref = held[m].ref /\ held'[m].file = held[m].file
      <3>1. m \in DOMAIN held
        BY <2>1
      <3> QED BY <1>5, <3>1, Zenon
    <2> QED BY <2>1, <2>4, <2>5
  <1>7. PICK k \in DOMAIN order : order[k] = ref
    BY <1>1, <1>2 DEF InOrder
  <1>8. /\ order' \in Seq(Nat \ {0}) /\ Len(order) \in Nat \ {0}
        /\ Len(order') = Len(order) - 1
        /\ \A i \in 1 .. Len(order) - 1 :
              order'[i] = IF i < k THEN order[i] ELSE order[i + 1]
    <2>1. \A i, j \in DOMAIN order : order[i] = order[j] => i = j
      BY <1>2 DEF InOrder
    <2> QED BY SMTT(40), <1>1, <1>2, <1>7, <2>1, Removed
  <1> DEFINE from(i) == IF i < k THEN i ELSE i + 1
  <1>9. DOMAIN order' = 1 .. Len(order) - 1
    BY <1>8, LenProperties
  <1>10. /\ \A i \in DOMAIN order' : /\ from(i) \in DOMAIN order /\ from(i) # k
                                     /\ order'[i] = order[from(i)]
         /\ \A i, j \in DOMAIN order' : i < j => from(i) < from(j)
         /\ \A i, j \in DOMAIN order' : from(i) = from(j) => i = j
    BY SMTT(40), <1>3, <1>7, <1>8, <1>9
  <1>11. \A l \in DOMAIN order : l # k => \E i \in DOMAIN order' : l = from(i)
    <2> SUFFICES ASSUME NEW l \in DOMAIN order, l # k
                 PROVE  \E i \in DOMAIN order' : l = from(i)
      OBVIOUS
    <2>1. CASE l < k
      <3>1. l \in DOMAIN order' /\ l = from(l)
        BY <1>3, <1>7, <1>8, <1>9, <2>1
      <3> QED BY <3>1
    <2>2. CASE l > k
      <3>1. l - 1 \in DOMAIN order' /\ l = from(l - 1)
        BY <1>3, <1>7, <1>8, <1>9, <2>2
      <3> QED BY <3>1
    <2> QED BY <1>3, <1>7, <2>1, <2>2
  <1> HIDE DEF from
  <1>12. InOrder(order', held')
    <2>1. ASSUME NEW i \in DOMAIN order'
          PROVE  \E m \in Opened(held') : order'[i] = held'[m].ref
      <3>1. PICK m \in Opened(held) : order[from(i)] = held[m].ref
        BY <1>2, <1>10 DEF InOrder
      <3>2. m # n
        <4>1. from(i) \in DOMAIN order /\ from(i) # k
          BY <1>10
        <4>2. order[from(i)] # order[k]
          BY <1>2, <4>1 DEF InOrder
        <4> QED BY <1>7, <3>1, <4>2
      <3> QED BY <1>6, <1>10, <3>1, <3>2
    <2>2. ASSUME NEW m \in Opened(held')
          PROVE  \E i \in DOMAIN order' : order'[i] = held'[m].ref
      <3>1. m \in Opened(held) /\ m # n /\ held'[m].ref = held[m].ref
        BY <1>6
      <3>2. PICK l \in DOMAIN order : order[l] = held[m].ref
        BY <1>2, <3>1 DEF InOrder
      <3>3. l # k
        <4>1. held[m].ref # held[n].ref
          BY <1>1, <1>2, <3>1 DEF InOrder
        <4> QED BY <1>7, <3>2, <4>1
      <3> QED BY <1>10, <1>11, <3>1, <3>2, <3>3
    <2>3. \A m, p \in Opened(held') : held'[m].ref = held'[p].ref => m = p
      BY <1>2, <1>6 DEF InOrder
    <2>4. \A i, j \in DOMAIN order' : order'[i] = order'[j] => i = j
      BY <1>2, <1>10 DEF InOrder
    <2>5. ASSUME NEW i \in DOMAIN order', NEW j \in DOMAIN order',
                 NEW m \in Opened(held'), NEW p \in Opened(held'),
                 order'[i] = held'[m].ref, order'[j] = held'[p].ref, i < j
          PROVE  m < p
      <3>1. /\ from(i) \in DOMAIN order /\ from(j) \in DOMAIN order /\ from(i) < from(j)
            /\ order'[i] = order[from(i)] /\ order'[j] = order[from(j)]
        BY <1>10, <2>5
      <3>2. /\ m \in Opened(held) /\ held'[m].ref = held[m].ref
            /\ p \in Opened(held) /\ held'[p].ref = held[p].ref
        BY <1>6
      <3>3. order[from(i)] = held[m].ref /\ order[from(j)] = held[p].ref
        BY <2>5, <3>1, <3>2
      <3> QED BY ZenonT(40), <1>2, <3>1, <3>2, <3>3 DEF InOrder
    <2> QED BY <2>1, <2>2, <2>3, <2>4, <2>5 DEF InOrder
  <1>13. Registered(files', held')
    <2>1. /\ IsFiniteSet(DOMAIN files) /\ Cardinality(DOMAIN files) <= Len(held)
      BY <1>2 DEF Registered
    <2>2. /\ IsFiniteSet(DOMAIN files')
          /\ Cardinality(DOMAIN files') <= Cardinality(DOMAIN files)
      BY <1>1, <2>1, FS_Subset
    <2>3. Cardinality(DOMAIN files') <= Len(held')
      BY <1>3, <1>5, <2>1, <2>2, FS_CardinalityType
    <2>4. \A m \in Opened(held') :
             held'[m].ref \in DOMAIN files' /\ files'[held'[m].ref] = held'[m].file
      <3> SUFFICES ASSUME NEW m \in Opened(held')
                   PROVE  held'[m].ref \in DOMAIN files' /\ files'[held'[m].ref] = held'[m].file
        OBVIOUS
      <3>1. /\ m \in Opened(held) /\ m # n
            /\ held'[m].ref = held[m].ref /\ held'[m].file = held[m].file
        BY <1>6
      <3>2. held[m].ref # ref
        BY <1>1, <1>2, <3>1 DEF InOrder
      <3>3. held[m].ref \in DOMAIN files /\ files[held[m].ref] = held[m].file
        BY <1>2, <3>1 DEF Registered
      <3> QED BY <1>1, <3>1, <3>2, <3>3
    <2> QED BY <2>2, <2>3, <2>4 DEF Registered
  <1>14. Current'
    <2>1. LastOpen(held') = Max({0} \union Opened(held'))
      BY DEF LastOpen, Opened
    <2>2. /\ using' \in {0} \union Opened(held')
          /\ \A m \in {0} \union Opened(held') : m <= using'
      <3>1. Opened(held') \subseteq 1 .. Len(held)
        BY <1>3, <1>6
      <3>2. {0} \union Opened(held') \in SUBSET (0 .. Len(held)) /\ {0} \union Opened(held') # {}
        BY <1>3, <3>1
      <3> DEFINE S == {0} \union Opened(held')
      <3>3. using' = Max(S)
        BY <1>1, <2>1
      <3> HIDE DEF S
      <3>4. Max(S) \in S /\ \A m \in S : m <= Max(S)
        BY <1>3, <3>2, GreatestOf DEF S
      <3> QED BY <3>3, <3>4 DEF S
    <2>3. CASE order' = << >>
      <3>1. Opened(held') = {}
        BY <1>12, <2>3 DEF InOrder
      <3> QED BY <1>1, <2>2, <2>3, <3>1 DEF Current
    <2>4. CASE order' # << >>
      <3> DEFINE k2 == Len(order')
      <3>1. k2 \in Nat \ {0} /\ DOMAIN order' = 1 .. k2
        BY <1>8, <2>4, EmptySeq, LenProperties
      <3>2. PICK m \in Opened(held') : order'[k2] = held'[m].ref
        BY <1>12, <3>1 DEF InOrder
      <3>3. current' = held'[m].ref
        BY <1>1, <2>4, <3>2 DEF Last
      <3>4. using' \in Opened(held')
        BY <1>3, <1>6, <2>2, <3>2
      <3>5. PICK l \in DOMAIN order' : order'[l] = held'[using'].ref
        BY <1>12, <3>4 DEF InOrder
      <3>6. l = k2
        <4> SUFFICES ASSUME l < k2 PROVE FALSE
          BY <3>1
        <4>1. using' < m
          <5>1. k2 \in DOMAIN order'
            BY <3>1
          <5> QED BY <1>12, <3>2, <3>4, <3>5, <5>1 DEF InOrder
        <4>2. m <= using' /\ m \in Nat /\ using' \in Nat
          BY <1>3, <1>6, <2>2, <3>2, <3>4
        <4> QED BY <4>1, <4>2
      <3>7. using' = m
        BY <1>12, <3>2, <3>4, <3>5, <3>6 DEF InOrder
      <3> QED BY <3>2, <3>3, <3>7 DEF Current
    <2> QED BY <2>3, <2>4
  <1> QED BY <1>5, <1>8, <1>12, <1>13, <1>14 DEF ChainInv

LEMMA ChainInitially == ChainInit => ChainInv
  <1> SUFFICES ASSUME ChainInit PROVE ChainInv
    OBVIOUS
  <1>1. files = << >> /\ order = << >> /\ current = 0 /\ held = << >> /\ using = 0
    BY DEF ChainInit
  <1>2. DOMAIN files = {} /\ DOMAIN order = {} /\ DOMAIN held = {} /\ Len(held) = 0
    BY <1>1
  <1>3. Opened(held) = {}
    BY <1>2 DEF Opened
  <1>4. held \in Seq(Entry) /\ order \in Seq(Nat \ {0})
    BY <1>1
  <1>5. InOrder(order, held)
    BY <1>2, <1>3 DEF InOrder
  <1>6. Registered(files, held)
    BY <1>2, <1>3, FS_EmptySet DEF Registered
  <1> QED BY <1>1, <1>4, <1>5, <1>6 DEF ChainInv, Current

LEMMA ChainStep == ChainInv /\ [Next]_vars => ChainInv'
  <1> SUFFICES ASSUME ChainInv, [Next]_vars PROVE ChainInv'
    OBVIOUS
  <1>1. CASE Callback \/ UNCHANGED vars
    <2>1. UNCHANGED chain
      BY <1>1 DEF Callback, CWGetMainFileText, CWGetMainFileID, CWFindAndLoadFile, CWReleaseFileText,
                  CWSecretGetNamedPreferences, CWCheckoutLicense,
                  CreateUnicodeToTextInfo, DisposeUnicodeToTextInfo, vars
    <2> QED BY <2>1 DEF chain, ChainInv, Current
  <1>2. CASE ChainNext
    <2>1. ASSUME NEW file \in ResourceFiles, Open(file) PROVE ChainInv'
      BY <2>1, OpenKeeps
    <2>2. ASSUME NEW n \in 1 .. MaxOpens, Use(n) PROVE ChainInv'
      BY <2>2, UseKeeps
    <2>3. ASSUME NEW n \in 1 .. MaxOpens, Close(n) PROVE ChainInv'
      BY <2>3, CloseKeeps
    <2> QED BY <1>2, <2>1, <2>2, <2>3 DEF ChainNext
  <1> QED BY <1>1, <1>2 DEF Next

LEMMA LookupInOrder == ChainInv => LookupOrder
  <1> SUFFICES ASSUME ChainInv,
                      NEW id \in UNION {DOMAIN Strings[f] : f \in DOMAIN Strings}
               PROVE  LET able == {m \in 1 .. using : held[m].open /\ id \in DOMAIN Strings[held[m].file]}
                      IN  IF able = {} THEN Found(id) = 0
                          ELSE /\ Found(id) = held[Max(able)].ref
                               /\ files[Found(id)] = held[Max(able)].file
                               /\ \A index \in 0 .. 3 :
                                     IndString(id, index) # 0
                                       <=> index \in 1 .. Strings[held[Max(able)].file][id]
    BY DEF LookupOrder
  <1> DEFINE able == {m \in 1 .. using : held[m].open /\ id \in DOMAIN Strings[held[m].file]}
             last == Max(able)
  <1>1. /\ held \in Seq(Entry) /\ order \in Seq(Nat \ {0})
        /\ InOrder(order, held) /\ Registered(files, held) /\ Current
    BY DEF ChainInv
  <1>2. /\ Len(held) \in Nat /\ DOMAIN held = 1 .. Len(held)
        /\ Len(order) \in Nat /\ DOMAIN order = 1 .. Len(order)
        /\ Opened(held) \subseteq DOMAIN held
    BY <1>1, LenProperties DEF Opened
  <1>3. ASSUME NEW m \in DOMAIN held PROVE held[m].ref # 0
    <2>1. held[m] \in Entry
      BY <1>1, <1>2, ElementOfSeq
    <2> QED BY <2>1 DEF Entry
  <1>4. CASE using = 0
    <2>1. able = {} /\ current = 0
      BY <1>1, <1>2, <1>4 DEF Current, Opened
    <2> QED BY <2>1 DEF Found
  <1>5. CASE using \in Opened(held) /\ current = held[using].ref
    <2>1. PICK k \in DOMAIN order : order[k] = current
      BY <1>1, <1>5 DEF InOrder
    <2> DEFINE upTo == {i \in 1 .. k : id \in DOMAIN Strings[files[order[i]]]}
    <2>2. Found(id) = IF upTo = {} THEN 0 ELSE order[Max(upTo)]
      <3>1. SelectInSeq(order, LAMBDA r : r = current) = k
        <4>1. \A i, j \in DOMAIN order : order[i] = order[j] => i = j
          BY <1>1 DEF InOrder
        <4>2. {i \in 1 .. Len(order) : order[i] = current} = {k} /\ Min({k}) = k
          BY SMTT(40), <1>1, <2>1, <4>1, PlaceOf
        <4> QED BY <4>2 DEF SelectInSeq
      <3>2. current # 0
        BY <1>2, <1>3, <1>5
      <3> QED BY <3>1, <3>2 DEF Found
    \* A file the client could find it in, and its place in the order.
    <2>3. ASSUME NEW m \in able
          PROVE  \E i \in upTo : /\ order[i] = held[m].ref
                                 /\ files[order[i]] = held[m].file
      <3>1. m \in Opened(held) /\ m <= using /\ id \in DOMAIN Strings[held[m].file]
        BY <1>2, <1>5 DEF Opened
      <3>2. PICK i \in DOMAIN order : order[i] = held[m].ref
        BY <1>1, <3>1 DEF InOrder
      <3>3. files[order[i]] = held[m].file
        BY <1>1, <3>1, <3>2 DEF Registered
      <3>4. i <= k
        <4>1. order[k] = held[using].ref
          BY <1>5, <2>1
        <4>2. k < i => using < m
          BY <1>1, <1>5, <2>1, <3>1, <3>2, <4>1 DEF InOrder
        <4>3. i \in Nat /\ k \in Nat /\ m \in Nat /\ using \in Nat
          BY <1>2, <1>5, <3>1
        <4> QED BY <3>1, <4>2, <4>3
      <3>5. i \in upTo
        BY <1>2, <3>1, <3>2, <3>3, <3>4
      <3> QED BY <3>2, <3>3, <3>5
    \* And the other way.
    <2>4. ASSUME NEW i \in upTo
          PROVE  \E m \in able : order[i] = held[m].ref /\ files[order[i]] = held[m].file
      <3>1. i \in DOMAIN order /\ i <= k /\ i \in Nat /\ k \in Nat
        BY <1>2
      <3>2. PICK m \in Opened(held) : order[i] = held[m].ref
        BY <1>1, <3>1 DEF InOrder
      <3>3. files[order[i]] = held[m].file
        BY <1>1, <3>2 DEF Registered
      <3>4. m <= using
        <4>1. order[k] = held[using].ref
          BY <1>5, <2>1
        <4>2. i < k => m < using
          BY <1>1, <1>5, <2>1, <3>1, <3>2, <4>1 DEF InOrder
        <4>3. i = k => m = using
          BY SMTT(40), <1>1, <1>5, <3>2, <4>1 DEF InOrder
        <4>4. m \in Nat /\ using \in Nat
          BY <1>2, <1>5, <3>2
        <4> QED BY <3>1, <4>2, <4>3, <4>4
      <3>5. m \in 1 .. using /\ held[m].open /\ id \in DOMAIN Strings[held[m].file]
        BY <1>2, <1>5, <3>2, <3>3, <3>4 DEF Opened
      <3> QED BY <3>2, <3>3, <3>5
    <2>5. CASE able = {}
      <3>1. upTo = {}
        BY <2>4, <2>5
      <3> QED BY <2>2, <2>5, <3>1
    <2>6. CASE able # {}
      <3>1. last \in able /\ \A m \in able : m <= last
        <4>1. using \in Nat /\ able \in SUBSET (0 .. using)
          BY <1>2, <1>5
        <4>2. last = Max(able)
          OBVIOUS
        <4> HIDE DEF able, last
        <4>3. Max(able) \in able /\ \A m \in able : m <= Max(able)
          BY <2>6, <4>1, GreatestOf
        <4> QED BY <4>2, <4>3
      <3>2. PICK i \in upTo : order[i] = held[last].ref /\ files[order[i]] = held[last].file
        BY <2>3, <3>1
      <3> DEFINE top == Max(upTo)
      <3>3. top \in upTo /\ \A j \in upTo : j <= top
        <4>1. k \in Nat /\ upTo \in SUBSET (0 .. k) /\ upTo # {}
          <5>1. k \in Nat
            BY <1>2
          <5>2. upTo # {}
            BY <3>2, Zenon
          <5> QED BY <5>1, <5>2
        <4>2. top = Max(upTo)
          OBVIOUS
        <4> HIDE DEF upTo, top
        <4>3. Max(upTo) \in upTo /\ \A j \in upTo : j <= Max(upTo)
          BY <4>1, GreatestOf
        <4> QED BY <4>2, <4>3
      <3> HIDE DEF top, last
      <3>4. PICK m \in able : order[top] = held[m].ref
        BY <2>4, <3>3
      <3>5. top = i
        <4>1. i \in DOMAIN order /\ top \in DOMAIN order /\ i \in Nat /\ top \in Nat
          BY <1>2, <3>3
        <4>2. last \in Opened(held) /\ m \in Opened(held) /\ last \in Nat /\ m \in Nat
          BY <1>2, <1>5, <3>1 DEF Opened
        <4>3. i < top => last < m
          BY <1>1, <3>2, <3>4, <4>1, <4>2 DEF InOrder
        <4>4. m <= last /\ i <= top
          BY <3>1, <3>3
        <4> QED BY <4>1, <4>2, <4>3, <4>4
      <3>6. /\ Found(id) = held[last].ref /\ files[Found(id)] = held[last].file
            /\ Found(id) # 0
        <4>1. Found(id) = order[i]
          BY <2>2, <3>2, <3>5 DEF top
        <4>2. last \in DOMAIN held
          BY <1>2, <1>5, <3>1
        <4> QED BY <1>3, <3>2, <4>1, <4>2
      <3>7. \A index : IndString(id, index) # 0
                          <=> index \in 1 .. Strings[held[last].file][id]
        BY <3>6 DEF IndString
      <3>8. last = Max(able)
        BY DEF last
      <3> QED BY <2>6, <3>6, <3>7, <3>8, Zenon
    <2> QED BY <2>5, <2>6
  <1> QED BY <1>1, <1>4, <1>5 DEF Current

\* The inductive invariant of the chain: the order holds the numbers of the
\* open files, once each and as they were opened, each number names the file
\* it was given for, and the current file is open (ResourceChain).
THEOREM ChainInvariant == Spec => []ChainInv
  <1>1. Init => ChainInv
    BY ChainInitially DEF Init
  <1> QED BY <1>1, ChainStep, PTL DEF Spec

\* A string list comes from the file used or else from the one opened last of
\* those opened before it, for any files, any strings and any number of opens
\* (ResourceChain.get and get_ind_string).
THEOREM ResourcesLookedUpInOrder == Spec => []LookupOrder
  <1> QED BY ChainInvariant, LookupInOrder, PTL
=============================================================================
