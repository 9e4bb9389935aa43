---------------------------- MODULE PackedFormat ----------------------------
(***************************************************************************)
(* Pattern-initialized data as the format has it, for the properties of    *)
(* Load: the operations a linker packs a section into, the bytes each is   *)
(* stored as and the bytes it stands for.  Pidata, which reads the former, *)
(* is to give the latter.                                                  *)
(***************************************************************************)
EXTENDS Pidata

Bytes == Seq(0 .. 255)

\* The blocks of interleaved data all have the size given.
Blocks(size) == Seq({block \in Bytes : Len(block) = size})

PackedOperations ==
    [op : {"zeros"}, n : Nat]
        \union [op : {"block"}, data : Bytes]
        \union [op : {"repeat"}, data : Bytes, n : Nat \ {0}]
        \union {o \in [op : {"common"}, data : Bytes, size : Nat, custom : Seq(Bytes)] :
                    o.data # << >> /\ o.custom \in Blocks(o.size)}
        \union {o \in [op : {"apart"}, n : Nat \ {0}, size : Nat, custom : Seq(Bytes)] :
                    o.custom \in Blocks(o.size)}

-----------------------------------------------------------------------------
(* What is stored *)

\* Seven bits in a byte, the highest first; all but the last above 127.
Varint(n) ==
    LET high[k \in 0 .. n] ==
            IF k = 0 THEN << >> ELSE Append(high[k \div 128], 128 + (k % 128))
    IN  Append(high[n \div 128], n % 128)

\* The opcode and the count, which is in the same byte if it can be.
First(opcode, n) ==
    IF n \in 1 .. 31 THEN <<32 * opcode + n>> ELSE <<32 * opcode>> \o Varint(n)

Interleaves(o) == Varint(o.size) \o Varint(Len(o.custom))

Encoded(o) ==
    IF o.op = "zeros" THEN First(0, o.n)
    ELSE IF o.op = "block" THEN First(1, Len(o.data)) \o o.data
    ELSE IF o.op = "repeat"
    THEN First(2, Len(o.data)) \o Varint(o.n - 1) \o o.data
    ELSE IF o.op = "common"
    THEN First(3, Len(o.data)) \o Interleaves(o) \o o.data \o FlattenSeq(o.custom)
    ELSE First(4, o.n) \o Interleaves(o) \o FlattenSeq(o.custom)

-----------------------------------------------------------------------------
(* What it stands for *)

\* Each custom block with the common one before it, and the common one.
Woven(common, custom) ==
    FlattenSeq([i \in DOMAIN custom |-> common \o custom[i]]) \o common

Meaning(o) ==
    IF o.op = "zeros" THEN Zeros(o.n)
    ELSE IF o.op = "block" THEN o.data
    ELSE IF o.op = "repeat" THEN Times(o.data, o.n)
    ELSE IF o.op = "common" THEN Woven(o.data, o.custom)
    ELSE Woven(Zeros(o.n), o.custom)

-----------------------------------------------------------------------------
\* A whole section.
StoredAs(ops) == FlattenSeq([i \in DOMAIN ops |-> Encoded(ops[i])])
MeaningOf(ops) == FlattenSeq([i \in DOMAIN ops |-> Meaning(ops[i])])
=============================================================================
