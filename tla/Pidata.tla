------------------------------- MODULE Pidata -------------------------------
(***************************************************************************)
(* Pattern-initialized data of a PEF section (PEF.pidata in                *)
(* src/src/cwhost/pef.py): a stream of bytes of which each operation's     *)
(* first holds an opcode and a count, expanded into the section's image.   *)
(***************************************************************************)
EXTENDS Integers, Sequences, SequencesExt

Times(s, n) == FlattenSeq([i \in 1 .. n |-> s])
Zeros(n) == [i \in 1 .. n |-> 0]

\* A Python slice of n bytes from position at: it may end early.
Slice(s, at, n) == SubSeq(s, at, Min({at + n - 1, Len(s)}))

\* The last byte of the variable-length integer at position at is the first
\* below 128; 0 when the stream ends before it.
VarintEnd(packed, at) ==
    LET ends == {i \in at .. Len(packed) : packed[i] < 128}
    IN  IF ends = {} THEN 0 ELSE Min(ends)

\* Its value: the low seven bits of each byte, the highest first.
VarintValue(packed, at) ==
    LET value[n \in 0 .. VarintEnd(packed, at) - at + 1] ==
            IF n = 0 THEN 0
            ELSE (value[n - 1] * 128) + (packed[at + n - 1] % 128)
    IN  value[VarintEnd(packed, at) - at + 1]

\* What has been expanded: the next position, the output, and the integers of
\* the operation that is read.
Malformed(s) == [s EXCEPT !.ok = FALSE]

ReadVarint(s, packed) ==
    IF ~s.ok \/ VarintEnd(packed, s.at) = 0 THEN Malformed(s)
    ELSE [s EXCEPT !.args = Append(@, VarintValue(packed, s.at)),
                   !.at = VarintEnd(packed, s.at) + 1]

\* The count of an operation: that of its first byte, or a varint when that
\* is 0.
ReadCount(s, packed) ==
    IF packed[s.at] % 32 # 0
    THEN [s EXCEPT !.at = @ + 1, !.args = <<packed[s.at] % 32>>]
    ELSE ReadVarint([s EXCEPT !.at = @ + 1, !.args = << >>], packed)

\* A common size of 0 is read again.
ReadCommon(s, packed) ==
    IF s.ok /\ s.args = <<0>> THEN ReadVarint([s EXCEPT !.args = << >>], packed)
    ELSE s

\* The operation's integers: the count, then the repeat count of a repeated
\* block, or the custom size and the repeat count of interleaved ones.
ReadArgs(s, packed, opcode) ==
    IF opcode = 2 THEN ReadVarint(ReadCount(s, packed), packed)
    ELSE IF opcode \in {3, 4}
    THEN ReadVarint(ReadVarint(ReadCommon(ReadCount(s, packed), packed),
                               packed), packed)
    ELSE ReadCount(s, packed)

CopyBlock(packed, s) ==
    [s EXCEPT !.out = @ \o Slice(packed, s.at, s.args[1]), !.at = @ + s.args[1]]

\* Mutation: a repeated block is written as often as its repeat count says.
RepeatBlockAsCounted(packed, s) ==
    [s EXCEPT !.out = @ \o Times(Slice(packed, s.at, s.args[1]), s.args[2]),
              !.at = @ + s.args[1]]

\* The block is written once more than its repeat count.
RepeatBlock(packed, s) ==
    [s EXCEPT !.out = @ \o Times(Slice(packed, s.at, s.args[1]), s.args[2] + 1),
              !.at = @ + s.args[1]]

\* common, custom 1, common, ..., custom n, common; custom blocks lie in the
\* stream one after the other from position at.
Interleaved(packed, common, custom, repeats, at) ==
    FlattenSeq([i \in 1 .. repeats |->
                    common \o Slice(packed, at + (i - 1) * custom, custom)])
        \o common

InterleaveCommon(packed, s) ==
    LET at == s.at + s.args[1]
    IN  [s EXCEPT !.out = @ \o Interleaved(packed, Slice(packed, s.at, s.args[1]),
                                          s.args[2], s.args[3], at),
                  !.at = at + s.args[2] * s.args[3]]

InterleaveZeros(packed, s) ==
    [s EXCEPT !.out = @ \o Interleaved(packed, Zeros(s.args[1]), s.args[2],
                                      s.args[3], s.at),
              !.at = @ + s.args[2] * s.args[3]]

\* An operation whose integers are read.
Perform(packed, opcode, s) ==
    IF ~s.ok THEN s
    ELSE IF opcode = 0 THEN [s EXCEPT !.out = @ \o Zeros(s.args[1])]
    ELSE IF opcode = 1 THEN CopyBlock(packed, s)
    ELSE IF opcode = 2 THEN RepeatBlock(packed, s)
    ELSE IF opcode = 3 THEN InterleaveCommon(packed, s)
    ELSE IF opcode = 4 THEN InterleaveZeros(packed, s)
    ELSE s                          \* reserved: counted and passed over

Operation(packed, s) ==
    LET opcode == packed[s.at] \div 32
    IN  Perform(packed, opcode, ReadArgs(s, packed, opcode))

Expansion(s, size) == [ok |-> s.ok /\ Len(s.out) = size, bytes |-> s.out]

\* The loop: an operation as long as there is one and room for what it gives.
Turn(packed, size, s) ==
    IF s.ok /\ s.at <= Len(packed) /\ Len(s.out) < size THEN Operation(packed, s)
    ELSE s

\* The expansion of packed, which must come to exactly size bytes.
Expand(packed, size) ==
    LET after[n \in 0 .. Len(packed)] ==
            IF n = 0 THEN [at |-> 1, out |-> << >>, args |-> << >>, ok |-> TRUE]
            ELSE Turn(packed, size, after[n - 1])
    IN  Expansion(after[Len(packed)], size)

=============================================================================
