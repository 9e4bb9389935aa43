------------------------------- MODULE MCLoad -------------------------------
(***************************************************************************)
(* Fragments for the model checker: every two relocation instructions, of  *)
(* a set with all opcodes, before each repeat, and repeats before others;  *)
(* every sequence of two packed operations, and some cut off; and          *)
(* fragments with missing imports, sections that overlap each other, the   *)
(* container or the guest's own ranges, empty sections, several headers,   *)
(* and sections and streams that end beyond the file.                      *)
(***************************************************************************)
EXTENDS Load

\* Relocation instructions, as words.
Codes ==
    {<<129>>, <<16385>>, <<16896>>, <<17408>>, <<17920>>, <<18432>>, <<18945>>,
     <<24577>>, <<25090>>, <<25600>>, <<26113>>, <<32769>>, <<40960, 8>>,
     <<41984, 1>>, <<46080, 2>>, <<46144, 1>>, <<46208, 5>>, <<46272, 0>>,
     <<65535>>}

\* Repeats of one to three words: short ones one, two or three times, long ones not
\* at all and twice.  A long one may be cut off at the end of the stream.
RepeatWords ==
    {<<36864 + 256 * (block - 1) + times - 1>> : block \in 1 .. 3, times \in 1 .. 3}
        \union {<<45056 + 64 * (block - 1), times>> : block \in 1 .. 3, times \in {0, 2}}
CutOff == <<45056>>

Streams ==
    {a \o b \o r : a, b \in Codes, r \in RepeatWords \union {CutOff}}
        \union {a \o r \o b : a \in {<<16385>>, <<41984, 1>>, <<18945>>},
                              r \in RepeatWords, b \in RepeatWords \union Codes}

-----------------------------------------------------------------------------
\* Packed operations, with counts of one byte and of two.
Packings ==
    {[op |-> "zeros", n |-> n] : n \in {1, 31, 32, 130}}
        \union {[op |-> "block", data |-> d] : d \in {<<7>>, [i \in 1 .. 33 |-> i]}}
        \union {[op |-> "repeat", n |-> n, data |-> <<200, 3>>] : n \in {1, 2, 40}}
        \union {[op |-> "common", data |-> d, size |-> Len(c[1]), custom |-> c] :
                    d \in {<<5>>, [i \in 1 .. 32 |-> 9]},
                    c \in {<<<<1, 2>>>>, <<<<1>>, <<2>>, <<3>>>>}}
        \union {[op |-> "apart", n |-> n, size |-> Len(c[1]), custom |-> c] :
                    n \in {2, 33}, c \in {<<<<1, 2>>>>, <<<<1>>, <<255>>, <<3>>>>}}

-----------------------------------------------------------------------------
Stored(kind, bytes, total, default) ==
    [kind |-> kind, stored |-> bytes, unpacked |-> 0, total |-> total,
     default |-> default, contents |-> << >>, end |-> 90]

Packed(ops, rest) ==
    LET size == Len(MeaningOf(ops))
    IN  [kind |-> "pattern_initialized_data", stored |-> StoredAs(ops),
         unpacked |-> size, total |-> size + rest, default |-> 3, contents |-> ops,
         end |-> 90]

Import(name, weak) == [name |-> name, weak |-> weak]
Reloc(section, words) == [section |-> section, words |-> words, end |-> 50]

Fragment(sections, imports, headers) ==
    [sections |-> sections, imports |-> imports, headers |-> headers,
     size |-> 90, loader |-> 50]

CodeSection == Stored("code", <<1, 2, 3>>, 40, 0)
TwoImports == <<Import("a", FALSE), Import("b", FALSE)>>
OneOp == <<[op |-> "repeat", n |-> 2, data |-> <<200, 3>>]>>

Relocating ==
    {Fragment(<<CodeSection, Packed(OneOp, 8), Stored("constant", <<4>>, 4, 1)>>,
              TwoImports, <<Reloc(1, s)>>) : s \in Streams}

Packing ==
    {Fragment(<<CodeSection, Packed(<<p, q>>, 4)>>, TwoImports,
              <<Reloc(2, <<16384>>), Reloc(1, <<16896>>)>>) : p, q \in Packings}

\* The stream ends inside an operation, or comes to another size.
Truncated(section) ==
    [section EXCEPT !.stored = SubSeq(@, 1, Len(@) - 1)]

Garbled ==
    {Fragment(<<CodeSection, s>>, TwoImports, << >>) :
        s \in {Truncated(Packed(<<p, p>>, 4)) : p \in Packings}
                \union {[Packed(<<p>>, 4) EXCEPT !.unpacked = @ + 1] : p \in Packings}}

\* One import missing, weak, or named twice.
Binding ==
    {Fragment(<<CodeSection>>, <<Import(n, w), Import(m, v)>>, << >>) : n, m \in {"a", "c"}, w, v \in BOOLEAN}

\* The fourth section, when there is one, is where the guest's scratch range is.
Laying ==
    {[Fragment(<<Stored(k, <<1>>, s, 0), Stored("executable_data", <<2>>, t, 0),
                 Stored("unpacked_data", <<3>>, 8, 0)>> \o fourth, i, h)
        EXCEPT !.size = size] :
        k \in {"code", "constant"}, s \in {0, 8, 600}, t \in {0, 8, 600},
        fourth \in {<< >>} \union {<<Stored("code", <<4>>, n, 0)>> : n \in {0, 8}},
        i \in {<< >>, TwoImports}, size \in {90, 1000, 1001},
        h \in {<< >>, <<Reloc(1, <<16384>>), Reloc(2, <<16896>>)>>, <<Reloc(5, << >>)>>}}

\* The bytes of a section, or the stream of a header, end beyond the file.
Beyond ==
    {[Fragment(<<CodeSection, Packed(OneOp, 8), Stored("constant", <<4>>, 0, 1)>>,
               TwoImports, <<Reloc(i, <<16384>>)>>)
        EXCEPT !.sections[i].end = end, !.headers[1].end = stop] :
        i \in 1 .. 3, end \in {90, 91}, stop \in {50, 51}}

MCContainers == Relocating \union Packing \union Binding \union Laying \union Garbled
                    \union Beyond

\* Two sections of packed data.
MCTwoPacked ==
    {Fragment(<<Packed(<<p>>, 0), Packed(<<q>>, 0)>>, << >>, << >>) : p, q \in Packings}

\* The scratch range, the trap slots and the stack.
MCGuestRanges ==
    {[at |-> 3500, size |-> 100, perms |-> "rw"], [at |-> 4500, size |-> 16, perms |-> "rx"],
     [at |-> 9000, size |-> 100, perms |-> "rw"]}

MCSlots == [a |-> 64, b |-> 65]

=============================================================================
