---------------------------- MODULE Relocations ----------------------------
(***************************************************************************)
(* PEF relocation instructions (apply_relocations in                       *)
(* src/src/cwhost/pef.py).  A stream is a sequence of 16-bit words.  Each  *)
(* instruction stands for elementary operations on a position in the       *)
(* section, the next import and two base addresses; a repeat instruction   *)
(* stands for those of the instructions before it.  The result is the      *)
(* sequence of values added to words of the section.                       *)
(***************************************************************************)
EXTENDS Integers, Sequences, SequencesExt

Word == 0 .. 65535

Bits(word, low, width) == (word \div 2^low) % 2^width

\* The opcodes are told apart by 2, 7, 4 or 6 leading bits.
KindOf(word) ==
    LET top7 == Bits(word, 9, 7)
        top6 == Bits(word, 10, 6)
    IN  CASE Bits(word, 14, 2) = 0 -> "skip"
          [] top7 = 32 -> "c"           [] top7 = 33 -> "d"
          [] top7 = 34 -> "tv12"        [] top7 = 35 -> "tv8"
          [] top7 = 36 -> "vtable8"     [] top7 = 37 -> "import_run"
          [] top7 = 48 -> "sm_import"   [] top7 = 49 -> "sm_c"
          [] top7 = 50 -> "sm_d"        [] top7 = 51 -> "sm_section"
          [] Bits(word, 12, 4) = 8 -> "incr"
          [] Bits(word, 12, 4) = 9 -> "sm_repeat"
          [] top6 = 40 -> "set_position" [] top6 = 41 -> "lg_import"
          [] top6 = 44 -> "lg_repeat"   [] top6 = 45 -> "lg_section"
          [] OTHER -> "unknown"

Long == {"set_position", "lg_import", "lg_repeat", "lg_section"}
Repeats == {"sm_repeat", "lg_repeat"}

LengthOf(word) == IF KindOf(word) \in Long THEN 2 ELSE 1

\* An instruction is its words; the last of a stream may lack one.
Complete(text) == Len(text) = LengthOf(text[1])

ReadWord(texts, word) ==
    IF texts # << >> /\ ~Complete(Last(texts))
    THEN [texts EXCEPT ![Len(texts)] = Append(@, word)]
    ELSE Append(texts, <<word>>)

\* The instructions of a stream.
Instructions(words) ==
    LET read[n \in 0 .. Len(words)] ==
            IF n = 0 THEN << >> ELSE ReadWord(read[n - 1], words[n])
    IN  read[Len(words)]

Again(ops, n) == FlattenSeq([i \in 1 .. n |-> ops])
Op(name, n) == [op |-> name, n |-> n]

\* The elementary operations of an instruction that is not a repeat; low is
\* the value of the low bits of its first word and the whole of the next.
Elementary(text) ==
    LET word   == text[1]
        kind   == KindOf(word)
        run    == Bits(word, 0, 9) + 1
        low(n) == Bits(word, 0, n) * 2^16 + text[2]
        subop  == Bits(word, 6, 4)
    IN  CASE kind = "skip" ->
                <<Op("move", 4 * Bits(word, 6, 8))>>
                    \o Again(<<Op("d", 0)>>, Bits(word, 0, 6))
          [] kind \in {"c", "d"} -> Again(<<Op(kind, 0)>>, run)
          [] kind = "tv12" -> Again(<<Op("c", 0), Op("d", 0), Op("move", 4)>>, run)
          [] kind = "tv8" -> Again(<<Op("c", 0), Op("d", 0)>>, run)
          [] kind = "vtable8" -> Again(<<Op("d", 0), Op("move", 4)>>, run)
          [] kind = "import_run" -> Again(<<Op("next_import", 0)>>, run)
          [] kind = "sm_import" -> <<Op("import", run - 1)>>
          [] kind = "sm_c" -> <<Op("set_c", run - 1)>>
          [] kind = "sm_d" -> <<Op("set_d", run - 1)>>
          [] kind = "sm_section" -> <<Op("section", run - 1)>>
          [] kind = "incr" -> <<Op("move", Bits(word, 0, 12) + 1)>>
          [] kind = "set_position" -> <<Op("position", low(10))>>
          [] kind = "lg_import" -> <<Op("import", low(10))>>
          [] kind = "lg_section" /\ subop = 0 -> <<Op("section", low(6))>>
          [] kind = "lg_section" /\ subop = 1 -> <<Op("set_c", low(6))>>
          [] kind = "lg_section" /\ subop = 2 -> <<Op("set_d", low(6))>>
          [] OTHER -> <<Op("error", 0)>>

\* Those of instructions one after the other.
ElementaryOf(texts) == FlattenSeq([i \in DOMAIN texts |-> Elementary(texts[i])])

\* The last k of a sequence.
Latest(s, k) == SubSeq(s, Len(s) - k + 1, Len(s))

\* Mutation: the block of a repeat is counted in instructions.
BlockByInstructions(before, words) ==
    IF words <= Len(before) THEN Latest(before, words) ELSE << >>

\* The instructions before a repeat that make up a block of that many words:
\* none when the block would split one or begin before the stream.
Block(before, words) ==
    LET exact == {k \in 1 .. Len(before) : Len(FlattenSeq(Latest(before, k))) = words}
    IN  IF exact = {} THEN << >> ELSE Latest(before, CHOOSE k \in exact : TRUE)

IsRepeat(text) == KindOf(text[1]) \in Repeats

\* A short repeat holds one less than the number of times, a long one that
\* number; both hold one less than the words of the block.
BlockWords(text) ==
    IF KindOf(text[1]) = "sm_repeat" THEN Bits(text[1], 8, 4) + 1
    ELSE Bits(text[1], 6, 4) + 1

RepeatTimes(text) ==
    IF KindOf(text[1]) = "sm_repeat" THEN Bits(text[1], 0, 8) + 1
    ELSE Bits(text[1], 0, 6) * 2^16 + text[2]

Repeated(before, text) ==
    LET block  == Block(before, BlockWords(text))
        nested == \E i \in DOMAIN block : IsRepeat(block[i])
    IN  IF block = << >> THEN <<Op("error", 0)>>
        ELSE Again(IF nested THEN <<Op("error", 0)>> ELSE ElementaryOf(block),
                   RepeatTimes(text))

Instruction(texts, i) ==
    IF ~Complete(texts[i]) THEN <<Op("error", 0)>>
    ELSE IF IsRepeat(texts[i]) THEN Repeated(SubSeq(texts, 1, i - 1), texts[i])
    ELSE Elementary(texts[i])

Operations(words) ==
    LET texts == Instructions(words)
    IN  FlattenSeq([i \in DOMAIN texts |-> Instruction(texts, i)])

-----------------------------------------------------------------------------
\* One elementary operation on s, with the section's size, the deltas of the
\* sections and the addresses of the imports (numbered from 0) in env.
Wrong(s) == [s EXCEPT !.ok = FALSE]

AddWord(s, env, value) ==
    IF s.pos + 4 > env.size THEN Wrong(s)
    ELSE [s EXCEPT !.patches = Append(@, <<s.pos, value>>), !.pos = @ + 4]

AddImport(s, env, i) ==
    IF i \notin 0 .. Len(env.imports) - 1 THEN Wrong(s)
    ELSE [AddWord(s, env, env.imports[i + 1]) EXCEPT !.import = i + 1]

Apply(s, env, o) ==
    LET known == o.n \in 0 .. Len(env.deltas) - 1
        delta == env.deltas[o.n + 1]
    IN  CASE o.op = "move"        -> [s EXCEPT !.pos = @ + o.n]
          [] o.op = "position"    -> [s EXCEPT !.pos = o.n]
          [] o.op = "c"           -> AddWord(s, env, s.c)
          [] o.op = "d"           -> AddWord(s, env, s.d)
          [] o.op = "next_import" -> AddImport(s, env, s.import)
          [] o.op = "import"      -> AddImport(s, env, o.n)
          [] o.op = "section" /\ known -> AddWord(s, env, delta)
          [] o.op = "set_c" /\ known   -> [s EXCEPT !.c = delta]
          [] o.op = "set_d" /\ known   -> [s EXCEPT !.d = delta]
          [] OTHER -> Wrong(s)

\* The base addresses begin as the deltas of the first two sections.
Begin(env) ==
    [pos |-> 0, import |-> 0, patches |-> << >>, ok |-> TRUE,
     c |-> IF Len(env.deltas) > 0 THEN env.deltas[1] ELSE 0,
     d |-> IF Len(env.deltas) > 1 THEN env.deltas[2] ELSE 0]

\* The operations one after the other, up to one that goes wrong.
Step(s, env, o) == IF s.ok THEN Apply(s, env, o) ELSE s

Relocated(words, env) ==
    LET ops == Operations(words)
        after[n \in 0 .. Len(ops)] ==
            IF n = 0 THEN Begin(env) ELSE Step(after[n - 1], env, ops[n])
    IN  after[Len(ops)]

=============================================================================
