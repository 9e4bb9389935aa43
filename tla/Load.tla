-------------------------------- MODULE Load --------------------------------
(***************************************************************************)
(* Loading the plug-in's PEF fragment (load in src/src/cwhost/loader.py):  *)
(* its imports are matched with trap slots, its sections expanded into     *)
(* guest memory one by one, the container and the import descriptors       *)
(* mapped, each relocation header applied, and the code protected.  Any    *)
(* step may fail, and what it has mapped stays.  The container is one of a *)
(* set of parsed ones, with its size, that of its loader section, and      *)
(* where in each the stored bytes of a section and a relocation stream     *)
(* end; section indices begin at 1.                                        *)
(***************************************************************************)
EXTENDS PackedFormat, Relocations, FiniteSets

CONSTANTS
    Containers,     \* the fragments that may be loaded
    Slots,          \* names of the imports with a trap slot, to their slots
    SectionBase, SectionStride, ImageBase, DescriptorBase,
    GuestRanges     \* mapped before: trap slots, stack, scratch and heap

ASSUME LoadAssumption ==
    /\ \A c \in Containers : /\ DOMAIN c = {"sections", "imports", "headers", "size", "loader"}
                             /\ c.size \in Nat /\ c.loader \in Nat
                             /\ c.imports \in Seq(ToSet(c.imports))
                             /\ c.sections \in Seq(ToSet(c.sections))
    /\ \A name \in DOMAIN Slots : Slots[name] \in Nat \ {0}
    /\ {SectionBase, SectionStride, ImageBase, DescriptorBase} \subseteq Nat

\* The guest's own ranges share no byte, and none is both written and executed.
ASSUME GuestAssumption ==
    /\ GuestRanges \subseteq [at : Nat, size : Nat \ {0}, perms : {"rx", "rw"}]
    /\ \A m, n \in GuestRanges :
          m # n => m.at + m.size <= n.at \/ n.at + n.size <= m.at

\* What is stored of a section, and the operations its linker packed, for the
\* properties: what is stored need not be those operations' bytes.
ASSUME SectionAssumption ==
    \A c \in Containers : \A section \in ToSet(c.sections) :
        /\ section.stored \in Bytes /\ {section.total, section.end} \subseteq Nat
        /\ section.contents \in Seq(PackedOperations)

ASSUME HeaderAssumption ==
    \A c \in Containers :
        /\ c.headers \in Seq(ToSet(c.headers))
        /\ \A header \in ToSet(c.headers) : header.words \in Seq(Word) /\ header.end \in Nat

VARIABLES
    container,
    phase,          \* "bind", "map", "describe", "relocate", "loaded", "failed"
    next,           \* the section or header the phase has come to
    mapped,         \* mapped ranges of guest memory, with their permissions
    memory,         \* by section: the bytes written and the words relocated
    descriptors     \* by import: the slot in its descriptor

vars == <<container, phase, next, mapped, memory, descriptors>>

Sections == container.sections
BaseOf(i) == SectionBase + SectionStride * (i - 1)
Executable(i) == Sections[i].kind \in {"code", "executable_data"}

PackedSections ==
    {i \in DOMAIN Sections : Sections[i].kind = "pattern_initialized_data"}

\* The first packed section, whichever is asked for.
Unpacked == LET packed == Sections[Min(PackedSections)]
            IN  Expand(packed.stored, packed.unpacked)

\* The bytes, and zeros up to the section's size.
FullImage(i, expansion) ==
    LET bytes == Slice(expansion.bytes, 1, Sections[i].total)
    IN  [ok |-> expansion.ok, bytes |-> bytes \o Zeros(Sections[i].total - Len(bytes))]

\* raw_section: the section whose bytes are read must be in the file.
InFile(i) == Sections[IF i \in PackedSections THEN Min(PackedSections) ELSE i].end
               <= container.size

\* section_image: pattern-initialized data is expanded, and always that of
\* the first such section.
SectionImage(i) ==
    IF ~InFile(i) THEN [ok |-> FALSE, bytes |-> << >>]
    ELSE FullImage(i, IF i \in PackedSections THEN Unpacked
                      ELSE [ok |-> TRUE, bytes |-> Sections[i].stored])

\* Guest.map: the emulator refuses a range that overlaps a mapped one; every
\* range begins a page, so rounding up to pages adds no overlap.
Overlaps(at, size) ==
    \E m \in mapped : at < m.at + m.size /\ m.at < at + size

Mapping(at, size, perms) == [at |-> at, size |-> size, perms |-> perms]

-----------------------------------------------------------------------------
Init ==
    /\ container \in Containers
    /\ phase = "bind" /\ next = 1
    /\ mapped = GuestRanges /\ memory = << >> /\ descriptors = << >>

Fail == phase' = "failed" /\ UNCHANGED <<container, next, mapped, memory, descriptors>>

\* Mutation: a missing import is refused only when it is weak.
MissingWeak == {i \in ToSet(container.imports) : i.name \notin DOMAIN Slots /\ i.weak}

\* Imports without a trap slot that are not weak.
Missing == {i \in ToSet(container.imports) : i.name \notin DOMAIN Slots /\ ~i.weak}

\* UnimplementedImport is raised before anything is mapped.
Bind ==
    /\ phase = "bind"
    /\ IF Missing # {} THEN Fail
       ELSE /\ phase' = "map"
            /\ UNCHANGED <<container, next, mapped, memory, descriptors>>

\* A section is mapped, executable ones writable too, and then written; one
\* that cannot be expanded has been mapped.
MapSection ==
    /\ phase = "map" /\ next \in DOMAIN Sections
    /\ LET size  == Sections[next].total
           perms == IF Executable(next) THEN "rwx" ELSE "rw"
           fits  == size = 0 \/ ~Overlaps(BaseOf(next), size)
       IN  IF ~fits THEN Fail
           ELSE \E image \in {SectionImage(next)} :
                /\ mapped' = IF size = 0 THEN mapped
                             ELSE mapped \union {Mapping(BaseOf(next), size, perms)}
                /\ IF size > 0 /\ ~image.ok
                   THEN phase' = "failed" /\ UNCHANGED <<next, memory>>
                   ELSE /\ memory' = Append(memory, [patches |-> << >>,
                                bytes |-> IF size = 0 THEN << >> ELSE image.bytes])
                        /\ next' = next + 1 /\ UNCHANGED phase
                /\ UNCHANGED <<container, descriptors>>

ImageSize == Max({container.size, 1})

\* The container's bytes.
MapContainer ==
    /\ phase = "map" /\ next \notin DOMAIN Sections
    /\ IF Overlaps(ImageBase, ImageSize) THEN Fail
       ELSE /\ mapped' = mapped \union {Mapping(ImageBase, ImageSize, "r")}
            /\ phase' = "describe"
            /\ UNCHANGED <<container, next, memory, descriptors>>

\* The descriptors, of which each import's holds its slot, or 0.
MapDescriptors ==
    /\ phase = "describe"
    /\ LET imports == container.imports
           size    == 8 * Len(imports)
       IN  IF size > 0 /\ Overlaps(DescriptorBase, size) THEN Fail
           ELSE /\ mapped' = IF size = 0 THEN mapped
                             ELSE mapped \union {Mapping(DescriptorBase, size, "rw")}
                /\ descriptors' = [i \in DOMAIN imports |->
                        IF imports[i].name \in DOMAIN Slots
                        THEN Slots[imports[i].name] ELSE 0]
                /\ phase' = "relocate" /\ next' = 1
                /\ UNCHANGED <<container, memory>>

Environment(i) ==
    [size    |-> Sections[i].total,
     deltas  |-> [j \in DOMAIN Sections |-> BaseOf(j) - Sections[j].default],
     imports |-> [j \in DOMAIN container.imports |-> DescriptorBase + 8 * (j - 1)]]

\* A header relocates a fresh image of its section and writes it over what
\* is there.  Its stream must be in the loader section (reloc_stream).
RelocateHeader ==
    /\ phase = "relocate" /\ next \in DOMAIN container.headers
    /\ LET header == container.headers[next]
           at     == header.section
       IN  IF at \notin DOMAIN Sections THEN Fail
           ELSE \E image \in {SectionImage(at)},
                   relocated \in {Relocated(header.words, Environment(at))} :
                IF ~image.ok \/ header.end > container.loader \/ ~relocated.ok THEN Fail
                ELSE /\ memory' = [memory EXCEPT ![at] =
                            [bytes |-> image.bytes, patches |-> relocated.patches]]
                     /\ next' = next + 1
                     /\ UNCHANGED <<container, phase, mapped, descriptors>>

\* Mutation: only code is tightened, not executable data.
ProtectedCodeOnly(m) ==
    IF \E i \in DOMAIN Sections : m.at = BaseOf(i) /\ Sections[i].kind = "code"
    THEN [m EXCEPT !.perms = "rx"] ELSE m

Protected(m) ==
    IF \E i \in DOMAIN Sections :
          m.at = BaseOf(i) /\ Sections[i].total > 0 /\ Executable(i)
    THEN [m EXCEPT !.perms = "rx"] ELSE m

Protect ==
    /\ phase = "relocate" /\ next \notin DOMAIN container.headers
    /\ mapped' = {Protected(m) : m \in mapped}
    /\ phase' = "loaded"
    /\ UNCHANGED <<container, next, memory, descriptors>>

Next ==
    \/ Bind
    \/ MapSection \/ MapContainer \/ MapDescriptors
    \/ RelocateHeader
    \/ Protect

Spec == Init /\ [][Next]_vars

-----------------------------------------------------------------------------
\* Reference: a relocation stream without repeats, in which the words before
\* each repeat are written again as often as it says.
WrittenOut(words) ==
    LET texts == Instructions(words)
        before(i) == FlattenSeq(SubSeq(texts, 1, i - 1))
        plain(i) ==
            LET text == texts[i]
                word == text[1]
            IN  IF KindOf(word) = "sm_repeat"
                THEN Again(Latest(before(i), Bits(word, 8, 4) + 1), Bits(word, 0, 8) + 1)
                ELSE IF KindOf(word) = "lg_repeat"
                THEN Again(Latest(before(i), Bits(word, 6, 4) + 1),
                           Bits(word, 0, 6) * 2^16 + text[2])
                ELSE text
    IN  FlattenSeq([i \in DOMAIN texts |-> plain(i)])

\* Reference: what the section was linked from, and zeros up to its size.
Linked(section) ==
    LET bytes == IF section.kind = "pattern_initialized_data"
                 THEN MeaningOf(section.contents) ELSE section.stored
    IN  [k \in 1 .. section.total |-> IF k <= Len(bytes) THEN bytes[k] ELSE 0]

OwnImage(i) == memory[i].bytes = Linked(Sections[i])

\* At most one section is packed, into its operations' bytes and with their
\* size, and the file holds them.
PackedOnce ==
    /\ Cardinality(PackedSections) <= 1
    /\ \A i \in PackedSections :
          /\ Sections[i].stored = StoredAs(Sections[i].contents)
          /\ Sections[i].unpacked = Len(MeaningOf(Sections[i].contents))
          /\ Sections[i].end <= container.size

\* What the linker packed can be expanded, and every section of a loaded
\* fragment holds the bytes stored or packed for it, and zeros up to its total
\* size (PEF.pidata and section_image; said of fragments with at most one
\* section of pattern-initialized data, stored whole as the format has it).
ImagesAsLinked ==
    PackedOnce =>
        /\ \A i \in PackedSections : SectionImage(i).ok
        /\ phase = "loaded" => \A i \in DOMAIN Sections : OwnImage(i)

\* "Return the materialized image of section *index*" (pef.py:384), of every
\* fragment.
ImageOfIndex == phase = "loaded" => \A i \in DOMAIN Sections : OwnImage(i)

\* A repeat does to the section, to the import counter and to the bases what
\* its block of words does when it is written out that many times: the words
\* of a loaded section are relocated as by the stream without repeats
\* (apply_relocations; said of sections with one header).
RelocatedAsWrittenOut ==
    phase = "loaded" =>
        \A i \in DOMAIN container.headers :
            LET header == container.headers[i]
                plain  == Relocated(WrittenOut(header.words),
                                    Environment(header.section))
            IN  (\A j \in DOMAIN container.headers \ {i} :
                    container.headers[j].section # header.section)
                => plain.ok /\ memory[header.section].patches = plain.patches

\* No import is called through an empty descriptor: when a fragment is loaded
\* each import that is not weak has the trap slot of its name in the
\* descriptor its relocations point to (loader.load's check of the imports).
ImportsBound ==
    phase = "loaded" =>
        \A i \in DOMAIN container.imports :
            \/ container.imports[i].weak
            \/ /\ container.imports[i].name \in DOMAIN Slots
               /\ descriptors[i] = Slots[container.imports[i].name]

\* Once loaded no code is writable, whatever kind of section it is in: the
\* writable mapping is only for the relocations (loader._map_image).
NoWritableCode == phase = "loaded" => \A m \in mapped : m.perms # "rwx"

=============================================================================
