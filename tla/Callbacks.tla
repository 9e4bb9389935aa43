----------------------------- MODULE Callbacks -----------------------------
(***************************************************************************)
(* The callbacks of the plug-in that give it memory or an identifier to    *)
(* keep: texts, file ids, license tokens, secret preferences and encoder   *)
(* tokens (src/src/cwhost/pluginlib.py, session.py and carbon/text.py).    *)
(* Their memory is the scratch range of the guest, which is given out from *)
(* one end and never taken back.  String lists come from module Resources. *)
(* A callback that is refused, because its context or an argument is not   *)
(* valid or the scratch range is used up, raises.                          *)
(***************************************************************************)
EXTENDS Resources

CONSTANTS
    Files,          \* files whose text may be asked for, to their lengths
    MainFile,       \* session.files[0]
    Panels,         \* preference panels, to their sizes
    Cookies,        \* the plug-in's license-cookie slots
    ScratchSize     \* bound: bytes of the scratch range

ASSUME CallbacksAssumption ==
    /\ MainFile \in DOMAIN Files
    /\ \A f \in DOMAIN Files : Files[f] \in Nat
    /\ \A p \in DOMAIN Panels : Panels[p] \in Nat
    /\ ScratchSize \in Nat

VARIABLES
    scratch,        \* _scratch
    blocks,         \* history: the ranges alloc gave out
    texts,          \* _text_buffers
    fileIds,        \* _file_ids
    secrets,        \* _secret_words
    licenses,       \* _license_tokens
    infos,          \* text_infos
    given           \* history: the answers the plug-in was given

vars == <<chain, scratch, blocks, texts, fileIds, secrets, licenses, infos, given>>
callbacks == <<scratch, blocks, texts, fileIds, secrets, licenses, infos, given>>

AlignUp(n, align) == ((n + align - 1) \div align) * align

\* Mutation: the next block begins after this one's size, not after its end.
EndUnaligned(from, size, align) == from + size

\* Where the range given out for a request ends, the first byte being aligned.
EndOf(from, size, align) == AlignUp(from, align) + Max({size, 1})

\* Guest.alloc on a heap: its first free byte, and the blocks given out so
\* far, in order.
After(heap, size, align) ==
    [next |-> EndOf(heap.next, size, align),
     got  |-> Append(heap.got, [at   |-> AlignUp(heap.next, align),
                                size |-> Max({size, 1})])]

Now == [next |-> scratch, got |-> blocks]
Fits(heap) == heap.next <= ScratchSize
Alloc(heap) == Fits(heap) /\ scratch' = heap.next /\ blocks' = heap.got

\* A word of the guest, and where it is.
Word(heap)   == After(heap, 4, 4)
WordAt(heap) == AlignUp(heap.next, 4)

\* load: the context, the init block and the plug-in's name, and then a word
\* or two for each of its queries.
Loaded ==
    LET named == After(After(After([next |-> 0, got |-> << >>], 64, 4), 36, 4), 13, 1)
    IN  Word(Word(Word(Word(named))))

Give(kind, key, value) ==
    given' = given \union {[kind |-> kind, key |-> key, value |-> value]}

WithEntry(f, key, value) ==
    [k \in DOMAIN f \union {key} |-> IF k = key THEN value ELSE f[k]]

-----------------------------------------------------------------------------
\* The session is loaded, with the plug-in's own resource file open.
Init ==
    /\ ChainInit
    /\ scratch = Loaded.next /\ blocks = Loaded.got
    /\ texts = {} /\ infos = {} /\ given = {}
    /\ fileIds = << >> /\ secrets = << >> /\ licenses = << >>

\* _text_pointer: the text and the NUL after it.
TextPointer(file) ==
    /\ Alloc(After(Now, Files[file] + 1, 4))
    /\ texts' = texts \union {AlignUp(scratch, 4)}

CWGetMainFileText ==
    /\ TextPointer(MainFile)
    /\ UNCHANGED <<chain, fileIds, secrets, licenses, infos, given>>

\* The main file's id is 0, whichever file _file_id gives that id.
CWGetMainFileID ==
    /\ Give("main", MainFile, 0)
    /\ UNCHANGED <<chain, scratch, blocks, texts, fileIds, secrets, licenses, infos>>

\* Mutation: an id is the number of answers given before.
IdByGiven(file) == Cardinality(given)

\* _file_id: files are numbered from 0 in the order they are first asked for.
FileId(file) ==
    IF file \in DOMAIN fileIds THEN fileIds[file]
    ELSE Cardinality(DOMAIN fileIds)

\* The file that is found; the search is in module Include.
CWFindAndLoadFile(file) ==
    /\ TextPointer(file)
    /\ fileIds' = WithEntry(fileIds, file, FileId(file))
    /\ Give("file", file, FileId(file))
    /\ UNCHANGED <<chain, secrets, licenses, infos>>

\* A pointer that was not given, or was released, is ignored.
CWReleaseFileText(pointer) ==
    /\ texts' = texts \ {pointer}
    /\ UNCHANGED <<chain, scratch, blocks, fileIds, secrets, licenses, infos, given>>

\* _secret_pointer: the panel's bytes and a word that points to them, made
\* once.
PanelBytes(panel) == After(Now, Max({1, Panels[panel]}), 4)

NewSecret(panel) ==
    /\ panel \notin DOMAIN secrets
    /\ Alloc(Word(PanelBytes(panel)))
    /\ secrets' = WithEntry(secrets, panel, WordAt(PanelBytes(panel)))
    /\ Give("secret", panel, WordAt(PanelBytes(panel)))

\* The panel's bytes get their block, and then there is no room for the word:
\* the callback raises and the block stays given out.
SecretHalfway(panel) ==
    /\ panel \notin DOMAIN secrets
    /\ ~Fits(Word(PanelBytes(panel)))
    /\ Alloc(PanelBytes(panel))
    /\ UNCHANGED <<secrets, given>>

OldSecret(panel) ==
    /\ panel \in DOMAIN secrets
    /\ Give("secret", panel, secrets[panel])
    /\ UNCHANGED <<scratch, blocks, secrets>>

CWSecretGetNamedPreferences(panel) ==
    /\ NewSecret(panel) \/ SecretHalfway(panel) \/ OldSecret(panel)
    /\ UNCHANGED <<chain, texts, fileIds, licenses, infos>>

\* One token for each cookie slot of the plug-in.
CWCheckoutLicense(cookie) ==
    /\ IF cookie \in DOMAIN licenses
       THEN /\ Give("license", cookie, licenses[cookie])
            /\ UNCHANGED <<scratch, blocks, licenses>>
       ELSE /\ Alloc(Word(Now))
            /\ licenses' = WithEntry(licenses, cookie, WordAt(Now))
            /\ Give("license", cookie, WordAt(Now))
    /\ UNCHANGED <<chain, texts, fileIds, secrets, infos>>

CreateUnicodeToTextInfo ==
    /\ Alloc(Word(Now))
    /\ infos' = infos \union {WordAt(Now)}
    /\ UNCHANGED <<chain, texts, fileIds, secrets, licenses, given>>

\* A token that is not there is ignored, and one that was disposed of is
\* refused by ConvertFromUnicodeToText, which changes nothing here.
DisposeUnicodeToTextInfo(token) ==
    /\ infos' = infos \ {token}
    /\ UNCHANGED <<chain, scratch, blocks, texts, fileIds, secrets, licenses, given>>

Callback ==
    \/ CWGetMainFileText
    \/ CWGetMainFileID
    \/ \E file \in DOMAIN Files : CWFindAndLoadFile(file)
    \/ \E pointer \in texts : CWReleaseFileText(pointer)
    \/ \E panel \in DOMAIN Panels : CWSecretGetNamedPreferences(panel)
    \/ \E cookie \in Cookies : CWCheckoutLicense(cookie)
    \/ CreateUnicodeToTextInfo
    \/ \E token \in infos : DisposeUnicodeToTextInfo(token)

Next ==
    \/ Callback
    \/ ChainNext /\ UNCHANGED callbacks

Spec == Init /\ [][Next]_vars

-----------------------------------------------------------------------------
\* No two things the host gives the plug-in share a byte of the scratch
\* range, whatever was released in between, and what is given next will share
\* none with them (Guest.alloc and its callers).
ScratchApart ==
    \A i, j \in DOMAIN blocks :
        /\ blocks[i].at + blocks[i].size <= scratch
        /\ i < j => blocks[i].at + blocks[i].size <= blocks[j].at

\* The first file found was the main one, or none was found.
MainFoundFirst == \A file \in DOMAIN fileIds : fileIds[file] = 0 => file = MainFile

\* An identifier means the same for the whole session: the plug-in gets the
\* same id for a file it finds, word for a panel and token for a cookie slot
\* each time it asks ("one stable, opaque guest token per slot",
\* pluginlib.py:304), and never one that means something else of that kind.
\* CWGetMainFileID's 0 agrees with the ids of the files found when the main
\* file was the first of them: otherwise 0 is another file's id too, and the
\* main file gets a second one when it is found (session.py:237-240).
AnswersStable ==
    /\ \A a, b \in given : a.kind = b.kind => (a.key = b.key <=> a.value = b.value)
    /\ MainFoundFirst =>
          \A a, b \in given :
             a.kind = "main" /\ b.kind = "file" => (a.key = b.key <=> a.value = b.value)

=============================================================================
