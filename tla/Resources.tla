----------------------------- MODULE Resources -----------------------------
(***************************************************************************)
(* The chain of open resource files (ResourceChain in                      *)
(* src/src/cwhost/resources.py).  A resource is looked for in the current  *)
(* file and then in those opened before it.  A reference number is given   *)
(* again once its file is closed, and closing any file makes the file      *)
(* opened last the current one.                                            *)
(***************************************************************************)
EXTENDS Integers, Sequences, SequencesExt, FiniteSets

CONSTANTS
    ResourceFiles,  \* files that may be opened
    Strings,        \* for each whose fork parses, the length of each STR# in it
    MaxOpens        \* bound: files ever opened

ASSUME ResourcesAssumption ==
    /\ DOMAIN Strings \subseteq ResourceFiles
    /\ MaxOpens \in Nat

VARIABLES
    files,          \* _files: reference numbers, to what they name
    order,          \* _order
    current,        \* current, 0 for None
    held,           \* history: the files a client has open, in opening order
    using           \* history: which of them the client uses, 0 for none

chain == <<files, order, current, held, using>>

ChainInit ==
    /\ files = << >> /\ order = << >> /\ current = 0
    /\ held = << >> /\ using = 0

\* Mutation: the next number is counted from the open files.
NextByCount == Cardinality(DOMAIN files) + 1

NextRefnum ==
    CHOOSE n \in 1 .. MaxOpens + 1 : n \notin DOMAIN files
                                     /\ \A m \in 1 .. n - 1 : m \in DOMAIN files

\* open: a fork that cannot be parsed changes nothing.
Open(file) ==
    /\ file \in DOMAIN Strings /\ Len(held) < MaxOpens
    /\ files' = [r \in DOMAIN files \union {NextRefnum} |->
                    IF r = NextRefnum THEN file ELSE files[r]]
    /\ order' = Append(order, NextRefnum)
    /\ current' = NextRefnum
    /\ held' = Append(held, [file |-> file, ref |-> NextRefnum, open |-> TRUE])
    /\ using' = Len(held) + 1

\* use and close of the n-th file the client opened and still has.
Use(n) ==
    /\ n \in DOMAIN held /\ held[n].open
    /\ current' = held[n].ref
    /\ using' = n
    /\ UNCHANGED <<files, order, held>>

LastOpen(h) == Max({0} \union {m \in DOMAIN h : h[m].open})

Close(n) ==
    /\ n \in DOMAIN held /\ held[n].open
    /\ LET ref == held[n].ref
       IN  /\ files' = [r \in DOMAIN files \ {ref} |-> files[r]]
           /\ order' = RemoveFirst(order, ref)
           /\ current' = IF order' = << >> THEN 0 ELSE Last(order')
    /\ held' = [held EXCEPT ![n].open = FALSE]
    /\ using' = LastOpen(held')

\* get and get_ind_string: the file the STR# is found in, 0 when in none.
Found(id) ==
    IF current = 0 THEN 0
    ELSE LET upTo == {i \in 1 .. SelectInSeq(order, LAMBDA r : r = current) :
                        id \in DOMAIN Strings[files[order[i]]]}
         IN  IF upTo = {} THEN 0 ELSE order[Max(upTo)]

\* The string at index is there only when the list found holds that many: a
\* file opened earlier is not looked at.
IndString(id, index) ==
    IF Found(id) = 0 \/ index \notin 1 .. Strings[files[Found(id)]][id] THEN 0
    ELSE Found(id)

ChainNext ==
    \/ \E file \in ResourceFiles : Open(file)
    \/ \E n \in 1 .. MaxOpens : Use(n) \/ Close(n)

\* Whatever was opened, closed and used, and whichever numbers were given
\* again, a string list comes from the file used or, failing that, from the
\* one opened last of those opened before it and still open; that file is one
\* the client has open, under the number it was given (ResourceChain.open,
\* close, get and get_ind_string).
LookupOrder ==
    \A id \in UNION {DOMAIN Strings[f] : f \in DOMAIN Strings} :
        LET able == {m \in 1 .. using : held[m].open /\ id \in DOMAIN Strings[held[m].file]}
        IN  IF able = {} THEN Found(id) = 0
            ELSE /\ Found(id) = held[Max(able)].ref
                 /\ files[Found(id)] = held[Max(able)].file
                 /\ \A index \in 0 .. 3 :
                        IndString(id, index) # 0
                            <=> index \in 1 .. Strings[held[Max(able)].file][id]

=============================================================================
