------------------------------ MODULE Session ------------------------------
(***************************************************************************)
(* A plug-in session (src/src/cwhost/session.py): load, request and close  *)
(* called by the host, and what the plug-in's code may do while one of     *)
(* them has it running.  A host call that runs the plug-in is several      *)
(* steps: the plug-in's callbacks happen between its entry and its return, *)
(* and any of them may raise.  Which host calls are made, and in which     *)
(* order, is left to the client here; module Compile is the client that    *)
(* api.compile and cwcc are.                                               *)
(***************************************************************************)
EXTENDS Integers, Sequences

CONSTANTS
    Results,        \* values the plug-in may answer; 0 is cwNoErr
    Kinds,          \* keys of session.objects (or of session.texts)
    MaxRequests     \* bound: entries into the plug-in's main routine

ASSUME SessionAssumption ==
    /\ Results \subseteq Int /\ 0 \in Results
    /\ MaxRequests \in Nat

VARIABLES
    routines,       \* optional entry points of the fragment: "init", "term"
    state,          \* _state
    fragment,       \* fragment is not None
    context,        \* ctx_ptr is not None
    closed,         \* _closed, and guest.close has run
    current,        \* _current
    done,           \* _done and _done_count: the answers recorded, 0 or 1
    scoped,         \* some request-scoped CWMemHandle is alive
    objects,        \* the dict of stored objects, in insertion order
    call,           \* the host call in progress and the guest routine it runs
    answer,         \* what the last host call returned or raised
    entered,        \* history: requests the plug-in's main was entered with
    said            \* history: answers the plug-in gave in this entry

vars == <<routines, state, fragment, context, closed, current, done, scoped,
          objects, call, answer, entered, said>>

Codes == {"initialize", "compile", "terminate"}
None  == "none"

Idle == call.api = None

\* "host" is an exception cwcc's main handles (HostError and its subclasses,
\* ValueError, OSError); "other" is one it does not: the emulator's UcError
\* on a bad access of the guest, an error in a shim, KeyboardInterrupt.
Failures == {"host", "other"}

-----------------------------------------------------------------------------
Init ==
    /\ routines \in SUBSET {"init", "term"}
    /\ state = "new"
    /\ fragment = FALSE /\ context = FALSE /\ closed = FALSE
    /\ current = None /\ done = << >>
    /\ scoped = FALSE
    /\ objects = << >>
    /\ call = [api |-> None, guest |-> None]
    /\ answer = [kind |-> None, value |-> 0]
    /\ entered = << >> /\ said = << >>

\* Mutation: close closes the guest before it runs anything in it.
EnterClosing(api, routine) ==
    /\ call' = [api |-> api, guest |-> routine]
    /\ answer' = [kind |-> None, value |-> 0]
    /\ closed' = (closed \/ api = "close")

\* The host calls api, and the guest is entered at routine.
Enter(api, routine) ==
    /\ call' = [api |-> api, guest |-> routine]
    /\ answer' = [kind |-> None, value |-> 0]
    /\ UNCHANGED closed

\* Mutation: close closes the guest only when nothing was raised.
FinishWithoutFinally(api, kind, value) ==
    /\ call' = [api |-> None, guest |-> None]
    /\ answer' = [kind |-> kind, value |-> value]
    /\ closed' = (closed \/ (api = "close" /\ kind = "ok"))

\* The host call api ends.  close always closes the guest on its way out.
Finish(api, kind, value) ==
    /\ call' = [api |-> None, guest |-> None]
    /\ answer' = [kind |-> kind, value |-> value]
    /\ closed' = (closed \/ api = "close")

-----------------------------------------------------------------------------
(* load *)

\* Between the loader and the first query: the resource fork, then the init
\* routine when there is one.
Load ==
    /\ Idle
    /\ \/ /\ state # "new"
          /\ Finish("load", "host", 0)
          /\ UNCHANGED <<fragment, context>>
       \/ /\ state = "new"
          /\ \/ \* The trace file, or the loader: it cannot map the sections
                \* a second time.
                /\ \E kind \in Failures : Finish("load", kind, 0)
                /\ context' \in {context, TRUE}
                /\ UNCHANGED fragment
             \/ /\ ~fragment
                /\ context' = TRUE /\ fragment' = TRUE
                /\ \/ Finish("load", "host", 0)     \* no resource fork
                   \/ /\ "init" \in routines
                      /\ Enter("load", "init")
                   \/ /\ "init" \notin routines
                      /\ Enter("load", "flags")
    /\ UNCHANGED <<routines, state, current, done, scoped, objects, entered,
                   said>>

\* The init routine and the three queries return.
LoadStep ==
    /\ call.api = "load"
    /\ \/ /\ call.guest = "init"
          /\ Enter("load", "flags") \/ Finish("load", "host", 0)
          /\ UNCHANGED state
       \/ /\ call.guest = "flags"
          /\ Enter("load", "targets") \/ Finish("load", "host", 0)
          /\ UNCHANGED state
       \/ /\ call.guest = "targets"
          /\ Enter("load", "mappings")
          /\ UNCHANGED state
       \/ /\ call.guest = "mappings"
          /\ state' = "loaded"
          /\ Finish("load", "ok", 0)
    /\ UNCHANGED <<routines, fragment, context, current, done, scoped, objects,
                   entered, said>>

-----------------------------------------------------------------------------
(* request *)

\* Mutation: the answer of the request before is not forgotten.
EnterMainKeepingAnswer(api, code) ==
    /\ current' = code
    /\ Enter(api, "main")
    /\ entered' = Append(entered, code)
    /\ said' = << >>
    /\ UNCHANGED <<routines, state, fragment, context, scoped, objects, done>>

\* The guest's main routine is entered with a request.
EnterMain(api, code) ==
    /\ current' = code
    /\ done' = << >>
    /\ Enter(api, "main")
    /\ entered' = Append(entered, code)
    /\ said' = << >>
    /\ UNCHANGED <<routines, state, fragment, context, scoped, objects>>

\* Mutation: a terminated session takes requests too.
RequestAlways(code) ==
    /\ Idle
    /\ fragment /\ context
    /\ Len(entered) < MaxRequests
    /\ EnterMain("request", code)

Request(code) ==
    /\ Idle
    /\ \/ /\ ~(fragment /\ context) \/ state = "terminated"
          /\ Finish("request", "host", 0)
          /\ UNCHANGED <<routines, state, fragment, context, current, done,
                         scoped, objects, entered, said>>
       \/ /\ fragment /\ context /\ state # "terminated"
          /\ Len(entered) < MaxRequests
          /\ EnterMain("request", code)

\* The state a request that was answered leaves the session in.
Settled(code) ==
    CASE code = "initialize" -> "initialized"
      [] code = "terminate"  -> "terminated"
      [] OTHER               -> state

\* close, once the session is terminated: the term routine, if there is one.
TermOrFinish ==
    IF "term" \in routines THEN Enter("close", "term")
                           ELSE Finish("close", "ok", 0)

\* main returns.  Without exactly one answer it is an error that leaves
\* _current and the CWMemHandles as they are; close only gets here from its
\* own REQ_TERMINATE.
MainReturns ==
    /\ call.guest = "main"
    /\ \/ /\ Len(done) # 1
          /\ Finish(call.api, "host", 0)
          /\ UNCHANGED <<state, current, scoped>>
       \/ /\ Len(done) = 1
          /\ scoped' = FALSE
          /\ state' = Settled(current)
          /\ current' = None
          /\ IF call.api = "close" THEN TermOrFinish
                                   ELSE Finish(call.api, "ok", done[1])
    /\ UNCHANGED <<routines, fragment, context, done, objects, entered, said>>

-----------------------------------------------------------------------------
(* close *)

\* Mutations: the term routine runs on a session that was never initialized;
\* REQ_TERMINATE is not sent.
CloseTermAlways ==
    /\ Idle /\ ~closed
    /\ \/ /\ state = "initialized"
          /\ EnterMain("close", "terminate")
       \/ /\ state # "initialized"
          /\ TermOrFinish
          /\ UNCHANGED <<routines, state, fragment, context, current, done,
                         scoped, objects, entered, said>>
CloseWithoutRequest ==
    /\ Idle /\ ~closed
    /\ IF state \in {"initialized", "terminated"}
       THEN TermOrFinish ELSE Finish("close", "ok", 0)
    /\ UNCHANGED <<routines, state, fragment, context, current, done,
                   scoped, objects, entered, said>>

Close ==
    /\ Idle
    /\ \/ /\ ~closed /\ state = "initialized"
          /\ EnterMain("close", "terminate")
       \/ /\ \/ closed /\ Finish("close", "ok", 0)
             \/ ~closed /\ state \in {"new", "loaded"} /\ Finish("close", "ok", 0)
             \/ ~closed /\ state = "terminated" /\ TermOrFinish
          /\ UNCHANGED <<routines, state, fragment, context, current, done,
                         scoped, objects, entered, said>>

\* The term routine returns; a result other than 0 is an error.
TermReturns ==
    /\ call.guest = "term"
    /\ \E kind \in {"ok", "host"} : Finish("close", kind, 0)
    /\ UNCHANGED <<routines, state, fragment, context, current, done, scoped,
                   objects, entered, said>>

-----------------------------------------------------------------------------
(* What the plug-in does while it runs *)

\* The exception unwinds to the host call, which it ends.
GuestRaises ==
    /\ ~Idle
    /\ \E kind \in Failures : Finish(call.api, kind, 0)
    /\ UNCHANGED <<routines, state, fragment, context, current, done, scoped,
                   objects, entered, said>>

\* Callbacks need the context, which main is given; the plug-in may keep it
\* for the term routine.
HasContext == ~Idle /\ entered # << >>

\* A second answer to the same request raises.
CWDonePluginRequest(result) ==
    /\ HasContext
    /\ \/ /\ done = << >>
          /\ done' = <<result>>
          /\ UNCHANGED <<closed, call, answer>>
       \/ /\ done # << >>
          /\ Finish(call.api, "host", 0)
          /\ UNCHANGED done
    /\ said' = Append(said, result)
    /\ UNCHANGED <<routines, state, fragment, context, current, scoped, objects,
                   entered>>

\* CWGetNamedPreferences hands out a request-scoped CWMemHandle.
CWGetNamedPreferences ==
    /\ HasContext
    /\ ~scoped
    /\ scoped' = TRUE
    /\ UNCHANGED <<routines, state, fragment, context, closed, current, done,
                   objects, call, answer, entered, said>>

CWFreeMemHandle ==
    /\ HasContext
    /\ scoped
    /\ scoped' = FALSE
    /\ UNCHANGED <<routines, state, fragment, context, closed, current, done,
                   objects, call, answer, entered, said>>

\* session.objects[which] = data, or session.texts[name] = data: a key keeps
\* its place in the dict, a new one goes last.  Of the data only their being
\* empty matters.
Entry(which, empty) == [which |-> which, empty |-> empty]

CWStoreObjectData(which, empty) ==
    LET at == {i \in DOMAIN objects : objects[i].which = which}
    IN  /\ HasContext
        /\ objects' = IF at = {} THEN Append(objects, Entry(which, empty))
                      ELSE [i \in DOMAIN objects |->
                              IF i \in at THEN Entry(which, empty)
                                          ELSE objects[i]]
        /\ UNCHANGED <<routines, state, fragment, context, closed, current, done,
                       scoped, call, answer, entered, said>>

Plugin ==
    \/ GuestRaises
    \/ \E result \in Results : CWDonePluginRequest(result)
    \/ CWGetNamedPreferences
    \/ CWFreeMemHandle
    \/ \E which \in Kinds, empty \in BOOLEAN : CWStoreObjectData(which, empty)

\* The routine the plug-in was entered at returns.
Returns == LoadStep \/ MainReturns \/ TermReturns

Next ==
    \/ Load
    \/ \E code \in Codes : Request(code)
    \/ Close
    \/ Returns
    \/ Plugin

Spec == Init /\ [][Next]_vars

-----------------------------------------------------------------------------
(* Properties *)

\* A request that returns gives its caller the one answer the plug-in gave
\* in that very request, and the CWMemHandles of the request, or of one that
\* failed before it, are gone (session.py:160-166, 471-491).
ReturnsTheAnswer ==
    [][call.api = "request" /\ Idle' /\ answer'.kind = "ok"
         => said = <<answer'.value>> /\ ~scoped']_vars

\* Once the plug-in has answered REQ_TERMINATE its main routine is never
\* entered again, whatever the client calls (session.py:474-475, 489).
TerminateIsFinal ==
    [][state = "terminated" => state' = "terminated" /\ entered' = entered]_vars

\* The term routine runs only after the plug-in has answered REQ_TERMINATE,
\* which no later request followed (session.py:497-504).
TermAfterTerminate ==
    call.guest = "term" =>
        /\ entered # << >> /\ entered[Len(entered)] = "terminate"
        /\ Len(said) = 1

\* The guest of a session on which the plug-in was initialized is closed only
\* after REQ_TERMINATE was entered, by close or before it by the client, as the
\* last request (session.py:493-509).
ClosedAfterTerminate ==
    [][~closed /\ closed' /\ state \in {"initialized", "terminated"}
         => entered[Len(entered)] = "terminate"]_vars
=============================================================================
