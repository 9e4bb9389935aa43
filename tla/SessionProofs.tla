---------------------------- MODULE SessionProofs ----------------------------
(***************************************************************************)
(* Theorems about a session with any client and any plug-in (Session), and *)
(* about the compiler driver as its client (Compile).                      *)
(***************************************************************************)
EXTENDS Compile, TLAPS

LastEntered == entered[Len(entered)]

-----------------------------------------------------------------------------
(* Any client *)

\* The routines of the guest that each host call runs.
RoutinesOf(api) ==
    IF api = "load" THEN {"init", "flags", "targets", "mappings"}
    ELSE IF api = "request" THEN {"main"}
    ELSE IF api = "close" THEN {"main", "term"} ELSE {None}

SessionTypes ==
    /\ state \in {"new", "loaded", "initialized", "terminated"}
    /\ call \in [api   : {None, "load", "request", "close"},
                guest : {None, "init", "flags", "targets", "mappings", "main",
                         "term"}]
    /\ call.guest \in RoutinesOf(call.api)
    /\ answer \in [kind : {None, "ok"} \union Failures, value : Int]
    /\ done \in Seq(Int) /\ said \in Seq(Int)
    /\ entered \in Seq(Codes)
    /\ current \in Codes \union {None}

\* While main runs, the request it was entered with is the current one, and
\* the answer on record is the one it gave in this entry; a session is not
\* terminated before main returns.
InMain ==
    call.guest = "main" =>
        /\ entered # << >> /\ current = LastEntered
        /\ done = said /\ Len(done) <= 1
        /\ state # "terminated"
        /\ call.api = "close" => current = "terminate"

\* Nothing is terminated, and so nothing can be undone, by a load.
InLoad == call.api = "load" => state = "new"

\* What the term routine may rely on, and what close finds in a session that
\* a request of the client has terminated.
Terminated ==
    /\ call.api = "close" => ~closed
    /\ call.guest = "term" => state = "terminated"
    /\ state = "terminated" =>
        /\ entered # << >> /\ LastEntered = "terminate"
        /\ ~closed => Len(said) = 1 /\ Len(done) = 1

SessionInv == SessionTypes /\ InMain /\ InLoad /\ Terminated

LEMMA SessionInit == Init => SessionInv
  BY SessionAssumption
     DEF Init, SessionInv, SessionTypes, RoutinesOf, Failures, None, Codes,
         InMain, InLoad, Terminated

\* A host call that ends; a plug-in that answers twice ends it with more said.
LEMMA FinishKeeps ==
    ASSUME SessionInv,
           NEW api \in {"load", "request", "close"},
           NEW kind \in {"ok"} \union Failures, NEW value \in Int,
           Finish(api, kind, value),
           UNCHANGED <<state, current, done, entered>>,
           \/ said' = said
           \/ said' \in Seq(Int) /\ (state = "terminated" => api = "close")
    PROVE  SessionInv'
  BY DEF SessionInv, SessionTypes, InMain, InLoad, Terminated, Finish, RoutinesOf,
         Failures, None, LastEntered

\* main is entered: on its own by close, or with a request of the client.
LEMMA EnterMainKeeps ==
    ASSUME SessionInv, NEW api \in {"request", "close"}, NEW code \in Codes,
           state # "terminated",
           api = "close" => ~closed /\ code = "terminate",
           EnterMain(api, code)
    PROVE  SessionInv'
  <1> USE DEF SessionInv, SessionTypes, EnterMain, Enter
  <1>1. entered' \in Seq(Codes) /\ entered' # << >> /\ LastEntered' = code
    BY DEF LastEntered, Codes
  <1>2. SessionTypes'
    BY <1>1 DEF RoutinesOf, Failures, None
  <1>3. InMain'
    BY <1>1 DEF InMain
  <1>4. InLoad' /\ Terminated'
    BY DEF InLoad, Terminated
  <1> QED BY <1>2, <1>3, <1>4

\* The term routine is entered, or close ends without it.
LEMMA TermOrFinishKeeps ==
    ASSUME SessionInv, ~closed, state = "terminated", TermOrFinish,
           UNCHANGED <<state, current, done, entered, said>>
    PROVE  SessionInv'
  <1>1. CASE Finish("close", "ok", 0)
    BY <1>1, FinishKeeps
  <1>2. CASE Enter("close", "term")
    BY <1>2 DEF SessionInv, SessionTypes, InMain, InLoad, Terminated, Enter,
                RoutinesOf, None, LastEntered
  <1> QED BY <1>1, <1>2 DEF TermOrFinish

LEMMA LoadKeeps ==
    ASSUME SessionInv, Load
    PROVE  SessionInv'
  <1>1. UNCHANGED <<state, current, done, entered, said>>
    BY DEF Load
  <1>2. CASE \E kind \in Failures : Finish("load", kind, 0)
    <2>1. PICK kind \in Failures : Finish("load", kind, 0)
      BY <1>2
    <2> QED BY <1>1, <2>1, FinishKeeps DEF Failures
  <1>3. CASE state = "new" /\ (Enter("load", "init") \/ Enter("load", "flags"))
    BY <1>1, <1>3 DEF SessionInv, SessionTypes, InMain, InLoad, Terminated, Enter,
                      RoutinesOf, None, LastEntered
  <1>4. \/ \E kind \in Failures : Finish("load", kind, 0)
        \/ state = "new" /\ (Enter("load", "init") \/ Enter("load", "flags"))
    <2>1. "host" \in Failures
      BY DEF Failures
    <2> QED BY <2>1, ZenonT(30) DEF Load
  <1> QED BY <1>2, <1>3, <1>4

LEMMA LoadStepKeeps == SessionInv /\ LoadStep => SessionInv'
  BY DEF SessionInv, SessionTypes, InMain, InLoad, Terminated, LoadStep, Enter,
         Finish, Failures, None, LastEntered, RoutinesOf

LEMMA RequestKeeps ==
    ASSUME SessionInv, NEW code \in Codes, Request(code)
    PROVE  SessionInv'
  <1>1. CASE /\ Finish("request", "host", 0)
             /\ UNCHANGED <<state, current, done, entered, said>>
    BY <1>1, FinishKeeps DEF Failures
  <1>2. CASE state # "terminated" /\ EnterMain("request", code)
    BY <1>2, EnterMainKeeps
  <1> QED BY <1>1, <1>2 DEF Request

LEMMA MainReturnsKeeps == SessionInv /\ MainReturns => SessionInv'
  BY DEF SessionInv, SessionTypes, InMain, InLoad, Terminated, MainReturns, Settled,
         TermOrFinish, Enter, Finish, Failures, None, LastEntered, RoutinesOf,
         Codes

LEMMA CloseKeeps ==
    ASSUME SessionInv, Close
    PROVE  SessionInv'
  <1>1. CASE /\ ~closed /\ state = "initialized"
             /\ EnterMain("close", "terminate")
    BY <1>1, EnterMainKeeps DEF Codes
  <1>2. CASE /\ Finish("close", "ok", 0)
             /\ UNCHANGED <<state, current, done, entered, said>>
    BY <1>2, FinishKeeps
  <1>3. CASE /\ ~closed /\ state = "terminated" /\ TermOrFinish
             /\ UNCHANGED <<state, current, done, entered, said>>
    BY <1>3, TermOrFinishKeeps
  <1> QED BY <1>1, <1>2, <1>3 DEF Close

LEMMA TermReturnsKeeps == SessionInv /\ TermReturns => SessionInv'
  BY DEF SessionInv, SessionTypes, InMain, InLoad, Terminated, TermReturns, Finish,
         Failures, None, LastEntered, RoutinesOf

LEMMA PluginKeeps == SessionInv /\ Plugin => SessionInv'
  <1> SUFFICES ASSUME SessionInv, Plugin
               PROVE  SessionInv'
    OBVIOUS
  <1>1. CASE GuestRaises
    BY <1>1 DEF SessionInv, SessionTypes, InMain, InLoad, Terminated, GuestRaises,
         Finish, Failures, None, LastEntered, RoutinesOf, Idle
  <1>2. ASSUME NEW result \in Results, CWDonePluginRequest(result)
        PROVE  SessionInv'
    <2>1. result \in Int
      BY SessionAssumption
    <2>2. CASE done = << >>
      <3>1. done' = <<result>> /\ said' = Append(said, result)
            /\ UNCHANGED <<state, closed, current, call, answer, entered>>
        BY <1>2, <2>2 DEF CWDonePluginRequest
      <3>2. SessionTypes'
        BY <2>1, <3>1 DEF SessionInv, SessionTypes
      <3>3. InMain' /\ InLoad'
        BY <2>2, <3>1 DEF SessionInv, SessionTypes, InMain, InLoad, LastEntered
      <3>4. Terminated'
        BY <1>2, <2>2, <3>1 DEF SessionInv, SessionTypes, Terminated, LastEntered
      <3> QED BY <3>2, <3>3, <3>4 DEF SessionInv
    <2>3. CASE done # << >>
      <3>1. Finish(call.api, "host", 0) /\ said' = Append(said, result)
            /\ UNCHANGED <<state, current, done, entered>>
        BY <1>2, <2>3 DEF CWDonePluginRequest
      <3>2. said' \in Seq(Int)
        BY <2>1, <3>1 DEF SessionInv, SessionTypes
      <3>3. call.api \in {"load", "request", "close"}
            /\ (state = "terminated" => call.api = "close")
        BY <1>2 DEF SessionInv, SessionTypes, InMain, InLoad, RoutinesOf,
                    CWDonePluginRequest, HasContext, Idle
      <3> QED BY <3>1, <3>2, <3>3, FinishKeeps DEF Failures
    <2> QED BY <2>2, <2>3
  <1>3. CASE CWGetNamedPreferences \/ CWFreeMemHandle
    BY <1>3 DEF SessionInv, SessionTypes, InMain, InLoad, Terminated,
         CWGetNamedPreferences, CWFreeMemHandle, LastEntered
  <1>4. ASSUME NEW which \in Kinds, NEW hollow \in BOOLEAN,
               CWStoreObjectData(which, hollow)
        PROVE  SessionInv'
    BY <1>4 DEF SessionInv, SessionTypes, InMain, InLoad, Terminated,
         CWStoreObjectData, LastEntered
  <1> QED BY <1>1, <1>2, <1>3, <1>4 DEF Plugin

LEMMA SessionStep == SessionInv /\ [Next]_vars => SessionInv'
  <1> SUFFICES ASSUME SessionInv, [Next]_vars
               PROVE  SessionInv'
    OBVIOUS
  <1>1. CASE UNCHANGED vars
    BY <1>1 DEF vars, SessionInv, SessionTypes, InMain, InLoad, Terminated, LastEntered
  <1>2. CASE Load
    BY <1>2, LoadKeeps
  <1>3. ASSUME NEW code \in Codes, Request(code)
        PROVE  SessionInv'
    BY <1>3, RequestKeeps
  <1>4. CASE Close
    BY <1>4, CloseKeeps
  <1>5. CASE Returns
    BY <1>5, LoadStepKeeps, MainReturnsKeeps, TermReturnsKeeps DEF Returns
  <1>6. CASE Plugin
    BY <1>6, PluginKeeps
  <1> QED BY <1>1, <1>2, <1>3, <1>4, <1>5, <1>6 DEF Next

\* A session never leaves the inductive invariant, for any answers the plug-in
\* may give, any keys it may store and any number of requests.
THEOREM SessionInvariant == Spec => []SessionInv
  BY SessionInit, SessionStep, PTL DEF Spec

\* The term routine runs only after the plug-in has answered REQ_TERMINATE.
THEOREM TermComesLast == Spec => []TermAfterTerminate
  <1>1. SessionInv => TermAfterTerminate
    BY DEF SessionInv, SessionTypes, Terminated, TermAfterTerminate, LastEntered,
           RoutinesOf, None
  <1> QED BY <1>1, SessionInvariant, PTL

\* A step that ends a request with an answer is main's return, with the answer
\* on record.
THEOREM RequestsReturnTheAnswer == Spec => ReturnsTheAnswer
  <1>1. SessionInv /\ [Next]_vars =>
          [call.api = "request" /\ Idle' /\ answer'.kind = "ok"
             => said = <<answer'.value>> /\ ~scoped']_vars
    <2> SUFFICES ASSUME SessionInv, Next, call.api = "request", Idle',
                        answer'.kind = "ok"
                 PROVE  said = <<answer'.value>> /\ ~scoped'
      OBVIOUS
    <2>1. CASE MainReturns
      BY <2>1 DEF MainReturns, Finish, SessionInv, SessionTypes, InMain
    <2>2. CASE GuestRaises
      BY <2>2 DEF GuestRaises, Finish, Failures
    <2>3. ASSUME NEW result \in Results, CWDonePluginRequest(result)
          PROVE  FALSE
      BY <2>3 DEF CWDonePluginRequest, HasContext, Finish, Idle
    <2>4. ASSUME CWGetNamedPreferences \/ CWFreeMemHandle
                 \/ \E which \in Kinds, hollow \in BOOLEAN :
                       CWStoreObjectData(which, hollow)
          PROVE  FALSE
      BY <2>4 DEF CWGetNamedPreferences, CWFreeMemHandle, CWStoreObjectData,
                  HasContext, Idle
    <2>5. ~Load /\ ~Close /\ \A code \in Codes : ~Request(code)
      BY DEF Load, Close, Request, Idle, None
    <2>6. ~LoadStep /\ ~TermReturns
      BY DEF LoadStep, TermReturns, SessionInv, SessionTypes, RoutinesOf
    <2> QED BY <2>1, <2>2, <2>3, <2>4, <2>5, <2>6 DEF Next, Returns, Plugin
  <1> QED BY <1>1, SessionInvariant, PTL DEF Spec, ReturnsTheAnswer

\* No step takes a session out of "terminated" or enters main from there.
THEOREM TerminatedForGood == Spec => TerminateIsFinal
  <1>1. SessionInv /\ [Next]_vars =>
          [state = "terminated" => state' = "terminated" /\ entered' = entered]_vars
    <2> SUFFICES ASSUME SessionInv, Next, state = "terminated"
                 PROVE  state' = "terminated" /\ entered' = entered
      OBVIOUS
    <2>1. CASE Load \/ TermReturns \/ Plugin
      BY <2>1 DEF Load, TermReturns, Plugin, GuestRaises, CWDonePluginRequest,
                  CWGetNamedPreferences, CWFreeMemHandle, CWStoreObjectData
    <2>2. ~LoadStep /\ ~MainReturns
      BY DEF LoadStep, MainReturns, SessionInv, InLoad, InMain
    <2>3. CASE Close
      BY <2>3 DEF Close
    <2>4. ASSUME NEW code \in Codes, Request(code)
          PROVE  state' = "terminated" /\ entered' = entered
      BY <2>4 DEF Request
    <2> QED BY <2>1, <2>2, <2>3, <2>4 DEF Next, Returns
  <1> QED BY <1>1, SessionInvariant, PTL DEF Spec, TerminateIsFinal

\* The guest of an initialized session is closed with REQ_TERMINATE as the
\* last request entered, whatever was raised in it (Session.close).
THEOREM TerminatedBeforeClosed == Spec => ClosedAfterTerminate
  <1>1. SessionInv /\ [Next]_vars =>
          [~closed /\ closed' /\ state \in {"initialized", "terminated"}
             => LastEntered = "terminate"]_vars
    <2> SUFFICES ASSUME SessionInv, Next, ~closed, closed',
                        state \in {"initialized", "terminated"}
                 PROVE  LastEntered = "terminate"
      OBVIOUS
    <2>1. CASE state = "terminated"
      BY <2>1 DEF SessionInv, Terminated
    <2>2. CASE state = "initialized"
      <3>1. call.api = "close" => LastEntered = "terminate"
        BY <2>2 DEF SessionInv, SessionTypes, InMain, Terminated, RoutinesOf
      <3>2. ASSUME Returns
            PROVE  LastEntered = "terminate"
        <4>1. ~TermReturns
          BY <2>2 DEF TermReturns, SessionInv, Terminated
        <4>2. CASE LoadStep
          BY <4>2 DEF LoadStep, Enter, Finish
        <4>3. CASE MainReturns
          BY <3>1, <4>3 DEF MainReturns, TermOrFinish, Enter, Finish
        <4> QED BY <3>2, <4>1, <4>2, <4>3 DEF Returns
      <3>3. CASE Plugin
        BY <3>1, <3>3 DEF Plugin, GuestRaises, CWDonePluginRequest, Finish,
                          CWGetNamedPreferences, CWFreeMemHandle, CWStoreObjectData
      <3>4. ~Load /\ ~Close /\ \A code \in Codes : ~Request(code)
        BY <2>2 DEF Load, Close, Request, EnterMain, Enter, Finish
      <3> QED BY <3>2, <3>3, <3>4 DEF Next
    <2> QED BY <2>1, <2>2
  <1> QED BY <1>1, SessionInvariant, PTL
          DEF Spec, ClosedAfterTerminate, LastEntered

-----------------------------------------------------------------------------
(* The compiler driver as the client *)

Before    == <<"initialize">>
Compiling == <<"initialize", "compile">>
Complete  == <<"initialize", "compile", "terminate">>

Ended == answer.kind \in {"ok"} \union Failures

\* While the driver waits for a call it is that call that is in progress, or
\* it has ended.
Waits(api) == call.api \in {api, None} /\ (Idle => Ended)

Opening ==
    /\ pc = "start" => Idle /\ state = "new" /\ entered = << >>
    /\ pc = "loading" =>
        /\ Waits("load") /\ entered = << >> /\ state \in {"new", "loaded"}
        /\ (Idle => answer.kind = "ok") => fragment /\ context
        /\ Idle /\ answer.kind = "ok" => state = "loaded"
    /\ pc = "initializing" =>
        /\ Waits("request") /\ entered = Before
        /\ fragment /\ context
        /\ state \in {"loaded", "initialized"}
        /\ Idle /\ answer.kind = "ok" => state = "initialized"
    /\ pc = "compiling" =>
        Waits("request") /\ entered = Compiling /\ state = "initialized"

\* The session is not closed and nothing has come of the compilation.
Undecided ==
    pc \in {"start", "loading", "initializing", "compiling"} =>
        ~closed /\ status = NoStatus /\ raised = None

\* What the session looks like once close has been called: REQ_TERMINATE was
\* entered exactly when the plug-in had answered REQ_INITIALIZE.
Terminating ==
    /\ state \in {"new", "loaded"} => entered \in {<< >>, Before}
    /\ state \in {"initialized", "terminated"} =>
          entered \in {<<"initialize", "terminate">>, Complete}

Closing ==
    pc = "closing" =>
        /\ Waits("close") /\ Terminating
        /\ Idle => closed
        /\ ~Idle => state \in {"initialized", "terminated"}
        /\ status = 0 => /\ raised = None /\ ~empty /\ entered = Complete
                         /\ Idle /\ answer.kind = "ok" => state = "terminated"

Succeeded ==
    /\ entered = Complete /\ state = "terminated" /\ closed
    /\ status = 0 /\ raised = None /\ ~empty

Writing ==
    /\ pc \in {"writing", "typing"} => Idle /\ Succeeded
    /\ pc = "typing" => ~preprocess /\ output = "written"

Exited ==
    /\ pc # "exited" <=> exit = Running
    /\ pc = "exited" =>
        /\ Idle /\ Terminating
        /\ exit = 0 => Succeeded /\ output = IF preprocess THEN "written" ELSE "typed"

DriverInv ==
    /\ pc \in {"start", "loading", "initializing", "compiling", "closing",
               "writing", "typing", "exited"}
    /\ exit \in {Running, 0, 1, 2}
    /\ Opening /\ Undecided /\ Closing /\ Writing /\ Exited

LEMMA DriverInit == Start => SessionInv /\ DriverInv
  <1> SUFFICES ASSUME Start
               PROVE  DriverInv
    BY SessionInit DEF Start
  <1> QED BY DEF Start, Init, DriverInv, Opening, Undecided, Closing, Writing, Exited,
                 Idle, None, NoStatus, Running

\* What entering a routine, and ending a host call, do to the call and to the
\* guest.
LEMMA EnterDoes ==
    ASSUME NEW api \in {"load", "request", "close"}, NEW routine, Enter(api, routine)
    PROVE  call'.api = api /\ ~Idle' /\ (closed' <=> closed)
  BY DEF Enter, Idle, None

LEMMA FinishDoes ==
    ASSUME NEW api, NEW kind \in {"ok"} \union Failures, NEW value,
           Finish(api, kind, value)
    PROVE  /\ Idle' /\ call'.api = None /\ answer'.kind = kind /\ Ended'
           /\ closed' <=> closed \/ api = "close"
  <1>1. Idle' /\ call'.api = None /\ answer'.kind = kind
    BY DEF Finish, Idle
  <1>2. Ended'
    BY <1>1 DEF Ended, Failures
  <1>3. closed' <=> closed \/ api = "close"
    BY DEF Finish
  <1> QED BY <1>1, <1>2, <1>3

\* What a step of the plug-in, or the return of its routine, does to the host
\* call that is in progress: it goes on, or it ends.
GoesOn == ~Idle' /\ call'.api = call.api /\ (closed' <=> closed)
Ends(kind) ==
    /\ Idle' /\ call'.api = None /\ answer'.kind = kind /\ Ended'
    /\ closed' <=> closed \/ call.api = "close"

LEMMA GuestMoves ==
    ASSUME SessionInv, Returns \/ Plugin
    PROVE  /\ ~Idle
           /\ UNCHANGED <<entered, fragment, context>>
           /\ \/ GoesOn /\ state' = state
              \/ /\ GoesOn /\ state' = Settled(current)
                 /\ call.guest = "main" /\ call.api = "close"
              \/ Ends("host") /\ state' = state
              \/ Ends("other") /\ state' = state
              \/ Ends("ok") /\ call.api = "load" /\ state' = "loaded"
              \/ /\ Ends("ok") /\ state' = Settled(current)
                 /\ call.guest = "main" /\ call.api \in {"request", "close"}
              \/ Ends("ok") /\ call.guest = "term" /\ state' = state
  <1> USE DEF SessionInv, SessionTypes, RoutinesOf
  <1>1. CASE LoadStep
    <2>1. ~Idle /\ call.api = "load" /\ UNCHANGED <<entered, fragment, context>>
      BY <1>1 DEF LoadStep, Idle, None
    <2>2. \/ Enter("load", "flags") /\ state' = state
          \/ Enter("load", "targets") /\ state' = state
          \/ Enter("load", "mappings") /\ state' = state
          \/ Finish("load", "host", 0) /\ state' = state
          \/ Finish("load", "ok", 0) /\ state' = "loaded"
      BY <1>1 DEF LoadStep
    <2> QED BY <2>1, <2>2, EnterDoes, FinishDoes DEF GoesOn, Ends, Failures
  <1>2. CASE MainReturns
    <2>1. /\ ~Idle /\ call.guest = "main" /\ call.api \in {"request", "close"}
          /\ UNCHANGED <<entered, fragment, context>>
      BY <1>2 DEF MainReturns, Idle, None
    <2>2. \/ Finish(call.api, "host", 0) /\ state' = state
          \/ Finish(call.api, "ok", done[1]) /\ state' = Settled(current)
          \/ /\ Finish(call.api, "ok", 0) /\ state' = Settled(current)
          \/ /\ Enter(call.api, "term") /\ state' = Settled(current)
             /\ call.guest = "main" /\ call.api = "close"
      BY <1>2 DEF MainReturns, TermOrFinish
    <2> QED BY <2>1, <2>2, EnterDoes, FinishDoes DEF GoesOn, Ends, Failures
  <1>3. CASE TermReturns
    <2>1. /\ ~Idle /\ call.guest = "term" /\ call.api = "close" /\ state' = state
          /\ UNCHANGED <<entered, fragment, context>>
      BY <1>3 DEF TermReturns, Idle, None
    <2>2. Finish("close", "ok", 0) \/ Finish("close", "host", 0)
      BY <1>3 DEF TermReturns
    <2> QED BY <2>1, <2>2, FinishDoes DEF GoesOn, Ends, Failures
  <1>4. ASSUME NEW result \in Results, CWDonePluginRequest(result)
        PROVE  /\ ~Idle /\ state' = state /\ UNCHANGED <<entered, fragment, context>>
               /\ GoesOn \/ Ends("host")
    <2>1. ~Idle /\ state' = state /\ UNCHANGED <<entered, fragment, context>>
      BY <1>4 DEF CWDonePluginRequest, HasContext
    <2>2. CASE UNCHANGED <<closed, call>>
      BY <2>1, <2>2 DEF GoesOn, Idle
    <2>3. CASE Finish(call.api, "host", 0)
      BY <2>1, <2>3, FinishDoes DEF Ends, Failures
    <2> QED BY <1>4, <2>2, <2>3 DEF CWDonePluginRequest
  <1>5. ASSUME CWGetNamedPreferences \/ CWFreeMemHandle
        PROVE  /\ ~Idle /\ state' = state /\ UNCHANGED <<entered, fragment, context>>
               /\ GoesOn
    <2>1. /\ ~Idle /\ state' = state /\ UNCHANGED <<entered, fragment, context>>
          /\ UNCHANGED <<call, closed>>
      BY <1>5 DEF CWGetNamedPreferences, CWFreeMemHandle, HasContext
    <2> QED BY <2>1 DEF GoesOn, Idle
  <1>6. ASSUME NEW which \in Kinds, NEW hollow \in BOOLEAN,
               CWStoreObjectData(which, hollow)
        PROVE  /\ ~Idle /\ state' = state /\ UNCHANGED <<entered, fragment, context>>
               /\ GoesOn
    <2>1. /\ ~Idle /\ state' = state /\ UNCHANGED <<entered, fragment, context>>
          /\ UNCHANGED <<call, closed>>
      BY <1>6 DEF CWStoreObjectData, HasContext
    <2> QED BY <2>1 DEF GoesOn, Idle
  <1>7. Plugin => /\ ~Idle /\ UNCHANGED <<entered, fragment, context>>
                  /\ \/ GoesOn /\ state' = state
                     \/ Ends("host") /\ state' = state
                     \/ Ends("other") /\ state' = state
    <2>1. CASE GuestRaises
      <3>1. ~Idle /\ state' = state /\ UNCHANGED <<entered, fragment, context>>
        BY <2>1 DEF GuestRaises
      <3>2. Finish(call.api, "host", 0) \/ Finish(call.api, "other", 0)
        BY <2>1 DEF GuestRaises, Failures
      <3> QED BY <3>1, <3>2, FinishDoes DEF Ends, Failures
    <2> QED BY <2>1, <1>4, <1>5, <1>6 DEF Plugin
  <1> QED BY <1>1, <1>2, <1>3, <1>7 DEF Returns

\* The driver waits while the plug-in runs: the call it waits for goes on, or
\* ends and leaves the state the driver expects of it.
LEMMA GuestKeeps ==
    ASSUME SessionInv, DriverInv, Returns \/ Plugin, UNCHANGED driver
    PROVE  DriverInv'
  <1>1. UNCHANGED <<pc, status, empty, raised, preprocess, output, exit>>
    BY DEF driver
  <1>2. pc \in {"loading", "initializing", "compiling", "closing"}
    BY GuestMoves DEF DriverInv, Opening, Writing, Exited
  <1>3. /\ GoesOn \/ Ends("host") \/ Ends("other") \/ Ends("ok")
        /\ UNCHANGED <<entered, fragment, context>>
    BY GuestMoves
  <1>4. /\ call'.api \in {call.api, None} /\ (Idle' => Ended')
        /\ closed' <=> closed \/ (Idle' /\ call.api = "close")
    BY <1>3, GuestMoves DEF GoesOn, Ends
  <1>5. CASE pc = "loading"
    <2>1. call.api = "load"
      BY <1>5, GuestMoves DEF DriverInv, Opening, Waits, Idle
    <2>2. state' \in {"new", "loaded"} /\ (Idle' /\ answer'.kind = "ok" => state' = "loaded")
      BY <1>5, <2>1, GuestMoves DEF DriverInv, Opening, SessionInv, SessionTypes,
            RoutinesOf, GoesOn, Ends
    <2>3. fragment' /\ context'
      BY <1>3, <1>5, GuestMoves DEF DriverInv, Opening
    <2>4. Waits("load")' /\ entered' = << >>
      BY <1>3, <1>4, <1>5, <2>1 DEF DriverInv, Opening, Waits
    <2>5. ~closed' /\ status' = NoStatus /\ raised' = None
      BY <1>1, <1>4, <1>5, <2>1 DEF DriverInv, Undecided
    <2> QED BY <1>1, <1>5, <2>2, <2>3, <2>4, <2>5
            DEF DriverInv, Opening, Undecided, Closing, Writing, Exited
  <1>6. CASE pc \in {"initializing", "compiling"}
    <2>1. call.api = "request"
      BY <1>6, GuestMoves DEF DriverInv, Opening, Waits, Idle
    <2>2. \/ state' = state /\ ~(Idle' /\ answer'.kind = "ok")
          \/ state' = Settled(LastEntered)
      BY <2>1, GuestMoves DEF SessionInv, SessionTypes, RoutinesOf, InMain, GoesOn, Ends
    <2>3. Waits("request")' /\ UNCHANGED <<entered, fragment, context>>
      BY <1>3, <1>4, <2>1 DEF Waits
    <2>4. ~closed' /\ status' = NoStatus /\ raised' = None
      BY <1>1, <1>4, <1>6, <2>1 DEF DriverInv, Undecided
    <2>5. CASE pc = "initializing"
      <3>1. LastEntered = "initialize"
        <4>1. entered = Before
          BY <2>5 DEF DriverInv, Opening
        <4>2. Before[Len(Before)] = "initialize"
          BY DEF Before
        <4> QED BY <4>1, <4>2 DEF LastEntered
      <3>2. Opening'
        BY <1>1, <2>2, <2>3, <2>5, <3>1 DEF DriverInv, Opening, Settled, Before
      <3> QED BY <1>1, <2>4, <2>5, <3>2
              DEF DriverInv, Undecided, Closing, Writing, Exited
    <2>6. CASE pc = "compiling"
      <3>1. LastEntered = "compile"
        <4>1. entered = Compiling
          BY <2>6 DEF DriverInv, Opening
        <4>2. Compiling[Len(Compiling)] = "compile"
          BY DEF Compiling
        <4> QED BY <4>1, <4>2 DEF LastEntered
      <3>2. Opening'
        BY <1>1, <2>2, <2>3, <2>6, <3>1 DEF DriverInv, Opening, Settled, Compiling
      <3> QED BY <1>1, <2>4, <2>6, <3>2
              DEF DriverInv, Undecided, Closing, Writing, Exited
    <2> QED BY <1>6, <2>5, <2>6
  <1>7. CASE pc = "closing"
    <2>1. call.api = "close" /\ state \in {"initialized", "terminated"}
      BY <1>7, GuestMoves DEF DriverInv, Closing, Waits, Idle
    <2>2. Settled("terminate") = "terminated"
      BY DEF Settled
    <2>3. /\ state' \in {state, "terminated"}
          /\ Idle' /\ answer'.kind = "ok" => state' = "terminated"
      BY <2>1, <2>2, GuestMoves
         DEF SessionInv, SessionTypes, RoutinesOf, InMain, Terminated, GoesOn, Ends
    <2>4. Waits("close")' /\ Terminating' /\ (Idle' => closed')
      BY <1>3, <1>4, <1>7, <2>1, <2>3 DEF DriverInv, Closing, Waits, Terminating
    <2>5. Closing'
      BY <1>1, <1>3, <1>7, <2>1, <2>3, <2>4 DEF DriverInv, Closing
    <2> QED BY <1>1, <1>7, <2>5 DEF DriverInv, Opening, Undecided, Writing, Exited
  <1> QED BY <1>2, <1>5, <1>6, <1>7

\* Load, from the start of the driver.
LEMMA LoadMoves ==
    ASSUME Load, state = "new"
    PROVE  /\ UNCHANGED <<state, entered>>
           /\ closed' <=> closed
           /\ call'.api \in {"load", None} /\ (Idle' => Ended' /\ answer'.kind # "ok")
           /\ (Idle' => answer'.kind = "ok") => fragment' /\ context'
  <1>1. UNCHANGED <<state, entered>>
    BY DEF Load
  <1>2. \/ Finish("load", "host", 0) \/ Finish("load", "other", 0)
        \/ /\ Enter("load", "init") \/ Enter("load", "flags")
           /\ context' = TRUE /\ fragment' = TRUE
    BY DEF Load, Failures
  <1>3. CASE Finish("load", "host", 0) \/ Finish("load", "other", 0)
    BY <1>1, <1>3, FinishDoes DEF Failures
  <1>4. CASE /\ Enter("load", "init") \/ Enter("load", "flags")
             /\ context' = TRUE /\ fragment' = TRUE
    BY <1>1, <1>4, EnterDoes
  <1> QED BY <1>2, <1>3, <1>4

\* A request on a session that takes it.
LEMMA RequestMoves ==
    ASSUME NEW code \in Codes, Request(code), fragment, context, state # "terminated"
    PROVE  /\ UNCHANGED <<state, fragment, context>>
           /\ closed' <=> closed
           /\ call'.api = "request" /\ ~Idle'
           /\ entered' = Append(entered, code)
  <1>1. EnterMain("request", code)
    BY DEF Request
  <1>2. /\ Enter("request", "main") /\ UNCHANGED <<state, fragment, context>>
        /\ entered' = Append(entered, code)
    BY <1>1 DEF EnterMain
  <1> QED BY <1>2, EnterDoes

\* Close, on a session that is neither closed nor terminated.
LEMMA CloseMoves ==
    ASSUME SessionInv, Close, ~closed, state # "terminated"
    PROVE  /\ UNCHANGED <<state, fragment, context>>
           /\ \/ /\ state = "initialized" /\ ~Idle' /\ call'.api = "close"
                 /\ entered' = Append(entered, "terminate")
              \/ /\ state \in {"new", "loaded"} /\ Idle' /\ Ended' /\ closed'
                 /\ call'.api = None /\ entered' = entered
  <1>1. \/ EnterMain("close", "terminate") /\ state = "initialized"
        \/ /\ Finish("close", "ok", 0) /\ state \in {"new", "loaded"}
           /\ UNCHANGED <<state, fragment, context, entered>>
    BY DEF Close
  <1>2. CASE EnterMain("close", "terminate") /\ state = "initialized"
    <2>1. /\ Enter("close", "main") /\ UNCHANGED <<state, fragment, context>>
          /\ entered' = Append(entered, "terminate")
      BY <1>2 DEF EnterMain
    <2> QED BY <1>2, <2>1, EnterDoes
  <1>3. CASE /\ Finish("close", "ok", 0) /\ state \in {"new", "loaded"}
             /\ UNCHANGED <<state, fragment, context, entered>>
    BY <1>3, FinishDoes
  <1> QED BY <1>1, <1>2, <1>3

LEMMA Histories ==
    /\ Before = Append(<< >>, "initialize")
    /\ Compiling = Append(Before, "compile")
    /\ Complete = Append(Compiling, "terminate")
    /\ <<"initialize", "terminate">> = Append(Before, "terminate")
  BY DEF Before, Compiling, Complete

\* The driver leaves the try: close is called on a session it has not closed.
LEMMA LeaveKeeps ==
    ASSUME SessionInv, DriverInv, Close,
           pc \in {"loading", "initializing", "compiling"}, pc' = "closing",
           UNCHANGED <<preprocess, output, exit>>,
           status' = 0 => raised' = None /\ ~empty' /\ pc = "compiling"
    PROVE  DriverInv'
  <1>1. ~closed /\ state # "terminated"
    BY DEF DriverInv, Undecided, Opening
  <1>2. Waits("close")' /\ (Idle' => closed')
        /\ (~Idle' => state' \in {"initialized", "terminated"})
    BY <1>1, CloseMoves DEF Waits
  <1>3. Terminating'
    <2>1. CASE state \in {"new", "loaded"}
      <3>1. entered \in {<< >>, Before}
        BY <2>1 DEF DriverInv, Opening
      <3> QED BY <1>1, <2>1, <3>1, CloseMoves DEF Terminating
    <2>2. CASE state = "initialized"
      <3>1. entered \in {Before, Compiling}
        BY <2>2 DEF DriverInv, Opening
      <3>2. entered' = Append(entered, "terminate") /\ state' = "initialized"
        BY <1>1, <2>2, CloseMoves
      <3> QED BY <3>1, <3>2, Histories DEF Terminating
    <2> QED BY <1>1, <2>1, <2>2 DEF SessionInv, SessionTypes
  <1>4. ASSUME status' = 0
        PROVE  raised' = None /\ ~empty' /\ entered' = Complete /\ ~Idle'
    <2>1. pc = "compiling" /\ raised' = None /\ ~empty'
      BY <1>4
    <2>2. entered = Compiling /\ state = "initialized"
      BY <2>1 DEF DriverInv, Opening
    <2>3. entered' = Append(entered, "terminate") /\ ~Idle'
      BY <1>1, <2>2, CloseMoves
    <2> QED BY <2>1, <2>2, <2>3, Histories
  <1>5. Closing'
    BY <1>2, <1>3, <1>4 DEF Closing
  <1> QED BY <1>5 DEF DriverInv, Opening, Undecided, Writing, Exited

LEMMA PrepareKeeps ==
    ASSUME SessionInv, DriverInv, Prepare
    PROVE  DriverInv'
  <1>1. /\ pc = "start" /\ UNCHANGED <<status, empty, preprocess, output>>
        /\ Idle /\ state = "new" /\ entered = << >> /\ exit = Running
        /\ ~closed /\ status = NoStatus /\ raised = None
    BY DEF Prepare, DriverInv, Opening, Undecided, Exited
  <1>2. CASE /\ UNCHANGED vars /\ pc' = "exited" /\ exit' \in {1, 2}
    <2>1. UNCHANGED <<state, entered, closed>> /\ Idle'
      BY <1>1, <1>2 DEF vars, Idle
    <2>2. Terminating'
      BY <1>1, <2>1 DEF Terminating
    <2> QED BY <1>1, <1>2, <2>1, <2>2
            DEF DriverInv, Opening, Undecided, Closing, Writing, Exited, Running
  <1>3. CASE Load /\ pc' = "loading" /\ UNCHANGED <<raised, exit>>
    <2>1. Opening'
      BY <1>1, <1>3, LoadMoves DEF Opening, Waits
    <2>2. ~closed' /\ status' = NoStatus /\ raised' = None
      BY <1>1, <1>3, LoadMoves
    <2> QED BY <1>1, <1>3, <2>1, <2>2
            DEF DriverInv, Undecided, Closing, Writing, Exited
  <1> QED BY <1>2, <1>3 DEF Prepare, Exits, Calls, Failures

LEMMA UnwindKeeps ==
    ASSUME SessionInv, DriverInv, Unwind
    PROVE  DriverInv'
  <1> QED BY LeaveKeeps DEF Unwind, Leave, Calls, NoStatus

LEMMA LoadedKeeps ==
    ASSUME SessionInv, DriverInv, Loaded
    PROVE  DriverInv'
  <1>1. CASE Leave("host", NoStatus, TRUE)
    BY <1>1, LeaveKeeps DEF Loaded, Leave, Calls, NoStatus
  <1>2. CASE /\ Request("initialize") /\ pc' = "initializing"
             /\ UNCHANGED <<status, empty, raised>>
    <2>1. /\ pc = "loading" /\ state = "loaded" /\ fragment /\ context
          /\ entered = << >>
          /\ UNCHANGED <<preprocess, output, exit>>
      BY DEF Loaded, DriverInv, Opening
    <2>2. /\ UNCHANGED <<state, fragment, context>> /\ (closed' <=> closed)
          /\ call'.api = "request" /\ ~Idle' /\ entered' = Before
      BY <1>2, <2>1, RequestMoves, Histories DEF Codes
    <2>3. ~closed' /\ status' = NoStatus /\ raised' = None
      BY <1>2, <2>1, <2>2 DEF DriverInv, Undecided
    <2>4. Opening'
      BY <1>2, <2>1, <2>2 DEF Opening, Waits
    <2> QED BY <1>2, <2>1, <2>3, <2>4
            DEF DriverInv, Undecided, Closing, Writing, Exited
  <1> QED BY <1>1, <1>2 DEF Loaded, Calls

LEMMA InitializedKeeps ==
    ASSUME SessionInv, DriverInv, Initialized
    PROVE  DriverInv'
  <1>1. CASE answer.value # 0 /\ Leave(None, answer.value, TRUE)
    BY <1>1, LeaveKeeps DEF Initialized, Leave, Calls
  <1>2. CASE /\ Request("compile") /\ pc' = "compiling"
             /\ UNCHANGED <<status, empty, raised>>
    <2>1. /\ pc = "initializing" /\ state = "initialized" /\ fragment /\ context
          /\ entered = Before
          /\ UNCHANGED <<preprocess, output, exit>>
      BY DEF Initialized, DriverInv, Opening
    <2>2. /\ UNCHANGED <<state, fragment, context>> /\ (closed' <=> closed)
          /\ call'.api = "request" /\ ~Idle' /\ entered' = Compiling
      BY <1>2, <2>1, RequestMoves, Histories DEF Codes
    <2>3. ~closed' /\ status' = NoStatus /\ raised' = None
      BY <1>2, <2>1, <2>2 DEF DriverInv, Undecided
    <2>4. Opening'
      BY <1>2, <2>1, <2>2 DEF Opening, Waits
    <2> QED BY <1>2, <2>1, <2>3, <2>4
            DEF DriverInv, Undecided, Closing, Writing, Exited
  <1> QED BY <1>1, <1>2 DEF Initialized, Calls

LEMMA CompiledKeeps ==
    ASSUME SessionInv, DriverInv, Compiled
    PROVE  DriverInv'
  <1>1. CASE Leave("host", NoStatus, TRUE)
    BY <1>1, LeaveKeeps DEF Compiled, Leave, Calls, NoStatus
  <1>2. CASE (answer.value = 0 => ~NoOutput) /\ Leave(None, answer.value, NoOutput)
    BY <1>2, LeaveKeeps DEF Compiled, Leave, Calls
  <1> QED BY <1>1, <1>2 DEF Compiled

LEMMA ClosedKeeps ==
    ASSUME SessionInv, DriverInv, Closed
    PROVE  DriverInv'
  <1>1. /\ pc = "closing" /\ Idle /\ closed /\ exit = Running
        /\ Terminating /\ Waits("close")
        /\ UNCHANGED <<status, empty, preprocess, output>>
    BY DEF Closed, DriverInv, Closing, Exited
  <1>2. UNCHANGED <<state, entered, closed>> /\ Idle' /\ Terminating'
    BY <1>1 DEF Closed, vars, Idle, Terminating
  <1>3. CASE pc' = "exited" /\ exit' \in {1, 2}
    BY <1>1, <1>2, <1>3
       DEF DriverInv, Opening, Undecided, Closing, Writing, Exited, Running
  <1>4. CASE /\ pc' = "writing" /\ exit' = exit /\ raised' = None /\ status = 0
             /\ raised = None /\ answer.kind = "ok"
    <2>1. Succeeded'
      BY <1>1, <1>2, <1>4 DEF DriverInv, Closing, Succeeded
    <2> QED BY <1>1, <1>2, <1>4, <2>1
            DEF DriverInv, Opening, Undecided, Closing, Writing, Exited
  <1>5. answer.kind \in {"ok"} \union Failures
    BY <1>1 DEF Waits, Ended
  <1> QED BY <1>3, <1>4, <1>5 DEF Closed, Exits, Failures, None

LEMMA WriteDataForkKeeps ==
    ASSUME SessionInv, DriverInv, WriteDataFork
    PROVE  DriverInv'
  <1>1. /\ Idle /\ Succeeded /\ exit = Running
        /\ UNCHANGED <<status, empty, preprocess>>
    BY DEF WriteDataFork, DriverInv, Writing, Exited
  <1>2. UNCHANGED <<state, entered, closed>> /\ Idle'
    BY <1>1 DEF WriteDataFork, vars, Idle
  <1>3. Terminating'
    BY <1>1, <1>2 DEF Succeeded, Terminating
  <1>4. CASE pc' = "exited" /\ exit' = 2
    BY <1>1, <1>2, <1>3, <1>4
       DEF DriverInv, Opening, Undecided, Closing, Writing, Exited, Running
  <1>5. CASE /\ output' = "written" /\ raised' = raised
             /\ \/ preprocess /\ exit' = 0 /\ pc' = "exited"
                \/ ~preprocess /\ pc' = "typing" /\ exit' = exit
    <2>1. Succeeded'
      BY <1>1, <1>2, <1>5 DEF Succeeded
    <2> QED BY <1>1, <1>2, <1>3, <1>5, <2>1
            DEF DriverInv, Opening, Undecided, Closing, Writing, Exited, Running
  <1> QED BY <1>4, <1>5 DEF WriteDataFork, Exits

LEMMA SetTypeCreatorKeeps ==
    ASSUME SessionInv, DriverInv, SetTypeCreator
    PROVE  DriverInv'
  <1>1. /\ Idle /\ Succeeded /\ exit = Running /\ ~preprocess
        /\ UNCHANGED <<status, empty, preprocess>>
    BY DEF SetTypeCreator, DriverInv, Writing, Exited
  <1>2. UNCHANGED <<state, entered, closed>> /\ Idle'
    BY <1>1 DEF SetTypeCreator, vars, Idle
  <1>3. Terminating'
    BY <1>1, <1>2 DEF Succeeded, Terminating
  <1>4. CASE pc' = "exited" /\ exit' = 2
    BY <1>1, <1>2, <1>3, <1>4
       DEF DriverInv, Opening, Undecided, Closing, Writing, Exited, Running
  <1>5. CASE output' = "typed" /\ exit' = 0 /\ pc' = "exited" /\ raised' = raised
    <2>1. Succeeded'
      BY <1>1, <1>2, <1>5 DEF Succeeded
    <2> QED BY <1>1, <1>2, <1>3, <1>5, <2>1
            DEF DriverInv, Opening, Undecided, Closing, Writing, Exited, Running
  <1> QED BY <1>4, <1>5 DEF SetTypeCreator, Exits

LEMMA DriverStep == SessionInv /\ DriverInv /\ [CompileNext]_compileVars => DriverInv'
  <1> SUFFICES ASSUME SessionInv, DriverInv, [CompileNext]_compileVars
               PROVE  DriverInv'
    OBVIOUS
  <1>1. CASE Driver
    BY <1>1, PrepareKeeps, UnwindKeeps, LoadedKeeps, InitializedKeeps, CompiledKeeps,
       ClosedKeeps, WriteDataForkKeeps, SetTypeCreatorKeeps DEF Driver
  <1>2. CASE (Returns \/ Plugin) /\ UNCHANGED driver
    BY <1>2, GuestKeeps
  <1>3. CASE UNCHANGED compileVars
    <2>1. /\ UNCHANGED <<state, fragment, context, closed, call, answer, entered>>
          /\ UNCHANGED <<pc, status, empty, raised, preprocess, output, exit>>
      BY <1>3 DEF compileVars, vars, driver
    <2>2. Opening'
      BY <2>1 DEF DriverInv, Opening, Waits, Idle, Ended
    <2>3. Undecided' /\ Exited'
      BY <2>1 DEF DriverInv, Undecided, Exited, Terminating, Succeeded, Idle
    <2>4. Closing' /\ Writing'
      BY <2>1 DEF DriverInv, Closing, Writing, Waits, Terminating, Succeeded, Idle, Ended
    <2> QED BY <2>1, <2>2, <2>3, <2>4 DEF DriverInv
  <1> QED BY <1>1, <1>2, <1>3 DEF CompileNext

LEMMA ClientStep == [CompileNext]_compileVars => [Next]_vars
  <1> SUFFICES ASSUME CompileNext
               PROVE  Next \/ UNCHANGED vars
    BY DEF compileVars
  <1>1. "initialize" \in Codes /\ "compile" \in Codes
    BY DEF Codes
  <1>2. CASE Driver
    <2>1. Unwind \/ Compiled => Close
      BY DEF Unwind, Compiled, Leave
    <2>2. Prepare => Load \/ UNCHANGED vars
      BY DEF Prepare
    <2>3. /\ Loaded => Close \/ Request("initialize")
          /\ Initialized => Close \/ Request("compile")
      BY DEF Loaded, Initialized, Leave
    <2>4. Closed \/ WriteDataFork \/ SetTypeCreator => UNCHANGED vars
      BY DEF Closed, WriteDataFork, SetTypeCreator
    <2>5. Load \/ Close \/ Request("initialize") \/ Request("compile") => Next
      BY <1>1 DEF Next
    <2> QED BY <1>2, <2>1, <2>2, <2>3, <2>4, <2>5 DEF Driver
  <1> QED BY <1>2 DEF CompileNext, Next

\* cwcc's driver uses a session as any client may: its steps are steps of
\* Session, so what is proved of Session's every client holds of the driver
\* (api.py:80-106, cli/cwcc.py:174-218).
THEOREM DriverIsAClient == CompileSpec => Spec
  <1>1. Start => Init
    BY DEF Start
  <1> QED BY <1>1, ClientStep, PTL DEF CompileSpec, Spec

\* What the driver knows of its session at each place in its code: the
\* invariant the theorems below rest on (api.py:80-106, cli/cwcc.py:174-218).
THEOREM DriverInvariant == CompileSpec => []DriverInv
  <1>1. Start => DriverInv
    BY DriverInit
  <1> QED BY <1>1, DriverStep, DriverIsAClient, SessionInvariant, PTL DEF CompileSpec

\* Exit code 0 means that the plug-in answered REQ_COMPILE with 0 and then
\* REQ_TERMINATE, that nothing was raised and that the output is complete
\* (api.py:80-106, cli/cwcc.py:174-218).
THEOREM SuccessMeansComplete == CompileSpec => []SuccessIsComplete
  <1>1. DriverInv => SuccessIsComplete
    BY DEF DriverInv, Exited, Succeeded, Complete, Running, SuccessIsComplete
  <1> QED BY <1>1, DriverInvariant, PTL

\* Of every plug-in: it sees initialize first and terminate last, once, and
\* by the time the process has ended it has seen terminate exactly when it
\* has answered initialize (session.py:460-509, api.py:80-106).
THEOREM ProtocolKept == CompileSpec => []PluginProtocol
  <1>1. ASSUME SessionInv, DriverInv
        PROVE  PluginProtocol
    <2>1. \/ entered \in {<< >>, Before, Compiling}
          \/ entered \in {<<"initialize", "terminate">>, Complete}
      <3>1. CASE pc \in {"start", "loading", "initializing", "compiling"}
        BY <1>1, <3>1 DEF DriverInv, Opening
      <3>2. CASE pc \in {"closing", "exited"}
        BY <1>1, <3>2 DEF SessionInv, SessionTypes, DriverInv, Closing, Exited, Terminating
      <3>3. CASE pc \in {"writing", "typing"}
        BY <1>1, <3>3 DEF DriverInv, Writing, Succeeded
      <3> QED BY <1>1, <3>1, <3>2, <3>3 DEF DriverInv
    <2>2. ASSUME exit # Running, state # "new"
          PROVE  state \in {"initialized", "terminated"}
                   <=> "terminate" \in {entered[i] : i \in DOMAIN entered}
      <3>1. Terminating /\ state \in {"loaded", "initialized", "terminated"}
        BY <1>1, <2>2 DEF SessionInv, SessionTypes, DriverInv, Exited
      <3>2. CASE state = "loaded"
        BY <3>1, <3>2 DEF Terminating, Before
      <3>3. CASE state \in {"initialized", "terminated"}
        <4>1. entered \in {<<"initialize", "terminate">>, Complete}
          BY <3>1, <3>3 DEF Terminating
        <4>2. \E i \in DOMAIN entered : entered[i] = "terminate"
          BY <4>1 DEF Complete
        <4> QED BY <3>3, <4>2
      <3> QED BY <3>1, <3>2, <3>3
    <2> QED BY <2>1, <2>2 DEF PluginProtocol, Before, Compiling, Complete
  <1> QED BY <1>1, DriverInvariant, DriverIsAClient, SessionInvariant, PTL

\* The output file is touched only once the compilation has succeeded and its
\* session is closed (cli/cwcc.py:174-205).
THEOREM OutputComesAfterSuccess == CompileSpec => OutputOnlyAfterSuccess
  <1>1. ASSUME DriverInv, [CompileNext]_compileVars, output' # output
        PROVE  closed /\ status = 0 /\ raised = None /\ state = "terminated"
    <2>1. ~UNCHANGED driver
      BY <1>1 DEF driver
    <2>2. WriteDataFork \/ SetTypeCreator
      BY <1>1, <2>1 DEF compileVars, CompileNext, Driver, Prepare, Unwind, Loaded,
                        Initialized, Compiled, Closed
    <2> QED BY <1>1, <2>2 DEF WriteDataFork, SetTypeCreator, DriverInv, Writing, Succeeded
  <1> QED BY <1>1, DriverInvariant, PTL DEF CompileSpec, OutputOnlyAfterSuccess

\* Once the guest is closed no routine of it is entered again
\* (session.py:493-509, api.py:80-106).
THEOREM ClosedForGood == CompileSpec => NothingAfterClose
  <1>1. ASSUME SessionInv, DriverInv, [CompileNext]_compileVars, closed
        PROVE  UNCHANGED call
    <2>1. pc \in {"closing", "writing", "typing", "exited"}
      BY <1>1 DEF DriverInv, Undecided
    <2>2. Idle
      BY <1>1, <2>1 DEF SessionInv, Terminated, DriverInv, Closing, Waits, Writing, Exited,
                        Idle
    <2>3. ~Returns /\ ~Plugin
      BY <1>1, <2>2, GuestMoves
    <2>4. ~Prepare /\ ~Unwind /\ ~Loaded /\ ~Initialized /\ ~Compiled
      BY <2>1 DEF Prepare, Unwind, Loaded, Initialized, Compiled
    <2>5. UNCHANGED vars
      BY <1>1, <2>3, <2>4 DEF CompileNext, Driver, compileVars, Closed, WriteDataFork,
                              SetTypeCreator
    <2> QED BY <2>5 DEF vars
  <1> QED BY <1>1, DriverInvariant, DriverIsAClient, SessionInvariant, PTL
          DEF CompileSpec, NothingAfterClose

=============================================================================
