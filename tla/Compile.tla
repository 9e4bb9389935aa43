------------------------------ MODULE Compile ------------------------------
(***************************************************************************)
(* One run of the compiler driver: cwcc's main and run (cli/cwcc.py) and   *)
(* api.compile, as the client of a Session.  The driver makes one session  *)
(* call at a time and decides the next from its answer; the plug-in steps  *)
(* in between.  The model follows the exception that is propagating, the   *)
(* result that is returned, the output file and the exit code.             *)
(***************************************************************************)
EXTENDS Session

VARIABLES
    pc,             \* what the driver does next, or waits for
    status,         \* the status of the CompileResult, once there is one
    empty,          \* its output has no bytes
    raised,         \* the exception that is propagating
    preprocess,     \* --preprocess: text instead of an object
    output,         \* the output file
    exit            \* exit code of the process, Running until it ends

driver      == <<pc, status, empty, raised, preprocess, output, exit>>
compileVars == <<vars, driver>>

NoStatus == -1
Running  == -1

Start ==
    /\ Init
    /\ pc = "start"
    /\ status = NoStatus
    /\ empty = TRUE
    /\ raised = None
    /\ preprocess \in BOOLEAN
    /\ output = "before"
    /\ exit = Running

\* The exit code of an exception: main turns those it handles into 2; the
\* others end the interpreter, or are KeyboardInterrupt, with 1.
Exits(kind) == exit' = (IF kind = "host" THEN 2 ELSE 1) /\ pc' = "exited"

\* The driver's next session call, under way until the session is idle again.
Calls(step) == pc' = step

-----------------------------------------------------------------------------
(* api.compile *)

\* Arguments, configuration, source and panels are checked before there is a
\* session.
Prepare ==
    /\ pc = "start"
    /\ \/ /\ \E kind \in Failures : raised' = kind /\ Exits(kind)
          /\ UNCHANGED vars
       \/ /\ Load
          /\ Calls("loading")
          /\ UNCHANGED <<raised, exit>>
    /\ UNCHANGED <<status, empty, preprocess, output>>

\* finally: session.close().  kind is the exception that leaves the try.
Leave(kind, newStatus, newEmpty) ==
    /\ Close
    /\ Calls("closing")
    /\ raised' = kind
    /\ status' = newStatus
    /\ empty' = newEmpty

\* Mutation: the exception leaves without the session being closed.
UnwindOnly ==
    /\ pc \in {"loading", "initializing", "compiling"}
    /\ Idle /\ answer.kind \in Failures
    /\ raised' = answer.kind /\ Exits(answer.kind)
    /\ UNCHANGED <<vars, status, empty, preprocess, output>>

Unwind ==
    /\ pc \in {"loading", "initializing", "compiling"}
    /\ Idle /\ answer.kind \in Failures
    /\ Leave(answer.kind, NoStatus, TRUE)
    /\ UNCHANGED <<preprocess, output, exit>>

\* The trace file of enable_block_trace may not open.
Loaded ==
    /\ pc = "loading"
    /\ Idle /\ answer.kind = "ok"
    /\ \/ Leave("host", NoStatus, TRUE)
       \/ /\ Request("initialize")
          /\ Calls("initializing")
          /\ UNCHANGED <<status, empty, raised>>
    /\ UNCHANGED <<preprocess, output, exit>>

Initialized ==
    /\ pc = "initializing"
    /\ Idle /\ answer.kind = "ok"
    /\ \/ answer.value # 0 /\ Leave(None, answer.value, TRUE)
       \/ /\ answer.value = 0
          /\ Request("compile")
          /\ Calls("compiling")
          /\ UNCHANGED <<status, empty, raised>>
    /\ UNCHANGED <<preprocess, output, exit>>

\* next(reversed(objects.values()), None): the key inserted last.
NoOutput == objects = << >> \/ objects[Len(objects)].empty

\* Mutation: the output is written before the session is closed.
CompiledWritesFirst ==
    /\ pc = "compiling"
    /\ Idle /\ answer.kind = "ok"
    /\ status' = answer.value
    /\ empty' = NoOutput
    /\ IF answer.value = 0 /\ ~NoOutput
       THEN pc' = "writing" /\ UNCHANGED <<raised, exit>>
       ELSE raised' = "host" /\ Exits("host")
    /\ UNCHANGED <<vars, preprocess, output>>

Compiled ==
    /\ pc = "compiling"
    /\ Idle /\ answer.kind = "ok"
    /\ IF answer.value = 0 /\ NoOutput
       THEN Leave("host", NoStatus, TRUE)
       ELSE Leave(None, answer.value, NoOutput)
    /\ UNCHANGED <<preprocess, output, exit>>

-----------------------------------------------------------------------------
(* cwcc.run and main *)

\* Mutation: what close raised is forgotten.
ClosedQuietly ==
    /\ pc = "closing"
    /\ Idle
    /\ \/ raised # None /\ Exits(raised)
       \/ /\ raised = None /\ status # 0
          /\ exit' = 1 /\ pc' = "exited"
       \/ /\ raised = None /\ status = 0
          /\ pc' = "writing"
          /\ UNCHANGED exit
    /\ UNCHANGED <<vars, status, empty, raised, preprocess, output>>

\* close is done.  An exception of its own replaces the one, or the result,
\* that was on its way.
Closed ==
    /\ pc = "closing"
    /\ Idle
    /\ LET kind == IF answer.kind \in Failures THEN answer.kind ELSE raised
       IN  /\ raised' = kind
           /\ \/ kind # None /\ Exits(kind)
              \/ /\ kind = None /\ status # 0
                 /\ exit' = 1 /\ pc' = "exited"
              \/ /\ kind = None /\ status = 0
                 /\ pc' = "writing"
                 /\ UNCHANGED exit
    /\ UNCHANGED <<vars, status, empty, preprocess, output>>

\* _write_output: make the directory, write the data fork, set the type.
\* A write that fails may have truncated the file.
WriteDataFork ==
    /\ pc = "writing"
    /\ \/ /\ output' \in {"before", "truncated"}
          /\ raised' = "host" /\ Exits("host")
       \/ /\ output' = "written"
          /\ UNCHANGED raised
          /\ IF preprocess THEN exit' = 0 /\ pc' = "exited"
                           ELSE pc' = "typing" /\ UNCHANGED exit
    /\ UNCHANGED <<vars, status, empty, preprocess>>

SetTypeCreator ==
    /\ pc = "typing"
    /\ \/ /\ raised' = "host" /\ Exits("host")
          /\ UNCHANGED output
       \/ /\ output' = "typed"
          /\ exit' = 0 /\ pc' = "exited"
          /\ UNCHANGED raised
    /\ UNCHANGED <<vars, status, empty, preprocess>>

Driver ==
    \/ Prepare \/ Unwind \/ Loaded \/ Initialized \/ Compiled
    \/ Closed \/ WriteDataFork \/ SetTypeCreator

\* The plug-in runs only inside the session call the driver is waiting for.
CompileNext ==
    \/ Driver
    \/ Returns /\ UNCHANGED driver
    \/ Plugin /\ UNCHANGED driver

\* The host always takes its next step, and the routines of the plug-in
\* return: no timeout is set on a guest call, so this is assumed of the guest.
Fairness == WF_compileVars(Driver) /\ WF_compileVars(Returns /\ UNCHANGED driver)

CompileSpec == Start /\ [][CompileNext]_compileVars /\ Fairness

-----------------------------------------------------------------------------
(* Properties *)

\* Exit code 0 means what a build relies on: the plug-in answered
\* REQ_COMPILE with 0 and then REQ_TERMINATE, nothing was raised by anyone on
\* the way, and the output file is complete (api.py:80-106, cwcc.py:174-218).
SuccessIsComplete ==
    exit = 0 =>
        /\ entered = <<"initialize", "compile", "terminate">>
        /\ state = "terminated" /\ closed
        /\ status = 0 /\ raised = None
        /\ ~empty
        /\ output = IF preprocess THEN "written" ELSE "typed"

\* The output file of an earlier build is touched only once this compilation
\* has succeeded and its session is closed: a failure, a crash of the plug-in
\* in REQ_TERMINATE included, leaves it alone (api.py:80-106, cwcc.py:200).
OutputOnlyAfterSuccess ==
    [][output' # output
         => closed /\ status = 0 /\ raised = None /\ state = "terminated"]_compileVars

\* The requests the plug-in sees: initialize first, terminate last and once,
\* nothing after it; and it sees terminate, or the process is still running,
\* exactly when it has answered initialize.
PluginProtocol ==
    /\ entered \in { << >>, <<"initialize">>,
                     <<"initialize", "terminate">>,
                     <<"initialize", "compile">>,
                     <<"initialize", "compile", "terminate">> }
    /\ exit # Running /\ state # "new" =>
          (state \in {"initialized", "terminated"}
             <=> "terminate" \in {entered[i] : i \in DOMAIN entered})

\* Every run ends, with the guest closed if there was one: no path of
\* failures, in load, in a request or in close itself, gets stuck.
EventuallyExits == <>(exit # Running /\ (context => closed))

\* Once the guest is closed nothing runs in it again.
NothingAfterClose == [][closed => UNCHANGED call]_compileVars
=============================================================================
