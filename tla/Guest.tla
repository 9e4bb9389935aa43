------------------------------- MODULE Guest -------------------------------
(***************************************************************************)
(* Calls into the guest (src/src/cwhost/guest.py): Guest.call runs a       *)
(* routine of the plug-in, whose calls of imports trap into host handlers, *)
(* which may themselves call the guest.  Every activation shares the one   *)
(* set of registers.  A routine is named by its descriptor (tvector); a    *)
(* code address is a routine and the number of imports it has called, or   *)
(* the trap slot every call returns to.                                    *)
(*                                                                         *)
(* setjmp_shim and longjmp_shim, which no import is bound to, are not      *)
(* modelled; nor is the trace file, only that tracing defers every trap.   *)
(***************************************************************************)
EXTENDS Integers, Sequences, SequencesExt, FiniteSets

CONSTANTS
    Routines,       \* descriptors of routines that can be called
    Tiny,           \* those that return to lr without having saved it
    Imports,        \* imports with a handler
    Inline,         \* those whose handler is bound inline (leaf handlers)
    Signature,      \* the argument types each handler asks args for
    MaxDepth,       \* bound: activations at one time
    MaxImports      \* bound: imports one activation calls

Guest == "guest"        \* in place of an import: no handler, the guest executes

ASSUME GuestAssumption ==
    /\ Guest \notin Imports
    /\ Tiny \subseteq Routines
    /\ Inline \subseteq Imports
    /\ Signature \in [Imports -> Seq({"word", "long", "double"})]
    /\ {MaxDepth, MaxImports} \subseteq Nat

VARIABLES
    frames,         \* the runs in progress: one local state of call and run each
    regs,           \* lr, r12, whose activation the others are, who wrote r3
    pc,             \* where the guest executes when no handler runs
    tracing,        \* trace is not None
    returned        \* how the last call ended

vars == <<frames, regs, pc, tracing, returned>>

Slot == <<"__return__", 0>>
Code(tv, n) == <<tv, n>>
Top == frames[Len(frames)]
InGuest == frames # << >> /\ Top.at = Guest
InHandler == frames # << >> /\ Top.at # Guest
SetTop(frame) == frames' = [frames EXCEPT ![Len(frames)] = frame]

-----------------------------------------------------------------------------
(* args: where the values of a signature are read.  A word is a register   *)
(* number, a floating-point register or an offset from r1.                 *)

ReadWord(w) == IF w < 8 THEN <<"gpr", 3 + w>> ELSE <<"stack", 24 + 4 * w>>

\* Mutation: a long that begins in a register ends in the one after.
SecondWordBeside(w) ==
    IF w < 8 THEN <<"gpr", 4 + w>> ELSE <<"stack", 28 + 4 * w>>

\* The low half of a long, which may be the first word on the stack.
SecondWord(w) == ReadWord(w + 1)

\* What has been read: the values, and how many words and doubles they took.
ArgsStep(read, type) ==
    IF type = "double"
    THEN [values |-> Append(read.values, <<<<"fpr", 1 + read.float>>>>),
          word |-> read.word + 2, float |-> read.float + 1]
    ELSE IF type = "long"
    THEN [values |-> Append(read.values,
                            <<ReadWord(read.word), SecondWord(read.word)>>),
          word |-> read.word + 2, float |-> read.float]
    ELSE [values |-> Append(read.values, <<ReadWord(read.word)>>),
          word |-> read.word + 1, float |-> read.float]

NothingRead == [values |-> << >>, word |-> 0, float |-> 0]

\* The loop over the types: read after each, then after the last.
Args(signature) ==
    LET read[n \in 0 .. Len(signature)] ==
            IF n = 0 THEN NothingRead ELSE ArgsStep(read[n - 1], signature[n])
    IN  read[Len(signature)].values

\* Reference: the caller lays the arguments out as one array of words from
\* r1 + 24; the first eight travel in r3 to r10, a double in the next
\* floating-point register, and each keeps its words of the array.
Passed(signature) ==
    LET size(i)  == IF signature[i] = "word" THEN 1 ELSE 2
        start(i) == i - 1 + Cardinality({j \in 1 .. i - 1 : signature[j] # "word"})
        place(w) == IF w \in 0 .. 7 THEN <<"gpr", 3 + w>>
                    ELSE <<"stack", 56 + 4 * (w - 8)>>
        doubles(i) == Cardinality({j \in 1 .. i : signature[j] = "double"})
    IN  [i \in DOMAIN signature |->
            IF signature[i] = "double" THEN <<<<"fpr", doubles(i)>>>>
            ELSE [n \in 1 .. size(i) |-> place(start(i) + n - 1)]]

-----------------------------------------------------------------------------
HostRegs == [lr |-> Slot, r12 |-> "host", home |-> 0, r3 |-> 0]
NotReturned == [kind |-> "none", by |-> 0, depth |-> 0, timed |-> FALSE]

Init ==
    /\ frames = << >> /\ regs = HostRegs /\ pc = Slot
    /\ tracing \in BOOLEAN          \* enable_trace runs before the first call
    /\ returned = NotReturned

\* A handler that is bound inline runs within emu_start, unless tracing.
Deferred(import) == tracing \/ import \notin Inline

\* call, from the host or from the handler of an import.
CanCall == frames = << >> \/ (InHandler /\ Top.at \notin Inline)

Call(tv, timed) ==
    /\ CanCall /\ Len(frames) < MaxDepth
    /\ frames' = Append(frames, [tv |-> tv, saved |-> regs, timed |-> timed,
                                 at |-> Guest, oldLr |-> Slot, tail |-> FALSE])
    /\ regs' = [lr |-> Slot, r12 |-> tv, home |-> Len(frames) + 1, r3 |-> 0]
    /\ pc' = Code(tv, 0)
    /\ returned' = NotReturned
    /\ UNCHANGED tracing

\* The descriptor cannot be read: call raises before it changes a register.
CallUnreadable ==
    /\ CanCall /\ Len(frames) < MaxDepth
    /\ returned' = [NotReturned EXCEPT !.kind = "raised", !.depth = Len(frames) + 1]
    /\ UNCHANGED <<frames, regs, pc, tracing>>

\* Mutation: only a normal return restores the caller's registers.
LeaveWithoutFinally(kind, result) ==
    /\ frames' = Front(frames)
    /\ regs' = IF kind = "ok" THEN Top.saved ELSE result
    /\ pc' = Slot
    /\ returned' = [kind |-> kind, by |-> result.r3, depth |-> Len(frames),
                    timed |-> Top.timed]

\* The innermost call ends, its result in the r3 of the registers given.
Leave(kind, result) ==
    /\ frames' = Front(frames)
    /\ regs' = Top.saved
    /\ pc' = Slot
    /\ returned' = [kind |-> kind, by |-> result.r3, depth |-> Len(frames),
                    timed |-> Top.timed]

\* Mutation: r12 is the descriptor of the outermost call.
OutermostDescriptor == frames[1].tv

\* _call_tvectors[-1]
CallersDescriptor == Top.tv

\* Where a routine that ends goes: a routine with a frame has kept the lr it
\* was called with, a tiny one has only the register.
Home == IF Top.tv \in Tiny THEN regs.lr ELSE Slot

\* The guest jumps to an import, with the address to come back to in lr.
EnterImport(import, lr, tail) ==
    /\ InGuest /\ pc[2] < MaxImports
    /\ SetTop([Top EXCEPT !.at = import, !.oldLr = lr, !.tail = tail])
    /\ regs' = [regs EXCEPT !.lr = lr, !.r12 = CallersDescriptor]
    /\ pc' = Slot
    /\ returned' = NotReturned
    /\ UNCHANGED tracing

Import(import) == EnterImport(import, Code(pc[1], pc[2] + 1), FALSE)

\* The last thing a routine does may be an import it jumps to.
TailImport(import) == EnterImport(import, Home, TRUE)

\* Mutation: lr keeps the continuation of the import.
LrUnchanged == regs.lr

\* run, after a deferred handler: an lr the handler left alone becomes the
\* return slot.
LrAfterHandler ==
    IF Deferred(Top.at) /\ regs.lr = Top.oldLr THEN Slot ELSE regs.lr

\* Mutation: run looks for the return slot in the lr it has just set.
NextAfterSetLr == LrAfterHandler

\* Where the guest goes on: the lr from before that.
NextAfterHandler == regs.lr

HandlerReturns ==
    /\ InHandler
    /\ LET result == [regs EXCEPT !.r3 = IF Top.tail THEN Len(frames) ELSE 0]
       IN  IF NextAfterHandler = Slot THEN Leave("ok", result)
           ELSE /\ SetTop([Top EXCEPT !.at = Guest, !.oldLr = Slot, !.tail = FALSE])
                /\ regs' = [result EXCEPT !.lr = LrAfterHandler]
                /\ pc' = NextAfterHandler
                /\ returned' = NotReturned
    /\ UNCHANGED tracing

\* The routine puts its result in r3 and returns.
Return ==
    /\ InGuest
    /\ LET result == [regs EXCEPT !.r3 = Len(frames)]
       IN  IF Home = Slot THEN Leave("ok", result)
           ELSE /\ regs' = result
                /\ pc' = Home
                /\ returned' = NotReturned
                /\ UNCHANGED frames
    /\ UNCHANGED tracing

\* The guest faults, or a handler raises or is missing.
Raise ==
    /\ frames # << >>
    /\ Leave("raised", regs)
    /\ UNCHANGED tracing

\* emu_start stops on its timeout with nothing pending, and run returns.
TimesOut ==
    /\ InGuest /\ Top.timed
    /\ Leave("ok", regs)
    /\ UNCHANGED tracing

\* The deadline has passed when a deferred handler returns: run raises.
DeadlinePassed ==
    /\ InHandler /\ Top.timed /\ Deferred(Top.at) /\ NextAfterHandler # Slot
    /\ Leave("raised", regs)
    /\ UNCHANGED tracing

Next ==
    \/ \E tv \in Routines, timed \in BOOLEAN : Call(tv, timed)
    \/ CallUnreadable
    \/ \E import \in Imports : Import(import) \/ TailImport(import)
    \/ HandlerReturns
    \/ Return
    \/ Raise
    \/ TimesOut
    \/ DeadlinePassed

Spec == Init /\ [][Next]_vars

-----------------------------------------------------------------------------
\* Whatever nested calls came between and however they ended, the guest runs
\* the routine of its innermost call with that activation's registers, a
\* handler sees those of the activation that called it, and the host its own
\* (Guest.call's save_regs and restore_regs).
OwnRegisters ==
    /\ regs.home = Len(frames)
    /\ InGuest => pc[1] = Top.tv

\* A handler finds in r12 the descriptor of the routine that called it, also
\* after a nested call of another routine ("This is observable to shims and
\* matters for nested calls with distinct TOCs", guest.py:358).
DescriptorInR12 == InHandler => regs.r12 = Top.tv

\* The value a call without a timeout returns is the one its own routine
\* returned, or the import that routine ended in: no import's return, and no
\* nested call's, is taken for the routine's (Guest.run).
ReturnsOwn ==
    returned.kind = "ok" /\ ~returned.timed => returned.by = returned.depth

\* When every trap is deferred, a routine that returns by the register lr
\* without having saved it returns from the call ("makes tiny hand-built guest
\* routines obey that CFM invariant", guest.py:364).  An inline handler leaves
\* the continuation in lr, and such a routine goes round in it.
LrIsTheSlot == InGuest /\ tracing => regs.lr = Slot

\* args reads every value where the caller's layout of the signature has it:
\* also after a double, which takes two words of the integer arguments, and
\* for a long that is half in r10 and half on the stack (Guest.args).
ArgsInPlace ==
    InHandler => Args(Signature[Top.at]) = Passed(Signature[Top.at])
=============================================================================
