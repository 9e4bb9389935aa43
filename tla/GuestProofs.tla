---------------------------- MODULE GuestProofs ----------------------------
(***************************************************************************)
(* Theorems about calls into the guest (Guest): for any routines, imports  *)
(* and depth of nesting, every activation gets back the registers, the     *)
(* descriptor and the return address that are its own; and the arguments a *)
(* handler reads are those of the call, for signatures of any length.      *)
(***************************************************************************)
EXTENDS Guest, FiniteSetTheorems, SequenceTheorems, WellFoundedInduction, TLAPS

CodeAddresses == {Slot} \union (Routines \X Nat)
Registers ==
    [lr : CodeAddresses, r12 : Routines \union {"host"}, home : Nat, r3 : Nat]
Frames ==
    [tv : Routines, saved : Registers, timed : BOOLEAN,
     at : Imports \union {Guest}, oldLr : CodeAddresses, tail : BOOLEAN]

GuestTypes ==
    /\ frames \in Seq(Frames)
    /\ regs \in Registers
    /\ pc \in CodeAddresses

\* lr takes the guest back into the routine, or out of the call.
Continues(lr, tv) == lr = Slot \/ lr \in {tv} \X Nat

\* Every activation but the innermost waits in a handler for the one above,
\* which has saved the registers as they are in that handler.
Stacked ==
    \A i \in DOMAIN frames :
        /\ frames[i].saved.home = i - 1
        /\ i > 1 => /\ frames[i].saved.r12 = frames[i - 1].tv
                    /\ frames[i].saved.lr = frames[i - 1].oldLr
                    /\ frames[i - 1].at # Guest
        /\ frames[i].at # Guest =>
              /\ Continues(frames[i].oldLr, frames[i].tv)
              /\ frames[i].oldLr = Slot => frames[i].tail

\* The registers now are those of the innermost activation.
Current ==
    /\ regs.home = Len(frames)
    /\ InGuest => pc \in {Top.tv} \X Nat /\ Continues(regs.lr, Top.tv)
    /\ InGuest /\ tracing => regs.lr = Slot
    /\ InHandler => regs.r12 = Top.tv /\ regs.lr = Top.oldLr

GuestInv == GuestTypes /\ Stacked /\ Current /\ ReturnsOwn

-----------------------------------------------------------------------------
(* The stack of activations *)

LEMMA SlotIsSlot == Slot[1] = "__return__" /\ Slot[2] = 0 /\ Slot \in CodeAddresses
  BY DEF Slot, CodeAddresses

LEMMA CallPushes ==
    ASSUME NEW frame \in Frames, frames \in Seq(Frames), frames' = Append(frames, frame)
    PROVE  /\ frames' \in Seq(Frames) /\ frames' # << >>
           /\ Len(frames') = Len(frames) + 1
           /\ \A i \in DOMAIN frames : frames'[i] = frames[i]
           /\ Top' = frame
  BY DEF Top

LEMMA FrontOf ==
    ASSUME NEW S, NEW s \in Seq(S), s # << >>
    PROVE  /\ Front(s) \in Seq(S)
           /\ Len(Front(s)) = Len(s) - 1
           /\ \A i \in 1 .. Len(s) - 1 : Front(s)[i] = s[i]
  <1>1. PICK k \in Int : k = Len(s) - 1 /\ k >= 0
    OBVIOUS
  <1>2. \A i \in 1 .. k : s[i] \in S
    BY <1>1
  <1>3. 1 \in Int
    OBVIOUS
  <1>4. /\ SubSeq(s, 1, k) \in Seq(S)
        /\ Len(SubSeq(s, 1, k)) = IF 1 <= k THEN k - 1 + 1 ELSE 0
        /\ \A i \in 1 .. k - 1 + 1 : SubSeq(s, 1, k)[i] = s[1 + i - 1]
    BY <1>2, <1>3, SubSeqProperties
  <1>5. Front(s) = SubSeq(s, 1, k)
    BY <1>1 DEF Front
  <1> HIDE <1>5
  <1> QED BY <1>1, <1>4, <1>5

LEMMA LeavePops ==
    ASSUME frames \in Seq(Frames), frames # << >>, frames' = Front(frames)
    PROVE  /\ frames' \in Seq(Frames)
           /\ Len(frames') = Len(frames) - 1
           /\ \A i \in DOMAIN frames' : i \in DOMAIN frames /\ frames'[i] = frames[i]
  BY FrontOf

LEMMA TopChanges ==
    ASSUME NEW frame \in Frames, frames \in Seq(Frames), frames # << >>, SetTop(frame)
    PROVE  /\ frames' \in Seq(Frames) /\ frames' # << >>
           /\ Len(frames') = Len(frames) /\ DOMAIN frames' = DOMAIN frames
           /\ \A i \in DOMAIN frames : i # Len(frames) => frames'[i] = frames[i]
           /\ Top' = frame
  BY DEF SetTop, Top

LEMMA TopIsAFrame ==
    ASSUME frames \in Seq(Frames), frames # << >>
    PROVE  Len(frames) \in DOMAIN frames /\ Len(frames) \in Nat \ {0} /\ Top \in Frames
  BY DEF Top

LEMMA GuestInit == Init => GuestInv
  BY SlotIsSlot DEF Init, GuestInv, GuestTypes, Registers, HostRegs, Stacked, Current, ReturnsOwn,
         NotReturned, InGuest, InHandler

\* However a call ends, its caller's registers are back.
LEMMA LeaveKeeps ==
    ASSUME GuestInv, frames # << >>, NEW kind, NEW result, Leave(kind, result),
           UNCHANGED tracing
    PROVE  (GuestTypes /\ Stacked /\ Current)'
  <1>1. GuestTypes'
    BY TopIsAFrame, LeavePops, SlotIsSlot DEF Leave, GuestInv, GuestTypes, Frames
  <1>2. Stacked'
    BY LeavePops DEF Leave, GuestInv, GuestTypes, Stacked
  <1>3. regs'.home = Len(frames')
    BY TopIsAFrame, LeavePops DEF Leave, GuestInv, GuestTypes, Stacked, Top
  <1>4. ASSUME frames' # << >>
        PROVE  /\ Top'.at # Guest
               /\ regs'.r12 = Top'.tv /\ regs'.lr = Top'.oldLr
    <2>1. Len(frames) - 1 \in DOMAIN frames' /\ Len(frames) > 1
      BY <1>4, LeavePops, TopIsAFrame DEF Leave, GuestInv, GuestTypes
    <2>2. Top' = frames[Len(frames) - 1]
      BY <2>1, LeavePops DEF Leave, GuestInv, GuestTypes, Top
    <2> QED BY <2>1, <2>2, TopIsAFrame DEF Leave, GuestInv, GuestTypes, Stacked, Top
  <1>5. Current'
    BY <1>3, <1>4 DEF Current, InGuest, InHandler
  <1> QED BY <1>1, <1>2, <1>5

LEMMA CallKeeps ==
    ASSUME GuestInv, NEW tv \in Routines, NEW timed \in BOOLEAN, Call(tv, timed)
    PROVE  GuestInv'
  <1> DEFINE frame == [tv |-> tv, saved |-> regs, timed |-> timed,
                       at |-> Guest, oldLr |-> Slot, tail |-> FALSE]
  <1>1. frame \in Frames
    BY SlotIsSlot DEF GuestInv, GuestTypes, Frames
  <1>2. /\ frames' \in Seq(Frames) /\ frames' # << >>
        /\ Len(frames') = Len(frames) + 1
        /\ \A i \in DOMAIN frames : frames'[i] = frames[i]
        /\ Top' = frame
    BY <1>1, CallPushes DEF Call, GuestInv, GuestTypes
  <1>3. /\ frame.tv = tv /\ frame.saved = regs /\ frame.at = Guest
    OBVIOUS
  <1>4. frames'[Len(frames) + 1] = frame
    BY <1>2 DEF Top
  <1> HIDE DEF frame
  <1>5. /\ regs' = [lr |-> Slot, r12 |-> tv, home |-> Len(frames) + 1, r3 |-> 0]
        /\ pc' = <<tv, 0>>
    BY DEF Call, Code
  <1>6. GuestTypes'
    BY <1>2, <1>5, SlotIsSlot DEF GuestInv, GuestTypes, Registers, CodeAddresses
  <1>7. Stacked'
    <2> SUFFICES ASSUME NEW i \in DOMAIN frames'
                 PROVE  /\ frames'[i].saved.home = i - 1
                        /\ i > 1 => /\ frames'[i].saved.r12 = frames'[i - 1].tv
                                    /\ frames'[i].saved.lr = frames'[i - 1].oldLr
                                    /\ frames'[i - 1].at # Guest
                        /\ frames'[i].at # Guest =>
                              /\ Continues(frames'[i].oldLr, frames'[i].tv)
                              /\ frames'[i].oldLr = Slot => frames'[i].tail
      BY DEF Stacked
    <2>1. CASE i \in DOMAIN frames
      <3>1. i > 1 => i - 1 \in DOMAIN frames
        BY <2>1 DEF GuestInv, GuestTypes
      <3> QED BY <1>2, <2>1, <3>1 DEF GuestInv, Stacked
    <2>2. CASE i = Len(frames) + 1
      <3>1. frames'[i].saved.home = i - 1
        BY <1>3, <1>4, <2>2 DEF GuestInv, Current
      <3>2. ASSUME i > 1
            PROVE  /\ frames'[i].saved.r12 = frames'[i - 1].tv
                   /\ frames'[i].saved.lr = frames'[i - 1].oldLr
                   /\ frames'[i - 1].at # Guest
        <4>1. i - 1 = Len(frames) /\ frames # << >> /\ Len(frames) \in DOMAIN frames
          BY <2>2, <3>2 DEF GuestInv, GuestTypes
        <4>2. InHandler
          BY <4>1 DEF Call, CanCall
        <4>3. frames'[i - 1] = Top
          BY <1>2, <4>1 DEF Top
        <4> QED BY <1>3, <1>4, <2>2, <4>2, <4>3 DEF GuestInv, Current, InHandler
      <3> QED BY <1>3, <1>4, <2>2, <3>1, <3>2
    <2> QED BY <1>2, <2>1, <2>2 DEF GuestInv, GuestTypes
  <1>8. Current'
    BY <1>2, <1>3, <1>5 DEF Current, InGuest, InHandler, Continues
  <1>9. ReturnsOwn'
    BY DEF Call, ReturnsOwn, NotReturned
  <1> QED BY <1>6, <1>7, <1>8, <1>9 DEF GuestInv

\* The innermost frame changes and its routine, its caller's registers stay.
LEMMA TopKeepsStacked ==
    ASSUME GuestInv, frames # << >>, NEW frame \in Frames, SetTop(frame),
           frame.tv = Top.tv, frame.saved = Top.saved,
           frame.at # Guest => /\ Continues(frame.oldLr, frame.tv)
                               /\ frame.oldLr = Slot => frame.tail
    PROVE  Stacked'
  <1>1. /\ Len(frames') = Len(frames) /\ DOMAIN frames' = DOMAIN frames
        /\ \A i \in DOMAIN frames : i # Len(frames) => frames'[i] = frames[i]
        /\ Top' = frame
    BY TopChanges DEF GuestInv, GuestTypes
  <1>2. frames'[Len(frames)] = frame
    BY <1>1 DEF Top
  <1> SUFFICES ASSUME NEW i \in DOMAIN frames
               PROVE  /\ frames'[i].saved.home = i - 1
                      /\ i > 1 => /\ frames'[i].saved.r12 = frames'[i - 1].tv
                                  /\ frames'[i].saved.lr = frames'[i - 1].oldLr
                                  /\ frames'[i - 1].at # Guest
                      /\ frames'[i].at # Guest =>
                            /\ Continues(frames'[i].oldLr, frames'[i].tv)
                            /\ frames'[i].oldLr = Slot => frames'[i].tail
    BY <1>1 DEF Stacked
  <1>3. i \in Nat /\ Len(frames) \in Nat /\ i <= Len(frames)
        /\ (i > 1 => i - 1 \in DOMAIN frames /\ i - 1 # Len(frames))
    BY DEF GuestInv, GuestTypes
  <1>4. CASE i # Len(frames)
    BY <1>1, <1>3, <1>4 DEF GuestInv, Stacked
  <1>5. CASE i = Len(frames)
    <2>1. frames'[i].saved = frames[i].saved
      BY <1>2, <1>5 DEF Top
    <2>2. frames'[i].saved.home = i - 1
      BY <2>1 DEF GuestInv, Stacked
    <2>3. i > 1 => /\ frames'[i].saved.r12 = frames'[i - 1].tv
                   /\ frames'[i].saved.lr = frames'[i - 1].oldLr
                   /\ frames'[i - 1].at # Guest
      BY <1>1, <1>3, <2>1 DEF GuestInv, Stacked
    <2> QED BY <1>2, <1>5, <2>2, <2>3
  <1> QED BY <1>4, <1>5

\* The guest calls an import, to come back into its routine or, at its end,
\* to where the routine itself would go.
LEMMA EnterImportKeeps ==
    ASSUME GuestInv, NEW import \in Imports, NEW lr, NEW tail \in BOOLEAN,
           EnterImport(import, lr, tail),
           lr \in CodeAddresses, Continues(lr, Top.tv), lr = Slot => tail
    PROVE  GuestInv'
  <1> DEFINE frame == [Top EXCEPT !.at = import, !.oldLr = lr, !.tail = tail]
  <1>1. frames # << >> /\ frames \in Seq(Frames) /\ Top \in Frames /\ import # Guest
    BY TopIsAFrame, GuestAssumption DEF EnterImport, InGuest, GuestInv, GuestTypes
  <1>2. /\ frame \in Frames /\ frame.tv = Top.tv /\ frame.saved = Top.saved
        /\ frame.at = import /\ frame.oldLr = lr /\ frame.tail = tail
    BY <1>1 DEF Frames
  <1>3. /\ SetTop(frame) /\ regs' = [regs EXCEPT !.lr = lr, !.r12 = Top.tv]
        /\ pc' = Slot /\ returned' = NotReturned /\ UNCHANGED tracing
    BY DEF EnterImport, CallersDescriptor
  <1> HIDE DEF frame
  <1>4. Stacked'
    BY <1>1, <1>2, <1>3, TopKeepsStacked
  <1>5. frames' \in Seq(Frames) /\ Len(frames') = Len(frames) /\ Top' = frame
    BY <1>1, <1>2, <1>3, TopChanges
  <1>6. /\ regs' \in Registers /\ regs'.lr = lr /\ regs'.r12 = Top.tv
        /\ regs'.home = regs.home
    <2>1. Top.tv \in Routines
      BY <1>1 DEF Frames
    <2> QED BY <1>3, <2>1 DEF GuestInv, GuestTypes, Registers
  <1>7. GuestTypes'
    BY <1>3, <1>5, <1>6, SlotIsSlot DEF GuestTypes
  <1>8. Current'
    BY <1>1, <1>2, <1>5, <1>6 DEF GuestInv, Current, InGuest, InHandler
  <1>9. ReturnsOwn'
    BY <1>3 DEF ReturnsOwn, NotReturned
  <1> QED BY <1>4, <1>7, <1>8, <1>9 DEF GuestInv

LEMMA ImportKeeps ==
    ASSUME GuestInv, NEW import \in Imports, Import(import) \/ TailImport(import)
    PROVE  GuestInv'
  <1>1. /\ frames # << >> /\ Top \in Frames /\ InGuest
        /\ pc \in {Top.tv} \X Nat /\ Continues(regs.lr, Top.tv)
    BY TopIsAFrame DEF Import, TailImport, EnterImport, InGuest, GuestInv, GuestTypes, Current
  <1>2. CASE Import(import)
    <2> DEFINE lr == Code(pc[1], pc[2] + 1)
    <2>1. EnterImport(import, lr, FALSE)
      BY <1>2 DEF Import
    <2>2. lr \in {Top.tv} \X Nat /\ lr[2] # 0 /\ Top.tv \in Routines
      BY <1>1 DEF Code, Frames
    <2> HIDE DEF lr
    <2>3. lr \in CodeAddresses /\ Continues(lr, Top.tv) /\ lr # Slot
      BY <2>2, SlotIsSlot DEF CodeAddresses, Continues
    <2> QED BY <2>1, <2>3, EnterImportKeeps
  <1>3. CASE TailImport(import)
    <2>1. EnterImport(import, Home, TRUE)
      BY <1>3 DEF TailImport
    <2>2. Home \in CodeAddresses /\ Continues(Home, Top.tv)
      BY <1>1, SlotIsSlot DEF Home, Continues, GuestInv, GuestTypes, Registers
    <2> QED BY <2>1, <2>2, EnterImportKeeps
  <1> QED BY <1>2, <1>3

LEMMA HandlerReturnsKeeps ==
    ASSUME GuestInv, HandlerReturns
    PROVE  GuestInv'
  <1> DEFINE result == [regs EXCEPT !.r3 = IF Top.tail THEN Len(frames) ELSE 0]
             frame  == [Top EXCEPT !.at = Guest, !.oldLr = Slot, !.tail = FALSE]
  <1>1. /\ frames # << >> /\ frames \in Seq(Frames) /\ Top \in Frames
        /\ Len(frames) \in DOMAIN frames /\ Len(frames) \in Nat
        /\ Top.at # Guest /\ UNCHANGED tracing /\ regs \in Registers
    BY TopIsAFrame DEF HandlerReturns, InHandler, GuestInv, GuestTypes
  <1>2. /\ regs.lr = Top.oldLr /\ Continues(Top.oldLr, Top.tv)
        /\ Top.oldLr = Slot => Top.tail
    BY <1>1 DEF HandlerReturns, GuestInv, Current, Stacked, Top
  <1>3. CASE regs.lr = Slot
    <2>1. Leave("ok", result) /\ result.r3 = Len(frames)
      BY <1>1, <1>2, <1>3 DEF HandlerReturns, NextAfterHandler, Registers
    <2> HIDE DEF result
    <2>2. ReturnsOwn'
      BY <2>1 DEF Leave, ReturnsOwn
    <2> QED BY <1>1, <2>1, <2>2, LeaveKeeps DEF GuestInv
  <1>4. CASE regs.lr # Slot
    <2>1. /\ SetTop(frame) /\ regs' = [result EXCEPT !.lr = LrAfterHandler]
          /\ pc' = regs.lr /\ returned' = NotReturned
      BY <1>4 DEF HandlerReturns, NextAfterHandler
    <2>2. /\ frame \in Frames /\ frame.tv = Top.tv /\ frame.saved = Top.saved
          /\ frame.at = Guest
      BY <1>1, SlotIsSlot DEF Frames
    <2>3. /\ LrAfterHandler \in {regs.lr, Slot}
          /\ tracing => LrAfterHandler = Slot
      BY <1>2 DEF LrAfterHandler, Deferred
    <2>4. /\ regs' \in Registers /\ regs'.home = regs.home
          /\ regs'.lr \in {regs.lr, Slot} /\ (tracing => regs'.lr = Slot)
      BY <1>1, <2>1, <2>3, SlotIsSlot DEF Registers
    <2>5. regs.lr \in CodeAddresses /\ regs.lr \in {Top.tv} \X Nat
      BY <1>1, <1>2, <1>4 DEF Continues, Registers
    <2> HIDE DEF frame, result
    <2>6. Stacked'
      BY <1>1, <2>1, <2>2, TopKeepsStacked
    <2>7. frames' \in Seq(Frames) /\ Len(frames') = Len(frames) /\ Top' = frame
      BY <1>1, <2>1, <2>2, TopChanges
    <2>8. GuestTypes'
      BY <2>1, <2>4, <2>5, <2>7 DEF GuestTypes
    <2>9. Current'
      BY <1>1, <2>1, <2>2, <2>4, <2>5, <2>7
         DEF GuestInv, Current, InGuest, InHandler, Continues
    <2>10. ReturnsOwn'
      BY <2>1 DEF ReturnsOwn, NotReturned
    <2> QED BY <2>6, <2>8, <2>9, <2>10 DEF GuestInv
  <1> QED BY <1>3, <1>4

LEMMA ReturnKeeps ==
    ASSUME GuestInv, Return
    PROVE  GuestInv'
  <1> DEFINE result == [regs EXCEPT !.r3 = Len(frames)]
  <1>1. /\ frames # << >> /\ Len(frames) \in Nat /\ Top.at = Guest /\ UNCHANGED tracing
        /\ regs \in Registers /\ InGuest
    BY TopIsAFrame DEF Return, InGuest, GuestInv, GuestTypes
  <1>2. /\ result \in Registers /\ result.r3 = Len(frames) /\ result.home = regs.home
        /\ result.lr = regs.lr
    BY <1>1 DEF Registers
  <1>3. CASE Leave("ok", result)
    <2> HIDE DEF result
    <2>1. ReturnsOwn'
      BY <1>2, <1>3 DEF Leave, ReturnsOwn
    <2> QED BY <1>1, <1>3, <2>1, LeaveKeeps DEF GuestInv
  <1>4. CASE /\ Home # Slot /\ regs' = result /\ pc' = Home
             /\ returned' = NotReturned /\ UNCHANGED frames
    <2>1. regs.lr \in {Top.tv} \X Nat /\ pc' = regs.lr /\ ~tracing
      BY <1>1, <1>4 DEF Home, GuestInv, Current, Continues
    <2>2. Top' = Top
      BY <1>4 DEF Top
    <2> HIDE DEF result
    <2>3. GuestTypes' /\ Stacked'
      BY <1>1, <1>2, <1>4, <2>1 DEF GuestInv, GuestTypes, Stacked, Registers
    <2>4. Current'
      BY <1>1, <1>2, <1>4, <2>1, <2>2
         DEF GuestInv, Current, InGuest, InHandler, Continues
    <2>5. ReturnsOwn'
      BY <1>4 DEF ReturnsOwn, NotReturned
    <2> QED BY <2>3, <2>4, <2>5 DEF GuestInv
  <1> QED BY <1>3, <1>4 DEF Return

LEMMA AbruptEndKeeps ==
    ASSUME GuestInv, Raise \/ TimesOut \/ DeadlinePassed
    PROVE  GuestInv'
  <1>1. frames # << >> /\ UNCHANGED tracing
    BY DEF Raise, TimesOut, DeadlinePassed, InGuest, InHandler
  <1>2. \/ Leave("raised", regs)
        \/ Leave("ok", regs) /\ Top.timed
    BY DEF Raise, TimesOut, DeadlinePassed
  <1>3. ReturnsOwn'
    BY <1>2 DEF Leave, ReturnsOwn
  <1> QED BY <1>1, <1>2, <1>3, LeaveKeeps DEF GuestInv

LEMMA GuestStep == GuestInv /\ [Next]_vars => GuestInv'
  <1> SUFFICES ASSUME GuestInv, [Next]_vars
               PROVE  GuestInv'
    OBVIOUS
  <1>1. ASSUME UNCHANGED <<frames, regs, pc, tracing>>,
               returned'.kind = "raised" \/ returned' = returned
        PROVE  GuestInv'
    <2>1. GuestTypes' /\ Stacked'
      BY <1>1 DEF GuestInv, GuestTypes, Stacked
    <2>2. Current'
      BY <1>1 DEF GuestInv, Current, InGuest, InHandler, Top
    <2>3. ReturnsOwn'
      BY <1>1 DEF GuestInv, ReturnsOwn
    <2> QED BY <2>1, <2>2, <2>3 DEF GuestInv
  <1>2. CASE CallUnreadable
    BY <1>1, <1>2 DEF CallUnreadable, NotReturned
  <1>3. CASE UNCHANGED vars
    BY <1>1, <1>3 DEF vars
  <1> QED BY <1>2, <1>3, CallKeeps, ImportKeeps, HandlerReturnsKeeps, ReturnKeeps,
             AbruptEndKeeps DEF Next

-----------------------------------------------------------------------------
(* The arguments of a call *)

LEMMA LeastOf ==
    ASSUME NEW S \in SUBSET Nat, S # {}
    PROVE  \E n \in S : \A m \in S : n <= m
  <1>1. \E n \in S : \A m \in S : ~(<<m, n>> \in OpToRel(<, Nat))
    BY WFMin, NatLessThanWellFounded
  <1>2. \A m, n \in Nat : <<m, n>> \notin OpToRel(<, Nat) => n <= m
    BY DEF OpToRel
  <1> QED BY <1>1, <1>2

\* Induction up to N, for a set in the place of a predicate.
LEMMA UpTo ==
    ASSUME NEW N \in Nat, NEW S, 0 \in S,
           \A n \in 1 .. N : n - 1 \in S => n \in S
    PROVE  \A n \in 0 .. N : n \in S
  <1> DEFINE B == {n \in 0 .. N : n \notin S}
  <1>1. B \in SUBSET Nat
    OBVIOUS
  <1> SUFFICES ASSUME B # {}
               PROVE  FALSE
    OBVIOUS
  <1>2. PICK n \in B : \A m \in B : n <= m
    BY <1>1, LeastOf
  <1>3. n \in 1 .. N /\ n - 1 \in 0 .. N /\ ~(n <= n - 1)
    BY <1>2
  <1>4. n - 1 \in S
    BY <1>2, <1>3
  <1> QED BY <1>2, <1>3, <1>4

Types == {"word", "long", "double"}

\* Of the first n arguments, those that take two words and the doubles.
Wide(s, n)    == {j \in 1 .. n : s[j] # "word"}
Doubles(s, n) == {j \in 1 .. n : s[j] = "double"}

\* Where the caller put an argument with w words before it, d being how many
\* doubles there are up to it.
ValueAt(type, w, d) ==
    IF type = "double" THEN <<<<"fpr", d>>>>
    ELSE IF type = "long" THEN <<ReadWord(w), SecondWord(w)>>
    ELSE <<ReadWord(w)>>
Layout(s) ==
    [i \in 1 .. Len(s) |->
        ValueAt(s[i], i - 1 + Cardinality(Wide(s, i - 1)), Cardinality(Doubles(s, i)))]

\* What args has read after n arguments.
Reading(s, n) ==
    [values |-> [i \in 1 .. n |-> Layout(s)[i]],
     word   |-> n + Cardinality(Wide(s, n)),
     float  |-> Cardinality(Doubles(s, n))]

\* A set of the arguments up to n, with and without the last.
LEMMA CountedTo ==
    ASSUME NEW n \in Nat \ {0}, NEW S
    PROVE  /\ Cardinality({j \in 1 .. n - 1 : j \in S}) \in Nat
           /\ Cardinality({j \in 1 .. n : j \in S})
                 = Cardinality({j \in 1 .. n - 1 : j \in S})
                      + IF n \in S THEN 1 ELSE 0
  <1> DEFINE A == {j \in 1 .. n - 1 : j \in S}
             B == {j \in 1 .. n : j \in S}
  <1>1. IsFiniteSet(1 .. n - 1) /\ n - 1 \in Int
    BY FS_Interval
  <1>2. A \subseteq 1 .. n - 1
    OBVIOUS
  <1>3. IsFiniteSet(A) /\ Cardinality(A) \in Nat
    BY <1>1, <1>2, FS_Subset, FS_CardinalityType
  <1>4. n \notin A
    OBVIOUS
  <1>5. B = IF n \in S THEN A \union {n} ELSE A
    <2>1. \A j : j \in B <=> j \in A \/ (j = n /\ n \in S)
      OBVIOUS
    <2> HIDE DEF A, B
    <2> QED BY <2>1
  <1> HIDE DEF A, B
  <1>6. Cardinality(A \union {n}) = Cardinality(A) + 1
    BY <1>3, <1>4, FS_AddElement
  <1>7. Cardinality(B) = Cardinality(A) + IF n \in S THEN 1 ELSE 0
    BY <1>3, <1>5, <1>6
  <1> QED BY <1>3, <1>7 DEF A, B

LEMMA AppendNext ==
    ASSUME NEW f, NEW n \in Nat
    PROVE  Append([i \in 1 .. n |-> f[i]], f[n + 1]) = [i \in 1 .. n + 1 |-> f[i]]
  <1> DEFINE T == {f[i] : i \in 1 .. n + 1}
             s == [i \in 1 .. n |-> f[i]]
  <1>1. s \in Seq(T) /\ Len(s) = n
    OBVIOUS
  <1>2. f[n + 1] \in T
    OBVIOUS
  <1>3. \A i \in 1 .. n : s[i] = f[i]
    OBVIOUS
  <1> HIDE DEF T, s
  <1>4. /\ Append(s, f[n + 1]) \in Seq(T)
        /\ Len(Append(s, f[n + 1])) = n + 1
        /\ \A i \in 1 .. n : Append(s, f[n + 1])[i] = s[i]
        /\ Append(s, f[n + 1])[n + 1] = f[n + 1]
    BY <1>1, <1>2, AppendProperties
  <1>5. Append(s, f[n + 1]) = [i \in 1 .. n + 1 |-> f[i]]
    BY <1>3, <1>4
  <1> QED BY <1>5 DEF s

\* One argument read.
LEMMA NextArgument ==
    ASSUME NEW s \in Seq(Types), NEW n \in 1 .. Len(s)
    PROVE  ArgsStep(Reading(s, n - 1), s[n]) = Reading(s, n)
  <1> DEFINE w == Cardinality(Wide(s, n - 1))
             d == Cardinality(Doubles(s, n - 1))
             read == [i \in 1 .. n - 1 |-> Layout(s)[i]]
  <1>1. s[n] \in Types /\ n \in Nat \ {0} /\ n - 1 \in Nat /\ (n - 1) + 1 = n
    OBVIOUS
  <1>2. w \in Nat /\ Cardinality(Wide(s, n)) = w + IF s[n] # "word" THEN 1 ELSE 0
    <2> DEFINE S == {j \in Nat : s[j] # "word"}
    <2>1. \A k \in Nat : Wide(s, k) = {j \in 1 .. k : j \in S}
      BY DEF Wide
    <2>2. n \in S <=> s[n] # "word"
      BY <1>1
    <2> HIDE DEF S
    <2> QED BY <1>1, <2>1, <2>2, CountedTo
  <1>3. d \in Nat /\ Cardinality(Doubles(s, n)) = d + IF s[n] = "double" THEN 1 ELSE 0
    <2> DEFINE S == {j \in Nat : s[j] = "double"}
    <2>1. \A k \in Nat : Doubles(s, k) = {j \in 1 .. k : j \in S}
      BY DEF Doubles
    <2>2. n \in S <=> s[n] = "double"
      BY <1>1
    <2> HIDE DEF S
    <2> QED BY <1>1, <2>1, <2>2, CountedTo
  <1>4. Layout(s)[n] = ValueAt(s[n], n - 1 + w, Cardinality(Doubles(s, n)))
    BY DEF Layout
  <1>5. Append(read, Layout(s)[n]) = [i \in 1 .. n |-> Layout(s)[i]]
    BY <1>1, AppendNext
  <1>6. /\ Reading(s, n - 1) = [values |-> read, word |-> n - 1 + w, float |-> d]
        /\ Reading(s, n) = [values |-> Append(read, Layout(s)[n]),
                            word   |-> n + Cardinality(Wide(s, n)),
                            float  |-> Cardinality(Doubles(s, n))]
    BY <1>5 DEF Reading
  <1> HIDE DEF w, d, read
  <1> DEFINE u == n - 1 + w
             value == Layout(s)[n]
  <1>7. u \in Nat /\ n + w = u + 1 /\ n + (w + 1) = u + 2 /\ d + 1 = 1 + d
    BY <1>1, <1>2, <1>3
  <1>8. ArgsStep(Reading(s, n - 1), s[n])
           = ArgsStep([values |-> read, word |-> u, float |-> d], s[n])
    BY <1>6
  <1> HIDE DEF u
  <1>9. CASE s[n] = "double"
    <2>1. /\ n + Cardinality(Wide(s, n)) = u + 2
          /\ Cardinality(Doubles(s, n)) = d + 1
      BY <1>2, <1>3, <1>7, <1>9
    <2>2. value = <<<<"fpr", 1 + d>>>>
      BY <1>4, <1>7, <1>9, <2>1 DEF ValueAt
    <2>3. Reading(s, n) = [values |-> Append(read, value),
                           word |-> u + 2, float |-> d + 1]
      BY <1>6, <2>1
    <2> HIDE DEF value
    <2>4. ArgsStep([values |-> read, word |-> u, float |-> d], "double")
             = [values |-> Append(read, value),
                word |-> u + 2, float |-> d + 1]
      BY <2>2 DEF ArgsStep
    <2> QED BY <1>8, <1>9, <2>3, <2>4
  <1>10. CASE s[n] = "long"
    <2>1. /\ n + Cardinality(Wide(s, n)) = u + 2
          /\ Cardinality(Doubles(s, n)) = d
      BY <1>2, <1>3, <1>7, <1>10
    <2>2. value = <<ReadWord(u), SecondWord(u)>>
      BY <1>4, <1>10 DEF ValueAt, u
    <2>3. Reading(s, n) = [values |-> Append(read, value),
                           word |-> u + 2, float |-> d]
      BY <1>6, <2>1
    <2> HIDE DEF value
    <2>4. ArgsStep([values |-> read, word |-> u, float |-> d], "long")
             = [values |-> Append(read, value),
                word |-> u + 2, float |-> d]
      BY <2>2 DEF ArgsStep
    <2> QED BY <1>8, <1>10, <2>3, <2>4
  <1>11. CASE s[n] = "word"
    <2>1. /\ n + Cardinality(Wide(s, n)) = u + 1
          /\ Cardinality(Doubles(s, n)) = d
      BY <1>2, <1>3, <1>7, <1>11
    <2>2. value = <<ReadWord(u)>>
      BY <1>4, <1>11 DEF ValueAt, u
    <2>3. Reading(s, n) = [values |-> Append(read, value),
                           word |-> u + 1, float |-> d]
      BY <1>6, <2>1
    <2> HIDE DEF value
    <2>4. ArgsStep([values |-> read, word |-> u, float |-> d], "word")
             = [values |-> Append(read, value),
                word |-> u + 1, float |-> d]
      BY <2>2 DEF ArgsStep
    <2> QED BY <1>8, <1>11, <2>3, <2>4
  <1> QED BY <1>1, <1>9, <1>10, <1>11 DEF Types

\* The loop of args, over a signature of any length.
LEMMA ArgsAreRead ==
    ASSUME NEW s \in Seq(Types)
    PROVE  Args(s) = Layout(s)
  <1> DEFINE N == Len(s)
             Loop(f) == f = [n \in 0 .. N |-> IF n = 0 THEN NothingRead
                                               ELSE ArgsStep(f[n - 1], s[n])]
             reading == [n \in 0 .. N |-> Reading(s, n)]
             read == CHOOSE f : Loop(f)
  <1>1. N \in Nat
    OBVIOUS
  <1>2. Reading(s, 0) = NothingRead
    <2>1. Wide(s, 0) = {} /\ Doubles(s, 0) = {}
      BY DEF Wide, Doubles
    <2>2. [i \in 1 .. 0 |-> Layout(s)[i]] = << >>
      OBVIOUS
    <2>3. Cardinality(Wide(s, 0)) = 0 /\ Cardinality(Doubles(s, 0)) = 0
      BY <2>1, FS_EmptySet
    <2>4. 0 + 0 = 0
      OBVIOUS
    <2> QED BY <2>2, <2>3, <2>4, Zenon DEF Reading, NothingRead
  <1>3. \A n \in 1 .. N : ArgsStep(Reading(s, n - 1), s[n]) = Reading(s, n)
    BY NextArgument
  <1>4. Args(s) = read[N].values
    BY DEF Args
  <1> HIDE DEF N
  <1>5. \A n \in 0 .. N : reading[n] = IF n = 0 THEN NothingRead
                                       ELSE ArgsStep(reading[n - 1], s[n])
    <2> TAKE n \in 0 .. N
    <2>1. CASE n = 0
      BY <1>2, <2>1
    <2>2. CASE n # 0
      <3>1. n \in 1 .. N /\ n - 1 \in 0 .. N
        BY <1>1, <2>2
      <3> QED BY <1>3, <2>2, <3>1
    <2> QED BY <2>1, <2>2
  <1>6. Loop(reading)
    BY <1>5
  <1> HIDE DEF reading
  <1>7. Loop(read)
    BY <1>6, Zenon
  <1> HIDE DEF read
  <1> DEFINE S == {n \in 0 .. N : read[n] = Reading(s, n)}
  <1>8. 0 \in S
    BY <1>1, <1>2, <1>7
  <1>9. ASSUME NEW n \in 1 .. N, n - 1 \in S
        PROVE  n \in S
    <2>1. n \in 0 .. N /\ n # 0
      BY <1>1
    <2> QED BY <1>3, <1>7, <1>9, <2>1
  <1> HIDE DEF S
  <1>10. \A n \in 0 .. N : n \in S
    BY <1>1, <1>8, <1>9, UpTo
  <1>11. read[N] = Reading(s, N)
    BY <1>1, <1>10 DEF S
  <1>12. Reading(s, N).values = Layout(s)
    BY DEF Reading, Layout, N
  <1> QED BY <1>4, <1>11, <1>12

LEMMA LayoutIsPassed ==
    ASSUME NEW s \in Seq(Types)
    PROVE  Layout(s) = Passed(s)
  <1> DEFINE place(w) == IF w \in 0 .. 7 THEN <<"gpr", 3 + w>>
                         ELSE <<"stack", 56 + 4 * (w - 8)>>
             words(i) == i - 1 + Cardinality(Wide(s, i - 1))
             size(i) == IF s[i] = "word" THEN 1 ELSE 2
             value(i) == IF s[i] = "double"
                         THEN <<<<"fpr", Cardinality(Doubles(s, i))>>>>
                         ELSE [n \in 1 .. size(i) |-> place(words(i) + n - 1)]
  <1>1. Passed(s) = [i \in DOMAIN s |-> value(i)]
    BY DEF Passed, Wide, Doubles
  <1>2. \A w \in Nat : ReadWord(w) = place(w)
    BY DEF ReadWord
  <1>3. ASSUME NEW i \in 1 .. Len(s)
        PROVE  ValueAt(s[i], words(i), Cardinality(Doubles(s, i))) = value(i)
    <2>1. words(i) \in Nat
      <3> DEFINE S == {j \in Nat : s[j] # "word"}
      <3>1. Wide(s, i - 1) = {j \in 1 .. i - 1 : j \in S}
        BY DEF Wide
      <3> HIDE DEF S
      <3>2. i \in Nat \ {0}
        OBVIOUS
      <3>3. Cardinality(Wide(s, i - 1)) \in Nat
        BY <3>1, <3>2, CountedTo
      <3> QED BY <3>2, <3>3
    <2>2. s[i] \in Types
      OBVIOUS
    <2> DEFINE w == words(i)
    <2>3. ReadWord(w) = place(w + 1 - 1) /\ SecondWord(w) = place(w + 2 - 1)
      <3> HIDE DEF w
      <3>1. w \in Nat /\ w + 1 - 1 = w /\ w + 2 - 1 = w + 1 /\ w + 1 \in Nat
        BY <2>1 DEF w
      <3> HIDE DEF place
      <3> QED BY <1>2, <3>1 DEF SecondWord
    <2> HIDE DEF place
    <2>4. CASE s[i] = "double"
      BY <2>4 DEF ValueAt
    <2>5. CASE s[i] = "long"
      <3>1. value(i) = [n \in 1 .. 2 |-> place(w + n - 1)]
        BY <2>5
      <3>2. [n \in 1 .. 2 |-> place(w + n - 1)]
               = <<place(w + 1 - 1), place(w + 2 - 1)>>
        OBVIOUS
      <3> QED BY <2>3, <2>5, <3>1, <3>2 DEF ValueAt
    <2>6. CASE s[i] = "word"
      <3>1. value(i) = [n \in 1 .. 1 |-> place(w + n - 1)]
        BY <2>6
      <3>2. [n \in 1 .. 1 |-> place(w + n - 1)] = <<place(w + 1 - 1)>>
        OBVIOUS
      <3> QED BY <2>3, <2>6, <3>1, <3>2 DEF ValueAt
    <2> QED BY <2>2, <2>4, <2>5, <2>6 DEF Types
  <1> HIDE DEF value
  <1> QED BY <1>1, <1>3 DEF Layout

-----------------------------------------------------------------------------
(* Theorems *)

\* The stack of activations and the registers agree at every step, whatever
\* the guest calls and however each call ends (guest.py:321-370, 407-434).
THEOREM GuestInvariant == Spec => []GuestInv
  BY GuestInit, GuestStep, PTL DEF Spec

\* The guest runs the routine of its innermost call with the registers of
\* that activation, and the host gets its own back (save_regs and
\* restore_regs in Guest.call).
THEOREM EachOwnRegisters == Spec => []OwnRegisters
  <1>1. GuestInv => OwnRegisters
    BY DEF GuestInv, Current, OwnRegisters
  <1> QED BY <1>1, GuestInvariant, PTL

\* A handler finds in r12 the descriptor of the routine that called it, after
\* nested calls too (_call_tvectors in Guest.call and Guest.run).
THEOREM DescriptorIsCallers == Spec => []DescriptorInR12
  <1>1. GuestInv => DescriptorInR12
    BY DEF GuestInv, Current, DescriptorInR12
  <1> QED BY <1>1, GuestInvariant, PTL

\* No import's return and no nested call's is taken for the return of the
\* routine that was called (the return slot in Guest.run).
THEOREM ReturnIsOwn == Spec => []ReturnsOwn
  BY GuestInvariant, PTL DEF GuestInv

\* With every trap deferred a routine that returns by lr returns from its
\* call (the old_lr test in Guest.run).
THEOREM LrIsSlotInGuest == Spec => []LrIsTheSlot
  <1>1. GuestInv => LrIsTheSlot
    BY DEF GuestInv, Current, LrIsTheSlot
  <1> QED BY <1>1, GuestInvariant, PTL

\* For every signature, args reads each value where the caller's layout of
\* the arguments has it: a word, a long that straddles r10 and the stack, and
\* whatever follows a double (Guest.args).
THEOREM ArgsReadInPlace == Spec => []ArgsInPlace
  <1>1. GuestInv => ArgsInPlace
    <2> SUFFICES ASSUME GuestInv, InHandler
                 PROVE  Args(Signature[Top.at]) = Passed(Signature[Top.at])
      BY DEF ArgsInPlace
    <2>1. Top.at \in Imports
      BY TopIsAFrame DEF GuestInv, GuestTypes, InHandler, Frames
    <2>2. Signature[Top.at] \in Seq(Types)
      BY <2>1, GuestAssumption DEF Types
    <2> QED BY <2>2, ArgsAreRead, LayoutIsPassed
  <1> QED BY <1>1, GuestInvariant, PTL

=============================================================================
