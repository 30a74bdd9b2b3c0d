--------------------------- MODULE L1FramesProofs ---------------------------
(***************************************************************************)
(* Proofs about the stack frames of compiled L1 functions, for every size  *)
(* of the stack, every number of arguments and locals, and whatever the    *)
(* bodies write where they may.                                            *)
(***************************************************************************)
EXTENDS L1Frames, SequenceTheorems, TLAPS

Frame == [ret : Words, base : Int, arity : Arities]

\* Each activation lies below the one that called it, which it has the base
\* from, and its return address is where it was stored.
Chain ==
  /\ frames \in Seq(Frame)
  /\ frames = <<>> <=> step = "done"
  /\ \A d \in DOMAIN frames : /\ frames[d].base - 8 \in Addresses
                              /\ stack[frames[d].base - 8] = frames[d].ret
  /\ \A d, e \in DOMAIN frames : d < e => frames[e].base <= frames[d].base - 8
  /\ \A d \in DOMAIN frames : d + 1 \in DOMAIN frames => frames[d + 1].base = Body(frames[d])

\* Where the stack pointer is in each step of an activation.
Pointer ==
  /\ step = "enter"  => rsp = Current.base - 8 - 8 * StackArguments(Current.arity.arguments)
  /\ step = "body"   => rsp = Body(Current)
  /\ step = "called" => Body(Current) - 8 \in Addresses
  /\ step = "leave"  => rsp = Current.base - 8

IInv == TypeOK /\ Chain /\ Pointer

-----------------------------------------------------------------------------
LEMMA StackArgumentsNat ==
  ASSUME NEW arity \in Arities
  PROVE  /\ arity.arguments \in Nat /\ arity.locals \in Nat
         /\ StackArguments(arity.arguments) \in Nat
BY FramesAssumption DEF StackArguments

\* The activation that runs.
LEMMA CurrentFrame ==
  ASSUME IInv, step # "done"
  PROVE  /\ Len(frames) \in Nat \ {0} /\ Len(frames) \in DOMAIN frames
         /\ DOMAIN frames = 1..Len(frames)
         /\ Current \in Frame /\ Current = frames[Len(frames)]
         /\ Current.base \in Int /\ Current.arity \in Arities
         /\ Current.arity.locals \in Nat
         /\ StackArguments(Current.arity.arguments) \in Nat
         /\ Body(Current) \in Int /\ Body(Current) <= Current.base - 8
<1>1. frames \in Seq(Frame) /\ frames # <<>>
  BY DEF IInv, Chain
<1>2. Len(frames) \in Nat \ {0} /\ DOMAIN frames = 1..Len(frames)
  BY <1>1
<1>3. Current \in Frame
  BY <1>1, <1>2 DEF Current
<1>4. Current.base \in Int /\ Current.arity \in Arities
  BY <1>3 DEF Frame
<1>5. Current.arity.locals \in Nat /\ StackArguments(Current.arity.arguments) \in Nat
  BY <1>4, StackArgumentsNat
<1>6. Body(Current) \in Int /\ Body(Current) <= Current.base - 8
  BY <1>4, <1>5 DEF Body
<1> QED
  BY <1>2, <1>3, <1>4, <1>5, <1>6 DEF Current

LEMMA FrameBase ==
  ASSUME IInv, NEW d \in DOMAIN frames
  PROVE  frames[d] \in Frame /\ frames[d].base \in Int
<1>1. frames \in Seq(Frame)
  BY DEF IInv, Chain
<1>2. d \in 1..Len(frames)
  BY <1>1
<1>3. frames[d] \in Frame
  BY <1>1, <1>2
<1> QED
  BY <1>3 DEF Frame

LEMMA InitIInv == Init => IInv
<1> SUFFICES ASSUME Init PROVE IInv
  OBVIOUS
<1>1. PICK arity \in Arities :
        /\ arity.arguments <= 6
        /\ frames = << [ret |-> stack[Top - 8], base |-> Top, arity |-> arity] >>
  BY DEF Init
<1>2. step = "enter" /\ rsp = Top - 8 /\ stack \in [Addresses -> Words]
  BY DEF Init
<1>3. StackArguments(arity.arguments) = 0
  BY <1>1, FramesAssumption DEF StackArguments
<1> DEFINE frame == [ret |-> stack[Top - 8], base |-> Top, arity |-> arity]
<1>4. frame \in Frame /\ frame.base = Top /\ frame.ret = stack[Top - 8] /\ frame.arity = arity
  BY <1>2, FramesAssumption DEF Frame
<1> HIDE DEF frame
<1>5. frames = <<frame>>
  BY <1>1 DEF frame
<1>6. frames \in Seq(Frame) /\ frames # <<>> /\ Len(frames) = 1 /\ DOMAIN frames = {1}
      /\ frames[1] = frame
  BY <1>4, <1>5
<1>7. TypeOK
  BY <1>2, <1>6, FramesAssumption DEF TypeOK
<1>8. Chain
  BY <1>2, <1>4, <1>6, FramesAssumption DEF Chain
<1>9. Pointer
  BY <1>2, <1>3, <1>4, <1>6, FramesAssumption DEF Pointer, Current
<1> QED
  BY <1>7, <1>8, <1>9 DEF IInv

\* The steps that move only the stack pointer.
LEMMA PointerStepIInv == IInv /\ (Header \/ CallSubq \/ ReturnAddq) => IInv'
<1> SUFFICES ASSUME IInv, Header \/ CallSubq \/ ReturnAddq PROVE IInv'
  OBVIOUS
<1>1. step # "done" /\ step' # "done" /\ stack' = stack /\ frames' = frames
  BY DEF Header, CallSubq, ReturnAddq
<1>2. Current' = Current
  BY <1>1 DEF Current
<1>3. Chain'
  BY <1>1 DEF IInv, Chain
<1>4. rsp' \in Int /\ Pointer'
  <2>1. CASE Header
    <3>1. rsp' = Body(Current)
      BY <1>1, <2>1, CurrentFrame DEF Header, HeaderAdjustment, Body, IInv, Pointer
    <3> QED
      BY <1>1, <1>2, <2>1, <3>1, CurrentFrame DEF Header, Pointer
  <2>2. CASE CallSubq
    <3>1. PICK arity \in Arities : rsp' = rsp - CallAdjustment(arity.arguments)
      BY <2>2 DEF CallSubq
    <3>2. rsp' \in Int
      BY <3>1, StackArgumentsNat DEF CallAdjustment, IInv, TypeOK
    <3>3. Body(Current) - 8 \in Addresses
      BY <2>2 DEF CallSubq, IInv, Pointer
    <3> QED
      BY <1>2, <2>2, <3>2, <3>3 DEF CallSubq, Pointer
  <2>3. CASE ReturnAddq
    <3>1. rsp' = Current.base - 8
      BY <1>1, <2>3, CurrentFrame DEF ReturnAddq, ReturnAdjustment, Body, IInv, Pointer
    <3> QED
      BY <1>1, <1>2, <2>3, <3>1, CurrentFrame DEF ReturnAddq, Pointer
  <2> QED
    BY <2>1, <2>2, <2>3
<1>5. TypeOK'
  BY <1>1, <1>4 DEF IInv, TypeOK, Header, CallSubq, ReturnAddq
<1> QED
  BY <1>3, <1>4, <1>5 DEF IInv

\* What a body writes is below the return address of its activation, and so
\* below those of all callers.
LEMMA RunBodyIInv == IInv /\ RunBody => IInv'
<1> SUFFICES ASSUME IInv, RunBody PROVE IInv'
  OBVIOUS
<1>1. /\ step = "body" /\ step' = step /\ rsp' = rsp /\ frames' = frames
      /\ stack' \in [Addresses -> Words]
  BY DEF RunBody
<1>2. rsp + 8 * (Current.arity.locals + StackArguments(Current.arity.arguments))
        = Current.base - 8
  BY <1>1, CurrentFrame DEF IInv, Pointer, Body
<1>3. \A a \in Addresses : stack'[a] # stack[a] => a < Current.base - 8
  BY <1>2 DEF RunBody
<1>4. ASSUME NEW d \in DOMAIN frames
      PROVE  stack'[frames[d].base - 8] = frames[d].ret
  <2>1. frames[d].base >= Current.base /\ frames[d].base \in Int
    <3>1. frames[d].base \in Int
      BY <1>4, FrameBase
    <3>2. CASE d = Len(frames)
      BY <3>1, <3>2 DEF Current
    <3>3. CASE d # Len(frames)
      <4>1. Len(frames) \in DOMAIN frames /\ d < Len(frames)
        BY <1>1, <3>3, CurrentFrame
      <4> QED
        BY <1>1, <3>1, <4>1, CurrentFrame DEF IInv, Chain
    <3> QED
      BY <3>2, <3>3
  <2>2. frames[d].base - 8 \in Addresses /\ stack[frames[d].base - 8] = frames[d].ret
    BY <1>4 DEF IInv, Chain
  <2>3. ~(frames[d].base - 8 < Current.base - 8)
    BY <2>1, <1>1, CurrentFrame
  <2> QED
    BY <1>3, <2>2, <2>3
<1>5. Chain'
  BY <1>1, <1>4 DEF IInv, Chain
<1>6. Pointer'
  BY <1>1 DEF IInv, Pointer, Current
<1>7. TypeOK'
  BY <1>1 DEF IInv, TypeOK
<1> QED
  BY <1>5, <1>6, <1>7 DEF IInv

\* A new activation begins below its caller.
LEMMA CallJmpIInv == IInv /\ CallJmp => IInv'
<1> SUFFICES ASSUME IInv, CallJmp PROVE IInv'
  OBVIOUS
<1>1. PICK arity \in Arities :
        /\ rsp = Body(Current) - CallAdjustment(arity.arguments)
        /\ frames' = Append(frames, [ret   |-> stack[Body(Current) - 8],
                                     base  |-> Body(Current),
                                     arity |-> arity])
  BY DEF CallJmp
<1>2. step = "called" /\ step' = "enter" /\ rsp' = rsp /\ stack' = stack
  BY DEF CallJmp
<1>3. Body(Current) - 8 \in Addresses /\ stack \in [Addresses -> Words]
  BY <1>2 DEF IInv, Pointer, TypeOK
<1> DEFINE new == [ret |-> stack[Body(Current) - 8], base |-> Body(Current), arity |-> arity]
<1>4. /\ new \in Frame /\ new.base = Body(Current) /\ new.arity = arity
      /\ new.ret = stack[Body(Current) - 8]
  BY <1>2, <1>3, CurrentFrame DEF Frame
<1>5. frames' = Append(frames, new)
  BY <1>1
<1> HIDE DEF new
<1>6. /\ frames' \in Seq(Frame) /\ frames' # <<>>
      /\ Len(frames') = Len(frames) + 1
      /\ DOMAIN frames' = 1..(Len(frames) + 1)
      /\ \A d \in 1..Len(frames) : frames'[d] = frames[d]
      /\ frames'[Len(frames) + 1] = new
  BY <1>4, <1>5 DEF IInv, Chain
<1>7. /\ Len(frames) \in Nat \ {0} /\ DOMAIN frames = 1..Len(frames)
      /\ frames[Len(frames)] = Current /\ Current.base \in Int
      /\ Body(Current) \in Int /\ Body(Current) <= Current.base - 8
  BY <1>2, CurrentFrame
<1>8. ASSUME NEW d \in 1..Len(frames)
      PROVE  frames[d].base \in Int /\ new.base <= frames[d].base - 8
  <2>1. frames[d].base \in Int
    BY <1>7, FrameBase
  <2>2. Current.base <= frames[d].base
    <3>1. CASE d = Len(frames)
      BY <2>1, <3>1, <1>7
    <3>2. CASE d # Len(frames)
      <4>1. Len(frames) \in DOMAIN frames /\ d \in DOMAIN frames
        BY <1>7
      <4>2. d < Len(frames)
        <5>1. Len(frames) \in Nat
          BY <1>7
        <5> QED
          BY <5>1, <3>2
      <4> QED
        BY <4>1, <4>2, <2>1, <1>7 DEF IInv, Chain
    <3> QED
      BY <3>1, <3>2
  <2> QED
    BY <2>1, <2>2, <1>4, <1>7
<1>9. Chain'
  <2>1. ASSUME NEW d \in DOMAIN frames'
        PROVE  /\ frames'[d].base - 8 \in Addresses
               /\ stack'[frames'[d].base - 8] = frames'[d].ret
    BY <1>2, <1>3, <1>4, <1>6, <1>7 DEF IInv, Chain
  <2>2. ASSUME NEW d \in DOMAIN frames', NEW e \in DOMAIN frames', d < e
        PROVE  frames'[e].base <= frames'[d].base - 8
    <3>1. d \in 1..Len(frames)
      BY <2>2, <1>6, <1>7
    <3>2. CASE e \in 1..Len(frames)
      BY <2>2, <3>1, <3>2, <1>6, <1>7 DEF IInv, Chain
    <3>3. CASE e = Len(frames) + 1
      BY <3>1, <3>3, <1>6, <1>8
    <3> QED
      BY <3>2, <3>3, <1>6, <1>7
  <2>3. ASSUME NEW d \in DOMAIN frames', d + 1 \in DOMAIN frames'
        PROVE  frames'[d + 1].base = Body(frames'[d])
    <3>1. d \in 1..Len(frames) /\ frames'[d] = frames[d]
      BY <2>3, <1>6, <1>7
    <3>2. CASE d = Len(frames)
      BY <3>1, <3>2, <1>4, <1>6, <1>7
    <3>3. CASE d # Len(frames)
      <4>1. d + 1 \in 1..Len(frames)
        BY <3>1, <3>3, <1>7
      <4> QED
        BY <3>1, <4>1, <1>6, <1>7 DEF IInv, Chain
    <3> QED
      BY <3>2, <3>3
  <2> QED
    BY <1>2, <1>6, <2>1, <2>2, <2>3 DEF Chain
<1>10. Pointer'
  <2>1. Current' = new
    BY <1>6 DEF Current
  <2>2. rsp' = new.base - 8 - 8 * StackArguments(new.arity.arguments)
    BY <1>1, <1>2, <1>4, <1>7, StackArgumentsNat DEF CallAdjustment
  <2> QED
    BY <1>2, <2>1, <2>2 DEF Pointer
<1>11. TypeOK'
  BY <1>2, <1>6 DEF IInv, TypeOK
<1> QED
  BY <1>9, <1>10, <1>11 DEF IInv

\* The caller runs on where it was, if there is one.
LEMMA ReturnRetqIInv == IInv /\ ReturnRetq => IInv'
<1> SUFFICES ASSUME IInv, ReturnRetq PROVE IInv'
  OBVIOUS
<1>1. /\ step = "leave" /\ rsp' = rsp + 8 /\ stack' = stack
      /\ frames' = SubSeq(frames, 1, Len(frames) - 1)
      /\ step' = IF Len(frames) = 1 THEN "done" ELSE "body"
  BY DEF ReturnRetq
<1>2. /\ Len(frames) \in Nat \ {0} /\ DOMAIN frames = 1..Len(frames)
      /\ frames \in Seq(Frame) /\ frames[Len(frames)] = Current /\ Current.base \in Int
  BY <1>1, CurrentFrame DEF IInv, Chain
<1>3. /\ frames' \in Seq(Frame) /\ Len(frames') = Len(frames) - 1
      /\ DOMAIN frames' = 1..(Len(frames) - 1)
      /\ \A d \in 1..(Len(frames) - 1) : frames'[d] = frames[d]
  <2>1. \A d \in 1..(Len(frames) - 1) : frames[d] \in Frame
    BY <1>2
  <2>2. Len(frames) - 1 \in Int
    BY <1>2
  <2> DEFINE rest == SubSeq(frames, 1, Len(frames) - 1)
  <2>3. /\ rest \in Seq(Frame)
        /\ Len(rest) = IF 1 <= Len(frames) - 1 THEN (Len(frames) - 1) - 1 + 1 ELSE 0
        /\ \A d \in 1..((Len(frames) - 1) - 1 + 1) : rest[d] = frames[1 + d - 1]
    BY <2>1, <2>2, SubSeqProperties, SMT
  <2> HIDE DEF rest
  <2>4. frames' = rest
    BY <1>1 DEF rest
  <2>5. Len(rest) = Len(frames) - 1 /\ DOMAIN rest = 1..(Len(frames) - 1)
    <3>1. Len(frames) \in Nat \ {0}
      BY <1>2
    <3>2. Len(rest) = Len(frames) - 1
      <4>1. \A n \in Nat \ {0} : (IF 1 <= n - 1 THEN (n - 1) - 1 + 1 ELSE 0) = n - 1
        OBVIOUS
      <4>2. Len(rest) = IF 1 <= Len(frames) - 1 THEN (Len(frames) - 1) - 1 + 1 ELSE 0
        BY <2>3
      <4> QED
        BY <3>1, <4>1, <4>2, Zenon
    <3>3. DOMAIN rest = 1..Len(rest)
      BY <2>3
    <3> QED
      BY <3>2, <3>3
  <2>6. ASSUME NEW d \in 1..(Len(frames) - 1)
        PROVE  rest[d] = frames[d]
    <3>1. 1 + d - 1 = d /\ d \in 1..((Len(frames) - 1) - 1 + 1)
      BY <1>2
    <3> QED
      BY <2>3, <3>1
  <2> QED
    BY <2>3, <2>4, <2>5, <2>6
<1>4. frames' = <<>> <=> step' = "done"
  <2>1. Len(frames) \in Nat
    BY <1>2
  <2>2. frames' = <<>> <=> Len(frames') = 0
    BY <1>3, EmptySeq
  <2>3. frames' = <<>> <=> Len(frames) = 1
    BY <1>3, <2>1, <2>2
  <2> QED
    BY <1>1, <2>3
<1>5. Chain'
  <2>1. Len(frames) \in Nat \ {0} /\ DOMAIN frames = 1..Len(frames)
    BY <1>2
  <2>2. \A d \in DOMAIN frames' : d \in DOMAIN frames /\ frames'[d] = frames[d]
    BY <1>3, <2>1
  <2>3. \A d \in DOMAIN frames' : /\ frames'[d].base - 8 \in Addresses
                                  /\ stack'[frames'[d].base - 8] = frames'[d].ret
    BY <1>1, <2>2 DEF IInv, Chain
  <2>4. \A d, e \in DOMAIN frames' : d < e => frames'[e].base <= frames'[d].base - 8
    BY <2>2 DEF IInv, Chain
  <2>5. \A d \in DOMAIN frames' :
          d + 1 \in DOMAIN frames' => frames'[d + 1].base = Body(frames'[d])
    BY <2>2 DEF IInv, Chain
  <2> QED
    BY <1>3, <1>4, <2>3, <2>4, <2>5 DEF Chain
<1>6. rsp' = Current.base /\ rsp' \in Int
  BY <1>1, <1>2 DEF IInv, Pointer
<1>7. Pointer'
  <2>1. CASE Len(frames) = 1
    BY <1>1, <2>1 DEF Pointer
  <2>2. CASE Len(frames) # 1
    <3>1. Len(frames) - 1 \in DOMAIN frames /\ (Len(frames) - 1) + 1 = Len(frames)
      BY <1>2, <2>2
    <3>2. Current.base = Body(frames[Len(frames) - 1])
      BY <1>2, <3>1 DEF IInv, Chain
    <3>3. Current' = frames[Len(frames) - 1]
      BY <1>2, <1>3, <2>2 DEF Current
    <3> QED
      BY <1>1, <1>6, <2>2, <3>2, <3>3 DEF Pointer
  <2> QED
    BY <2>1, <2>2
<1>8. TypeOK'
  BY <1>1, <1>4, <1>6 DEF IInv, TypeOK
<1> QED
  BY <1>5, <1>7, <1>8 DEF IInv

-----------------------------------------------------------------------------
\* The chain of activations and the stack pointer, in every state.
THEOREM Invariant == Spec => []IInv
<1>1. ASSUME IInv, [Next]_vars
      PROVE  IInv'
  <2>1. CASE UNCHANGED vars
    BY <1>1, <2>1 DEF vars, IInv, TypeOK, Chain, Pointer, Current
  <2> QED
    BY <1>1, <2>1, PointerStepIInv, RunBodyIInv, CallJmpIInv, ReturnRetqIInv DEF Next
<1> QED
  BY <1>1, InitIInv, PTL DEF Spec

\* An activation runs unless the program has ended.
THEOREM TypeCorrect == Spec => []TypeOK
<1>1. IInv => TypeOK
  BY DEF IInv
<1> QED
  BY <1>1, Invariant, PTL

\* A return pops the address stored by its own caller.
THEOREM Returns == Spec => []ReturnsToCaller
<1>1. IInv => ReturnsToCaller
  <2> SUFFICES ASSUME IInv, step = "leave"
               PROVE  /\ rsp = Current.base - 8 /\ rsp \in Addresses
                      /\ stack[rsp] = Current.ret
    BY DEF ReturnsToCaller
  <2>1. rsp = Current.base - 8
    BY DEF IInv, Pointer
  <2> QED
    BY <2>1, CurrentFrame DEF IInv, Chain
<1> QED
  BY <1>1, Invariant, PTL

\* While a body runs the stack pointer is at the same place.
THEOREM Kept == Spec => []FrameKept
<1>1. IInv => FrameKept
  BY DEF IInv, Pointer, FrameKept
<1> QED
  BY <1>1, Invariant, PTL

\* No step of an activation changes what its callers have on the stack.
THEOREM Untouched == Spec => CallersUntouched
<1>1. ASSUME IInv, [Next]_vars
      PROVE  [\A a \in Addresses : a >= Current.base - 8 => stack'[a] = stack[a]]_vars
  <2>1. CASE RunBody
    <3>1. rsp + 8 * (Current.arity.locals + StackArguments(Current.arity.arguments))
            = Current.base - 8
      BY <1>1, <2>1, CurrentFrame DEF RunBody, IInv, Pointer, Body
    <3>2. \A a \in Addresses : stack'[a] # stack[a] => a < Current.base - 8
      BY <2>1, <3>1 DEF RunBody
    <3>3. Current.base \in Int /\ Addresses \subseteq Int
      BY <1>1, <2>1, CurrentFrame, FramesAssumption DEF RunBody
    <3> QED
      BY <3>2, <3>3
  <2>2. CASE ~RunBody
    <3>1. stack' = stack
      BY <1>1, <2>2 DEF Next, Header, CallSubq, CallJmp, ReturnAddq, ReturnRetq, vars
    <3> QED
      BY <3>1
  <2> QED
    BY <2>1, <2>2
<1> QED
  BY <1>1, Invariant, PTL DEF Spec, CallersUntouched
=============================================================================
