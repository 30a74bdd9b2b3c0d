------------------------------ MODULE L1Frames ------------------------------
(***************************************************************************)
(* The stack frames of compiled L1 functions (src/L1/src/compiler.cpp): a  *)
(* call moves the stack pointer below the return address and the arguments *)
(* that do not fit in registers and jumps, the header of the callee makes  *)
(* room for its locals, and a return takes all of it off again and pops    *)
(* what it finds for an address.  In between, the body of a function may   *)
(* write its locals, its arguments and everything below the stack pointer. *)
(*                                                                         *)
(*     base - 8          return address, stored by the caller              *)
(*     base - 16 ...     arguments after the sixth                         *)
(*     Body + 8n ...     locals                                            *)
(*     Body              the stack pointer while the body runs             *)
(***************************************************************************)
EXTENDS Integers, Sequences

CONSTANTS
  Addresses,   \* of the words of the stack
  Words,       \* what a word may hold
  Arities,     \* the arguments and locals of the functions
  Top          \* the stack pointer of go

ASSUME FramesAssumption ==
  /\ Addresses \subseteq Int /\ Top \in Int /\ Top - 8 \in Addresses
  /\ Arities \subseteq [arguments : Nat, locals : Nat]

VARIABLES
  step,     \* "enter", "body", "called", "leave", "done"
  rsp,
  stack,
  frames    \* history: the activations, what each was called with

vars == <<step, rsp, stack, frames>>

-----------------------------------------------------------------------------
StackArguments(n) == IF n > 6 THEN n - 6 ELSE 0

\* Mutated form: the word of the return address is not counted.
CallAdjustmentNoReturn(n) == StackArguments(n) * 8

CallAdjustment(n) == StackArguments(n) * 8 + 8

HeaderAdjustment(arity) == arity.locals * 8

\* Mutated form: the arguments on the stack are not popped.
ReturnAdjustmentLocalsOnly(arity) == arity.locals * 8

ReturnAdjustment(arity) == arity.locals * 8 + StackArguments(arity.arguments) * 8

\* Where the stack pointer is while the body of an activation runs.
Body(frame) ==
  frame.base - 8 - 8 * StackArguments(frame.arity.arguments) - 8 * frame.arity.locals

Current == frames[Len(frames)]

Init ==
  /\ step = "enter"
  /\ rsp = Top - 8
  /\ stack \in [Addresses -> Words]
  /\ \E arity \in Arities :
       /\ arity.arguments <= 6
       /\ frames = << [ret |-> stack[Top - 8], base |-> Top, arity |-> arity] >>

Header ==
  /\ step = "enter"
  /\ rsp' = rsp - HeaderAdjustment(Current.arity)
  /\ step' = "body"
  /\ UNCHANGED <<stack, frames>>

\* The body of a function, and functions of the runtime that it calls.
RunBody ==
  /\ step = "body"
  /\ stack' \in [Addresses -> Words]
  /\ \A a \in Addresses :
       stack'[a] # stack[a] =>
         a < rsp + 8 * (Current.arity.locals + StackArguments(Current.arity.arguments))
  /\ UNCHANGED <<step, rsp, frames>>

\* The subq of a call with n arguments, ...
CallSubq ==
  /\ step = "body"
  /\ rsp - 8 \in Addresses
  /\ \E arity \in Arities : rsp' = rsp - CallAdjustment(arity.arguments)
  /\ step' = "called"
  /\ UNCHANGED <<stack, frames>>

\* ... and its jump to a function that takes as many.
CallJmp ==
  /\ step = "called"
  /\ \E arity \in Arities :
       /\ rsp = Body(Current) - CallAdjustment(arity.arguments)
       /\ frames' = Append(frames, [ret   |-> stack[Body(Current) - 8],
                                    base  |-> Body(Current),
                                    arity |-> arity])
  /\ step' = "enter"
  /\ UNCHANGED <<rsp, stack>>

ReturnAddq ==
  /\ step = "body"
  /\ rsp' = rsp + ReturnAdjustment(Current.arity)
  /\ step' = "leave"
  /\ UNCHANGED <<stack, frames>>

ReturnRetq ==
  /\ step = "leave"
  /\ rsp' = rsp + 8
  /\ frames' = SubSeq(frames, 1, Len(frames) - 1)
  /\ step' = IF Len(frames) = 1 THEN "done" ELSE "body"
  /\ UNCHANGED stack

Next == Header \/ RunBody \/ CallSubq \/ CallJmp \/ ReturnAddq \/ ReturnRetq

Spec == Init /\ [][Next]_vars

-----------------------------------------------------------------------------
(***************************************************************************)
(* Properties                                                              *)
(***************************************************************************)

\* The type invariant: an activation runs unless the program has ended.
TypeOK ==
  /\ step \in {"enter", "body", "called", "leave", "done"}
  /\ rsp \in Int
  /\ stack \in [Addresses -> Words]
  /\ frames = <<>> <=> step = "done"

\* A return pops the address its own caller stored, from the word where the
\* caller stored it: whatever was called, with however many arguments and
\* locals, and written to the stack in between.
ReturnsToCaller ==
  step = "leave" =>
    /\ rsp = Current.base - 8
    /\ rsp \in Addresses
    /\ stack[rsp] = Current.ret

\* After a call the stack pointer is where it was before it, so that the
\* locals have the same addresses for all of the body.
FrameKept == step = "body" => rsp = Body(Current)

\* An activation never changes its return address, nor anything its callers
\* keep on the stack.
CallersUntouched ==
  [][\A a \in Addresses : a >= Current.base - 8 => stack'[a] = stack[a]]_vars
=============================================================================
