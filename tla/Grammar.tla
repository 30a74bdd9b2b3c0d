------------------------------ MODULE Grammar ------------------------------
(***************************************************************************)
(* What the grammars of the five languages are written with.  A grammar is *)
(* a sequence of alternatives [op, elements, from, to], in the order they  *)
(* are tried; from and to are the part of the program before and after.    *)
(***************************************************************************)
EXTENDS Integers, Sequences, SequencesExt

\* An instruction of L3, IR or LA, by the text of its operands; to is where it
\* goes, or what it calls, computes or declares.
Made(op, w, operands, to) == [op |-> op, w |-> w, operands |-> operands, to |-> to]
None == <<>>

Two(stack) == SubSeq(stack, Len(stack) - 1, Len(stack))

\* What back() gives; of an empty stack it is no operand of the program.
Back(stack) == IF stack = <<>> THEN <<>> ELSE Last(stack)
=============================================================================
