----------------------------- MODULE MCRuntime -----------------------------
(***************************************************************************)
(* Small heaps: one callee-saved register, one that is not, and a stack of *)
(* at most one local besides the word the register is saved in.            *)
(***************************************************************************)
EXTENDS Runtime
CONSTANTS rax, rbx,      \* registers
          n1, n2, n3, n4, n5, n6    \* names

MCSaved == <<rbx>>
MCScratch == {rax}
MCNumbers == {3}
\* Encoded sizes 0, 1 and 2, and two that are refused
MCRequests == {-1, 1, 3, 4, 5}
MCIds == {n1, n2, n3, n4, n5, n6}
\* Not among MCRequests: a size an int cannot hold
MCWrapping == {129}
MCLeftover == {TRUE}    \* flags that nobody has set: the worst that malloc can leave
=============================================================================
