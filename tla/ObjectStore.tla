---------------------------- MODULE ObjectStore ----------------------------
(***************************************************************************)
(* What the runtime promises the programs it is linked with: arrays that   *)
(* stay where they are, are never lost, never change behind the program's  *)
(* back and never share their elements.  There is no heap here and no      *)
(* collector; only what the program can still reach is part of the state.  *)
(***************************************************************************)
EXTENDS Integers, FiniteSets, Functions

CONSTANTS Numbers,      \* encoded numbers
          Ids           \* names of arrays, none of them an encoded number

VARIABLES root,         \* the values of the places the program may read
          array,        \* the elements of every array within reach
          request       \* the call of allocate under way: <<>> or <<size, fill>>

vars == <<root, array, request>>

(***************************************************************************)
(* Arrays within reach of a set of values.                                 *)
(***************************************************************************)
Within(values, arrays) ==
    LET reach[n \in 0..Cardinality(DOMAIN arrays)] ==
            DOMAIN arrays \intersect
                (values \union IF n = 0 THEN {}
                               ELSE UNION {Range(arrays[a]) : a \in reach[n-1]})
    IN reach[Cardinality(DOMAIN arrays)]

Held(roots, call) == Range(roots) \union (IF call = <<>> THEN {} ELSE {call[2]})

\* The next state: what the step makes of the roots, the arrays and the call,
\* less the arrays nobody can reach any more.
Becomes(roots, arrays, call) ==
    /\ root' = roots /\ request' = call
    /\ \E all \in {arrays} : array' = Restrict(all, Within(Held(roots, call), all))

With(f, x, v) == [y \in DOMAIN f \union {x} |-> IF y = x THEN v ELSE f[y]]
Without(place) == Restrict(root, DOMAIN root \ {place})

Init == root = <<>> /\ array = <<>> /\ request = <<>>

(***************************************************************************)
(* The program's own steps.  A place is what DOMAIN root holds.            *)
(***************************************************************************)
Assign == /\ request = <<>>
          /\ \E p \in DOMAIN root' : \E v \in Numbers \union Range(root) :
                Becomes(With(root, p, v), array, <<>>)

Read == /\ request = <<>>
        /\ \E p \in DOMAIN root', q \in DOMAIN root :
              /\ root[q] \in DOMAIN array
              /\ \E i \in DOMAIN array[root[q]] :
                    Becomes(With(root, p, array[root[q]][i]), array, <<>>)

Write == /\ request = <<>>
         /\ \E p, q \in DOMAIN root :
               /\ root[q] \in DOMAIN array
               /\ \E i \in DOMAIN array[root[q]] :
                     Becomes(root, [array EXCEPT ![root[q]][i] = root[p]], <<>>)

Forget == /\ request = <<>>
          /\ \E p \in DOMAIN root : Becomes(Without(p), array, <<>>)

(***************************************************************************)
(* The call of allocate and its answer: an array of its own with as many   *)
(* elements as were asked for, all of them the fill value.  The places in  *)
(* caller-saved registers are lost over the call.                          *)
(***************************************************************************)
Ask == /\ request = <<>> /\ request' # <<>>
       /\ \E fill \in Numbers \union Range(root) :
             Becomes(Restrict(root, DOMAIN root \intersect DOMAIN root'),
                     array, <<request'[1], fill>>)

Answer == /\ request # <<>> /\ request' = <<>>
          /\ \E p \in DOMAIN root' : \E new \in {root'[p]} \intersect (Ids \ DOMAIN array) :
                Becomes(With(root, p, new),
                        With(array, new, [i \in 1..request[1] |-> request[2]]), <<>>)

Next == Assign \/ Read \/ Write \/ Forget \/ Ask \/ Answer

Spec == Init /\ [][Next]_vars
=============================================================================
