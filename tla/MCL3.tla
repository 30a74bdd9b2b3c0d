-------------------------------- MODULE MCL3 --------------------------------
(***************************************************************************)
(* Programs to compile with L3.                                            *)
(***************************************************************************)
EXTENDS L3Semantics

Ins(op, root, lhs, rhs) ==
  [op |-> op, root |-> root, lhs |-> lhs, rhs |-> rhs, to |-> <<>>,
   callee |-> None, n |-> 0]
Jump(op, root, to)      == [Ins(op, root, None, None) EXCEPT !.to = to]
Call(callee, n)         == [Ins("call", None, None, None)
                              EXCEPT !.callee = callee, !.n = n]
CallAssign(x, callee, n) == [Call(callee, n) EXCEPT !.op = "callassign", !.root = x]

\* An operation whose result is also its second operand only.
Aliased(ins) ==
  ins.op \in Arithmetics /\ ins.root = ins.rhs /\ ins.root # ins.lhs

Names == {"x", "y"}
Operations == {Ins(op, r, a, b) : op \in {"sub", "gt", "lte"}, r \in Names,
                                  a \in Names, b \in Names \cup {"5"}}
Others ==
  { Ins("assn", "x", "y", None), Ins("assn", "y", "5", None),
    Ins("assn", "rdi", "x", None), Ins("load", "y", "x", None),
    Ins("store", "x", "y", None), Jump("cbranch", "x", <<":a", ":b">>),
    Jump("label", None, <<":a">>), Jump("branch", None, <<":b">>),
    CallAssign("x", ":f", 1), Call("print", 1), CallAssign("y", "allocate", 2),
    Ins("ret", None, None, None), Ins("retv", None, "x", None) }

Function(name, code) == [name |-> name, code |-> code]

\* Every function of one or two instructions, and those of three that begin
\* with one of Others; no function is called twice.
Plain == {ins \in Operations : ~Aliased(ins)} \cup Others
Codes == [1..1 -> Plain] \cup [1..2 -> Plain]
         \cup {<<a, b, c>> : a \in Others, b \in {ins \in Plain : ins.op # "lte"},
                             c \in Plain}
OneCall(code) ==
  \A a, b \in DOMAIN code : code[a].callee = ":f" /\ code[b].callee = ":f" => a = b
Alone == {<<Function(":f", code)>> : code \in {c \in Codes : OneCall(c)}}

\* Several functions: the same labels in each, jumps both ways, calls of each
\* other, of a function in a variable and of the runtime.
Body(callee) ==
  << Ins("assn", "rdi", "x", None), CallAssign("y", callee, 1),
     Jump("label", None, <<":a">>), Jump("cbranch", "y", <<":a", ":b">>),
     Jump("label", None, <<":b">>), Jump("branch", None, <<":a">>),
     Ins("retv", None, "y", None) >>
Together == {<<Function(":main", Body(":f")), Function(":f", Body("fp")),
               Function(":g", b), Function(":h", <<Ins("ret", None, None, None)>>)>> :
             b \in {Body(c) : c \in {":g", ":main", "allocate"}}}
MCPrograms == Alone \cup Together

\* src/L3/tests/test19.L3, the last lines of initArray: the result of a
\* multiplication is its second operand.
MCAliased ==
  {<<Function(":initArray",
      << Ins("assn", "newVar5", "1", None),
         Ins("mul", "newVar5", "newVar4", "newVar5"),
         Ins("lshift", "newVarX", "newVar5", "1"),
         Ins("add", "newVarX", "newVarX", "1"),
         Ins("assn", "rdi", "newVarX", None), Call("print", 1),
         Ins("ret", None, None, None) >>)>>}

\* Not among MCPrograms: two calls of one function, whose return labels may
\* be the same.
MCTwoCalls ==
  {<<Function(":main", << CallAssign("x", ":find", 0), CallAssign("y", ":find", 0),
                         Ins("ret", None, None, None) >>),
     Function(":find", << Ins("retv", None, "5", None) >>)>>}

\* Not among MCPrograms: the label :a of function :bb and the label :ab of function :b
\* get the same name.
MCNames ==
  {<<Function(":bb", << Jump("branch", None, <<":a">>), Jump("label", None, <<":a">>),
                        Ins("ret", None, None, None) >>),
     Function(":b", << Jump("branch", None, <<":ab">>), Jump("label", None, <<":ab">>),
                       Ins("ret", None, None, None) >>)>>}
=============================================================================
