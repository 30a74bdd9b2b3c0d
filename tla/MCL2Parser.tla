----------------------------- MODULE MCL2Parser -----------------------------
(***************************************************************************)
(* Pairs of instructions of L2, as they are written and as they should     *)
(* come out, in a program of two functions.                                *)
(***************************************************************************)
EXTENDS L2Parser

Rdi == <<"register", "rdi">>
Rcx == <<"register", "rcx">>
Rsp == <<"register", "rsp">>
LabelF == <<"label", "f">>
LabelG == <<"label", "g">>
N(n) == <<"number", n>>
S(symbol) == <<"symbol", symbol>>
K(word) == <<"name", word>>

R(register) == <<register, TRUE>>
C(constant) == <<constant, FALSE>>

W(tokens, made) == << <<S("(")>> \o tokens \o <<S(")")>>, made>>
Mem(x, n) == <<S("("), K("mem"), x, N(n), S(")")>>

I == <<"name", "i">>
J == <<"name", "j">>
PrintX == <<"name", "printx">>

Moves == {
  W(<<I, S("<-"), J>>, <<"assign", I, R(J)>>),
  W(<<Rdi, S("<-"), LabelG>>, <<"assign", Rdi, C(LabelG)>>),
  W(<<J, S("<-"), Rsp>>, <<"assign", J, R(Rsp)>>),
  W(<<I, S("<-")>> \o Mem(J, 8), <<"load", I, <<J, N(8)>> >>),
  W(Mem(I, 0) \o <<S("<-"), LabelF>>, <<"store", <<I, N(0)>>, C(LabelF)>>),
  W(Mem(Rsp, -8) \o <<S("<-"), J>>, <<"store", <<Rsp, N(-8)>>, R(J)>>),
  W(<<J, S("<-"), S("("), K("stack-arg"), N(8), S(")")>>, <<"load", J, <<Rsp, N(24)>> >>) }

Operations == {
  W(<<I, S("+="), N(-1)>>, <<"aop", I, S("+="), C(N(-1))>>),
  W(<<Rdi, S("*="), J>>, <<"aop", Rdi, S("*="), R(J)>>),
  W(Mem(I, 8) \o <<S("-="), J>>, <<"maop", <<I, N(8)>>, S("-="), R(J)>>),
  W(<<I, S("-=")>> \o Mem(Rsp, 0), <<"maop2", I, S("-="), <<Rsp, N(0)>> >>),
  W(<<I, S("<<="), Rcx>>, <<"shift", I, S("<<="), <<"register", "%cl">> >>),
  W(<<Rdi, S(">>="), J>>, <<"shift", Rdi, S(">>="), J>>),
  W(<<I, S("<-"), J, S("<="), N(2)>>, <<"cmp", I, <<R(J), S("<="), C(N(2))>> >>),
  W(<<Rdi, S("++")>>, <<"aop", Rdi, S("+="), C(One)>>),
  W(<<Rdi, S("--")>>, <<"aop", Rdi, S("-="), C(One)>>),
  W(<<I, S("@"), J, Rdi, N(8)>>, <<"wawwe", I, J, Rdi, N(8)>>) }

Control == {
  << <<LabelF>>, <<"label", LabelF>> >>,
  W(<<K("goto"), LabelG>>, <<"goto", LabelG>>),
  W(<<K("cjump"), N(1), S("<"), J, LabelF, LabelG>>,
    <<"cjump", <<C(N(1)), S("<"), R(J)>>, L2_cjump_then_label_rule(LabelF), LabelG>>),
  W(<<K("return")>>, <<"return">>),
  W(<<K("call"), K("print"), N(1)>>, <<"runtime", K("print"), N(1)>>),
  W(<<K("call"), K("array-error"), N(2)>>, <<"runtime", K("array-error"), N(2)>>),
  W(<<K("call"), LabelG, N(0)>>, <<"call", LabelG, N(0)>>),
  W(<<K("call"), PrintX, N(7)>>, <<"call", PrintX, N(7)>>) }

Written == Moves \cup Operations \cup Control

\* A function of two locals, and one of none that returns.
Closed(a, b) ==
  << <<S("("), LabelF, S("("), LabelF, N(0), N(2)>> \o a[1] \o b[1]
       \o <<S(")"), S("("), LabelG, N(1), N(0), S("("), K("return"), S(")"), S(")"), S(")")>>,
     << <<"entry", LabelF>>, <<"function", LabelF, 0, 2>>, a[2], b[2], <<"end">>,
        <<"function", LabelG, 1, 0>>, <<"return">>, <<"end">>, <<"end">> >> >>

MCSources == {Closed(a, b) : a \in Written, b \in Written}

\* Not read as written, so not among MCSources: the left side is taken from the
\* address, whose base is the last w that was matched.
AddedFromMemory == {Closed(
  W(<<Rdi, S("+=")>> \o Mem(I, 0), <<"maop2", Rdi, S("+="), <<I, N(0)>> >>), a) : a \in Moves}
=============================================================================
