----------------------------- MODULE MCL1Parser -----------------------------
(***************************************************************************)
(* Pairs of instructions of L1, as they are written and as they should     *)
(* come out, in a program of two functions.                                *)
(***************************************************************************)
EXTENDS L1Parser

Rdi == <<"register", "rdi">>
Rcx == <<"register", "rcx">>
Rsp == <<"register", "rsp">>
LabelF == <<"label", "f">>
LabelG == <<"label", "g">>
N(n) == <<"number", n>>
S(symbol) == <<"symbol", symbol>>
K(word) == <<"name", word>>

R(register) == <<register, TRUE>>
C(constant) == <<constant, FALSE>>

W(tokens, made) == << <<S("(")>> \o tokens \o <<S(")")>>, made>>
Mem(x, n) == <<S("("), K("mem"), x, N(n), S(")")>>

Rax == <<"register", "rax">>
F == <<"_", "f">>
G == <<"_", "g">>

Moves == {
  W(<<Rax, S("<-"), Rdi>>, <<"assign", Rax, R(Rdi)>>),
  W(<<Rdi, S("<-"), LabelG>>, <<"assign", Rdi, C(G)>>),
  W(<<Rcx, S("<-"), Rsp>>, <<"assign", Rcx, R(Rsp)>>),
  W(<<Rax, S("<-")>> \o Mem(Rdi, 8), <<"load", Rax, <<Rdi, N(8)>> >>),
  W(Mem(Rax, 0) \o <<S("<-"), LabelF>>, <<"store", <<Rax, N(0)>>, C(F)>>),
  W(Mem(Rsp, -8) \o <<S("<-"), Rdi>>, <<"store", <<Rsp, N(-8)>>, R(Rdi)>>) }

Operations == {
  W(<<Rax, S("+="), N(-1)>>, <<"aop", Rax, S("+="), C(N(-1))>>),
  W(<<Rdi, S("*="), Rax>>, <<"aop", Rdi, S("*="), R(Rax)>>),
  W(Mem(Rax, 8) \o <<S("-="), Rdi>>, <<"maop", <<Rax, N(8)>>, S("-="), R(Rdi)>>),
  W(<<Rdi, S("-=")>> \o Mem(Rsp, 0), <<"maop2", Rdi, S("-="), <<Rsp, N(0)>> >>),
  W(<<Rax, S("<<="), Rcx>>, <<"shift", Rax, S("<<="), <<"register", "%cl">> >>),
  W(<<Rdi, S(">>="), N(3)>>, <<"shift", Rdi, S(">>="), <<"$", 3>> >>),
  W(<<Rax, S("<-"), Rdi, S("<="), N(2)>>, <<"cmp", Rax, <<R(Rdi), S("<="), C(N(2))>> >>),
  W(<<Rdi, S("++")>>, <<"aop", Rdi, S("+="), C(One)>>),
  W(<<Rdi, S("--")>>, <<"aop", Rdi, S("-="), C(One)>>),
  W(<<Rax, S("@"), Rdi, Rcx, N(8)>>, <<"wawwe", Rax, Rdi, Rcx, N(8)>>) }

Control == {
  << <<LabelF>>, <<"label", F>> >>,
  W(<<K("goto"), LabelG>>, <<"goto", G>>),
  W(<<K("cjump"), N(1), S("<"), Rdi, LabelF, LabelG>>, <<"cjump", <<C(N(1)), S("<"), R(Rdi)>>, F, G>>),
  W(<<K("return")>>, <<"return">>),
  W(<<K("call"), K("print"), N(1)>>, <<"runtime", K("print"), N(1)>>),
  W(<<K("call"), K("array-error"), N(2)>>, <<"runtime", K("array_error"), N(2)>>),
  W(<<K("call"), LabelG, N(0)>>, <<"call", G, N(0)>>),
  W(<<K("call"), Rdi, N(7)>>, <<"call", Rdi, N(7)>>) }

Written == Moves \cup Operations \cup Control

\* A function of two locals, and one of none that returns.
Closed(a, b) ==
  << <<S("("), LabelF, S("("), LabelF, N(0), N(2)>> \o a[1] \o b[1]
       \o <<S(")"), S("("), LabelG, N(1), N(0), S("("), K("return"), S(")"), S(")"), S(")")>>,
     << <<"entry", LabelF>>, <<"function", LabelF, 0, 2>>, a[2], b[2], <<"end">>,
        <<"function", LabelG, 1, 0>>, <<"return">>, <<"end">>, <<"end">> >> >>

MCSources == {Closed(a, b) : a \in Written, b \in Written}

\* Not read as written, so not among MCSources: the left side is taken from the
\* address, whose base is the last w that was matched.
AddedFromMemory == {Closed(
  W(<<Rdi, S("+=")>> \o Mem(Rax, 0), <<"maop2", Rdi, S("+="), <<Rax, N(0)>> >>), a) : a \in Moves}
=============================================================================
