----------------------------- MODULE MCL3Parser -----------------------------
(***************************************************************************)
(* Pairs of instructions of L3, as they are written and as they should     *)
(* come out.  "br", "load", "store", "call" and "return" are symbols of    *)
(* names as well: "x" followed by "load" would be the name xload.          *)
(***************************************************************************)
EXTENDS L3Parser

MCLetters ==
  {"x", "y", "z", "print", "array", "error", "br", "load", "store", "call", "return", "define"}

W(symbols, made) == <<symbols, made>>

X == <<"x">>
Y == <<"y">>
Z == <<"z">>
Minus1 == <<"-", "1">>
LabelX == <<":", "x">>
LabelY == <<":", "y", "1">>

Arrowed(w) == w \o <<" ", "<", "-", " ">>

Simple == {
  W(Arrowed(X) \o Y, <<Made("assign", X, <<Y>>, None)>>),
  W(Arrowed(X) \o LabelY, <<Made("assign", X, <<LabelY>>, None)>>),
  W(Arrowed(X) \o <<"load", " ", "y">>, <<Made("load", X, <<Y>>, None)>>),
  W(<<"store", " ">> \o Arrowed(X) \o Y, <<Made("store", X, <<Y>>, None)>>),
  W(<<"store", " ">> \o Arrowed(X) \o LabelX, <<Made("store", X, <<LabelX>>, None)>>),
  W(<<"store", " ">> \o Arrowed(X) \o Minus1, <<Made("store", X, <<Minus1>>, None)>>) }

Operations == {
  W(Arrowed(X) \o <<"y", " ", "<", " ", "z">>, <<Made("compare", X, <<Y, Z>>, <<"<">>)>>),
  W(Arrowed(X) \o <<"y", ">", "=", "z">>, <<Made("compare", X, <<Y, Z>>, <<">", "=">>)>>),
  W(Arrowed(X) \o <<"y", " ", "-", " ", "-", "1">>,
    <<Made("arithmetic", X, <<Y, Minus1>>, <<"-">>)>>),
  W(Arrowed(X) \o <<"2", "<", "<", "y">>, <<Made("arithmetic", X, <<<<"2">>, Y>>, <<"<", "<">>)>>) }

Moved(k, a) == Made("assign", << arg_registers[k] >>, <<a>>, None)
Calls == {
  W(<<"call", " ", "print", " ", "(", "x", ")">>,
    <<Moved(1, X), Made("call", None, <<X>>, <<"print">>)>>),
  W(<<"call", " ", "array", "-", "error", "(", "x", ",", " ", "1", ")">>,
    <<Moved(1, X), Moved(2, <<"1">>),
      Made("call", None, <<X, <<"1">> >>, <<"array", "-", "error">>)>>),
  W(Arrowed(X) \o <<"call", " ", ":", "y", "1", "(", ")">>,
    <<Made("callassign", X, <<>>, LabelY)>>),
  W(Arrowed(Z) \o <<"call", " ", "x", "(", "y", ",", "z", ")">>,
    <<Moved(1, Y), Moved(2, Z), Made("callassign", Z, <<Y, Z>>, X)>>) }

Control == {
  W(LabelX, <<Made("label", None, None, <<X>>)>>),
  W(<<"br", " ">> \o LabelX, <<Made("br", None, None, <<LabelX>>)>>),
  W(<<"br", " ", "x", " ">> \o LabelX \o <<" ">> \o LabelY,
    <<Made("cbr", None, <<X>>, <<LabelX, LabelY>>)>>),
  W(<<"return", " ", "x">>, <<Made("retv", None, <<X>>, None)>>) }

Return == W(<<"return">>, <<Made("return", None, None, None)>>)

Join(a, b) == <<a[1] \o <<" ">> \o b[1], a[2] \o b[2]>>

Header(l, parameters) == <<"define", " ">> \o l \o <<" ", "(">> \o parameters \o <<")", " ", "{", " ">>
End == <<Made("end", None, None, None)>>

\* A function of two parameters, and one of none.
Closed(w) ==
  <<Header(LabelX, <<"x", ",", " ", "y">>) \o w[1] \o <<" ", "}", " ">>
      \o Header(LabelY, <<>>) \o <<"return", " ", "}">>,
    <<Made("function", None, None, <<LabelX>>), Made("assign", X, << <<"rdi">> >>, None),
      Made("assign", Y, << <<"rsi">> >>, None)>> \o w[2] \o End
      \o <<Made("function", None, None, <<LabelY>>), Made("return", None, None, None)>> \o End>>

Written == Simple \cup Operations \cup Calls \cup Control

\* Nothing follows a plain return but a label or the brace: a name or a number
\* would be taken for its value.
MCSources ==
  {Closed(Join(a, b)) : a \in Written, b \in Written \cup {Return}}
  \cup {Closed(Join(Return, W(LabelX, <<Made("label", None, None, <<X>>)>>)))}

\* Not read as written, so not among MCSources: x <- y <= z ends the program
\* after x <- y, as "<" is tried first.
LessOrEqual == {Closed(
  W(Arrowed(X) \o <<"y", " ", "<", "=", " ", "z">>, <<Made("compare", X, <<Y, Z>>, <<"<", "=">>)>>))}

\* Not read as written either: storex <- y is taken for the store of y to x.
StoreName == {Closed(
  W(Arrowed(<<"store", "x">>) \o Y, <<Made("assign", <<"store", "x">>, <<Y>>, None)>>))}
=============================================================================
