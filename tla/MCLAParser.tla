----------------------------- MODULE MCLAParser -----------------------------
(***************************************************************************)
(* Pairs of instructions of LA, and functions of IR made of two blocks.    *)
(***************************************************************************)
EXTENDS LAParser

MCLetters == {"x", "y", "z", "i", "print", "main"}

W(symbols, made) == <<symbols, made>>

\* A variable as it is written, and its name: N is LAVarName or IRVarName.
V(v) == <<"%", v>>
Minus1 == <<"-", "1">>
LabelX == <<":", "x">>
LabelY == <<":", "y", "1">>
Arrowed(w) == w \o <<" ", "<", "-", " ">>
Bracketed(w) == <<"[">> \o w \o <<"]">>

\* What LA and IR have in common.
Common(N(_)) ==
  LET X == N(V("x"))
      Y == N(V("y"))
      I == N(V("i"))
  IN {
  W(Arrowed(V("x")) \o V("y") \o Bracketed(V("i")) \o Bracketed(<<"2">>),
    <<Made("read", X, <<Y, I, <<"2">> >>, None)>>),
  W(V("x") \o <<" ">> \o Bracketed(V("i")) \o Arrowed(<<>>) \o V("y"),
    <<Made("write", X, <<Y, I>>, None)>>),
  W(Arrowed(V("x") \o Bracketed(<<"1">>) \o <<" ">> \o Bracketed(V("y"))) \o LabelX,
    <<Made("write", X, <<LabelX, <<"1">>, Y>>, None)>>),
  W(Arrowed(V("x")) \o <<"length", " ">> \o V("y") \o <<" ", "0">>,
    <<Made("length", X, <<Y, <<"0">> >>, None)>>),
  W(Arrowed(V("x")) \o <<"new", " ", "Array(">> \o V("y") \o <<",", " ", "3", ")">>,
    <<Made("newarray", X, <<Y, <<"3">> >>, None)>>),
  W(Arrowed(V("x")) \o <<"new", " ", "Tuple(">> \o V("i") \o <<")">>,
    <<Made("newtuple", X, <<I>>, None)>>),
  W(Arrowed(V("x")) \o V("y") \o <<" ", "-", " ">> \o Minus1,
    <<Made("operation", X, <<Y, Minus1>>, <<"-">>)>>),
  W(Arrowed(V("x")) \o <<"2", " ", ">", "=", " ">> \o V("x"),
    <<Made("operation", X, <<<<"2">>, X>>, <<">", "=">>)>>),
  W(LabelX, <<Made("label", None, None, <<LabelX>>)>>),
  W(<<"int64", "[]", "[]", " ">> \o V("y"), <<Made("declare", Y, None, <<"array", 2>>)>>),
  W(<<"int64", " ">> \o V("i"), <<Made("declare", I, None, <<"int64", 0>>)>>),
  W(<<"tuple", " ">> \o V("x"), <<Made("declare", X, None, <<"tuple", 0>>)>>),
  W(Arrowed(V("x")) \o V("y"), <<Made("assign", X, <<Y>>, None)>>),
  W(Arrowed(V("x")) \o LabelY, <<Made("assign", X, <<LabelY>>, None)>>),
  W(<<"call", " ", "print", " ", "(", " ">> \o V("x") \o <<" ", ")">>,
    <<Made("call", None, <<X>>, <<"print">>)>>),
  W(Arrowed(V("x")) \o <<"call", " ">> \o V("y") \o <<"(">> \o V("i") \o <<",", "1", ")">>,
    <<Made("callassign", X, <<I, <<"1">> >>, V("y"))>>) }

LAOnly == { W(<<"call", " ", "z", "(", ")">>, <<Made("call", None, <<>>, <<"z">>)>>) }

IROnly == {
  W(<<"call", " ">> \o LabelY \o <<"(", ")">>, <<Made("call", None, <<>>, LabelY)>>),
  W(Arrowed(V("x")) \o <<"length", " ">> \o V("y") \o <<" ">> \o V("i"),
    <<Made("length", <<"x">>, <<<<"y">>, <<"i">> >>, None)>>) }

Jumps(N(_)) == {
  W(<<"br", " ">> \o LabelX, <<Made("br", None, None, <<LabelX>>)>>),
  W(<<"br", " ">> \o V("x") \o <<" ">> \o LabelX \o <<" ">> \o LabelY,
    <<Made("cbr", None, <<N(V("x"))>>, <<LabelX, LabelY>>)>>),
  W(<<"return", " ">> \o V("x"), <<Made("retv", None, <<N(V("x"))>>, None)>>),
  W(<<"return">>, <<Made("return", None, None, None)>>) }

Join(a, b) == <<a[1] \o <<" ">> \o b[1], a[2] \o b[2]>>

Declared(N(_)) == << <<<<"array", 1>>, N(V("x"))>>, <<<<"int64", 0>>, N(V("y"))>> >>
Parameters ==
  <<"(", "int64", "[]", " ", "%", "x", ",", " ", "int64", " ", "%", "y", ")", " ", "{", " ">>
Ended == <<Made("end", None, None, None)>>

LAClosed(w) ==
  <<<<"void", " ", "main", "(", ")", "{", "return", "}", " ", "int64", " ", "x">>
      \o Parameters \o w[1] \o <<" ", "}">>,
    <<Made("function", None, << <<"main">> >>, <<"void", 0>>), Made("declarations", None, <<>>, None),
      Made("return", None, None, None)>> \o Ended
      \o <<Made("function", None, << <<"x">> >>, <<"int64", 0>>),
           Made("declarations", None, Declared(LAVarName), None)>> \o w[2] \o Ended>>

IRClosed(w) ==
  <<<<"define", " ", "int64", "[]", " ", ":", "x">> \o Parameters \o w[1] \o <<" ", "}">>,
    <<Made("function", None, <<LabelX>>, <<"array", 1>>),
      Made("declarations", None, Declared(IRVarName), None)>> \o w[2] \o Ended>>

LAWritten == Common(LAVarName) \cup LAOnly

\* Nothing follows a jump but the brace or a label.
LASources ==
  {LAClosed(Join(a, b)) : a \in LAWritten, b \in LAWritten \cup Jumps(LAVarName)}
  \cup {LAClosed(Join(a, W(LabelX, <<Made("label", None, None, <<LabelX>>)>>))) :
          a \in Jumps(LAVarName)}

Block(l, w, jump) == Join(W(l, <<Made("entry", None, None, <<l>>)>>), Join(w, jump))

IRWritten == Common(IRVarName) \cup IROnly

\* A label within a block is an instruction, at its beginning the entry.
IRSources ==
  {IRClosed(Join(Block(LabelY, a, j),
               Block(LabelX, b, W(<<"return">>, <<Made("return", None, None, None)>>)))) :
     a \in IRWritten, j \in Jumps(IRVarName), b \in IRWritten}

\* Not read as written, so not among LASources: %x <- length %y %i is taken for
\* length %i %i.
VariableIndex == {LAClosed(
  W(Arrowed(V("x")) \o <<"length", " ">> \o V("y") \o <<" ">> \o V("i"),
    <<Made("length", V("x"), <<V("y"), V("i")>>, None)>>))}
=============================================================================
