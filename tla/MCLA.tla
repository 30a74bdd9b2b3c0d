-------------------------------- MODULE MCLA --------------------------------
(***************************************************************************)
(* LA programs of src/LA/tests, with what their .out files say, and        *)
(* families of programs for each kind of instruction.                      *)
(***************************************************************************)
EXTENDS LAProgram

I(op) == Ins(op, "none", Nothing, Nothing, <<>>, <<>>)
Declare(x, kind, dims) == [I("declare") EXCEPT !.w = x, !.type = <<kind, dims>>]
Int64(x)   == Declare(x, "int", 0)
Tuple(x) == Declare(x, "tuple", 0)
Array(x, dims) == Declare(x, "array", dims)
NewArray(x, dims) == [I("newarray") EXCEPT !.w = x, !.idx = dims]
NewTuple(x, n)    == [I("newtuple") EXCEPT !.w = x, !.s = n]
Read(x, a, idx)   == [I("read") EXCEPT !.w = x, !.s = Var(a), !.idx = idx]
Write(a, idx, s)  == [I("write") EXCEPT !.w = a, !.idx = idx, !.s = s]
Len0(x, a, k)     == Length(x, Var(a), Num(k))
Name(f)  == <<"name", f>>
CallF(f, args)    == [I("call") EXCEPT !.to = <<f>>, !.idx = args]
CallTo(x, f, args) == [I("callassign") EXCEPT !.w = x, !.to = <<f>>, !.idx = args]
PrintOf(o) == CallF(<<"runtime", "print">>, <<o>>)
Ret      == I("return")
RetV(o)  == [I("retv") EXCEPT !.s = o]
Function(name, params, code) == [name |-> name, params |-> params, code |-> code]
Main(code) == Function("main", <<>>, code)

-----------------------------------------------------------------------------
Test2 == << Main(<< Goto("myLabel1"), Label("myLabel1"), Label("true"), PrintOf(Num(1)), Ret >>) >>

Test3 == << Main(<<
  Int64("v1"), Int64("v2"), Assign("v1", Num(1)), Assign("v2", Num(2)), Int64("check"), Int64("v3"),
  Operate("v3", Var("v1"), "+", Var("v2")), Operate("check", Var("v3"), ">", Num(1)),
  If(Var("check"), "true", "false"),
  Label("true"), PrintOf(Var("v3")), Label("false"), Ret >>) >>

Test4 == << Main(<< Int64("arLen"), Array("ar", 1), NewArray("ar", <<Num(3)>>), PrintOf(Var("ar")), Ret >>) >>

Test6 == << Main(<<
  Array("ar", 2), Int64("arElement"), NewArray("ar", <<Num(3), Num(3)>>),
  Write("ar", <<Num(1), Num(2)>>, Num(5)), Read("arElement", "ar", <<Num(1), Num(2)>>),
  PrintOf(Var("arElement")), Ret >>) >>

\* A closure: code, its arity and what it was made with.
Test8 == <<
  Main(<< Tuple("t"), Int64("v"), CallTo("t", Name("createMyClosure"), <<Num(3)>>),
          CallTo("v", Name("callMyClosure"), <<Var("t"), Num(4)>>), PrintOf(Var("v")), Ret >>),
  Function("createMyClosure", << Int64("p1") >>, <<
    Label("entry"), Int64("x2"), Tuple("p"), Assign("x2", Num(21)), NewTuple("p", Num(9)),
    Write("p", <<Num(0)>>, <<"label", "myF">>), Write("p", <<Num(1)>>, Num(1)),
    Write("p", <<Num(2)>>, Var("p1")), Write("p", <<Num(3)>>, Var("x2")), RetV(Var("p")) >>),
  Function("callMyClosure", << Tuple("c"), Int64("argClosure") >>, <<
    Declare("fp", "code", 0), Read("fp", "c", <<Num(0)>>), Int64("numberOfArgs"),
    Read("arityOfC", "c", <<Num(1)>>), Int64("checkArgs"),
    Operate("checkArgs", Var("arityOfC"), "=", Num(1)), If(Var("checkArgs"), "true", "false"),
    Label("true"), Int64("finalResult"), Int64("finalResultEncoded"),
    CallTo("finalResult", Var("fp"), <<Var("c"), Var("argClosure")>>),
    PrintOf(Var("finalResult")), RetV(Var("finalResult")),
    Label("false"), RetV(Num(0)) >>),
  Function("myF", << Tuple("c"), Int64("p1") >>, <<
    Int64("x1"), Int64("x2"), Read("x1", "c", <<Num(2)>>), Read("x2", "c", <<Num(3)>>),
    Int64("r1"), Int64("r2"), Operate("r1", Var("x1"), "+", Var("x2")),
    Operate("r2", Var("r1"), "+", Var("p1")), RetV(Var("r2")) >>) >>

Test9 == <<
  Main(<< Array("a", 2), NewArray("a", <<Num(2), Num(2)>>), CallF(Name("initArray"), <<Var("a")>>),
          PrintOf(Var("a")) >>
       \o FlattenSeq([n \in 1..4 |-> << CallF(Name("printE"),
            <<Var("a"), Num((n - 1) \div 2), Num((n - 1) % 2)>>) >>]) \o << Ret >>),
  Function("initArray", << Array("A", 2) >>,
    [n \in 1..4 |-> Write("A", <<Num((n - 1) \div 2), Num((n - 1) % 2)>>, Num(n - 1))] \o << Ret >>),
  Function("printE", << Array("A", 2), Int64("i"), Int64("j") >>, <<
    Int64("e"), Read("e", "A", <<Var("i"), Var("j")>>), PrintOf(Var("e")), Ret >>) >>

\* Tests 11 to 15 write an element that an array does not have.
WriteTest(dims, idx, v) == <<
  Main(<< Array("a", Len(dims)), NewArray("a", [k \in DOMAIN dims |-> Num(dims[k])]),
          PrintOf(Var("a")), CallF(Name("initArray"), <<Var("a")>>) >> \o << Ret >>),
  Function("initArray", << Array("A", Len(dims)) >>, <<
    Write("A", [k \in DOMAIN idx |-> Num(idx[k])], Num(v)), Ret >>) >>

Test11 == WriteTest(<<2, 2>>, <<0, 2>>, 0)
Test12 == WriteTest(<<2, 2>>, <<2, 0>>, 0)
Test13 == WriteTest(<<2, 3, 4>>, <<2, 0, 0>>, 0)
Test15 == WriteTest(<<2, 3, 4>>, <<1, 2, 4>>, 0)
Test17 == << Main(<< Int64("arLen"), Array("ar", 1), Write("ar", <<Num(0)>>, Num(0)), Ret >>) >>

P(s) == <<"print", s>>
Zeros(n) == [k \in 1..n |-> 0]
Tests == {
  <<Test2, << P(<<1>>) >> >>,
  <<Test3, << P(<<3>>) >> >>,
  <<Test4, << P(<<5, 1, 3, 0, 0, 0>>) >> >>,
  <<Test6, << P(<<5>>) >> >>,
  <<Test8, << P(<<28>>), P(<<28>>) >> >>,
  <<Test9, << P(<<7, 2, 2, 2, 0, 1, 2, 3>>), P(<<0>>), P(<<1>>), P(<<2>>), P(<<3>>) >> >>,
  <<Test11, << P(<<7, 2, 2, 2, 0, 0, 0, 0>>), <<"position", <<2>> >> >> >>,
  <<Test12, << P(<<7, 2, 2, 2, 0, 0, 0, 0>>), <<"position", <<2>> >> >> >>,
  <<Test13, << P(<<28, 3, 2, 3, 4>> \o Zeros(24)), <<"position", <<2>> >> >> >>,
  <<Test15, << P(<<28, 3, 2, 3, 4>> \o Zeros(24)), <<"position", <<4>> >> >> >>,
  <<Test17, << <<"unallocated", <<>> >> >> >> }

\* A program of the tests ends and prints what its .out file says.
PrintsWhatTestSays ==
  frames = <<>> => \A t \in Tests : program = t[1] => output = t[2]

-----------------------------------------------------------------------------
\* Every operation, on constants and on variables.
Operators == <<"+", "-", "*", "&", "<<", ">>", "<", "<=", "=", ">", ">=">>
Operating ==
  {<< Main(<< Int64("x"), Int64("y"), Int64("r"), Assign("x", Num(n[1])), Assign("y", Num(n[2])) >>
      \o FlattenSeq([k \in DOMAIN Operators |->
           << Operate("r", n[3], Operators[k], Var("y")), PrintOf(Var("r")),
              Operate("x", Var("x"), Operators[k], n[4]), PrintOf(Var("x")) >>])
      \o << Ret >>) >> :
   n \in {<<0, 1, Var("x"), Num(1)>>, <<2, 1, Num(5), Var("y")>>, <<3, 3, Num(3), Num(2)>>}}

\* All elements of an array are written, by variables, and its lengths read.
Product(s) == FoldLeft(LAMBDA m, n : m * n, 1, s)
Index(dims, n) ==
  [k \in DOMAIN dims |-> (n \div Product(SubSeq(dims, k + 1, Len(dims)))) % dims[k]]

Filling(dims) ==
  LET i == <<"i", "j", "k">> IN
  << Main(<< Array("a", Len(dims)), NewArray("a", [k \in DOMAIN dims |-> Num(dims[k])]), Int64("e") >>
      \o FlattenSeq([n \in 1..Product(dims) |->
           [k \in DOMAIN dims |-> Assign(i[k], Num(Index(dims, n - 1)[k]))]
           \o << Write("a", [k \in DOMAIN dims |-> Var(i[k])], Num(n)) >>])
      \o FlattenSeq([k \in DOMAIN dims |-> << Len0("e", "a", k - 1), PrintOf(Var("e")) >>])
      \o << PrintOf(Var("a")), Ret >>) >>

\* In a loop: a declaration forgets the array, two variables share it.
Loop == <<
  Main(<< Array("b", 1), Int64("i"), Int64("more"), NewArray("b", <<Num(2)>>), Assign("i", Num(0)),
          Label("header"), Array("a", 1), Assign("a", Var("b")), Write("a", <<Var("i")>>, Var("i")),
          Operate("i", Var("i"), "+", Num(1)), Len0("more", "a", 0),
          Operate("more", Var("i"), "<", Var("more")), If(Var("more"), "header", "leave"),
          Label("unused"), Goto("header"),
          Label("leave"), PrintOf(Var("b")), Ret >>) >>

\* Recursion, and names that the compiler would take.
Names == <<
  Main(<< Int64("v0"), Int64("dim0"), Int64("mult"), Array("addr", 2), Assign("v0", Num(7)),
          Assign("dim0", Num(2)), Assign("mult", Num(1)), NewArray("addr", <<Var("dim0"), Num(2)>>),
          Write("addr", <<Var("mult"), Num(0)>>, Var("v0")), Read("dim0", "addr", <<Var("mult"), Num(0)>>),
          CallTo("v0", Name("sum"), <<Num(2)>>), PrintOf(Var("v0")), PrintOf(Var("addr")), Ret >>),
  Function("sum", << Int64("sum") >>, <<
    Int64("c"), Int64("less"), Operate("c", Var("sum"), "=", Num(0)), If(Var("c"), "zero", "more"),
    Label("zero"), RetV(Num(0)),
    Label("more"), Operate("less", Var("sum"), "-", Num(1)), CallTo("less", Name("sum"), <<Var("less")>>),
    Operate("sum", Var("sum"), "+", Var("less")), RetV(Var("sum")) >>) >>

\* Arrays in tuples, and an element of a tuple used as an array.
Nested == <<
  Main(<< Tuple("t"), Array("a", 1), Array("b", 1), Int64("n"), Assign("n", Num(2)),
          NewTuple("t", Var("n")), NewArray("a", <<Var("n")>>),
          Write("t", <<Num(1)>>, Var("a")), Write("a", <<Num(1)>>, Num(9)), Read("b", "t", <<Num(1)>>),
          Read("n", "b", <<Num(1)>>), PrintOf(Var("n")), Write("b", <<Var("n")>>, Num(1)), Ret >>) >>

MCPrograms ==
  {t[1] : t \in Tests} \cup Operating \cup {Loop, Names, Nested}
  \cup {Filling(dims) : dims \in {<<3>>, <<2, 3>>, <<3, 2>>, <<2, 2, 2>>, <<1, 2, 2>>}}

\* Not among MCPrograms (AccessInside): an array of five by four by three, as in src/IR/tests/Find_3D_Value.IR,
\* whose loops come to its last element.
MCThreeDimensions ==
  {<< Main(<< Array("A", 3), Int64("current_value"), NewArray("A", <<Num(5), Num(4), Num(3)>>),
              Read("current_value", "A", <<Num(4), Num(3), Num(2)>>), Ret >>) >>}

\* Not among MCPrograms (TemporariesFree): a parameter with a name the compiler
\* makes up, and no other use but to be returned.
MCParameter ==
  {<< Main(<< Int64("r"), CallTo("r", Name("f"), <<Num(7)>>), PrintOf(Var("r")), Ret >>),
      Function("f", << Int64("v0") >>, << Array("a", 1), NewArray("a", <<Num(2)>>), RetV(Var("v0")) >>) >>}
=============================================================================
