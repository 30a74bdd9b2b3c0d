------------------------------ MODULE LcProofs ------------------------------
(***************************************************************************)
(* Proofs about the compiler scripts, for any number of languages and of   *)
(* tests, whatever files earlier runs left and whichever of the compilers, *)
(* the assembler and the linker fail, the compilation of runtime.o, whose  *)
(* failure nobody looks at, included.                                      *)
(***************************************************************************)
EXTENDS Lc, SequenceTheorems, TLAPS

Pcs  == {"remove", "compile", "compiled", "lowered", "assemble", "link"}
Call == [level : Levels, arg : Tests, pc : Pcs]

\* What holds of a script that waits or runs: past its own compiler, that
\* compiler's file is of this test.
Right(c) ==
  /\ c.arg = test.name
  /\ c.pc = "lowered" => c.level < Bottom
  /\ c.pc \in {"assemble", "link"} => c.level = Bottom
  /\ c.pc \in {"lowered", "assemble", "link"} => prog[c.level] = test.name
  /\ c.pc = "link" => object = test.name

Typed ==
  /\ prog \in [Levels -> Files \cup {Broken}]
  /\ object \in Files
  /\ aout \in [Levels -> Files]
  /\ kept \in Files
  /\ status \in {0, 1}
  /\ test.level \in Levels /\ test.name \in Tests

\* The scripts that run, each of the language below the one that called it.
Chain ==
  /\ calls \in Seq(Call)
  /\ calls # <<>> => step = "generate"
  /\ \A k \in 1..Len(calls) :
       /\ calls[k].level = test.level + k - 1
       /\ Right(calls[k])
       /\ k < Len(calls) => calls[k].pc = "lowered"

\* A compiler that has just ended with 0 has written this test.
Fresh == calls # <<>> /\ Running.pc = "compiled" /\ status = 0 => prog[Dir] = test.name

\* A script that has just ended with 0 has left the binary of this test, or the
\* a.out that L1c went past, and no a.out below it.
Answered ==
  step = "generate" /\ status = 0 /\ (calls = <<>> \/ Running.pc = "lowered") =>
    LET l == test.level + Len(calls)
    IN  /\ IsLeft(aout[l]) \/ (aout[l] = NoFile /\ l = Bottom)
        /\ \A m \in Levels : m > l => aout[m] = NoFile

IInv == Typed /\ Chain /\ Fresh /\ Answered

-----------------------------------------------------------------------------
\* The script that runs.
LEMMA RunningCall ==
  ASSUME IInv, calls # <<>>
  PROVE  /\ Len(calls) \in Nat \ {0} /\ Len(calls) \in 1..Len(calls)
         /\ Running = calls[Len(calls)] /\ Running \in Call /\ Right(Running)
         /\ Dir = Running.level /\ Dir \in Levels /\ Dir = test.level + Len(calls) - 1
         /\ Running.arg = test.name /\ step = "generate"
<1>1. calls \in Seq(Call) /\ step = "generate"
  BY DEF IInv, Chain
<1>2. Len(calls) \in Nat \ {0} /\ Len(calls) \in 1..Len(calls)
  BY <1>1
<1>3. Running = calls[Len(calls)]
  BY DEF Running, Last
<1>4. Running \in Call
  BY <1>1, <1>2, <1>3
<1>5. Right(Running) /\ Running.level = test.level + Len(calls) - 1
  BY <1>2, <1>3 DEF IInv, Chain
<1>6. Dir = Running.level /\ Dir \in Levels
  BY <1>4 DEF Dir, Call
<1>7. Running.arg = test.name
  BY <1>5 DEF Right
<1> QED
  BY <1>1, <1>2, <1>3, <1>4, <1>5, <1>6, <1>7

\* What a change of the running script's place does to the scripts.
LEMMA GoToCalls ==
  ASSUME IInv, calls # <<>>, NEW pc \in Pcs, GoTo(pc)
  PROVE  /\ calls' \in Seq(Call) /\ calls' # <<>> /\ Len(calls') = Len(calls)
         /\ \A k \in 1..Len(calls) : k # Len(calls) => calls'[k] = calls[k]
         /\ calls'[Len(calls)] = [Running EXCEPT !.pc = pc]
         /\ Running' = [Running EXCEPT !.pc = pc] /\ Running'.pc = pc
         /\ Running'.level = Dir /\ Dir' = Dir
<1> DEFINE n == Len(calls)
           c == [Running EXCEPT !.pc = pc]
<1>1. n \in Nat \ {0} /\ n \in 1..Len(calls) /\ Running = calls[n] /\ Running \in Call
      /\ Dir = Running.level
  BY RunningCall
<1>2. calls \in Seq(Call)
  BY DEF IInv, Chain
<1>3. c \in Call /\ c.pc = pc /\ c.level = Running.level
  BY <1>1 DEF Call
<1>4. calls' = [calls EXCEPT ![n] = c]
  BY <1>1 DEF GoTo
<1> HIDE DEF c
<1>5. /\ calls' \in Seq(Call) /\ Len(calls') = n
      /\ \A k \in 1..n : calls'[k] = IF k = n THEN c ELSE calls[k]
  BY <1>1, <1>2, <1>3, <1>4, ExceptSeq
<1>6. calls' # <<>>
  BY <1>1, <1>5
<1>7. calls'[n] = c
  BY <1>1, <1>5
<1>8. Running' = c
  BY <1>5, <1>7 DEF Running, Last
<1>9. Dir' = Dir
  BY <1>1, <1>3, <1>8 DEF Dir
<1> QED
  BY <1>1, <1>3, <1>5, <1>6, <1>7, <1>8, <1>9 DEF c

\* What the end of a script does to the scripts.
LEMMA ExitCalls ==
  ASSUME IInv, calls # <<>>, calls' = Front(calls)
  PROVE  /\ calls' \in Seq(Call) /\ Len(calls') = Len(calls) - 1
         /\ \A k \in 1..(Len(calls) - 1) : calls'[k] = calls[k]
         /\ calls' # <<>> => Running'.pc = "lowered"
<1> DEFINE n == Len(calls)
<1>1. n \in Nat \ {0}
  BY RunningCall
<1>2. calls \in Seq(Call)
  BY DEF IInv, Chain
<1>3. calls' = SubSeq(calls, 1, n - 1)
  BY DEF Front
<1>4. calls' \in Seq(Call) /\ Len(calls') = n - 1 /\ \A k \in 1..(n - 1) : calls'[k] = calls[k]
  <2>1. \A k \in 1..(n - 1) : calls[k] \in Call
    BY <1>1, <1>2
  <2>2. n - 1 \in Int
    BY <1>1
  <2> DEFINE rest == SubSeq(calls, 1, n - 1)
  <2>3. /\ rest \in Seq(Call)
        /\ Len(rest) = IF 1 <= n - 1 THEN (n - 1) - 1 + 1 ELSE 0
        /\ \A k \in 1..((n - 1) - 1 + 1) : rest[k] = calls[1 + k - 1]
    BY <2>1, <2>2, SubSeqProperties, SMT
  <2> HIDE DEF rest
  <2>4. calls' = rest
    BY <1>3 DEF rest
  <2> QED
    BY <1>1, <2>3, <2>4
<1>5. ASSUME calls' # <<>> PROVE Running'.pc = "lowered"
  <2>1. Len(calls') \in 1..(n - 1) /\ Len(calls') = n - 1
    BY <1>1, <1>4, <1>5
  <2>2. Running' = calls[n - 1]
    BY <1>4, <2>1 DEF Running, Last
  <2>3. n - 1 \in 1..Len(calls) /\ n - 1 < Len(calls)
    BY <1>1, <2>1
  <2>4. calls[n - 1].pc = "lowered"
    BY <2>3 DEF IInv, Chain
  <2> QED
    BY <2>2, <2>4
<1> QED
  BY <1>4, <1>5

-----------------------------------------------------------------------------
LEMMA InitIInv == Init => IInv
<1> SUFFICES ASSUME Init PROVE IInv
  OBVIOUS
<1>1. 1 \in Levels
  BY LcAssumption DEF Levels
<1>2. test.level \in Levels /\ test.name \in Tests
  <2>1. test.level = 1 /\ test.name = CHOOSE t \in Tests : TRUE
    BY DEF Init
  <2>2. (CHOOSE t \in Tests : TRUE) \in Tests
    BY LcAssumption
  <2> QED
    BY <1>1, <2>1, <2>2
<1>3. calls = <<>> /\ step = "next" /\ Typed
  BY <1>2 DEF Init, Typed, Files
<1>4. calls \in Seq(Call) /\ Len(calls) = 0
  BY <1>3
<1>5. Chain
  BY <1>3, <1>4 DEF Chain
<1> QED
  BY <1>3, <1>5 DEF IInv, Fresh, Answered

\* The chain is kept when the running script goes on, whatever its own
\* compiler writes.
LEMMA GoToChain ==
  ASSUME IInv, calls # <<>>, NEW pc \in Pcs, GoTo(pc), pc # "lowered",
         step' = step, test' = test,
         \A l \in Levels \ {Dir} : prog'[l] = prog[l],
         pc \in {"assemble", "link"} => Dir = Bottom /\ prog'[Dir] = test.name,
         pc = "link" => object' = test.name
  PROVE  Chain'
<1> DEFINE n == Len(calls)
<1>1. /\ calls' \in Seq(Call) /\ Len(calls') = n
      /\ \A k \in 1..n : k # n => calls'[k] = calls[k]
      /\ calls'[n] = [Running EXCEPT !.pc = pc]
  BY GoToCalls
<1>2. /\ n \in Nat \ {0} /\ Running \in Call /\ Dir = Running.level
      /\ Dir = test.level + n - 1 /\ Running.arg = test.name /\ step = "generate"
      /\ calls \in Seq(Call)
  BY RunningCall DEF IInv, Chain
<1>3. ASSUME NEW k \in 1..n, k # n
      PROVE  calls'[k].level = test.level + k - 1 /\ Right(calls[k])' /\ calls'[k].pc = "lowered"
  <2>1. calls'[k] = calls[k] /\ calls[k] \in Call
    BY <1>1, <1>2, <1>3
  <2>2. calls[k].level = test.level + k - 1 /\ Right(calls[k])
    BY <1>3 DEF IInv, Chain
  <2>3. calls[k].pc = "lowered"
    BY <1>2, <1>3 DEF IInv, Chain
  <2>4. calls[k].level \in Levels /\ calls[k].level \in Int /\ test.level \in Int
    BY <2>1, LcAssumption DEF Call, Levels, IInv, Typed
  <2>5. calls[k].level # Dir
    BY <1>2, <1>3, <2>2, <2>4
  <2>6. prog'[calls[k].level] = prog[calls[k].level]
    BY <2>4, <2>5
  <2> QED
    BY <2>1, <2>2, <2>3, <2>6 DEF Right
<1>4. ASSUME NEW k \in 1..n, k = n
      PROVE  calls'[k].level = test.level + k - 1 /\ Right(calls[k])'
  <2> DEFINE c == [Running EXCEPT !.pc = pc]
  <2>1. c.level = Dir /\ c.arg = test.name /\ c.pc = pc
    BY <1>2 DEF Call
  <2> HIDE DEF c
  <2>2. calls'[k] = c
    BY <1>1, <1>4 DEF c
  <2>3. calls'[k].level = test.level + k - 1
    BY <1>2, <1>4, <2>1, <2>2
  <2>4. Right(calls[k])'
    BY <2>1, <2>2 DEF Right
  <2> QED
    BY <2>3, <2>4
<1>5. calls' # <<>> => step' = "generate"
  BY <1>2
<1>6. ASSUME NEW k \in 1..Len(calls')
      PROVE  /\ calls'[k].level = test'.level + k - 1 /\ Right(calls[k])'
             /\ k < Len(calls') => calls'[k].pc = "lowered"
  <2>1. CASE k = n
    BY <1>1, <1>2, <1>4, <2>1
  <2>2. CASE k # n
    BY <1>1, <1>3, <2>2
  <2> QED
    BY <2>1, <2>2
<1> QED
  BY <1>1, <1>5, <1>6 DEF Chain

\* The chain is kept when the running script ends.
LEMMA ExitChain ==
  ASSUME IInv, calls # <<>>, calls' = Front(calls), UNCHANGED <<prog, test, step>>
  PROVE  Chain' /\ Fresh'
<1>1. /\ calls' \in Seq(Call) /\ Len(calls') = Len(calls) - 1
      /\ \A k \in 1..(Len(calls) - 1) : calls'[k] = calls[k]
      /\ calls' # <<>> => Running'.pc = "lowered"
  BY ExitCalls
<1>2. Len(calls) \in Nat \ {0} /\ step = "generate"
  BY RunningCall
<1>3. ASSUME NEW k \in 1..Len(calls')
      PROVE  /\ calls'[k].level = test'.level + k - 1 /\ Right(calls[k])'
             /\ k < Len(calls') => calls'[k].pc = "lowered"
  <2>1. k \in 1..Len(calls) /\ k < Len(calls) /\ calls'[k] = calls[k]
    BY <1>1, <1>2, <1>3
  <2>2. calls[k].level = test.level + k - 1 /\ Right(calls[k]) /\ calls[k].pc = "lowered"
    BY <2>1 DEF IInv, Chain
  <2> QED
    BY <2>1, <2>2 DEF Right
<1>4. Chain'
  BY <1>1, <1>2, <1>3 DEF Chain
<1>5. Fresh'
  BY <1>1 DEF Fresh
<1> QED
  BY <1>4, <1>5

\* A script that is called starts with its own compiler.
LEMMA NewScript ==
  ASSUME NEW level \in Levels, NEW arg \in Tests
  PROVE  /\ Script(level, arg) \in Call
         /\ Script(level, arg).level = level /\ Script(level, arg).arg = arg
         /\ Script(level, arg).pc \in {"compile", "remove"}
BY DEF Script, Call, Pcs

-----------------------------------------------------------------------------
LEMMA NextTestIInv == IInv /\ NextTest => IInv'
<1> SUFFICES ASSUME IInv, NextTest PROVE IInv'
  OBVIOUS
<1>1. PICK l \in Levels, t \in Tests :
        /\ test' = [level |-> l, name |-> t, ran |-> NoFile, passed |-> FALSE]
        /\ calls' = << Script(l, t) >>
  BY DEF NextTest
<1>2. /\ step' = "generate" /\ kept' = NoFile /\ prog' = prog /\ object' = object
      /\ aout' = aout /\ status' = status
  BY DEF NextTest
<1> DEFINE c == Script(l, t)
<1>3. c \in Call /\ c.level = l /\ c.arg = t /\ c.pc \in {"compile", "remove"}
  BY NewScript
<1> HIDE DEF c
<1>4. calls' = <<c>> /\ test'.level = l /\ test'.name = t
  BY <1>1 DEF c
<1>5. /\ calls' \in Seq(Call) /\ Len(calls') = 1 /\ calls' # <<>> /\ calls'[1] = c
      /\ Running' = c
  BY <1>3, <1>4 DEF Running, Last
<1>6. Typed'
  BY <1>2, <1>4 DEF IInv, Typed, Files
<1>7. ASSUME NEW k \in 1..Len(calls')
      PROVE  /\ calls'[k].level = test'.level + k - 1 /\ Right(calls[k])'
             /\ k < Len(calls') => calls'[k].pc = "lowered"
  <2>1. k = 1 /\ calls'[k] = c /\ l \in Int
    BY <1>5, <1>7, LcAssumption DEF Levels
  <2>2. Right(calls[k])'
    BY <1>3, <1>4, <2>1 DEF Right
  <2> QED
    BY <1>3, <1>4, <1>5, <2>1, <2>2
<1>8. Chain'
  BY <1>2, <1>5, <1>7 DEF Chain
<1> QED
  BY <1>3, <1>5, <1>6, <1>8 DEF IInv, Fresh, Answered

LEMMA RunBinaryIInv == IInv /\ RunBinary => IInv'
<1> SUFFICES ASSUME IInv, RunBinary PROVE IInv'
  OBVIOUS
<1>1. /\ calls = <<>> /\ step' = "next" /\ calls' = calls
      /\ UNCHANGED <<prog, object, aout, kept, status>>
      /\ test' = [test EXCEPT !.ran = aout[test.level],
                              !.passed = aout[test.level] # NoFile
                                         /\ Prints[aout[test.level]] = Prints[test.name]]
  BY DEF RunBinary
<1>2. test'.level = test.level /\ test'.name = test.name
  BY <1>1
<1>3. Typed'
  BY <1>1, <1>2 DEF IInv, Typed
<1>4. calls' \in Seq(Call) /\ Len(calls') = 0 /\ calls' = <<>>
  BY <1>1
<1>5. Chain'
  BY <1>4 DEF Chain
<1> QED
  BY <1>1, <1>3, <1>4, <1>5 DEF IInv, Fresh, Answered

\* What remains to be shown of a step that goes on in the same script.
LEMMA GoToIInv ==
  ASSUME IInv, calls # <<>>, NEW pc \in Pcs, GoTo(pc), pc # "lowered",
         step' = step, test' = test, Typed',
         \A l \in Levels \ {Dir} : prog'[l] = prog[l],
         pc \in {"assemble", "link"} => Dir = Bottom /\ prog'[Dir] = test.name,
         pc = "link" => object' = test.name,
         pc = "compiled" /\ status' = 0 => prog'[Dir] = test.name
  PROVE  IInv'
<1>1. Chain'
  BY GoToChain
<1>2. calls' # <<>> /\ Running'.pc = pc /\ Dir' = Dir
  BY GoToCalls
<1>3. Fresh'
  BY <1>2 DEF Fresh
<1>4. Answered'
  BY <1>2 DEF Answered
<1> QED
  BY <1>1, <1>3, <1>4 DEF IInv

\* A script that fails.
LEMMA FailIInv ==
  ASSUME IInv, calls # <<>>, Exit(1), Typed', UNCHANGED <<prog, test, step>>
  PROVE  IInv'
<1>1. calls' = Front(calls) /\ status' = 1
  BY DEF Exit
<1>2. Chain' /\ Fresh'
  BY <1>1, ExitChain
<1> QED
  BY <1>1, <1>2 DEF IInv, Answered

LEMMA RemoveProgIInv == IInv /\ RemoveProg => IInv'
<1> SUFFICES ASSUME IInv, RemoveProg PROVE IInv'
  OBVIOUS
<1>1. /\ calls # <<>> /\ prog' = [prog EXCEPT ![Dir] = NoFile] /\ GoTo("compile")
      /\ UNCHANGED <<object, aout, kept, status, test, step>>
  BY DEF RemoveProg, At
<1>2. Dir \in Levels
  BY <1>1, RunningCall
<1>3. Typed' /\ \A l \in Levels \ {Dir} : prog'[l] = prog[l]
  BY <1>1, <1>2 DEF IInv, Typed, Files
<1> QED
  BY <1>1, <1>3, GoToIInv DEF Pcs

LEMMA CompileIInv == IInv /\ Compile => IInv'
<1> SUFFICES ASSUME IInv, Compile PROVE IInv'
  OBVIOUS
<1>1. calls # <<>> /\ GoTo("compiled") /\ UNCHANGED <<object, aout, kept, test, step>>
  BY DEF Compile, At
<1>2. Dir \in Levels /\ Running.arg = test.name /\ test.name \in Tests
  BY <1>1, RunningCall DEF IInv, Typed
<1>3. PICK file \in Files \cup {Broken, prog[Dir]} :
        /\ prog' = [prog EXCEPT ![Dir] = file]
        /\ (status' = 0 /\ file = test.name) \/ status' = 1
  <2>1. CASE prog' = [prog EXCEPT ![Dir] = Running.arg] /\ status' = 0
    BY <1>2, <2>1 DEF Files
  <2>2. CASE UNCHANGED prog /\ status' = 1
    BY <1>2, <2>2 DEF IInv, Typed
  <2>3. CASE prog' = [prog EXCEPT ![Dir] = Broken] /\ status' = 1
    BY <2>3
  <2> QED
    BY <2>1, <2>2, <2>3 DEF Compile
<1>4. /\ Typed' /\ \A l \in Levels \ {Dir} : prog'[l] = prog[l]
      /\ status' = 0 => prog'[Dir] = test.name
  BY <1>1, <1>2, <1>3 DEF IInv, Typed
<1> QED
  BY <1>1, <1>4, GoToIInv DEF Pcs

\* The script of the next language is called.
LEMMA LowerIInv ==
  ASSUME IInv, calls # <<>>, Running.pc = "compiled", status = 0, Dir # Bottom,
         calls' = Lower, UNCHANGED <<prog, object, aout, kept, status, test, step>>
  PROVE  IInv'
<1> DEFINE n == Len(calls)
           c == [Running EXCEPT !.pc = "lowered"]
           d == Script(Dir + 1, prog[Dir])
           below == [calls EXCEPT ![n] = c]
<1>1. /\ n \in Nat \ {0} /\ n \in 1..Len(calls) /\ Running = calls[n] /\ Running \in Call
      /\ Dir = Running.level /\ Dir \in Levels /\ Dir = test.level + n - 1
      /\ Running.arg = test.name /\ step = "generate" /\ calls \in Seq(Call)
  BY RunningCall DEF IInv, Chain
<1>2. prog[Dir] = test.name /\ test.name \in Tests /\ test.level \in Int
  BY LcAssumption DEF IInv, Fresh, Typed, Levels
<1>3. Dir + 1 \in Levels /\ Dir < Bottom
  BY <1>1, LcAssumption DEF Levels
<1>4. d \in Call /\ d.level = Dir + 1 /\ d.arg = test.name /\ d.pc \in {"compile", "remove"}
  BY <1>2, <1>3, NewScript
<1>5. c \in Call /\ c.level = Dir /\ c.arg = test.name /\ c.pc = "lowered"
  BY <1>1 DEF Call, Pcs
<1>6. calls' = Append(below, d)
  BY <1>1 DEF Lower
<1> HIDE DEF c, d
<1>7. /\ below \in Seq(Call) /\ Len(below) = n
      /\ \A k \in 1..n : below[k] = IF k = n THEN c ELSE calls[k]
  BY <1>1, <1>5, ExceptSeq
<1> HIDE DEF below
<1>8. /\ calls' \in Seq(Call) /\ Len(calls') = n + 1 /\ calls'[n + 1] = d
      /\ \A k \in 1..n : calls'[k] = IF k = n THEN c ELSE calls[k]
  BY <1>1, <1>4, <1>6, <1>7
<1>9. calls' # <<>> /\ Running' = d
  BY <1>1, <1>8 DEF Running, Last
<1>10. ASSUME NEW k \in 1..Len(calls')
       PROVE  /\ calls'[k].level = test'.level + k - 1 /\ Right(calls[k])'
              /\ k < Len(calls') => calls'[k].pc = "lowered"
  <2>1. CASE k = n + 1
    <3>1. calls'[k] = d /\ ~(k < Len(calls'))
      BY <1>1, <1>8, <2>1
    <3>2. Right(calls[k])'
      BY <1>4, <3>1 DEF Right
    <3> QED
      BY <1>1, <1>2, <1>4, <2>1, <3>1, <3>2
  <2>2. CASE k = n
    <3>1. calls'[k] = c
      BY <1>1, <1>8, <2>2
    <3>2. Right(calls[k])'
      BY <1>2, <1>3, <1>5, <3>1 DEF Right
    <3> QED
      BY <1>1, <1>5, <2>2, <3>1, <3>2
  <2>3. CASE k \in 1..n /\ k # n
    <3>1. calls'[k] = calls[k] /\ k < Len(calls)
      BY <1>1, <1>8, <2>3
    <3>2. calls[k].level = test.level + k - 1 /\ Right(calls[k]) /\ calls[k].pc = "lowered"
      BY <1>1, <2>3, <3>1 DEF IInv, Chain
    <3>3. Right(calls[k])'
      BY <3>1, <3>2 DEF Right
    <3> QED
      BY <3>1, <3>2, <3>3
  <2> QED
    BY <1>1, <1>8, <1>10, <2>1, <2>2, <2>3
<1>11. Chain'
  BY <1>1, <1>8, <1>10 DEF Chain
<1>12. Typed'
  BY DEF IInv, Typed
<1>13. Fresh' /\ Answered'
  BY <1>4, <1>9 DEF Fresh, Answered
<1> QED
  BY <1>11, <1>12, <1>13 DEF IInv

LEMMA CompiledIInv == IInv /\ Compiled => IInv'
<1> SUFFICES ASSUME IInv, Compiled PROVE IInv'
  OBVIOUS
<1>1. calls # <<>> /\ Running.pc = "compiled" /\ UNCHANGED <<prog, object, aout, kept, test, step>>
  BY DEF Compiled, At
<1>2. CASE Exit(1)
  <2>1. Typed'
    BY <1>1, <1>2 DEF IInv, Typed, Exit
  <2> QED
    BY <1>1, <1>2, <2>1, FailIInv
<1>3. CASE status = 0 /\ Dir = Bottom /\ GoTo("assemble") /\ UNCHANGED status
  <2>1. Typed' /\ prog'[Dir] = test.name
    BY <1>1, <1>3 DEF IInv, Typed, Fresh
  <2> QED
    BY <1>1, <1>3, <2>1, GoToIInv DEF Pcs
<1>4. CASE status = 0 /\ Dir # Bottom /\ calls' = Lower /\ UNCHANGED status
  BY <1>1, <1>4, LowerIInv
<1> QED
  BY <1>2, <1>3, <1>4 DEF Compiled

LEMMA AssembleIInv == IInv /\ Assemble => IInv'
<1> SUFFICES ASSUME IInv, Assemble PROVE IInv'
  OBVIOUS
<1>1. /\ calls # <<>> /\ Running.pc = "assemble" /\ UNCHANGED <<prog, aout, kept, test, step>>
      /\ object' \in {prog[Bottom], NoFile}
  BY DEF Assemble, At
<1>2. Dir = Bottom /\ prog[Bottom] = test.name /\ test.name \in Tests
  BY <1>1, RunningCall DEF Right, IInv, Typed
<1>3. object' \in Files
  BY <1>1, <1>2 DEF Files
<1>4. CASE object' = NoFile /\ Exit(1)
  <2>1. Typed'
    BY <1>1, <1>3, <1>4 DEF IInv, Typed, Exit
  <2> QED
    BY <1>1, <1>4, <2>1, FailIInv
<1>5. CASE object' # NoFile /\ GoTo("link") /\ UNCHANGED status
  <2>1. Typed' /\ object' = test.name
    BY <1>1, <1>2, <1>3, <1>5 DEF IInv, Typed
  <2> QED
    BY <1>1, <1>2, <1>5, <2>1, GoToIInv DEF Pcs
<1> QED
  BY <1>4, <1>5 DEF Assemble

\* What L1c leaves, where the scripts are then: what the linker made, or what it
\* did not come to replace.
LEMMA LinkStep ==
  ASSUME IInv, Link
  PROVE  /\ calls # <<>> /\ Dir = Bottom /\ Dir \in Levels /\ test.name \in Tests
         /\ Dir = test.level + Len(calls) - 1 /\ Len(calls) \in Nat /\ test.level \in Int
         /\ calls' = Front(calls) /\ status' = 0 /\ UNCHANGED <<prog, object, test, step>>
         /\ \/ /\ \E out \in {test.name, NoFile} : aout' = [aout EXCEPT ![Dir] = out]
               /\ UNCHANGED kept
            \/ UNCHANGED aout /\ kept' = aout[Dir]
<1>1. calls # <<>> /\ Running.pc = "link" /\ UNCHANGED <<prog, object, test, step>>
  BY DEF Link, At
<1>2. /\ Dir = Bottom /\ object = test.name /\ Dir \in Levels /\ Len(calls) \in Nat
      /\ Dir = test.level + Len(calls) - 1
  BY <1>1, RunningCall DEF Right
<1>3. test.name \in Tests /\ test.level \in Int
  BY LcAssumption DEF IInv, Typed, Levels
<1> QED
  BY <1>1, <1>2, <1>3 DEF Link, Exit

LEMMA LinkIInv == IInv /\ Link => IInv'
<1> SUFFICES ASSUME IInv, Link PROVE IInv'
  OBVIOUS
<1>1. /\ calls # <<>> /\ Dir = Bottom /\ Dir \in Levels /\ test.name \in Tests
      /\ Dir = test.level + Len(calls) - 1 /\ Len(calls) \in Nat /\ test.level \in Int
      /\ calls' = Front(calls) /\ status' = 0 /\ UNCHANGED <<prog, object, test, step>>
  BY LinkStep
<1> DEFINE file == aout'[Bottom]
<1>2. /\ aout' \in [Levels -> Files] /\ kept' \in Files
      /\ file \in {test.name, NoFile} \/ file = kept'
  <2>1. aout \in [Levels -> Files] /\ kept \in Files /\ aout[Bottom] \in Files
    BY <1>1 DEF IInv, Typed
  <2>2. CASE UNCHANGED aout /\ kept' = aout[Bottom]
    BY <2>1, <2>2
  <2>3. CASE /\ \E out \in {test.name, NoFile} : aout' = [aout EXCEPT ![Bottom] = out]
             /\ UNCHANGED kept
    BY <1>1, <2>1, <2>3 DEF Files
  <2> QED
    BY <1>1, <2>2, <2>3, LinkStep
<1>3. Typed'
  BY <1>1, <1>2 DEF IInv, Typed
<1>4. Chain' /\ Fresh'
  BY <1>1, ExitChain
<1>5. test'.level + Len(calls') = Bottom
  BY <1>1, ExitCalls
<1>6. \A m \in Levels : ~(m > Bottom)
  BY LcAssumption DEF Levels
<1>7. file = test'.name \/ (file = kept' /\ kept' # NoFile) \/ file = NoFile
  BY <1>1, <1>2
<1>8. Answered'
  BY <1>5, <1>6, <1>7 DEF Answered, IsLeft
<1> QED
  BY <1>3, <1>4, <1>8 DEF IInv

\* What a script leaves that moves up the binary of the language below.
LEMMA LoweredStep ==
  ASSUME IInv, Lowered, ~Exit(1)
  PROVE  /\ calls # <<>> /\ Dir \in Levels /\ Dir + 1 \in Levels /\ Dir # Dir + 1
         /\ Dir = test.level + Len(calls) - 1 /\ Len(calls) \in Nat /\ test.level \in Int
         /\ test.name \in Tests /\ aout[Dir + 1] \in Files /\ IsLeft(aout[Dir + 1])
         /\ \A m \in Levels : m > Dir + 1 => aout[m] = NoFile
         /\ calls' = Front(calls) /\ status' = 0 /\ UNCHANGED <<prog, object, kept, test, step>>
         /\ aout' = [aout EXCEPT ![Dir] = aout[Dir + 1], ![Dir + 1] = NoFile]
<1>1. /\ calls # <<>> /\ Running.pc = "lowered" /\ UNCHANGED <<prog, object, kept, test, step>>
      /\ status = 0 /\ aout[Dir + 1] # NoFile
      /\ aout' = [aout EXCEPT ![Dir] = aout[Dir + 1], ![Dir + 1] = NoFile]
      /\ Exit(0)
  BY DEF Lowered, At
<1>2. /\ Dir < Bottom /\ Dir \in Levels /\ Len(calls) \in Nat /\ step = "generate"
      /\ Dir = test.level + Len(calls) - 1
  BY <1>1, RunningCall DEF Right
<1>3. test.name \in Tests /\ test.level \in Int /\ aout \in [Levels -> Files]
  BY LcAssumption DEF IInv, Typed, Levels
<1>4. Dir + 1 \in Levels /\ Dir # Dir + 1 /\ test.level + Len(calls) = Dir + 1
  BY <1>2, <1>3, LcAssumption DEF Levels
<1>5. IsLeft(aout[Dir + 1]) /\ \A m \in Levels : m > Dir + 1 => aout[m] = NoFile
  BY <1>1, <1>2, <1>4 DEF IInv, Answered
<1> QED
  BY <1>1, <1>2, <1>3, <1>4, <1>5 DEF Exit

LEMMA LoweredIInv == IInv /\ Lowered => IInv'
<1> SUFFICES ASSUME IInv, Lowered PROVE IInv'
  OBVIOUS
<1>1. CASE Exit(1)
  <2>1. calls # <<>> /\ UNCHANGED <<prog, object, kept, test, step>> /\ status' = 1
    BY <1>1 DEF Lowered, At, Exit
  <2>2. aout' = aout
    BY <2>1 DEF Lowered, Exit
  <2>3. Typed'
    BY <2>1, <2>2 DEF IInv, Typed
  <2> QED
    BY <1>1, <2>1, <2>3, FailIInv
<1>2. CASE ~Exit(1)
  <2>1. /\ calls # <<>> /\ Dir \in Levels /\ Dir + 1 \in Levels /\ Dir # Dir + 1
        /\ Dir = test.level + Len(calls) - 1 /\ Len(calls) \in Nat /\ test.level \in Int
        /\ test.name \in Tests /\ aout[Dir + 1] \in Files /\ IsLeft(aout[Dir + 1])
        /\ \A m \in Levels : m > Dir + 1 => aout[m] = NoFile
        /\ calls' = Front(calls) /\ status' = 0 /\ UNCHANGED <<prog, object, kept, test, step>>
        /\ aout' = [aout EXCEPT ![Dir] = aout[Dir + 1], ![Dir + 1] = NoFile]
    BY <1>2, LoweredStep
  <2>2. /\ Typed'
        /\ aout'[Dir] = test'.name \/ (aout'[Dir] = kept' /\ kept' # NoFile)
    BY <2>1 DEF IInv, Typed, Files, IsLeft
  <2>6. ASSUME NEW m \in Levels, m > Dir PROVE aout'[m] = NoFile
    <3>1. m = Dir + 1 \/ m > Dir + 1
      BY <2>1, <2>6 DEF Levels
    <3> QED
      BY <2>1, <2>6, <3>1 DEF IInv, Typed
  <2>3. Chain' /\ Fresh'
    BY <2>1, ExitChain
  <2>4. test'.level + Len(calls') = Dir
    BY <2>1, ExitCalls
  <2>5. Answered'
    BY <2>2, <2>4, <2>6 DEF Answered, IsLeft
  <2> QED
    BY <2>2, <2>3, <2>5 DEF IInv
<1> QED
  BY <1>1, <1>2

-----------------------------------------------------------------------------
LEMMA StepIInv == IInv /\ [Next]_vars => IInv'
<1>1. ASSUME IInv, UNCHANGED vars PROVE IInv'
  BY <1>1 DEF vars, IInv, Typed, Chain, Right, Fresh, Answered, IsLeft, Running, Dir
<1> QED
  BY <1>1, NextTestIInv, RunBinaryIInv, RemoveProgIInv, CompileIInv, CompiledIInv,
     AssembleIInv, LinkIInv, LoweredIInv DEF Next

\* The scripts form a chain down the languages, each past its compiler with a
\* file of this test, and a script that has ended with 0 has left its binary, or
\* what L1c went past (src/L1/L1c), and nothing below.
THEOREM Invariant == Spec => []IInv
<1> QED
  BY InitIInv, StepIInv, PTL DEF Spec

\* Type correctness, and that scripts call the script of the language below.
THEOREM TypeCorrect == Spec => []TypeOK
<1>1. IInv => TypeOK
  <2> SUFFICES ASSUME IInv PROVE TypeOK
    OBVIOUS
  <2>1. Typed /\ calls \in Seq(Call) /\ test.level \in Int /\ DOMAIN calls = 1..Len(calls)
    BY LcAssumption DEF IInv, Typed, Chain, Levels
  <2>2. ASSUME NEW k \in 1..Len(calls)
        PROVE  /\ calls[k].pc \in Pcs /\ calls[k].level = test.level + k - 1
               /\ k < Len(calls) => calls[k].pc = "lowered"
    <3>1. calls[k] \in Call
      BY <2>1, <2>2
    <3>2. calls[k].pc \in Pcs
      BY <3>1 DEF Call
    <3>3. calls[k].level = test.level + k - 1 /\ (k < Len(calls) => calls[k].pc = "lowered")
      BY <2>2 DEF IInv, Chain
    <3> QED
      BY <3>2, <3>3
  <2>3. calls # <<>> => step = "generate" /\ calls[1].level = test.level
    <3>1. calls # <<>> => 1 \in 1..Len(calls)
      BY <2>1
    <3> QED
      BY <2>1, <2>2, <3>1 DEF IInv, Chain
  <2> QED
    BY <2>1, <2>2, <2>3 DEF TypeOK, Typed, Pcs
<1> QED
  BY <1>1, Invariant, PTL

\* Each compiler down the chain works on what the one above it made of this
\* test (src/scripts/Lc), however many languages there are.
THEOREM ThisTest == Spec => []CompilesThisTest
<1>1. IInv => CompilesThisTest
  <2> SUFFICES ASSUME IInv, NEW k \in DOMAIN calls
               PROVE  /\ calls[k].arg = test.name
                      /\ calls[k].pc \in {"lowered", "assemble", "link"} =>
                           prog[calls[k].level] = test.name
                      /\ calls[k].pc = "link" => object = test.name
    BY DEF CompilesThisTest
  <2>1. k \in 1..Len(calls)
    BY DEF IInv, Chain
  <2>2. Right(calls[k])
    BY <2>1 DEF IInv, Chain
  <2> QED
    BY <2>2 DEF Right
<1> QED
  BY <1>1, Invariant, PTL

\* A script that ends with 0 leaves the binary of its own source, or the a.out that
\* L1c found and did not link over, and no a.out below its directory for a later
\* run to take (src/scripts/Lc, src/L1/L1c).
THEOREM OwnBinary == Spec => []SuccessIsOwnBinary
<1>1. IInv => SuccessIsOwnBinary
  <2> SUFFICES ASSUME IInv, step = "generate", calls = <<>>, status = 0
               PROVE  /\ \/ IsLeft(aout[test.level])
                         \/ aout[test.level] = NoFile /\ test.level = Bottom
                      /\ \A l \in Levels : l > test.level => aout[l] = NoFile
    BY DEF SuccessIsOwnBinary
  <2>1. Len(calls) = 0 /\ test.level \in Int
    BY LcAssumption DEF IInv, Typed, Levels
  <2>2. test.level + Len(calls) = test.level
    BY <2>1
  <2> QED
    BY <2>2 DEF IInv, Answered
<1> QED
  BY <1>1, Invariant, PTL

\* A directory's a.out changes only when its script succeeds or its linker runs,
\* to this test's binary or what L1c went past, and is taken away only by the
\* script above, which moves it up.
THEOREM BinaryLeft == Spec => FailureLeavesBinary
<1> DEFINE Kept == \A l \in Levels : aout'[l] # aout[l] =>
                     \/ /\ calls # <<>> /\ Dir = l /\ status' = 0
                        /\ IsLeft(aout'[l]) \/ (aout'[l] = NoFile /\ l = Bottom)
                     \/ /\ calls # <<>> /\ Dir + 1 = l /\ status' = 0
                        /\ aout'[l] = NoFile /\ aout'[l - 1] = aout[l] /\ IsLeft(aout[l])
<1>1. ASSUME IInv, [Next]_vars PROVE [Kept]_vars
  <2> DEFINE Leaves(l) == /\ calls # <<>> /\ Dir = l /\ status' = 0
                          /\ IsLeft(aout'[l]) \/ (aout'[l] = NoFile /\ l = Bottom)
             MovesUp(l) == /\ calls # <<>> /\ Dir + 1 = l /\ status' = 0
                           /\ aout'[l] = NoFile /\ aout'[l - 1] = aout[l] /\ IsLeft(aout[l])
  <2>1. CASE UNCHANGED aout
    BY <2>1
  <2>2. CASE Link
    <3>1. calls # <<>> /\ Dir = Bottom /\ status' = 0
      BY <1>1, <2>2, LinkStep
    <3>2. \/ \E out \in {test.name, NoFile} : aout' = [aout EXCEPT ![Dir] = out]
          \/ UNCHANGED aout
      BY <1>1, <2>2, LinkStep
    <3>3. ASSUME NEW l \in Levels, aout'[l] # aout[l] PROVE Leaves(l)
      <4>1. l = Dir /\ aout'[l] \in {test.name, NoFile}
        BY <1>1, <3>2, <3>3 DEF IInv, Typed
      <4> QED
        BY <3>1, <4>1 DEF IsLeft
    <3> QED
      BY <3>3
  <2>3. CASE Lowered /\ ~Exit(1)
    <3>1. /\ calls # <<>> /\ Dir \in Levels /\ Dir + 1 \in Levels /\ Dir # Dir + 1
          /\ status' = 0 /\ IsLeft(aout[Dir + 1]) /\ UNCHANGED <<kept, test>>
          /\ aout' = [aout EXCEPT ![Dir] = aout[Dir + 1], ![Dir + 1] = NoFile]
      BY <1>1, <2>3, LoweredStep
    <3>2. aout'[Dir] = aout[Dir + 1] /\ aout'[Dir + 1] = NoFile
      BY <1>1, <3>1 DEF IInv, Typed
    <3>3. ASSUME NEW l \in Levels, l # Dir, l # Dir + 1 PROVE aout'[l] = aout[l]
      BY <1>1, <3>1, <3>3 DEF IInv, Typed
    <3>4. Leaves(Dir)
      BY <3>1, <3>2
    <3>5. MovesUp(Dir + 1)
      BY <3>1, <3>2 DEF Levels
    <3>6. ASSUME NEW l \in Levels, aout'[l] # aout[l] PROVE Leaves(l) \/ MovesUp(l)
      <4> HIDE DEF Leaves, MovesUp
      <4> QED
        BY <3>3, <3>4, <3>5, <3>6
    <3> QED
      BY <3>6
  <2>4. CASE Lowered /\ Exit(1)
    <3>1. status' = 1
      BY <2>4 DEF Exit
    <3>2. aout' = aout
      BY <2>4, <3>1 DEF Lowered, Exit
    <3> QED
      BY <3>2
  <2>5. CASE UNCHANGED vars
    BY <2>5
  <2>6. NextTest \/ RunBinary \/ RemoveProg \/ Compile \/ Compiled \/ Assemble => UNCHANGED aout
    BY DEF NextTest, RunBinary, RemoveProg, Compile, Compiled, Assemble
  <2> QED
    BY <1>1, <2>1, <2>2, <2>3, <2>4, <2>5, <2>6 DEF Next
<1> QED
  BY <1>1, Invariant, PTL DEF Spec, FailureLeavesBinary
=============================================================================
