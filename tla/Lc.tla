--------------------------------- MODULE Lc ---------------------------------
(***************************************************************************)
(* The scripts around the compilers: src/scripts/Lc, which runs one        *)
(* compiler and then the script of the language below in its directory,    *)
(* src/L1/L1c at the bottom, and the scripts/test.sh of each language.     *)
(* Directories keep the files of earlier runs, and each compiler, the      *)
(* assembler and the linker may fail; rm, mv and cd are taken to succeed.  *)
(***************************************************************************)
EXTENDS Integers, Sequences, SequencesExt

CONSTANTS
  Tests,     \* the programs of the test suites
  Bottom,    \* the level of L1; level 1 is the highest language
  Prints     \* what a test's program prints, which is what its .out file says

ASSUME LcAssumption == Bottom \in Nat \ {0} /\ Tests # {} /\ DOMAIN Prints = Tests

VARIABLES
  prog,      \* each compiler's output file, by the test it comes from
  object,    \* prog.o
  aout,      \* the a.out of each directory
  kept,      \* history: the a.out that L1c went past in this test without linking
  calls,     \* the scripts that run: [level, arg, pc], each called by the one before
  status,    \* the exit status of the last program
  test,      \* what test.sh is at: [level, name, ran, passed]
  step       \* of test.sh

vars == <<prog, object, aout, kept, calls, status, test, step>>

NoFile == "no file"
Broken == "broken file"    \* of a compiler that did not come to its end
Files  == Tests \cup {NoFile}

Levels == 1..Bottom
Script(level, arg) ==
  [level |-> level, arg |-> arg, pc |-> IF level = Bottom THEN "compile" ELSE "remove"]

Running == Last(calls)
Dir == Running.level
At(pc) == calls # <<>> /\ Running.pc = pc
GoTo(pc) == calls' = [calls EXCEPT ![Len(calls)].pc = pc]
Exit(s) == calls' = Front(calls) /\ status' = s

\* Files of earlier runs are there.
Init ==
  /\ prog \in [Levels -> Files \cup {Broken}]
  /\ object \in Files
  /\ aout \in [Levels -> Files]
  /\ kept = NoFile
  /\ calls = <<>>
  /\ status = 0
  /\ test = [level |-> 1, name |-> CHOOSE t \in Tests : TRUE, ran |-> NoFile, passed |-> FALSE]
  /\ step = "next"

-----------------------------------------------------------------------------
\* The loop of test.sh comes to a test: it calls the compiler's script.
NextTest ==
  /\ step = "next"
  /\ \E l \in Levels, t \in Tests :
       /\ test' = [level |-> l, name |-> t, ran |-> NoFile, passed |-> FALSE]
       /\ calls' = << Script(l, t) >>
  /\ step' = "generate"
  /\ kept' = NoFile
  /\ UNCHANGED <<prog, object, aout, status>>

\* test.sh runs what is there, whatever the script said.
RunBinary ==
  /\ step = "generate" /\ calls = <<>>
  /\ LET ran == aout[test.level]
     IN  test' = [test EXCEPT !.ran = ran,
                              !.passed = ran # NoFile /\ Prints[ran] = Prints[test.name]]
  /\ step' = "next"
  /\ UNCHANGED <<prog, object, aout, kept, calls, status>>

-----------------------------------------------------------------------------
RemoveProg ==
  /\ At("remove")
  /\ prog' = [prog EXCEPT ![Dir] = NoFile]
  /\ GoTo("compile")
  /\ UNCHANGED <<object, aout, kept, status, test, step>>

\* A compiler may fail before it opens its file, or after it.
Compile ==
  /\ At("compile")
  /\ \/ prog' = [prog EXCEPT ![Dir] = Running.arg] /\ status' = 0
     \/ UNCHANGED prog /\ status' = 1
     \/ prog' = [prog EXCEPT ![Dir] = Broken] /\ status' = 1
  /\ GoTo("compiled")
  /\ UNCHANGED <<object, aout, kept, test, step>>

Lower == Append([calls EXCEPT ![Len(calls)].pc = "lowered"], Script(Dir + 1, prog[Dir]))

\* A compiler that failed or wrote nothing ends the script; otherwise its file
\* goes to the assembler or to the script of the next language.
Compiled ==
  /\ At("compiled")
  /\ \/ (status # 0 \/ prog[Dir] = NoFile) /\ Exit(1)
     \/ /\ status = 0 /\ prog[Dir] # NoFile
        /\ IF Dir = Bottom THEN GoTo("assemble") ELSE calls' = Lower
        /\ UNCHANGED status
  /\ UNCHANGED <<prog, object, aout, kept, test, step>>

\* An assembler that fails removes its output.
Assemble ==
  /\ At("assemble")
  /\ object' \in {prog[Bottom], NoFile}
  /\ IF object' = NoFile THEN Exit(1) ELSE GoTo("link") /\ UNCHANGED status
  /\ UNCHANGED <<prog, aout, kept, test, step>>

\* A linker that fails removes its output.  But nobody asks whether runtime.o
\* could be compiled: without it gcc does not come to link, and leaves the a.out
\* it finds.  L1c ends with 0 whatever happened.
Link ==
  /\ At("link")
  /\ \/ (\E out \in {object, NoFile} : aout' = [aout EXCEPT ![Bottom] = out]) /\ UNCHANGED kept
     \/ UNCHANGED aout /\ kept' = aout[Bottom]
  /\ Exit(0)
  /\ UNCHANGED <<prog, object, test, step>>

\* Mutated form: the status of the script of the next language is not asked for.
LoweredByFile ==
  /\ At("lowered")
  /\ \/ aout[Dir + 1] = NoFile /\ Exit(1) /\ UNCHANGED aout
     \/ /\ aout[Dir + 1] # NoFile
        /\ aout' = [aout EXCEPT ![Dir] = aout[Dir + 1], ![Dir + 1] = NoFile]
        /\ Exit(0)
  /\ UNCHANGED <<prog, object, kept, test, step>>

\* The binary is moved up, unless the script of the next language failed or
\* left none.
Lowered ==
  /\ At("lowered")
  /\ \/ (status # 0 \/ aout[Dir + 1] = NoFile) /\ Exit(1) /\ UNCHANGED aout
     \/ /\ status = 0 /\ aout[Dir + 1] # NoFile
        /\ aout' = [aout EXCEPT ![Dir] = aout[Dir + 1], ![Dir + 1] = NoFile]
        /\ Exit(0)
  /\ UNCHANGED <<prog, object, kept, test, step>>

Next == NextTest \/ RunBinary \/ RemoveProg \/ Compile \/ Compiled \/ Assemble \/ Link \/ Lowered

Spec == Init /\ [][Next]_vars

-----------------------------------------------------------------------------
(***************************************************************************)
(* Properties                                                              *)
(***************************************************************************)
\* The type invariant: scripts call the script of the language below.
TypeOK ==
  /\ prog \in [Levels -> Files \cup {Broken}]
  /\ object \in Files
  /\ aout \in [Levels -> Files]
  /\ kept \in Files
  /\ status \in {0, 1}
  /\ calls # <<>> => step = "generate" /\ calls[1].level = test.level
  /\ \A k \in DOMAIN calls :
       /\ calls[k].pc \in {"remove", "compile", "compiled", "lowered", "assemble", "link"}
       /\ calls[k].level = test.level + k - 1
       /\ k < Len(calls) => calls[k].pc = "lowered"

\* Each compiler down the chain works on what the one above it made of this
\* test, never on a file of an earlier run or one that was not finished.
CompilesThisTest ==
  \A k \in DOMAIN calls :
    /\ calls[k].arg = test.name
    /\ calls[k].pc \in {"lowered", "assemble", "link"} => prog[calls[k].level] = test.name
    /\ calls[k].pc = "link" => object = test.name

\* The a.out that a test's scripts may leave or move up: its own, or the one that
\* L1c went past.
IsLeft(file) == file = test.name \/ (file = kept /\ kept # NoFile)

\* A script that ends with 0 leaves the binary of its own source; or the a.out
\* that L1c found in its own directory when runtime.o did not compile; or, only
\* at the bottom, none: a script above never ends with 0 without an a.out.  The
\* directories below are left without an a.out, so what earlier runs left in them
\* is never taken for the result later on.
SuccessIsOwnBinary ==
  step = "generate" /\ calls = <<>> /\ status = 0 =>
    /\ \/ IsLeft(aout[test.level])
       \/ aout[test.level] = NoFile /\ test.level = Bottom
    /\ \A l \in Levels : l > test.level => aout[l] = NoFile

\* A script that fails leaves the a.out that was there or, at the bottom, none:
\* the a.out of a directory changes only when its script succeeds or its
\* linker runs, to what this test's L1c left, and is taken away only by the script
\* above, which moves it up.
FailureLeavesBinary ==
  [][\A l \in Levels : aout'[l] # aout[l] =>
       \/ /\ calls # <<>> /\ Dir = l /\ status' = 0
          /\ IsLeft(aout'[l]) \/ (aout'[l] = NoFile /\ l = Bottom)
       \/ /\ calls # <<>> /\ Dir + 1 = l /\ status' = 0
          /\ aout'[l] = NoFile /\ aout'[l - 1] = aout[l] /\ IsLeft(aout[l])]_vars

\* Not an invariant.  A script that ends with 0 has linked what it leaves.
LeavesWhatItLinked ==
  step = "generate" /\ calls = <<>> /\ status = 0 => aout[test.level] \in {test.name, NoFile}

\* Not an invariant.  What test.sh counts as passed is a program made from that test ("Generate
\* the binary", src/L2/scripts/test.sh:14).
PassedIsOwn == test.passed => test.ran = test.name
=============================================================================
