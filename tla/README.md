# Verification of the LA compiler chain

The repository is a chain of small compilers, LA → IR → L3 → L2 → L1 → x86, each a
program of its own that reads a file in one language and writes `prog.<next>` in the
next, glued together by shell scripts, and a C runtime with a copying garbage
collector that the generated code is linked with. This directory holds TLA+ models
of it, TLC configurations that check them on small instances, and TLAPS proofs.

## The system

| Part | State it keeps | Operations | What is hard | What makes it correct |
|---|---|---|---|---|
| **Parsers** `L?/src/parser.cpp`, `IR`, `LA` | global vectors filled by grammar actions | PEGTL rules and actions | actions that ran in abandoned alternatives leave values behind; alternatives are tried in order | an instruction comes out with the operands it was written with, and nothing is left out |
| **L2 liveness** `L2/src/liveness.cpp` | GEN, KILL, successors, IN, OUT per instruction | `liveness_analysis`, `generate_in_out` | a fixpoint computed in place, with sets changing during a sweep | IN and OUT are the least solution; the sets are those of the tests' oracles |
| **L2 colouring** `L2/src/interference.cpp` | `graph`, `adjacencies`, `coloring` (globals), the stack | `generate_graph`, `get_candidate_node`, `remove_node`, `insert_node`, `choose_color` | stale degrees, precoloured shift amounts, `rsp` without a colour | interfering names get different registers, no variable is lost |
| **L2 spilling and translation** | the function being rewritten, its locals | `spill`, `translate_to_L1`, the do-while loop of `main` | rounds of rewriting and analysis, slots, spill temporaries that are spilled again | the L1 function computes with the values of the L2 function; the loop ends |
| **L1 compiler** `L1/src/compiler.cpp` | none between instructions | `compile_L1` | constants compared at compile time, 8-bit registers, frame size | the frame is popped as pushed, the x86 code does what the instruction says |
| **L3 compiler** `L3/src/*.cpp` | trees per instruction, a forest | `generate_forest`, `merge_forest`, the tiles | merging trees over definitions in between, fresh names and labels | the tiles compute what the instructions say, in their order |
| **IR compiler** `IR/src/compiler.cpp` | fresh names, array dimensions | `write_offset`, `Compile` | element offsets of multi-dimensional arrays | different elements have different addresses |
| **LA compiler** `LA/src/compiler.cpp` | fresh names, declared variables | `encode`, `decode_vars`, `Compile`, `Block` | encoded and decoded values, array checks, labels of blocks | a value is decoded exactly when a machine operation needs it, every access is checked |
| **Runtime** `lib/runtime.c` | two heaps, allocation pointer, frame stack | `allocate`, `gc`, `gc_copy`, `switch_heaps` | forwarding, cycles, roots on the stack | what is reachable survives with its contents |
| **Scripts** `scripts/Lc`, `L?/L?c` | files | run a compiler, check its exit status and output | stale files, failures in the middle of the chain | a script that ends with 0 leaves its own binary, but for what `L1c` leaves when `runtime.o` does not compile |

The parts talk through files only, except that the code L1 emits calls the runtime.
Inside a compiler everything is sequential: there are no threads, and nothing is
persisted between runs but the output files. What is hard is state that survives
longer than it should (globals, stacks of parsed values, analyses of a function
that has been rewritten since, files of an earlier run), loops without a bound of
their own, and resources that run out (registers, frame slots, heap).

## Modules

| Module | Models |
|---|---|
| `DataFlow` | what a data-flow solver promises: one question, one answer, the least solution |
| `Liveness` | `generate_in_out`, one visit of an instruction per step; refines `DataFlow` |
| `Interference` | `interference_analysis`, one iteration of its loops per step |
| `L2` | instructions, GEN/KILL/successors, spilling, translation to L1, as operators |
| `RegAlloc` | the loop of `main`: `Liveness` and `Interference` as instances, spilling between the rounds, and a symbolic run of the result |
| `ObjectStore` | what the runtime promises a program: arrays that are never lost, moved, shared or changed |
| `Runtime` | `allocate`, `gc`, `gc_copy` and the program around them, word by word; refines `ObjectStore` |
| `L3` | the L3 compiler: `generate_forest`, the loop of `merge_forest`, the tiles and the labels they make up |
| `L3Semantics` | what L3 and L2 code does, on symbolic values |
| `L1Machine` | what an L1 program means, instruction by instruction |
| `L1Frames` | calls and returns of compiled functions and what they may do to the stack |
| `L1` | the x86 code of every L1 instruction, executed; refines `L1Machine` and `L1Frames` |
| `LA`, `IR` | the two compilers, as operators from an instruction to the code of the next language |
| `LAMachine` | what an LA program means, on numbers and arrays |
| `LAProgram` | both compilers put together and the L3 code they make, executed on the words of the heap; refines `LAMachine` |
| `Lc` | `Lc`, `L1c` and `test.sh`, the files they leave and the programs that fail |
| `Grammar` | what the five grammars are written with |
| `Parser` | the machine of the L3, IR and LA parsers |
| `RegisterParser` | the machine of the L1 and L2 parsers |
| `L1Parser`, `L2Parser`, `L3Parser`, `LAParser` | the rules and actions of each grammar (`LAParser` has those of IR too) |
| `MC*` | instances for TLC |
| `LivenessProofs`, `InterferenceProofs`, `RegAllocProofs`, `RuntimeProofs`, `L3Proofs`, `L1Proofs`, `L1FramesProofs`, `LcProofs` | theorems |

What composes what: `RegAlloc` runs `Liveness` and `Interference` as they are, on the
functions of `L2`; `LAProgram` puts `IR` behind `LA`; `L1` carries a history that both
`L1Machine` and `L1Frames` are instantiated with; `MCParsers` holds the five parsers as
instances of the two machines, and checks whichever the text is for.

### How the models correspond to the code

*Liveness.* `GEN`, `KILL`, `successors`, `IN` (`In`), `OUT` (`Out`) and `change` are the
variables of `generate_in_out`; `i` is the loop index, one higher because TLA+
sequences start at 1. `Visit` is the body of the inner loop, `NextSweep` the `while`
condition that holds, `Finish` the one that does not. `Begin` is the call with its
initialisation loop.

*Interference.* `graph`, `adjacencies`, `coloring` are the maps of the same names,
`stack` the vector of removed nodes, `step` the loop that is running. `Simplify` is
one iteration of the first `while`, `ColorRegister` one of the `for` over the
registers, `ColorNode`, `GiveUp` and `AllColored` those of the last `while`.
`remove_node` is modelled as it works: the loop over the neighbours changes copies,
so only the node's own entry disappears and the degrees of the others never fall.
`coloring[neighbor]` in `valid_color` inserts colour 0 for a neighbour without one
(`Touch`). The order of the names, which decides between candidates of equal degree,
is the parameter `Precedes`: the proofs and `MCInterference` leave it open,
`MCRegAlloc` gives it the order of `std::string`.

*L2.* An instruction is a record of its class and the names it mentions; `Writes`,
`Reads` and `Converted` say by position what each class puts in KILL and GEN and what
`translate_to_L1` converts. Operators and values are left out. `Spill` wraps every
instruction that mentions the variable in a load and a store of a fresh name,
whatever the instruction does with it, as the code does. The then label of a `cjump`
keeps the white space behind it when it is parsed, so it names no label and
`Successors` has the else label only.

*RegAlloc.* One round is `StartLiveness` … `ColoringStep`; `StartSpilling` and `SpillNext` are
the `for` over the stack, `NextRound` the `while`. After `TranslateToL1` the source
function and its translation run in lock step on symbolic values: an operand's value
is named after the source line that produced it. Spill code (`line = 0`) runs in the
translation alone. The run is what makes "the allocation is right" a property of
states; it is not code of the repository, and the machine it needs (`Effect`,
`StackEffect`, `Targets`) is marked external.

The functions TLC compiles in `MCRegAlloc` and its family were also given to a build
of the L2 compiler: the function of the model's final state and the printed L1
function are the same, instruction by instruction, for all of them.

*Runtime.* A word is an integer, as in C: encoded numbers are odd, addresses are
multiples of 8, and `mem` maps the addresses of both heaps to words. `heap` says which
heap is in use, `words` is `words_allocated`; `allocptr` is derived from them because
the code always moves the two together. `word` holds the registers and the words of the
stack, `rsp` the lowest one in use. The program's steps are the moves, loads and stores
of generated code, bounds checked, and the entry and return of functions, whose locals
begin with whatever is on the stack. `Allocate` is the assembly stub, which saves the
callee-saved registers where the collector finds them; `BadSize`, `StartGC`, `Grant` and
`OutOfMemory` are the paths of `allocate_helper`. The recursion of `gc_copy` is a stack
of `frames`: `CopyNothing`, `CopyForwarded` and `CopyArray` are the three ways a call can
go, `ArrayCopied` its return, and `UpdateRoot`, `UpdateFill`, `CopyElement` are what the
three places that call it do with the result. Two things are the model's own: `name`
is a history variable that numbers the arrays, and at the end of a collection the words of
the heap left behind are zeroed, so that states do not differ in dead memory (a
pointer that still led there would show). Flags are not cleared, as in the code.

The refinement mapping says what the program would see if the collector stopped
between any two steps: a forwarded array is read in its copy, elements that have not
been copied where they still are, and the one whose copy is under way in the hands of
`gc_copy`. A collection is then a long stutter of `ObjectStore`.

*L3.* `trees`, `merged` and `output` are the vectors of `main`; `StartFunction` is
`generate_forest`, `MergePair` and `KeepTree` the two ways an iteration of `merge_forest`
goes (`i` runs downwards and by two when trees are merged), `EmitTree` the tiling of one
tree, lowest tile first. `ReturnNumbers` is what `rand() % 100` may give for the label a call
returns to. Exactly one tile covers each kind of tree, so the search among tiles is left out.
`L3Semantics` is not code of the compiler: it runs a function before and after, on symbolic
values, and compares stores, calls, jumps and what is returned.

*L1.* `Emit` is the x86 text `compile_L1` writes for an instruction. The machine of `L1`
executes that text line by line; `at` is function, instruction and line. `last` is a
history variable, the state at the last end of an L1 instruction, and that is
what the refinement to `L1Machine` compares. The refinement to `L1Frames` looks at every
x86 step that enters, leaves or calls. A call of the runtime overwrites the caller-save
registers and what lies below the stack pointer.

*L1Frames.* An activation is entered with a return address that its caller stored, runs
a body that writes what it may (its locals, its arguments, anything below the stack
pointer), calls, and leaves by popping a word and jumping there. `CallAdjustment`,
`HeaderAdjustment` and `ReturnAdjustment` are the three amounts `compile_L1` computes.

*LA and IR.* `Chunk` is what `LA/src/compiler.cpp` writes for an LA instruction, with what
goes in front of its block; `Compile` of `IR` what `IR/src/compiler.cpp` makes of that. Both keep the
names the compilers make up, and `get_free_var` asks only what `contains` knows.
`LAProgram` executes the L3 code on words, with `allocate`, `print` and `array-error` as
the tests see them; encoded values, the words of the lengths and the row-major place of an
element are all in it. The refinement mapping reads words back as values (`Meaning`,
`Contents`) at the ends of LA instructions.

*Lc.* `calls` is the stack of shell scripts that wait for one another, `prog`, `object` and
`aout` the files. `RemoveProg`, `Compile`, `Compiled` and `Lowered` are the steps of `Lc`;
`Compile`, `Compiled`, `Assemble` and `Link` those of `L1c`; `NextTest` and `RunBinary`
the loop of `test.sh`. A compiler may fail before it opens its file or half way, an assembler
or a linker may fail and leave no output, and every file may be there from before. `L1c` does not
ask whether `runtime.o` could be compiled: without it `gcc` does not come to link and the `a.out`
that was there stays, and the script still ends with 0. That is the second disjunct of `Link`, and
the history variable `kept` says which file it was. `rm`, `mv` and `cd` are taken to succeed.

*Parsers.* PEGTL itself is external and modelled from how it is used: alternatives are tried
in order, an action runs when its rule matches, and nothing an action did is undone
when the alternative around it fails. `Match`/`MatchElement` is one element of an
alternative with the actions it runs, `Backtrack` the next alternative from the same place, `Accept` the
action of the whole instruction, which takes its operands from the stacks. In L3, IR and LA the
stacks are cleared there (`clear_memory`); in L1 and L2 they never are. A text is a sequence of
tokens for L1 and L2 (white space and comments left out), and of keywords, punctuation and pieces of
names for the others, because there a keyword may be the beginning of a name.

## Runs

| Run | Question | Bounds |
|---|---|---|
| `solver` | does the solver end, with the least solution, on any flow graph? | 3 instructions, one name, every non-empty set of successors. Facts about different names do not influence each other in the equations, so one name shows every pattern; three instructions allow self loops, nested cycles and joins |
| `coloring` | is every colouring proper, is a spill ever needless, does the analysis end? | 3 variables and 3 registers, every graph, every order of the names, up to 2 shift amounts; and 3 variables with one register and `rsp`. With fewer registers than names, colours run out |
| `allocation` | does the L1 function use the values the L2 function uses, are slots apart, does the loop end, are the liveness sets those of the oracles? | 8 functions (a value live across a call, two with locals, branches, a saved callee-save register, stack arguments, an indirect call, register pressure over several rounds, a shift by a variable), all 561 functions of two variables and up to three blocks, and 9 of `tests/liveness`; all 15 registers |
| `runtime` | does the collector keep what the program can reach and nothing else, at every step, whatever is on the stack? | heaps of 5 words: arrays of 0, 1 and 2 elements, with cycles and sharing; the heap is never filled to its last word. Two registers, a local, sizes that are refused; a flag that nobody has set reads as set |
| `l3` | do the tiles do what the instructions say, in order, and do jumps arrive? | every function of up to two instructions over two variables, those of three that begin with a move, jump, call or return, and programs of four functions that jump and call each other and the runtime; two return numbers |
| `l1` | does the x86 code do what L1 says, and are the programs looked at ones that L1 says something of (`WellBehaved`)? | 4 programs of the tests with their outputs, every comparison as value and as jump, every operation on registers and memory, calls with 0, 1, 6, 7 and 8 arguments and 1 or 2 locals, direct and through a register; a stack of 20 words |
| `l1_frames` | does every return reach its caller? | a stack of 8 words, functions with and without a stack argument and a local; the theorems have no such bounds |
| `la` | do both compilers together do what LA says, and is every access checked? | tests of `LA/tests` with their outputs, the failing accesses among them; every operation on constants and variables; arrays of one to three dimensions filled completely; a loop, recursion, nested tuples, and variables named like the compiler's own |
| `scripts` | whatever files were there and whatever fails, is the `a.out` of a success the right one, or one that `L1c` did not come to replace, and never one of another directory? | 3 languages, 2 tests with the same output, every combination of old files |
| `parsers` | does each parser read what is written? | every pair of instructions of each of the five languages, in programs of two functions |
| `regalloc_loop` | (violated) is an allocation right in a loop? | one function |
| `l3_aliased` | (violated) is an operation right whose result is its second operand? | `src/L3/tests/test19.L3`, one function |

What the inputs leave out, and why, is in the section after this one: each is a place where the code
is known to do something else, or where nothing in the repository says what it should do.

*Type invariants.* The state of each module has one; in runs they are conjuncts of the
invariant they support (`SpillSlotsAreOwn`, `HeapWellFormed`) where the invariant needs them to
make sense.

*Stopping.* Compilers, parsers and the allocation end, and in `MCRuntime` a program may end
or run out of heap, so those configurations allow a state without a successor, and
`Terminates`, `AllocationEnds` and `Ends` say where it has to come to one. `l1` and `la`
stutter only at the end of the program, so a program that is stuck is an error there; the
scripts never stop.

*Fairness.* Each compiler is a sequential program and nothing interrupts it, so weak
fairness of the steps of the solver, of the analysis, of the allocation loop and of the
parsers is what the code's scheduling gives. The runtime is called and runs until it
returns or exits, so its steps are weakly fair; the program's are not. The symbolic run
of an allocated function has no fairness; no liveness property is about it.

## Where the code departs from its tests and comments

Two disagreements are runs that TLC finds violated:

- `regalloc_loop`: a jump looks for its label from itself on (`L2/src/liveness.cpp:360`), so a
  value read only at the top of a loop is not live at its bottom and loses its register.
- `l3_aliased`: an operation is written as `root <- lhs`, `root op= rhs`
  (`L3/src/tile.h:177`), so `x <- y * x` computes `y * y`.

The others are kept as instances or properties that are not among those of the runs. Putting the
instance in the place of the run's own, or adding the property to the run, gives the counterexample.

| Place | What the code does | To see it |
|---|---|---|
| `L2/src/liveness.cpp:314` | a runtime call reads all six argument registers; `L2/tests/liveness/test13.L2f.out:4` has one | `MCRegAlloc!Test13`, `OracleAgrees` |
| `L2/src/parser.cpp:845` | the then label keeps the white space behind it and names no label, so a `cjump` has one successor; `L2/tests/liveness/test4.L2f.out:21` has two | `MCRegAlloc!Test4`, `OracleAgrees` |
| `L2/src/liveness.cpp:297` | a shift does not read its left side; `L2/tests/liveness/test19.L2f.out:7` says it does | `MCRegAlloc!Test19`, `ShiftReadsItsLeftSide` |
| `L2/src/interference.cpp:249` | neighbours keep a removed node; the comment at line 246 says all adjacencies are updated | `Interference!NoStaleNeighbor` |
| `L2/src/interference.cpp:229` | a called variable that lives across a call is spilled for ever; `bin/L2` does not end on `IR/tests/test16.IR` | `MCRegAlloc!CallAcross`, `RegAlloc!OnlyVariablesSpilled` |
| `lib/runtime.c:336` | the size is an `int`, so 2^32 + 1 gives one element; line 377 says "the desired size" | `MCRuntime!MCWrapping`, `Runtime!SizeAsDesired` |
| `L3/src/tile.h:428` | a return label is one of a hundred per callee: `IR/tests/Find_3D_Value.IR` does not assemble | `MCL3!MCTwoCalls`, `JumpsArrive` |
| `L3/src/tree.cpp:103` | names are joined without a separator: `:a` of `:bb` and `:ab` of `:b` are one label | `MCL3!MCNames`, `JumpsArrive` |
| `L1/src/compiler.cpp:247` | a comparison of two constants takes both from its left side; `L1/tests/20.L1` prints 0, its `.out` has 1 | `MCL1!MCConstants`, `PrintsWhatTestSays`, without the conjunct of `IsInstruction` that leaves such jumps out |
| `IR/src/compiler.cpp:99` | indices are reversed and lengths are not: element `[4][3][2]` of a 5 by 4 by 3 array, which `IR/tests/Find_3D_Value.IR` reaches, is number 62 of 60 | `MCLA!MCThreeDimensions`, `AccessInside` |
| `IR/src/compiler.cpp:18` | a parameter that is only returned is not seen by `get_free_var`, and a name of it is used again | `MCLA!MCParameter`, `TemporariesFree` |
| `L1/src/compiler.cpp:106`, `:120` | there is no case for `*=` and `&=` with memory, which the parser accepts (`L1/src/parser.cpp:303`): the line has no mnemonic and does not assemble | `MCL1!MCMemoryProducts`: the machine is stuck, without the conjunct of `IsInstruction` that asks for `+=` or `-=` |
| `L1/src/parser.cpp:147` | 0 is accepted as a factor of a `lea`; x86 has none, and the line does not assemble | nothing to run: `IsInstruction` asks for 2, 4 or 8 |
| `L1/L1c:18` | nobody asks whether `runtime.o` could be compiled: `gcc` then leaves the `a.out` it finds, `L1c` ends with 0 and `Lc` moves that file up as the result | `Lc!LeavesWhatItLinked` |
| `L2/scripts/test.sh:17` | the status of `L2c` is not looked at, so the binary of an earlier test can pass for a test with the same output | `Lc!PassedIsOwn` |
| `L3/src/parser.cpp:87` | `<` is tried before `<=`: the program silently ends after `x <- y` of `x <- y <= z` | `MCL3Parser!LessOrEqual`, `ParsedAsWritten` |
| `L3/src/parser.cpp:576` | `storex <- y` is taken for a store | `MCL3Parser!StoreName`, `ParsedAsWritten` |
| `LA/src/parser.cpp:814` | `%x <- length %y %i` comes out as `length %i %i` | `MCLAParser!VariableIndex`, `ParsedAsWritten` |
| `L2/src/parser.cpp:1037`, `L1/src/parser.cpp:985` | `(rdi += (mem i 0))` adds to `i`; only a base `rsp` works | `AddedFromMemory` of `MCL2Parser`, `MCL1Parser`, `ParsedAsWritten` |

Because of these, the inputs of the passing runs are chosen so: functions to allocate have no
loop, and their then branches read nothing the else branch does not; L3 programs call each
function once and have no operation of the aliased form; L1 jumps compare a register at least on
one side, and L1 operations on memory are `+=` and `-=`; arrays of three dimensions that are filled are 2 by 2 by 2 and 1 by 2 by 2, where the
order of the lengths does not show;
L3 texts have no `<=` and no left side that begins with a keyword, and a plain `return`
stands before a label or a brace; LA lengths are asked for by number; an operation with memory on
the right of L1 and L2 uses `rsp`.

Of the following the repository says nothing, so no property is about them; they are modelled where
noted: `(stack-arg n)` is computed when it is parsed, before any spill moves the
frame (`L2/src/parser.cpp:699`); after 25 uses of a spilled variable its names get longer
(`L2/src/interference.cpp:36`); what `translate_to_L1` does to a `lea` and to the base of memory
arithmetic (`interference.cpp:490`, in `L2!TranslateInstruction`); the count of words on the
stack (`runtime.c:205`); `stoi` of 64-bit constants (`L1/src/compiler.cpp:149`,
`LA/src/compiler.cpp:76`); two blocks without a label in one LA function
(`LA/src/compiler.cpp:377`); a variable `%primex` (`LA!LAFreeVar`), a constant with a sign
(`LA!is_number`) and a negative index, which passes the check (`LA/src/compiler.cpp:289`); more than
six arguments in L3 (`L3/src/parser.cpp:489`).

## Proofs

`LivenessProofs` proves, for every set of names and every flow graph, that the solver is
type correct, that what it returns satisfies the equations (`Solved`), that it lies
below every solution (`Least`), that sets only grow (`OnlyGrow`) and that the solver
refines `DataFlow` (`Implements`). The equations alone are not inductive: one sweep
without a change proves the equations of an instruction only if later visits of
the same sweep did not invalidate them. `IInv` therefore has `Bounded` (the sets never
exceed what their equations allow, so a visit can only add) and `QuietSweepSolves`
(while the sweep has seen no change, the instructions it has passed satisfy both
equations). The only assumption is `FlowsAssumption`: the vectors have the same size
and successors are instructions.

`InterferenceProofs` proves for every graph, every number of registers, every set of
shift amounts and every order of the names: type correctness, `ClashOnlyOnShift`,
`NoVariableLost`, `ColorsAreFinal` and `NoNeedlessSpill`. The invariant says which nodes are
in the graph, that interference is symmetric, how far the registers have been put back, and which
nodes have a colour in each phase. For `NoNeedlessSpill` it is joined by `Crowded`: when the
selection gives up, the neighbours of the node on top have all the colours, one each, so they are
at least as many as the registers (a surjection from the neighbours to the colours). Assumptions:
`RegistersAssumption` (the registers are different, rcx is one, rsp is not) and
`JobsAssumption` (a shift amount is a variable: the parser renames rcx; a function mentions
finitely many names).

`RegAllocProofs` proves, for every function the parser hands over and any number of rounds, that
spill code stays in whole slots of its own part of the frame (`SpillSlotsAreOwn`), and that once
the colouring succeeds no variable is left where `translate_to_L1` converts names
(`OnlyRegistersLeft`). The first needs to know what the loop does between two spills: the sets of
the solver and the nodes of the graph are names the function mentions or registers (`SolverInv`,
`StackInv`), each is on the stack once, and what is still to be spilled is mentioned in the function
that the spills before it have made (`SpillIs`, from what `FlattenSeq` gives: `FlattenIs`). The second follows
a name from the instruction to its colour: the sweep has put what an instruction reads into its IN set
(`PassedInv`), so it is in the graph, then on the stack, then coloured (`ColorsInv`), also in the
rounds in which the function has forgotten its variables. The left-out operands are the bases of the two
memory arithmetics, which `translate_to_L1` does not convert. Assumption: `SourcesAssumption`
(instructions have the operands of their class, and a function ends with a return or a goto, for the
run of its translation to stay inside it).

`RuntimeProofs` proves, for heaps and stacks of every size, any registers and every program that
stays inside its arrays, that the copies always fit into the new heap, at every call of `gc_copy`
(`CopiesFit`), and that between collections the heap is a sequence of arrays with the flags at their
starts and no pointer of the program or of an array dangles (`HeapWellFormed`, which
includes the types). Neither is inductive. During a collection the invariant (`Collection`) names
the starts of the old arrays, their sizes and the starts of the copies, which nothing in the
state holds any more, since forwarding pointers overwrite headers and first elements:

- an old array either is as it was or leads to a copy (`Arrays`); the copies lie one after another
  up to the allocation pointer, and the words given out are as many as the words of the arrays that
  have been moved (`NewHeap`, where `Gone` is the set of those words: a copy adds its own to it,
  which are disjoint from the others because the flags mark starts only, and the set stays inside
  the words of the old heap);
- each call of `gc_copy` that waits has its own copy, whose elements and flags are final up to the
  one in the hands of the next call, and the old elements after that are unchanged; a copy without
  a call is finished (`Calls`);
- the words of the stack before `scan` lead to copies, those after it and the fill value to old
  arrays (`StackScanned`). Nothing is known of words the program has not set: that they may hold
  anything is why the argument needs the flags.

Assumption: `ConstantsFit` (sizes are numbers, the words in use outnumber the saved registers, encoded
numbers are odd, and there are more names for arrays than a heap has words; names are a history
variable, and a name is no number).

It also proves, under the same assumption, the two
properties of the collector that are about what can be reached: a collection leaves nothing in the
heap but the arrays that the stack and the fill value lead to (`NothingElseSurvives`), and the
collector implements `ObjectStore` (`ImplementsStore`), so that the program never sees an array lost,
moved, shared or changed.

*Reachability.* `Reachable` and `Within` are recursive functions that follow elements for as many
steps as there may be arrays. The proofs are about `Span` instead, the names that are in every
set that holds the given values and is closed under elements. `WithinIsSpan` and `ReachedIsSpan` say that
both functions compute it: they grow at each step or never again, and there are not
more arrays than steps (`StepsSaturate`, `TilesFew`, `NamesFew`). The least step at which something
happens is the well-ordering of the numbers, so this needs no induction rule.

*Invariant.* `Contents` gives the elements of every array by its name, read through forwarding
pointers and half finished copies (`ArrayAt`). During a collection the whole argument is that no step of
`gc` or `gc_copy` changes `Contents` (the lemmas `CopyArrayContents`, `CopyElementContents`,
`UpdateRootContents`, `UpdateFillContents`). That is no invariant by itself; `SInv` adds to the
invariant above:

- `Named`: two arrays never have one name, except an array and its copy;
- `Moved`: a copy has the name of its original, every copy is that of an array that leads to it, each
  waiting call writes the copy of the array it was called with, and the outermost call is about the
  word `gc` is at;
- `Padded`: the word after the header of an array without elements, which `gc_copy` copies as if it
  were an element, is no pointer. Were it one, the collector would keep what nothing leads to;
- `Found`: every copy is within reach of the words of the stack that have been updated and the one
  `gc` is at. As long as the collection runs, this is what can be said of `NothingElseSurvives`;
- `Kept`: after it, every array is within reach of the stack and the fill value.

*Refinement.* Each step of the program is the step of the store of the same meaning (`AssignSeen`,
`ReadSeen`, `WriteSeen`, `ReturnSeen`, `AskSeen`), the end of `allocate` is `Answer` (`AnswerSeen`), and
every step of the collector and of `allocate_helper` changes nothing the program can see (`GCSeen`,
`HelperSeen`). What is stored in `InUse` may shrink only when the program lets go of a value, hence
`BecomesSeen` and `SeenSame`, which reduce a step to its values and the elements of one array.
`StoreIsImplemented` assumes `RequestsFit`: the sizes the program asks for are numbers an `int`
holds. For others the array has another size than was asked for, which is one of the departures listed
above (`SizeAsDesired`).

`L3Proofs` proves for every program, of any length, and every choice of labels that each
function is written out in the order of its instructions (`EmittedInOrder`) and completely
(`NothingLeftOut`). Neither is inductive, since the loop of `merge_forest` runs from the end and
by ones and twos: `IInv` says that the forest built so far covers the lines from `i + 1` to the
last, each by one tree and in order, and that the code written so far is exactly that of the lines
before tree `t`. The lemmas below it say what `Emit` gives for a tree of one and of two
instructions, and how sequences of lines join. Assumption: `ProgramsAreTyped` (a function is a
name and a sequence of instructions).

`L1FramesProofs` proves, for every stack, every number of arguments and locals, and bodies that
write whatever they may, that a return pops the address its own caller stored
(`ReturnsToCaller`), that a call gives the stack pointer back (`FrameKept`) and that an activation
writes nothing its callers keep (`CallersUntouched`). Needed for it: activations lie below each other
and each return address is still in its word (`Chain`), and the stack pointer has its
place in each step (`Pointer`). Assumption: `FramesAssumption` (addresses and arities are numbers,
`go` has stored a return address).

`L1Proofs` proves that compiled code is such a system (`FramesKept`, about `ImplementsFrames`), that
it does what the L1 program says (`CompiledRight`, about `ImplementsL1`), and that control stays in the
file and the stack pointer at a word of the stack (`TypeCorrect`), for every program of functions of up
to 20 instructions, of any of the fifteen classes, with any registers at the start and a stack of any
size. A program has to be one that L1 says something of, in two ways:

- `ProgramsAssumption`: its instructions are of the grammar, its labels are there, no function runs
  off its end, no label is defined twice, and constants fit into 32 bits where x86 wants that. Left
  out, because the code is wrong there (the table above), are a jump between two constants, `*=`
  and `&=` with memory, and the factor 0 of a `lea`. So is a jump to another function's label,
  which the compiler does not look for. No test of the repository has one of the last three.
- `[]WellBehaved`, a hypothesis of the theorems: accesses are to the stack, stores are below
  the return address of the function that runs, shifts are by less than 64, and a call finds the
  label to return to in the word below the stack pointer, passes as many arguments as the callee takes,
  and there is room for its frame. It is about states at the end of an L1 instruction (`last`)
  and says nothing of the x86 code; `l1` checks it of all its programs.

`Integral` is the other hypothesis: the bitwise and of two integers, a parameter of the modules, is
one, and so is a power of two. The provers cannot see the second for themselves.

*Invariant.* `IInv` has two halves. `LastInv` is about the L1 machine: its activations lie below one
another, each at the place its caller's body has the stack pointer (`CallsInv`), the word below
each holds its return address (`ReturnsInv`), and control is in the one on top (`Inside`). The other
half is where the x86 machine is in relation to it: between two L1 instructions, where both agree
(`Between`); at the header of a function, whose call L1 has yet to see or, for `main`, has already
seen (`Entering`); or in the middle of an instruction of two or three x86 ones (`Midway`), with what its
first ones did: the flags say how the comparison comes out, the low byte of the result is
set, the stack pointer has moved by an adjustment. There is one lemma for each x86 instruction
of each class (`AssignStep` to `HeaderStep`); `RetStep`, the longest argument, needs that the word
the `ret` reads is still the one the caller stored, which is `ReturnsInv`, and `MachineKeeps` shows
that stores, calls, returns and the runtime keep it.

*Frames.* `FramesOf` is the stack of `L1Frames` for the calls of `L1`. Each x86 step is a step of it:
`BodyRuns` for those of bodies, `CallsBelow`, `CallsInto`, `EntersBody`, `ReturnsAbove` and `ReturnsOut` for
those that `compile_L1` writes around them.

`LcProofs` proves, for any number of languages and tests, that each compiler works on what the
one above made of this test (`CompilesThisTest`), that a script that ends with 0 has left the binary
of its own source, or the file that `L1c` did not come to replace, and nothing in the directories below
(`SuccessIsOwnBinary`), and that a failure leaves the binary that was there
(`FailureLeavesBinary`). The invariant: the waiting scripts are a chain down the languages, each
past its own compiler with a file of this test (`Chain`, `Right`); a compiler that has just
ended with 0 has written this test (`Fresh`); a script that has just ended with 0 has left its
binary or `kept`, and no `a.out` below (`Answered`), and that file is what the script above moves. Assumption: `LcAssumption` (there is a
language and a test, and each test prints something).

Proved and in no run, because the theorems are stronger than any instance: `OnlyGrow`,
`ColorsAreFinal`, `OnlyRegistersLeft`, `FrameKept`, `CompilesThisTest`, and the type invariants of these modules.

Model-checked only:

- `ReadsAgree`, which is about what the values of a function are at each point of its run. It does
  not hold for every function: the run `regalloc_loop` shows one. TLC checks it for the functions of
  the run `allocation`.
- `OracleAgrees` and the two `PrintsWhatTestSays`, which are about the files of the tests.
- `SameEffect`, `JumpsArrive`, `LAProgram` and the parsers: the operators are case analyses
  over whole languages on words and texts, folded over programs; `LAMachine` uses `Bitwise`, which is
  defined by recursion.
- Termination and the other liveness properties, which the proof system has no rules for.

## Not modelled

- LB: it has tests but no compiler.
- `lib/PEGTL`, `lib/boost` (vendored; PEGTL by how the parsers use it) and `cmake-build-debug`
  (generated).
- The scripts that make archives and oracles, and the `main` functions' handling of options.
- Of the runtime, `print` and `array_error`, which read memory, print and exit, and the size of
  the C stack that the recursion of `gc_copy` needs.
- The format of dumps and output files, and the names of the 8-bit registers.
- The width of values outside the size of an array: constants and results of the runs are small,
  and no text or test says what an overflow gives.
- The choice among tiles by size, since exactly one covers each tree.
