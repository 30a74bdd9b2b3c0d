------------------------------ MODULE Runtime ------------------------------
(***************************************************************************)
(* lib/runtime.c: allocate and its copying collector, between the steps of *)
(* the program they are linked with.  The collector is modelled word by    *)
(* word: every call and every return of the recursive gc_copy is a step.   *)
(*                                                                         *)
(* A word is an integer, as in the C code: an encoded number is odd, a     *)
(* pointer is the address of a word and a multiple of 8.  The registers    *)
(* and the words of the stack are the places of the program; the ones it   *)
(* has given a value in the functions now running are `defined', the       *)
(* others hold whatever was left in them.                                  *)
(***************************************************************************)
EXTENDS Integers, Sequences, FiniteSets, Functions, TLC

CONSTANTS HEAP_SIZE,    \* words of a heap
          Saved,        \* callee-saved registers, in the order allocate saves them
          Scratch,      \* the other registers
          StackWords,   \* words of the stack: number 1 is the deepest, the last
                        \* one is the word the variable stack points to
          Numbers,      \* the encoded numbers the program computes with
          Requests,     \* the size arguments given to allocate, encoded or not
          IntRange,     \* a C int has as many values
          Ids,          \* names for arrays, none of them a word
          Leftover      \* what malloc may leave in the flags of a heap

Heaps == {1, 2}
Base(h) == IF h = 1 THEN 8 ELSE 8 * (HEAP_SIZE + 2)
AddressesOf(h) == {Base(h) + 8 * k : k \in 0..HEAP_SIZE-1}
Address == AddressesOf(1) \union AddressesOf(2)
Places == Range(Saved) \union Scratch \union 1..StackWords

ASSUME ConstantsFit ==
    /\ HEAP_SIZE \in Nat \ {0, 1} /\ IntRange \in Nat /\ HEAP_SIZE < IntRange \div 2
    /\ Saved \in Seq(Range(Saved)) /\ StackWords \in Nat /\ Len(Saved) < StackWords
    /\ \A n \in Numbers : n \in Int /\ n % 2 = 1
    /\ Requests \subseteq Int
    /\ IsFiniteSet(Ids) /\ Cardinality(Ids) > HEAP_SIZE /\ Ids \intersect Int = {}
    /\ Leftover \subseteq BOOLEAN

VARIABLES mem,          \* the words of both heaps
          valid,        \* the flags of both heaps
          heap,         \* the heap in use; the other one is heap2
          words,        \* words_allocated of each heap
          word,         \* the contents of the places
          rsp,          \* the lowest word of the stack that is in use
          defined,      \* the places the program may read
          control,      \* what runs: the program, or a line of the runtime
          value,        \* argument or result of gc_copy
          frames,       \* the calls of gc_copy that wait for an inner one
          scan,         \* the loop index of gc, as a word of the stack
          request,      \* fw_size and fw_fill
          name          \* history: the name of the array at an address

memory   == <<mem, valid, heap, words, name>>
program  == <<word, rsp, defined>>
collector == <<value, frames, scan>>
vars == <<memory, program, collector, control, request>>

heap2 == 3 - heap
allocptr == Base(heap) + 8 * words[heap]

\* Conversion of an int64_t to an int
Int32(n) == ((n + IntRange \div 2) % IntRange) - IntRange \div 2

\* The words an array of a given size takes: the header and its elements, and
\* never fewer than the two that a forwarding pointer needs
ArraySize(size) == IF size = 0 THEN 2 ELSE size + 1

Element(a, i) == a + 8 * i
Elements(a, size) == {Element(a, i) : i \in 1..ArraySize(size)-1}

Init ==
    /\ mem = [a \in Address |-> 0]
    /\ \E flag \in Leftover : valid = [a \in Address |-> flag]
    /\ heap = 1
    /\ words = [h \in Heaps |-> 0]
    /\ word = [p \in Places |-> 1]
    /\ rsp = StackWords
    /\ defined = {}
    /\ control = "program"
    /\ value = 0 /\ frames = <<>> /\ scan = 0
    /\ request = <<>>
    /\ name = [a \in Address |-> 0]

(***************************************************************************)
(* The program: moves, loads and stores of generated code, which checks    *)
(* the bounds of every access, and the frames of its functions.            *)
(***************************************************************************)
Usable == Range(Saved) \union Scratch \union rsp..StackWords-1

IsPointer(v) == v % 8 = 0

Put(p, v) ==
    /\ word' = [word EXCEPT ![p] = v]
    /\ defined' = defined \union {p}
    /\ UNCHANGED <<memory, rsp, collector, control, request>>

SetNumber == /\ control = "program"
             /\ \E p \in Usable, n \in Numbers : Put(p, n)

Move == /\ control = "program"
        /\ \E p \in Usable, q \in defined : Put(p, word[q])

Load == /\ control = "program"
        /\ \E p \in Usable, q \in defined :
              /\ IsPointer(word[q])
              /\ \E i \in 1..mem[word[q]] : Put(p, mem[Element(word[q], i)])

Store == /\ control = "program"
         /\ \E p, q \in defined :
               /\ IsPointer(word[q])
               /\ \E i \in 1..mem[word[q]] :
                     mem' = [mem EXCEPT ![Element(word[q], i)] = word[p]]
         /\ UNCHANGED <<valid, heap, words, name, program, collector, control, request>>

\* A function is entered: its locals are uninitialized words of the stack.
Enter == /\ control = "program"
         /\ rsp > Len(Saved) + 1
         /\ rsp' = rsp - 1
         /\ UNCHANGED <<memory, word, defined, collector, control, request>>

Return == /\ control = "program"
          /\ rsp < StackWords
          /\ rsp' = rsp + 1
          /\ defined' = defined \ {rsp}
          /\ UNCHANGED <<memory, word, collector, control, request>>

(***************************************************************************)
(* The stub allocate saves the callee-saved registers below the stack, so  *)
(* that gc finds them there and allocate returns with what gc makes of     *)
(* them.                                                                   *)
(***************************************************************************)
SavedAt(i) == rsp - Len(Saved) + i - 1
StackTop == rsp - Len(Saved)

Allocate ==
    /\ control = "program"
    /\ \E fw_size \in Requests, fw_fill \in Numbers \union {word[p] : p \in defined} :
          request' = <<fw_size, fw_fill>>
    /\ word' = [p \in Places |-> IF p \in StackTop..rsp-1 THEN word[Saved[p - StackTop + 1]]
                                                          ELSE word[p]]
    /\ defined' = defined \ Scratch
    /\ control' = "allocate"
    /\ UNCHANGED <<memory, rsp, collector>>

FwSize == request[1]
FwFill == request[2]
DataSize == Int32(FwSize \div 2)
HasSpace == words[heap] + ArraySize(DataSize) < HEAP_SIZE

Exit(reason) ==
    /\ control' = reason
    /\ UNCHANGED <<memory, program, collector, request>>

BadSize == /\ control = "allocate"
           /\ FwSize % 2 = 0 \/ DataSize < 0
           /\ Exit("bad size")

\* A mistake, for a mutant of a run: reset_heap forgotten
StartGCWithoutReset ==
    /\ control = "allocate"
    /\ FwSize % 2 = 1 /\ DataSize >= 0 /\ ~HasSpace
    /\ heap' = heap2
    /\ scan' = StackTop
    /\ value' = word[StackTop]
    /\ control' = "copy"
    /\ UNCHANGED <<mem, valid, words, name, program, frames, request>>

\* switch_heaps, and the start of the loop over the stack.
StartGC == /\ control = "allocate"
           /\ FwSize % 2 = 1 /\ DataSize >= 0 /\ ~HasSpace
           /\ heap' = heap2
           /\ words' = [words EXCEPT ![heap2] = 0]
           /\ scan' = StackTop
           /\ value' = word[StackTop]
           /\ control' = "copy"
           /\ UNCHANGED <<mem, valid, name, program, frames, request>>

\* Mistakes: the loop over the stack does not advance; the fill value keeps its
\* old address; the flag of the first element is left as it was; an array is copied
\* without leaving a mark
UpdateRootStays(result) ==
    /\ frames = <<>> /\ scan <= StackWords
    /\ word' = [word EXCEPT ![scan] = result]
    /\ value' = word[scan]
    /\ control' = "copy"
    /\ UNCHANGED <<memory, rsp, defined, frames, scan, request>>

UpdateFillForgets(result) ==
    /\ frames = <<>> /\ scan > StackWords
    /\ mem' = [a \in Address |-> IF a \in AddressesOf(heap2) THEN 0 ELSE mem[a]]
    /\ name' = [a \in Address |-> IF a \in AddressesOf(heap2) THEN 0 ELSE name[a]]
    /\ value' = 0 /\ scan' = 0
    /\ control' = "retry"
    /\ UNCHANGED <<valid, heap, words, frames, program, request>>

FlagsKeepsFirst(new, i) ==
    IF i = 1 THEN [valid EXCEPT ![new] = TRUE] ELSE [valid EXCEPT ![Element(new, i)] = FALSE]

ArrayCopyWithoutMark == [mem EXCEPT ![allocptr] = mem[value]]

(***************************************************************************)
(* What becomes of the result of a call of gc_copy.  gc puts it into the   *)
(* word of the stack that it came from and goes on to the next one, or to  *)
(* the fill value of allocate_helper; an outer call of gc_copy makes it an *)
(* element of its copy and goes on to the next one, or returns.            *)
(***************************************************************************)
UpdateRoot(result) ==
    /\ frames = <<>> /\ scan <= StackWords
    /\ word' = [word EXCEPT ![scan] = result]
    /\ scan' = scan + 1
    /\ value' = IF scan < StackWords THEN word[scan + 1] ELSE FwFill
    /\ control' = "copy"
    /\ UNCHANGED <<memory, rsp, defined, frames, request>>

\* The heap left behind is dead from here on: its words are zeroed in the model so
\* that states do not differ in them.
UpdateFill(result) ==
    /\ frames = <<>> /\ scan > StackWords
    /\ request' = <<FwSize, result>>
    /\ mem' = [a \in Address |-> IF a \in AddressesOf(heap2) THEN 0 ELSE mem[a]]
    /\ name' = [a \in Address |-> IF a \in AddressesOf(heap2) THEN 0 ELSE name[a]]
    /\ value' = 0 /\ scan' = 0
    /\ control' = "retry"
    /\ UNCHANGED <<valid, heap, words, frames, program>>

Top == frames[Len(frames)]

\* The condition of the loop over the elements
MoreElements == Top.i + 1 < ArraySize(Top.size)

\* The flags of an array whose element i has been filled
Flags(new, i) ==
    IF i = 1 THEN [valid EXCEPT ![new] = TRUE, ![Element(new, 1)] = FALSE]
             ELSE [valid EXCEPT ![Element(new, i)] = FALSE]

CopyElement(result) ==
    /\ frames # <<>>
    /\ mem' = [mem EXCEPT ![Element(Top.new, Top.i)] = result]
    /\ valid' = Flags(Top.new, Top.i)
    /\ IF MoreElements
       THEN /\ frames' = [frames EXCEPT ![Len(frames)].i = @ + 1]
            /\ value' = mem[Element(Top.old, Top.i + 1)]
            /\ control' = "copy"
       ELSE /\ frames' = SubSeq(frames, 1, Len(frames) - 1)
            /\ value' = Top.new
            /\ control' = "copied"
    /\ UNCHANGED <<heap, words, name, program, scan, request>>

Deliver(result) == UpdateRoot(result) \/ UpdateFill(result) \/ CopyElement(result)

(***************************************************************************)
(* gc_copy                                                                 *)
(***************************************************************************)
Collectable(old) ==
    /\ IsPointer(old)
    /\ Base(heap2) <= old /\ old < Base(heap2) + 8 * words[heap2]
    /\ valid[old]

Forwarded(old) == mem[old] = -1

CopyNothing == control = "copy" /\ ~Collectable(value) /\ Deliver(value)

CopyForwarded == /\ control = "copy" /\ Collectable(value) /\ Forwarded(value)
                 /\ Deliver(mem[Element(value, 1)])

ArrayCopy == [mem EXCEPT ![value] = -1,
                         ![Element(value, 1)] = allocptr,
                         ![allocptr] = mem[value]]

\* The array gets its place in the new heap and leaves a forwarding pointer; its
\* first element, which the pointer overwrites, is the first to be copied.
CopyArray ==
    /\ control = "copy" /\ Collectable(value) /\ ~Forwarded(value)
    /\ mem' = ArrayCopy
    /\ words' = [words EXCEPT ![heap] = @ + ArraySize(mem[value])]
    /\ name' = [name EXCEPT ![allocptr] = name[value]]
    /\ frames' = Append(frames, [old |-> value, new |-> allocptr, size |-> mem[value], i |-> 1])
    /\ value' = mem[Element(value, 1)]
    /\ UNCHANGED <<valid, heap, program, scan, control, request>>

ArrayCopied == control = "copied" /\ Deliver(value)

(***************************************************************************)
(* The rest of allocate_helper and of the stub.                            *)
(***************************************************************************)
\* Where the arrays of the heap in use start
Starts == {a \in AddressesOf(heap) : a < allocptr /\ valid[a]}

Allocated(p) ==
    /\ mem' = [a \in Address |->
                 IF a = allocptr THEN DataSize
                 ELSE IF a \notin Elements(allocptr, DataSize) THEN mem[a]
                 ELSE IF DataSize = 0 THEN 1 ELSE FwFill]
    /\ valid' = [a \in Address |->
                 a = allocptr \/ (a \notin Elements(allocptr, DataSize) /\ valid[a])]
    /\ words' = [words EXCEPT ![heap] = @ + ArraySize(DataSize)]
    /\ name' = [name EXCEPT ![allocptr] = CHOOSE id \in Ids \ {name[a] : a \in Starts} : TRUE]
    /\ word' = [q \in Places |-> IF q = p THEN allocptr
                                 ELSE IF \E i \in DOMAIN Saved : Saved[i] = q
                                 THEN word[SavedAt(CHOOSE i \in DOMAIN Saved : Saved[i] = q)]
                                 ELSE word[q]]
    /\ defined' = defined \union {p}
    /\ request' = <<>>
    /\ control' = "program"
    /\ UNCHANGED <<heap, rsp, collector>>

\* The address comes back in a caller-saved register.
Grant == /\ \/ control = "allocate" /\ FwSize % 2 = 1 /\ DataSize >= 0
            \/ control = "retry"
         /\ HasSpace
         /\ \E p \in Scratch : Allocated(p)

OutOfMemory == control = "retry" /\ ~HasSpace /\ Exit("out of memory")

Program == SetNumber \/ Move \/ Load \/ Store \/ Enter \/ Return \/ Allocate
Helper == BadSize \/ StartGC \/ Grant \/ OutOfMemory
GC == CopyNothing \/ CopyForwarded \/ CopyArray \/ ArrayCopied

Next == Program \/ Helper \/ GC

\* The runtime is a function call: once it runs it keeps running.
Spec == Init /\ [][Next]_vars /\ WF_vars(Helper \/ GC)

(***************************************************************************)
(* What the program would see if the collector stopped here.  An array     *)
(* that has been forwarded is read in its copy, the elements that have not *)
(* been copied yet where they still are, and the one that is being copied  *)
(* in the hands of gc_copy.                                                *)
(***************************************************************************)
Collecting == control \in {"copy", "copied"}

Place(v) == IF Collecting /\ v \in AddressesOf(heap2) /\ Forwarded(v)
            THEN mem[Element(v, 1)] ELSE v

FrameOf(a) == {k \in DOMAIN frames : frames[k].new = a}

\* What the call number k of gc_copy has in hand: the element it is copying
InHand(k) == IF k < Len(frames) THEN frames[k+1].old ELSE value

Raw(a, i) ==
    IF FrameOf(a) = {} THEN mem[Element(a, i)]
    ELSE LET k == CHOOSE k \in FrameOf(a) : TRUE
         IN IF i < frames[k].i THEN mem[Element(a, i)]
            ELSE IF i > frames[k].i THEN mem[Element(frames[k].old, i)]
            ELSE InHand(k)

Meaning(v) == IF v \in Address THEN name[v] ELSE v

ArrayAt(a) == LET b == Place(a)
              IN [i \in 1..mem[b] |-> Meaning(Raw(b, i))]

\* Only arrays that are in the heap, or were when the collection began, have names
Where(id) == CHOOSE a \in Address : name[a] = id

\* The places that hold the values of the program's variables: while allocate
\* runs, the callee-saved registers are on the stack.
Root(p) == IF control \notin {"program"} /\ p \in Range(Saved)
           THEN word[SavedAt(CHOOSE i \in DOMAIN Saved : Saved[i] = p)]
           ELSE word[p]

Roots == [p \in defined |-> Root(p)]
Call == IF request = <<>> THEN <<>> ELSE <<FwSize \div 2, Meaning(FwFill)>>

\* The addresses within reach of a set of values; at most every second word is
\* the start of an array
Reachable(values) ==
    LET reach[n \in 0..HEAP_SIZE \div 2] ==
            {v \in values \union
                IF n = 0 THEN {}
                ELSE UNION {{Raw(Place(a), i) : i \in 1..mem[Place(a)]} : a \in reach[n-1]} :
             v \in Address}
    IN reach[HEAP_SIZE \div 2]

\* The arrays the program can still get at, by their names
InUse == LET held == Range(Roots) \union (IF request = <<>> THEN {} ELSE {FwFill})
         IN [id \in {name[a] : a \in Reachable(held)} |-> ArrayAt(Where(id))]

Promise == INSTANCE ObjectStore WITH
             root <- [p \in defined |-> Meaning(Root(p))], array <- InUse, request <- Call

-----------------------------------------------------------------------------
TypeOK ==
    /\ mem \in [Address -> Int] /\ valid \in [Address -> BOOLEAN]
    /\ heap \in Heaps /\ words \in [Heaps -> 0..HEAP_SIZE]
    /\ word \in [Places -> Int] /\ rsp \in Len(Saved)+1..StackWords
    /\ defined \subseteq Places
    /\ control \in {"program", "allocate", "copy", "copied", "retry",
                    "bad size", "out of memory"}
    /\ value \in Int /\ scan \in 0..StackWords+1
    /\ frames \in Seq([old: Address, new: Address, size: Nat, i: Nat])
    /\ request \in {<<>>} \union (Requests \X Int)
    /\ name \in [Address -> Ids \union {0}]

\* The state has its types, and between collections the words handed out are a
\* sequence of arrays, the flags mark the first word of each and of nothing else, and
\* every pointer in them and in the program's variables leads to one of them.
HeapWellFormed ==
    TypeOK /\ (~Collecting =>
        /\ \A a \in AddressesOf(heap) : a < allocptr =>
              Cardinality({b \in Starts : b <= a /\ a < Element(b, ArraySize(mem[b]))}) = 1
        /\ \A a \in Starts : \A i \in 1..mem[a] :
              IsPointer(mem[Element(a, i)]) => mem[Element(a, i)] \in Starts
        /\ \A p \in defined : IsPointer(Root(p)) => Root(p) \in Starts)

\* gc_copy does not check that the new heap has room: it has, at every moment,
\* because no array is copied twice.
CopiesFit == Collecting => words[heap] <= words[heap2]

\* `out of memory' is not said too early: after a collection the heap holds nothing
\* but what the words of the stack and the fill value lead to.
NothingElseSurvives ==
    control \in {"retry", "out of memory"} =>
        Starts \subseteq Reachable({word[w] : w \in StackTop..StackWords} \union {FwFill})

\* The program sees arrays that are never lost, moved, shared or changed, at every
\* moment of a collection.
ImplementsStore == Promise!Spec

\* allocate returns or ends the program: a collection ends, whatever cycles the
\* arrays form.
Terminates == control # "program" ~> control \notin {"allocate", "copy", "copied", "retry"}

\* Not a property of sizes that an int cannot hold.  runtime.c:377: the size of the array is the desired size.
SizeAsDesired ==
    [][request # <<>> /\ request' = <<>> =>
          \E p \in Scratch : mem'[word'[p]] = FwSize \div 2]_vars

=============================================================================
