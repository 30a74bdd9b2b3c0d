---------------------------- MODULE RuntimeProofs ----------------------------
(***************************************************************************)
(* Proofs about the collector of lib/runtime.c, for heaps and stacks of    *)
(* every size.                                                             *)
(*                                                                         *)
(* First the layout of the heap: between collections it is well formed,    *)
(* and during one the copies always fit into the new heap.                 *)
(*                                                                         *)
(* Then what the collector promises: the program sees arrays that are      *)
(* never lost, moved, shared or changed, at every step of a collection,    *)
(* and a collection leaves nothing in the heap but what the stack and the  *)
(* fill value lead to.                                                     *)
(***************************************************************************)
EXTENDS Runtime, FiniteSetTheorems, SequenceTheorems, WellFoundedInduction, TLAPS

\* A pointer among the values v leads to one of the arrays that start in S.
Leads(v, S) == IsPointer(v) => v \in S

\* The end of an array at a that has n elements
End(a, n) == Element(a, ArraySize(n))

\* The first n words of heap h are arrays one after another, which start in S and
\* have the numbers of elements that size says.
Tiles(S, size, h, n) ==
  /\ \A s \in S : /\ s \in AddressesOf(h) /\ size[s] \in Nat
                  /\ End(s, size[s]) <= Base(h) + 8 * n
  /\ \A s, t \in S : s < t => End(s, size[s]) <= t
  /\ \A a \in AddressesOf(h) :
        a < Base(h) + 8 * n => \E s \in S : s <= a /\ a < End(s, size[s])

\* The place whose word of memory holds the program's value of p while the
\* runtime runs
Slot(p) == CHOOSE i \in DOMAIN Saved : Saved[i] = p
At(p) == IF p \in Range(Saved) THEN SavedAt(Slot(p)) ELSE p

Running == control \in {"allocate", "copy", "copied", "retry"}

\* What holds at all times
Frame ==
  /\ defined \subseteq Usable
  /\ control # "program" => defined \intersect Scratch = {}
  /\ control = "program" => request = <<>>
  /\ Running => request # <<>>
  /\ control \in {"copy", "copied", "retry"} => DataSize \in Nat
  /\ Collecting => scan \in StackTop..StackWords+1
  /\ ~Collecting => frames = <<>>

\* Between collections
Quiet ==
  /\ Tiles(Starts, mem, heap, words[heap])
  /\ \A s \in Starts : \A j \in 1..ArraySize(mem[s])-1 : Leads(mem[Element(s, j)], Starts)
  /\ \A p \in defined : Leads(Root(p), Starts)
  /\ request # <<>> => Leads(FwFill, Starts)

(***************************************************************************)
(* During a collection: From is where the arrays of the old heap start,    *)
(* size their sizes, To is where the copies start.                         *)
(***************************************************************************)
OldHeap(From, size) ==
  /\ From = {a \in AddressesOf(heap2) : a < Base(heap2) + 8 * words[heap2] /\ valid[a]}
  /\ Tiles(From, size, heap2, words[heap2])

\* An array of the old heap that has been moved leads to its copy; the others are
\* as they were.
Arrays(From, size, To) ==
  \A o \in From :
    IF mem[o] = -1 THEN mem[Element(o, 1)] \in To
    ELSE /\ mem[o] = size[o]
         /\ \A j \in 1..ArraySize(size[o])-1 : Leads(mem[Element(o, j)], From)

\* The words of the old heap, by their numbers, whose arrays have been moved
Gone(From, size) ==
  {k \in 0..words[heap2]-1 :
     \E o \in From : /\ mem[o] = -1 /\ o <= Base(heap2) + 8 * k
                     /\ Base(heap2) + 8 * k < End(o, size[o])}

NewHeap(From, size, To) ==
  /\ Tiles(To, mem, heap, words[heap])
  /\ words[heap] = Cardinality(Gone(From, size))

\* The first elements of the copy at c, up to but not including number n, have their
\* final values and flags.
Filled(m, flags, c, n, To) ==
  /\ n > 1 => flags[c]
  /\ \A j \in 1..n-1 : ~flags[Element(c, j)] /\ Leads(m[Element(c, j)], To)

CallRecord == [old: Address, new: Address, size: Nat, i: Nat]

\* A call of gc_copy that waits: its element i is in the hands of the next call.
Waits(m, flags, f, From, size, To) ==
  /\ f.old \in From /\ m[f.old] = -1 /\ f.size = size[f.old]
  /\ f.new \in To /\ m[f.new] = f.size
  /\ f.i \in 1..ArraySize(f.size)-1
  /\ \A j \in f.i+1..ArraySize(f.size)-1 : Leads(m[Element(f.old, j)], From)
  /\ Filled(m, flags, f.new, f.i, To)

Calls(From, size, To) ==
  /\ \A k \in DOMAIN frames : Waits(mem, valid, frames[k], From, size, To)
  /\ \A k, l \in DOMAIN frames : k # l => frames[k].new # frames[l].new
  /\ \A c \in To : (\A k \in DOMAIN frames : frames[k].new # c)
                      => Filled(mem, valid, c, ArraySize(mem[c]), To)

\* The words of the stack before scan have been updated, the others and the fill
\* value have not.
StackScanned(From, To) ==
  /\ \A p \in defined : Leads(word[At(p)], IF At(p) < scan THEN To ELSE From)
  /\ Leads(FwFill, From)

Value(From, To) ==
  /\ control = "copied" => value \in To
  /\ control = "copy" /\ frames # <<>> => Leads(value, From)
  /\ control = "copy" /\ frames = <<>>
        => value = IF scan <= StackWords THEN word[scan] ELSE FwFill

Collection(From, size, To) ==
  /\ OldHeap(From, size) /\ NewHeap(From, size, To)
  /\ Arrays(From, size, To) /\ Calls(From, size, To)
  /\ StackScanned(From, To) /\ Value(From, To)

IInv == /\ TypeOK /\ Frame
        /\ ~Collecting => Quiet
        /\ Collecting => \E From, size, To : Collection(From, size, To)

-----------------------------------------------------------------------------
(***************************************************************************)
(* Addresses                                                               *)
(***************************************************************************)
LEMMA Constants ==
  /\ HEAP_SIZE \in Nat /\ HEAP_SIZE > 1
  /\ Len(Saved) \in Nat /\ DOMAIN Saved = 1..Len(Saved)
  /\ StackWords \in Nat /\ Len(Saved) < StackWords
  /\ \A p \in Range(Saved) : \E i \in DOMAIN Saved : Saved[i] = p
  /\ IntRange \in Nat /\ IntRange > 0
<1>1. Saved \in Seq(Range(Saved))
  BY ConstantsFit
<1>2. Len(Saved) \in Nat /\ DOMAIN Saved = 1..Len(Saved)
  BY <1>1
<1>3. \A p \in Range(Saved) : \E i \in DOMAIN Saved : Saved[i] = p
  BY DEF Range
<1> QED
  BY <1>2, <1>3, ConstantsFit

LEMMA TwoHeaps ==
  ASSUME heap \in Heaps
  PROVE  heap2 \in Heaps /\ heap2 # heap
BY DEF Heaps, heap2

LEMMA BaseInt ==
  ASSUME NEW h \in Heaps
  PROVE  Base(h) \in Int /\ Base(h) > 0
BY Constants DEF Base, Heaps

LEMMA AddressBounds ==
  ASSUME NEW h \in Heaps, NEW a \in AddressesOf(h)
  PROVE  /\ a \in Int /\ a \in Address /\ IsPointer(a)
         /\ Base(h) <= a /\ a <= Base(h) + 8 * HEAP_SIZE - 8
         /\ \E k \in 0..HEAP_SIZE-1 : a = Base(h) + 8 * k
<1>1. PICK k \in 0..HEAP_SIZE-1 : a = Base(h) + 8 * k
  BY DEF AddressesOf
<1>2. Base(h) % 8 = 0
  BY Constants DEF Base, Heaps
<1>3. a % 8 = 0
  BY <1>1, <1>2, BaseInt, Constants
<1>4. a \in Address
  BY DEF Address, Heaps
<1> QED
  BY <1>1, <1>3, <1>4, BaseInt, Constants DEF IsPointer

LEMMA AddressByBounds ==
  ASSUME NEW h \in Heaps, NEW a \in Int, IsPointer(a),
         Base(h) <= a, a < Base(h) + 8 * HEAP_SIZE
  PROVE  a \in AddressesOf(h)
<1>1. Base(h) % 8 = 0
  BY Constants DEF Base, Heaps
<1> DEFINE k == (a - Base(h)) \div 8
<1>2. a % 8 = 0
  BY DEF IsPointer
<1>3. k \in 0..HEAP_SIZE-1 /\ a = Base(h) + 8 * k
  BY <1>1, <1>2, BaseInt, Constants
<1> QED
  BY <1>3 DEF AddressesOf

LEMMA HeapsDisjoint ==
  ASSUME NEW g \in Heaps, NEW h \in Heaps, g # h,
         NEW a \in AddressesOf(g), NEW b \in AddressesOf(h)
  PROVE  a # b
<1>1. a \in Int /\ Base(g) <= a /\ a <= Base(g) + 8 * HEAP_SIZE - 8
  BY AddressBounds
<1>2. b \in Int /\ Base(h) <= b /\ b <= Base(h) + 8 * HEAP_SIZE - 8
  BY AddressBounds
<1> QED
  BY <1>1, <1>2, Constants DEF Base, Heaps

\* The address of the word that is i words after a
LEMMA ElementAddress ==
  ASSUME NEW h \in Heaps, NEW a \in AddressesOf(h), NEW i \in Nat,
         Element(a, i) < Base(h) + 8 * HEAP_SIZE
  PROVE  Element(a, i) \in AddressesOf(h)
<1>1. PICK k \in 0..HEAP_SIZE-1 : a = Base(h) + 8 * k
  BY DEF AddressesOf
<1>2. k + i \in 0..HEAP_SIZE-1 /\ Element(a, i) = Base(h) + 8 * (k + i)
  BY <1>1, BaseInt, Constants DEF Element
<1> QED
  BY <1>2 DEF AddressesOf

LEMMA SizeOfArray ==
  ASSUME NEW n \in Nat
  PROVE  ArraySize(n) \in Nat /\ ArraySize(n) >= 2 /\ n <= ArraySize(n) - 1
BY DEF ArraySize

-----------------------------------------------------------------------------
(***************************************************************************)
(* Arrays one after another                                                *)
(***************************************************************************)
LEMMA TileBounds ==
  ASSUME NEW h \in Heaps, NEW n \in Nat, NEW S, NEW size, Tiles(S, size, h, n),
         NEW s \in S
  PROVE  /\ s \in AddressesOf(h) /\ s \in Int /\ Base(h) <= s /\ IsPointer(s)
         /\ size[s] \in Nat /\ ArraySize(size[s]) \in Nat /\ ArraySize(size[s]) >= 2
         /\ End(s, size[s]) = s + 8 * ArraySize(size[s])
         /\ End(s, size[s]) <= Base(h) + 8 * n
<1>1. s \in AddressesOf(h) /\ size[s] \in Nat /\ End(s, size[s]) <= Base(h) + 8 * n
  BY DEF Tiles
<1>2. s \in Int /\ Base(h) <= s /\ IsPointer(s)
  BY <1>1, AddressBounds
<1> QED
  BY <1>1, <1>2, SizeOfArray DEF End, Element

\* An element of an array is a word of the heap that no array starts at and that is
\* no other element.
LEMMA Inner ==
  ASSUME NEW h \in Heaps, NEW n \in Nat, n <= HEAP_SIZE,
         NEW S, NEW size, Tiles(S, size, h, n),
         NEW s \in S, NEW j \in 1..ArraySize(size[s])-1
  PROVE  /\ Element(s, j) \in AddressesOf(h) /\ Element(s, j) \notin S
         /\ Element(s, j) < Base(h) + 8 * n
         /\ \A t \in S : \A i \in 1..ArraySize(size[t])-1 :
               Element(t, i) = Element(s, j) => t = s /\ i = j
<1>1. /\ s \in AddressesOf(h) /\ s \in Int
      /\ ArraySize(size[s]) \in Nat /\ End(s, size[s]) = s + 8 * ArraySize(size[s])
      /\ End(s, size[s]) <= Base(h) + 8 * n
  BY TileBounds
<1>2. j \in Nat /\ j >= 1 /\ j < ArraySize(size[s]) /\ Element(s, j) = s + 8 * j
  BY <1>1 DEF Element
<1>3. Element(s, j) < End(s, size[s]) /\ s < Element(s, j)
  BY <1>1, <1>2
<1>4. Element(s, j) < Base(h) + 8 * n /\ Element(s, j) < Base(h) + 8 * HEAP_SIZE
  BY <1>1, <1>2, <1>3, BaseInt, Constants
<1>5. Element(s, j) \in AddressesOf(h)
  BY <1>1, <1>2, <1>4, ElementAddress
<1>6. ASSUME NEW t \in S, NEW i \in 0..ArraySize(size[t])-1, Element(t, i) = Element(s, j)
      PROVE  t = s /\ i = j
  <2>1. /\ t \in Int /\ ArraySize(size[t]) \in Nat
        /\ End(t, size[t]) = t + 8 * ArraySize(size[t])
    BY TileBounds
  <2>2. i \in Nat /\ i < ArraySize(size[t]) /\ Element(t, i) = t + 8 * i
    BY <2>1 DEF Element
  <2>3. (t < s => End(t, size[t]) <= s) /\ (s < t => End(s, size[s]) <= t)
    BY DEF Tiles
  <2> QED
    BY <1>1, <1>2, <1>3, <1>6, <2>1, <2>2, <2>3
<1>7. Element(s, j) \notin S
  <2> SUFFICES ASSUME Element(s, j) \in S PROVE FALSE
    OBVIOUS
  <2>1. Element(s, j) \in Int /\ ArraySize(size[Element(s, j)]) >= 2
        /\ ArraySize(size[Element(s, j)]) \in Nat
    BY TileBounds
  <2>2. Element(Element(s, j), 0) = Element(s, j) /\ 0 \in 0..ArraySize(size[Element(s, j)])-1
    BY <2>1 DEF Element
  <2> QED
    BY <1>2, <1>6, <2>2
<1>8. \A t \in S : \A i \in 1..ArraySize(size[t])-1 :
               Element(t, i) = Element(s, j) => t = s /\ i = j
  <2> SUFFICES ASSUME NEW t \in S, NEW i \in 1..ArraySize(size[t])-1,
                      Element(t, i) = Element(s, j)
               PROVE  t = s /\ i = j
    OBVIOUS
  <2>1. i \in 0..ArraySize(size[t])-1
    BY TileBounds
  <2> QED
    BY <1>6, <2>1
<1> QED
  BY <1>4, <1>5, <1>7, <1>8

LEMMA TilesSame ==
  ASSUME NEW h \in Heaps, NEW n \in Nat, NEW S, NEW f, NEW g, Tiles(S, f, h, n),
         \A s \in S : g[s] = f[s]
  PROVE  Tiles(S, g, h, n)
BY DEF Tiles

\* One more array after the others
LEMMA TilesAdd ==
  ASSUME NEW h \in Heaps, NEW n \in Nat, NEW S, NEW f, NEW g, Tiles(S, f, h, n),
         \A s \in S : g[s] = f[s],
         NEW k, k = Base(h) + 8 * n, g[k] \in Nat,
         NEW m, m = n + ArraySize(g[k]), m <= HEAP_SIZE
  PROVE  k \in AddressesOf(h) /\ k \notin S /\ Tiles(S \union {k}, g, h, m)
<1>1. ArraySize(g[k]) \in Nat /\ ArraySize(g[k]) >= 2
  BY SizeOfArray
<1>2. n \in 0..HEAP_SIZE-1 /\ m \in Nat /\ k \in Int
  BY <1>1, BaseInt, Constants
<1>3. k \in AddressesOf(h)
  BY <1>2 DEF AddressesOf
<1>4. End(k, g[k]) = Base(h) + 8 * m
  BY <1>1, <1>2, BaseInt DEF End, Element
<1>5. \A s \in S : /\ s \in AddressesOf(h) /\ s \in Int /\ g[s] \in Nat
                   /\ End(s, g[s]) \in Int /\ End(s, g[s]) <= k /\ s < k
                   /\ End(s, g[s]) <= Base(h) + 8 * m
  <2> SUFFICES ASSUME NEW s \in S
               PROVE  /\ s \in AddressesOf(h) /\ s \in Int /\ g[s] \in Nat
                      /\ End(s, g[s]) \in Int /\ End(s, g[s]) <= k /\ s < k
                      /\ End(s, g[s]) <= Base(h) + 8 * m
    OBVIOUS
  <2>1. /\ s \in AddressesOf(h) /\ s \in Int /\ g[s] \in Nat
        /\ ArraySize(g[s]) \in Nat /\ ArraySize(g[s]) >= 2
        /\ End(s, g[s]) = s + 8 * ArraySize(g[s])
        /\ End(s, g[s]) <= Base(h) + 8 * n
    BY TileBounds
  <2> QED
    BY <1>1, <1>2, <2>1, BaseInt
<1>6. k \notin S
  BY <1>2, <1>5
<1>7. \A s \in S \union {k} : /\ s \in AddressesOf(h) /\ g[s] \in Nat
                              /\ End(s, g[s]) <= Base(h) + 8 * m
  BY <1>2, <1>3, <1>4, <1>5, BaseInt
<1>8. \A s, t \in S \union {k} : s < t => End(s, g[s]) <= t
  <2> SUFFICES ASSUME NEW s \in S \union {k}, NEW t \in S \union {k}, s < t
               PROVE  End(s, g[s]) <= t
    OBVIOUS
  <2>1. CASE s \in S /\ t \in S
    BY <2>1 DEF Tiles
  <2>2. CASE s \in S /\ t = k
    BY <2>2, <1>5
  <2>3. CASE s = k
    BY <2>3, <1>2, <1>5
  <2> QED
    BY <2>1, <2>2, <2>3
<1>9. \A a \in AddressesOf(h) :
        a < Base(h) + 8 * m => \E s \in S \union {k} : s <= a /\ a < End(s, g[s])
  <2> SUFFICES ASSUME NEW a \in AddressesOf(h), a < Base(h) + 8 * m
               PROVE  \E s \in S \union {k} : s <= a /\ a < End(s, g[s])
    OBVIOUS
  <2>1. CASE a < k
    BY <2>1 DEF Tiles
  <2>2. CASE k <= a
    BY <2>2, <1>4
  <2> QED
    BY <1>2, <2>1, <2>2, AddressBounds
<1> QED
  BY <1>3, <1>6, <1>7, <1>8, <1>9 DEF Tiles

\* The flags tell where the arrays start.
LEMMA FlagsTell ==
  ASSUME NEW h \in Heaps, NEW n \in Nat, n <= HEAP_SIZE,
         NEW S, NEW size, Tiles(S, size, h, n), NEW flags,
         \A s \in S : /\ flags[s]
                      /\ \A j \in 1..ArraySize(size[s])-1 : ~flags[Element(s, j)]
  PROVE  S = {a \in AddressesOf(h) : a < Base(h) + 8 * n /\ flags[a]}
<1>1. ASSUME NEW s \in S PROVE s \in AddressesOf(h) /\ s < Base(h) + 8 * n /\ flags[s]
  BY TileBounds, BaseInt
<1>2. ASSUME NEW a \in AddressesOf(h), a < Base(h) + 8 * n, flags[a]
      PROVE  a \in S
  <2>1. PICK s \in S : s <= a /\ a < End(s, size[s])
    BY <1>2 DEF Tiles
  <2>2. /\ s \in AddressesOf(h) /\ s \in Int /\ ArraySize(size[s]) \in Nat
        /\ End(s, size[s]) = s + 8 * ArraySize(size[s])
    BY TileBounds
  <2>3. PICK k \in 0..HEAP_SIZE-1 : s = Base(h) + 8 * k
    BY <2>2, AddressBounds
  <2>4. PICK l \in 0..HEAP_SIZE-1 : a = Base(h) + 8 * l
    BY AddressBounds
  <2>5. l - k \in 0..ArraySize(size[s])-1 /\ a = Element(s, l - k)
    BY <2>1, <2>2, <2>3, <2>4, BaseInt, Constants DEF Element
  <2>6. CASE l - k = 0
    BY <2>5, <2>6, <2>2, <2>3, <2>4
  <2>7. CASE l - k # 0
    <3>1. l - k \in 1..ArraySize(size[s])-1
      BY <2>2, <2>5, <2>7
    <3> QED
      BY <1>2, <2>5, <3>1
  <2> QED
    BY <2>6, <2>7
<1> QED
  BY <1>1, <1>2

-----------------------------------------------------------------------------
(***************************************************************************)
(* The program                                                             *)
(***************************************************************************)
LEMMA InitIInv == Init => IInv
<1> SUFFICES ASSUME Init PROVE IInv
  OBVIOUS
<1>1. heap = 1 /\ heap \in Heaps /\ words[heap] = 0 /\ control = "program" /\ ~Collecting
  BY DEF Init, Heaps, Collecting
<1>2. TypeOK
  <2>1. valid \in [Address -> BOOLEAN]
    BY ConstantsFit DEF Init
  <2>2. rsp \in Len(Saved)+1..StackWords
    BY Constants DEF Init
  <2>3. frames \in Seq(CallRecord)
    BY DEF Init
  <2>4. scan \in 0..StackWords+1 /\ words \in [Heaps -> 0..HEAP_SIZE]
    BY Constants DEF Init
  <2> QED
    BY <1>1, <2>1, <2>2, <2>3, <2>4 DEF Init, TypeOK
<1>3. Frame
  BY <1>1 DEF Init, Frame, Running, Collecting
<1>4. Starts = {}
  <2>1. ASSUME NEW a \in AddressesOf(heap) PROVE ~(a < allocptr)
    BY <1>1, <2>1, AddressBounds, BaseInt DEF allocptr
  <2> QED
    BY <2>1 DEF Starts
<1>5. Quiet
  <2>1. \A a \in AddressesOf(heap) : ~(a < Base(heap) + 8 * words[heap])
    BY <1>1, AddressBounds, BaseInt
  <2> QED
    BY <1>4, <2>1 DEF Quiet, Tiles, Init
<1> QED
  BY <1>1, <1>2, <1>3, <1>5 DEF IInv

\* What the invariant says of the program's places and of the arrays, while the
\* program runs and in the steps of allocate that are not part of a collection
LEMMA QuietState ==
  ASSUME IInv, ~Collecting
  PROVE  /\ heap \in Heaps /\ words[heap] \in Nat /\ words[heap] <= HEAP_SIZE
         /\ Tiles(Starts, mem, heap, words[heap])
         /\ \A s \in Starts : \A j \in 1..ArraySize(mem[s])-1 :
               Leads(mem[Element(s, j)], Starts)
         /\ \A p \in defined : Leads(Root(p), Starts)
         /\ control = "program" => \A p \in defined : Leads(word[p], Starts)
         /\ \A p \in Usable : p \in Places
         /\ \A p \in defined : p \in Usable /\ p \in Places /\ word[p] \in Int
         /\ frames = <<>>
<1>1. heap \in Heaps /\ words[heap] \in 0..HEAP_SIZE
  BY DEF IInv, TypeOK
<1>2. control = "program" => \A p \in defined : Root(p) = word[p]
  BY DEF Root
<1>3. rsp..StackWords-1 \subseteq 1..StackWords
  <2>1. rsp \in Len(Saved)+1..StackWords
    BY DEF IInv, TypeOK
  <2> QED
    BY <2>1, Constants
<1>4. \A p \in Usable : p \in Places
  BY <1>3 DEF Usable, Places
<1>5. \A p \in defined : p \in Usable /\ p \in Places /\ word[p] \in Int
  BY <1>4 DEF IInv, TypeOK, Frame
<1> QED
  BY <1>1, <1>2, <1>4, <1>5, Constants DEF IInv, Quiet, Frame

\* An element of an array holds a word that the program may have.
LEMMA ElementLeads ==
  ASSUME IInv, ~Collecting, NEW s \in Starts, NEW i \in 1..mem[s]
  PROVE  /\ i \in 1..ArraySize(mem[s])-1 /\ Element(s, i) \in Address
         /\ mem[Element(s, i)] \in Int /\ Leads(mem[Element(s, i)], Starts)
<1>1. heap \in Heaps /\ words[heap] \in Nat /\ words[heap] <= HEAP_SIZE
      /\ Tiles(Starts, mem, heap, words[heap])
  BY QuietState
<1>2. mem[s] \in Nat
  BY <1>1, TileBounds
<1>3. i \in 1..ArraySize(mem[s])-1
  BY <1>2, SizeOfArray
<1>4. Element(s, i) \in AddressesOf(heap)
  BY <1>1, <1>3, Inner
<1>5. Element(s, i) \in Address
  BY <1>1, <1>4, AddressBounds
<1> QED
  BY <1>3, <1>5, QuietState DEF IInv, TypeOK

LEMMA PutIInv ==
  ASSUME IInv, control = "program", NEW p \in Usable, NEW v \in Int, Leads(v, Starts),
         Put(p, v)
  PROVE  IInv'
<1>1. ~Collecting /\ ~Collecting'
  BY DEF Collecting, Put
<1>2. Starts' = Starts /\ Usable' = Usable
  BY DEF Put, Starts, Usable, allocptr, memory
<1>3. p \in Places
  BY <1>1, QuietState
<1>4. TypeOK'
  BY <1>3 DEF IInv, TypeOK, Put, memory, collector
<1>5. Frame'
  BY <1>1, <1>2 DEF IInv, Frame, Put, Running, collector
<1>6. \A q \in defined' : word'[q] = v \/ (q \in defined /\ word'[q] = word[q])
  BY <1>1, <1>3, QuietState DEF Put, IInv, TypeOK
<1>7. \A q \in defined' : Leads(Root(q)', Starts')
  <2> SUFFICES ASSUME NEW q \in defined' PROVE Leads(Root(q)', Starts')
    OBVIOUS
  <2>1. Root(q)' = word'[q]
    BY DEF Root, Put
  <2> QED
    BY <1>1, <1>2, <1>6, <2>1, QuietState
<1>8. request' = <<>>
  BY DEF IInv, Frame, Put
<1>9. Quiet'
  BY <1>1, <1>2, <1>7, <1>8, QuietState DEF Quiet, Put, memory
<1> QED
  BY <1>1, <1>4, <1>5, <1>9 DEF IInv

LEMMA SetNumberIInv == IInv /\ SetNumber => IInv'
<1> SUFFICES ASSUME IInv, SetNumber PROVE IInv'
  OBVIOUS
<1>1. PICK p \in Usable, n \in Numbers : Put(p, n)
  BY DEF SetNumber
<1>2. n \in Int /\ n % 2 = 1
  BY ConstantsFit
<1>3. n % 8 # 0
  BY <1>2
<1>4. Leads(n, Starts)
  BY <1>3 DEF Leads, IsPointer
<1> QED
  BY <1>1, <1>2, <1>4, PutIInv DEF SetNumber

LEMMA MoveIInv == IInv /\ Move => IInv'
<1> SUFFICES ASSUME IInv, Move PROVE IInv'
  OBVIOUS
<1>1. PICK p \in Usable, q \in defined : Put(p, word[q])
  BY DEF Move
<1>2. control = "program" /\ ~Collecting
  BY DEF Move, Collecting
<1>3. word[q] \in Int /\ Leads(word[q], Starts)
  BY <1>2, QuietState
<1> QED
  BY <1>1, <1>2, <1>3, PutIInv

LEMMA LoadIInv == IInv /\ Load => IInv'
<1> SUFFICES ASSUME IInv, Load PROVE IInv'
  OBVIOUS
<1>1. PICK p \in Usable, q \in defined :
        IsPointer(word[q]) /\ \E i \in 1..mem[word[q]] : Put(p, mem[Element(word[q], i)])
  BY DEF Load
<1>2. PICK i \in 1..mem[word[q]] : Put(p, mem[Element(word[q], i)])
  BY <1>1
<1>3. control = "program" /\ ~Collecting
  BY DEF Load, Collecting
<1>4. word[q] \in Starts
  BY <1>1, <1>3, QuietState DEF Leads
<1>5. mem[Element(word[q], i)] \in Int /\ Leads(mem[Element(word[q], i)], Starts)
  BY <1>3, <1>4, ElementLeads
<1> QED
  BY <1>2, <1>3, <1>5, PutIInv

LEMMA StoreIInv == IInv /\ Store => IInv'
<1> SUFFICES ASSUME IInv, Store PROVE IInv'
  OBVIOUS
<1>1. PICK p \in defined, q \in defined :
        IsPointer(word[q]) /\ \E i \in 1..mem[word[q]] :
           mem' = [mem EXCEPT ![Element(word[q], i)] = word[p]]
  BY DEF Store
<1>2. PICK i \in 1..mem[word[q]] : mem' = [mem EXCEPT ![Element(word[q], i)] = word[p]]
  BY <1>1
<1>3. /\ control = "program" /\ control' = control /\ ~Collecting /\ ~Collecting'
      /\ UNCHANGED <<valid, heap, words, name, word, rsp, defined, frames, value, scan, request>>
  BY DEF Store, Collecting, program, collector
<1> DEFINE s == word[q]
           e == Element(s, i)
<1>4. s \in Starts
  BY <1>1, <1>3, QuietState DEF Leads
<1>5. i \in 1..ArraySize(mem[s])-1 /\ e \in Address
  BY <1>3, <1>4, ElementLeads
<1>6. word[p] \in Int /\ Leads(word[p], Starts)
  BY <1>3, QuietState
<1>7. /\ heap \in Heaps /\ words[heap] \in Nat /\ words[heap] <= HEAP_SIZE
      /\ Tiles(Starts, mem, heap, words[heap])
  BY <1>3, QuietState
<1>8. e \notin Starts
  BY <1>4, <1>5, <1>7, Inner
<1>9. mem \in [Address -> Int] /\ mem' = [mem EXCEPT ![e] = word[p]]
  BY <1>2 DEF IInv, TypeOK
<1> HIDE DEF s, e
<1>10. \A t \in Starts : t \in Address /\ mem'[t] = mem[t]
  <2> SUFFICES ASSUME NEW t \in Starts PROVE t \in Address /\ mem'[t] = mem[t]
    OBVIOUS
  <2>1. t \in Address
    BY <1>7, AddressBounds DEF Starts
  <2> QED
    BY <1>8, <1>9, <2>1
<1>11. Starts' = Starts /\ Usable' = Usable
  BY <1>3 DEF Starts, Usable, allocptr
<1>12. Tiles(Starts', mem', heap', words'[heap'])
  BY <1>3, <1>7, <1>10, <1>11, TilesSame
<1>13. ASSUME NEW t \in Starts, NEW j \in 1..ArraySize(mem[t])-1
       PROVE  Leads(mem'[Element(t, j)], Starts)
  <2>1. Element(t, j) \in Address
    BY <1>7, Inner, AddressBounds
  <2>2. mem'[Element(t, j)] \in {word[p], mem[Element(t, j)]}
    BY <1>9, <2>1
  <2> QED
    BY <1>3, <1>6, <2>2, QuietState
<1>14. \A t \in Starts' : \A j \in 1..ArraySize(mem'[t])-1 : Leads(mem'[Element(t, j)], Starts')
  BY <1>10, <1>11, <1>13
<1>15. \A r \in defined' : Leads(Root(r)', Starts')
  BY <1>3, <1>11, QuietState DEF Root
<1>16. request' = <<>>
  BY <1>3 DEF IInv, Frame
<1>17. Quiet'
  BY <1>12, <1>14, <1>15, <1>16 DEF Quiet
<1>18. TypeOK'
  BY <1>3, <1>5, <1>6, <1>9 DEF IInv, TypeOK
<1>19. Frame'
  BY <1>3, <1>11 DEF IInv, Frame, Running
<1> QED
  BY <1>3, <1>17, <1>18, <1>19 DEF IInv

LEMMA StackStepIInv == IInv /\ (Enter \/ Return) => IInv'
<1> SUFFICES ASSUME IInv, Enter \/ Return PROVE IInv'
  OBVIOUS
<1>1. /\ control = "program" /\ control' = control /\ ~Collecting /\ ~Collecting'
      /\ UNCHANGED <<mem, valid, heap, words, name, word, frames, value, scan, request>>
      /\ defined' \subseteq defined
  BY DEF Enter, Return, Collecting, memory, collector
<1>2. rsp \in Len(Saved)+1..StackWords
  BY DEF IInv, TypeOK
<1>3. rsp' \in Len(Saved)+1..StackWords
  <2>1. CASE Enter
    BY <1>2, <2>1, Constants DEF Enter
  <2>2. CASE Return
    BY <1>2, <2>2, Constants DEF Return
  <2> QED
    BY <2>1, <2>2
<1>4. defined' \subseteq Usable'
  <2>1. CASE Enter
    <3>1. rsp..StackWords-1 \subseteq rsp'..StackWords-1
      BY <1>2, <2>1, Constants DEF Enter
    <3> QED
      BY <1>1, <3>1 DEF Usable, IInv, Frame
  <2>2. CASE Return
    <3>1. \A p \in rsp..StackWords-1 : p = rsp \/ p \in rsp'..StackWords-1
      BY <1>2, <2>2, Constants DEF Return
    <3>2. rsp \notin defined'
      BY <2>2 DEF Return
    <3> QED
      BY <1>1, <3>1, <3>2 DEF Usable, IInv, Frame
  <2> QED
    BY <2>1, <2>2
<1>5. TypeOK'
  BY <1>1, <1>3 DEF IInv, TypeOK
<1>6. Frame'
  BY <1>1, <1>4 DEF IInv, Frame, Running
<1>7. Starts' = Starts
  BY <1>1 DEF Starts, allocptr
<1>8. \A p \in defined' : Leads(Root(p)', Starts')
  BY <1>1, <1>7, QuietState DEF Root
<1>9. Quiet'
  BY <1>1, <1>7, <1>8, QuietState DEF Quiet, IInv, Frame
<1> QED
  BY <1>1, <1>5, <1>6, <1>9 DEF IInv

-----------------------------------------------------------------------------
(***************************************************************************)
(* allocate without a collection                                           *)
(***************************************************************************)
\* The callee-saved registers and the words of the stack that are in use have
\* distinct words of memory while the runtime runs, all of which gc looks at.
LEMMA AtBounds ==
  ASSUME rsp \in Len(Saved)+1..StackWords, NEW p \in Usable \ Scratch
  PROVE  /\ At(p) \in StackTop..StackWords-1 /\ At(p) \in Places
         /\ p \in Range(Saved) => /\ At(p) \in StackTop..rsp-1
                                  /\ Saved[At(p) - StackTop + 1] = p
         /\ p \notin Range(Saved) => /\ At(p) = p /\ p \notin StackTop..rsp-1
<1>1. CASE p \in Range(Saved)
  <2> DEFINE i == Slot(p)
  <2>1. i \in DOMAIN Saved /\ Saved[i] = p
    BY <1>1, Constants DEF Slot
  <2>2. At(p) = SavedAt(i)
    BY <1>1 DEF At
  <2> HIDE DEF i
  <2>3. At(p) = rsp - Len(Saved) + i - 1 /\ i \in 1..Len(Saved)
    BY <2>1, <2>2, Constants DEF SavedAt
  <2>4. At(p) \in StackTop..rsp-1 /\ At(p) - StackTop + 1 = i /\ At(p) \in 1..StackWords
    BY <2>3, Constants DEF StackTop
  <2>5. At(p) \in StackTop..StackWords-1
    BY <2>4, Constants DEF StackTop
  <2> QED
    BY <1>1, <2>1, <2>4, <2>5 DEF Places
<1>2. CASE p \notin Range(Saved)
  <2>1. At(p) = p /\ p \in rsp..StackWords-1
    BY <1>2 DEF At, Usable
  <2>2. p \in StackTop..StackWords-1 /\ p \notin StackTop..rsp-1 /\ p \in 1..StackWords
    BY <2>1, Constants DEF StackTop
  <2> QED
    BY <1>2, <2>1, <2>2 DEF Places
<1> QED
  BY <1>1, <1>2

LEMMA AtSame ==
  ASSUME rsp' = rsp, NEW p
  PROVE  At(p)' = At(p)
BY DEF At, SavedAt

LEMMA RootAt ==
  ASSUME IInv, control # "program", NEW p \in defined
  PROVE  /\ At(p) \in StackTop..StackWords-1 /\ At(p) \in Places
         /\ Root(p) = word[At(p)]
<1>1. rsp \in Len(Saved)+1..StackWords /\ p \in Usable \ Scratch
  BY DEF IInv, TypeOK, Frame
<1>2. Root(p) = word[At(p)]
  BY DEF Root, At, Slot
<1> QED
  BY <1>1, <1>2, AtBounds

LEMMA AllocateIInv == IInv /\ Allocate => IInv'
<1> SUFFICES ASSUME IInv, Allocate PROVE IInv'
  OBVIOUS
<1>1. /\ control = "program" /\ control' = "allocate" /\ ~Collecting /\ ~Collecting'
      /\ UNCHANGED <<mem, valid, heap, words, name, rsp, frames, value, scan>>
      /\ defined' = defined \ Scratch
      /\ word' = [p \in Places |-> IF p \in StackTop..rsp-1 THEN word[Saved[p - StackTop + 1]]
                                                            ELSE word[p]]
  BY DEF Allocate, Collecting, memory, collector
<1>2. PICK fw_size \in Requests, fw_fill \in Numbers \union {word[p] : p \in defined} :
         request' = <<fw_size, fw_fill>>
  BY DEF Allocate
<1>3. Starts' = Starts /\ Usable' = Usable
  BY <1>1 DEF Starts, Usable, allocptr
<1>4. fw_fill \in Int /\ Leads(fw_fill, Starts)
  <2>1. CASE fw_fill \in Numbers
    <3>1. fw_fill \in Int /\ fw_fill % 2 = 1
      BY <2>1, ConstantsFit
    <3>2. fw_fill % 8 # 0
      BY <3>1
    <3> QED
      BY <3>1, <3>2 DEF Leads, IsPointer
  <2>2. CASE fw_fill \in {word[p] : p \in defined}
    BY <1>1, <2>2, QuietState
  <2> QED
    BY <2>1, <2>2
<1>5. rsp \in Len(Saved)+1..StackWords /\ word \in [Places -> Int]
  BY DEF IInv, TypeOK
<1>6. word' \in [Places -> Int]
  <2> SUFFICES ASSUME NEW p \in Places, p \in StackTop..rsp-1
               PROVE  word[Saved[p - StackTop + 1]] \in Int
    BY <1>1, <1>5
  <2>1. p - StackTop + 1 \in DOMAIN Saved
    BY <1>5, Constants DEF StackTop
  <2>2. Saved[p - StackTop + 1] \in Range(Saved)
    BY <2>1 DEF Range
  <2> QED
    BY <1>5, <2>2 DEF Places
<1>7. request' # <<>> /\ request' \in {<<>>} \union (Requests \X Int) /\ FwFill' = fw_fill
  BY <1>2, <1>4 DEF FwFill
<1>8. TypeOK'
  BY <1>1, <1>6, <1>7 DEF IInv, TypeOK
<1>9. Frame'
  BY <1>1, <1>3, <1>7 DEF IInv, Frame, Running, Collecting
<1>10. \A p \in defined' : Leads(Root(p)', Starts')
  <2> SUFFICES ASSUME NEW p \in defined' PROVE Leads(Root(p)', Starts)
    BY <1>3
  <2>1. p \in defined /\ p \in Usable \ Scratch
    BY <1>1 DEF IInv, Frame
  <2>2. Root(p)' = word'[At(p)]
    BY <1>1 DEF Root, At, Slot, SavedAt
  <2>3. At(p) \in Places
    BY <1>5, <2>1, AtBounds
  <2>4. word'[At(p)] = word[p]
    BY <1>1, <1>5, <2>1, <2>3, AtBounds
  <2> QED
    BY <1>1, <2>1, <2>2, <2>4, QuietState
<1>11. Quiet'
  BY <1>1, <1>3, <1>4, <1>7, <1>10, QuietState DEF Quiet
<1> QED
  BY <1>1, <1>8, <1>9, <1>11 DEF IInv

LEMMA ExitIInv == IInv /\ (BadSize \/ OutOfMemory) => IInv'
<1> SUFFICES ASSUME IInv, BadSize \/ OutOfMemory PROVE IInv'
  OBVIOUS
<1>1. /\ control \in {"allocate", "retry"} /\ control' \in {"bad size", "out of memory"}
      /\ UNCHANGED <<mem, valid, heap, words, name, word, rsp, defined, frames, value, scan, request>>
  BY DEF BadSize, OutOfMemory, Exit, memory, program, collector
<1>2. ~Collecting /\ ~Collecting' /\ control # "program" /\ control' # "program" /\ ~Running'
  BY <1>1 DEF Collecting, Running
<1>3. Starts' = Starts /\ Usable' = Usable /\ FwFill' = FwFill
  BY <1>1 DEF Starts, Usable, allocptr, FwFill
<1>4. \A p \in defined' : Root(p)' = Root(p)
  <2> SUFFICES ASSUME NEW p \in defined' PROVE Root(p)' = Root(p)
    OBVIOUS
  <2>1. Root(p) = word[At(p)]
    BY <1>2 DEF Root, At, Slot
  <2>2. Root(p)' = word'[At(p)']
    BY <1>2 DEF Root, At, Slot
  <2>3. At(p)' = At(p)
    BY <1>1, AtSame
  <2> QED
    BY <1>1, <2>1, <2>2, <2>3
<1>5. TypeOK'
  BY <1>1 DEF IInv, TypeOK
<1>6. Frame'
  BY <1>1, <1>2, <1>3 DEF IInv, Frame, Running
<1>7. Quiet'
  BY <1>1, <1>2, <1>3, <1>4 DEF Quiet, IInv
<1> QED
  BY <1>2, <1>5, <1>6, <1>7 DEF IInv

LEMMA DataSizeInt ==
  ASSUME IInv, Running
  PROVE  DataSize \in Int /\ FwSize \in Requests /\ FwFill \in Int
<1>1. request \in Requests \X Int
  BY DEF IInv, TypeOK, Frame
<1>2. FwSize \in Requests /\ FwSize \in Int /\ FwFill \in Int
  BY <1>1, ConstantsFit DEF FwSize, FwFill
<1>3. \A n \in Int : Int32(n) \in Int
  BY Constants DEF Int32
<1> QED
  BY <1>2, <1>3 DEF DataSize

\* There is always a name that no array has.
LEMMA FreshName ==
  ASSUME heap \in Heaps
  PROVE  Ids \ {name[a] : a \in Starts} # {}
<1> DEFINE I == 0..HEAP_SIZE-1
           T == {name[a] : a \in AddressesOf(heap)}
           f == [k \in I |-> name[Base(heap) + 8 * k]]
<1>1. IsFiniteSet(I) /\ Cardinality(I) = HEAP_SIZE
  <2>1. 0 \in Int /\ HEAP_SIZE - 1 \in Int /\ HEAP_SIZE - 1 - 0 + 1 = HEAP_SIZE /\ ~(0 > HEAP_SIZE - 1)
    BY Constants
  <2> QED
    BY <2>1, FS_Interval
<1>2. f \in Surjection(I, T)
  <2>1. f \in [I -> T]
    BY DEF AddressesOf
  <2>2. \A t \in T : \E k \in I : f[k] = t
    BY DEF AddressesOf
  <2> QED
    BY <2>1, <2>2 DEF Surjection
<1> HIDE DEF f
<1>3. IsFiniteSet(T) /\ Cardinality(T) <= HEAP_SIZE
  BY <1>1, <1>2, FS_Surjection
<1>4. {name[a] : a \in Starts} \subseteq T
  BY DEF Starts
<1> HIDE DEF T
<1> SUFFICES ASSUME Ids \ {name[a] : a \in Starts} = {} PROVE FALSE
  OBVIOUS
<1>5. Ids \in SUBSET T
  BY <1>4
<1>6. Cardinality(Ids) <= Cardinality(T)
  BY <1>3, <1>5, FS_Subset
<1>7. Cardinality(Ids) \in Nat /\ Cardinality(T) \in Nat
  BY <1>3, ConstantsFit, FS_CardinalityType
<1> QED
  BY <1>3, <1>6, <1>7, ConstantsFit, Constants

\* The heap with one more array
LEMMA GrantHeap ==
  ASSUME IInv, Grant
  PROVE  /\ DataSize \in Nat /\ FwFill \in Int
         /\ allocptr \in Address /\ allocptr \notin Starts
         /\ Starts' = Starts \union {allocptr}
         /\ Tiles(Starts', mem', heap, words'[heap])
         /\ words' \in [Heaps -> 0..HEAP_SIZE]
         /\ mem'[allocptr] = DataSize
         /\ \A j \in 1..ArraySize(DataSize)-1 :
               mem'[Element(allocptr, j)] = IF DataSize = 0 THEN 1 ELSE FwFill
         /\ \A s \in Starts :
               /\ s \in Address /\ mem'[s] = mem[s]
               /\ \A j \in 1..ArraySize(mem[s])-1 : mem'[Element(s, j)] = mem[Element(s, j)]
<1>1. PICK p \in Scratch : Allocated(p)
  BY DEF Grant
<1>2. /\ control \in {"allocate", "retry"} /\ control' = "program" /\ HasSpace
      /\ ~Collecting /\ ~Collecting' /\ Running /\ control # "program"
      /\ control = "allocate" => DataSize >= 0
  BY <1>1 DEF Grant, Allocated, Collecting, Running
<1> DEFINE n == DataSize
           k == allocptr
<1>3. n \in Nat /\ FwFill \in Int
  BY <1>2, DataSizeInt DEF IInv, Frame
<1>4. /\ heap \in Heaps /\ words[heap] \in Nat /\ words[heap] <= HEAP_SIZE
      /\ Tiles(Starts, mem, heap, words[heap])
      /\ words \in [Heaps -> 0..HEAP_SIZE] /\ mem \in [Address -> Int]
      /\ valid \in [Address -> BOOLEAN] /\ word \in [Places -> Int]
  BY <1>2, QuietState DEF IInv, TypeOK
<1>5. ArraySize(n) \in Nat /\ ArraySize(n) >= 2
  BY <1>3, SizeOfArray
<1>6. words[heap] + ArraySize(n) < HEAP_SIZE
  BY <1>2 DEF HasSpace
<1>7. k = Base(heap) + 8 * words[heap] /\ k \in Int
  BY <1>4, BaseInt DEF allocptr
<1>8. k \in AddressesOf(heap) /\ k \in Address
  <2>1. words[heap] \in 0..HEAP_SIZE-1
    BY <1>4, <1>5, <1>6, Constants
  <2> QED
    BY <1>4, <1>7, <2>1 DEF AddressesOf, Address, Heaps
<1>9. /\ mem' = [a \in Address |->
                   IF a = k THEN n
                   ELSE IF a \notin Elements(k, n) THEN mem[a]
                   ELSE IF n = 0 THEN 1 ELSE FwFill]
      /\ valid' = [a \in Address |-> a = k \/ (a \notin Elements(k, n) /\ valid[a])]
      /\ words' = [words EXCEPT ![heap] = @ + ArraySize(n)]
      /\ name' = [name EXCEPT ![k] = CHOOSE id \in Ids \ {name[a] : a \in Starts} : TRUE]
      /\ word' = [q \in Places |-> IF q = p THEN k
                                   ELSE IF \E i \in DOMAIN Saved : Saved[i] = q
                                   THEN word[SavedAt(CHOOSE i \in DOMAIN Saved : Saved[i] = q)]
                                   ELSE word[q]]
      /\ defined' = defined \union {p} /\ request' = <<>>
      /\ heap' = heap /\ rsp' = rsp /\ value' = value /\ frames' = frames /\ scan' = scan
  BY <1>1 DEF Allocated, collector
<1>10. \A e \in Elements(k, n) : e \in Int /\ k < e
  BY <1>5, <1>7 DEF Elements, Element
<1> HIDE DEF n, k
<1>11. words'[heap] = words[heap] + ArraySize(n) /\ words' \in [Heaps -> 0..HEAP_SIZE]
  BY <1>4, <1>5, <1>6, <1>9, Constants
<1>12. /\ mem'[k] = n
       /\ \A a \in Address : a \in Elements(k, n) => mem'[a] = IF n = 0 THEN 1 ELSE FwFill
       /\ \A a \in Address : a # k /\ a \notin Elements(k, n) => mem'[a] = mem[a]
  BY <1>7, <1>8, <1>9, <1>10
<1>13. \A s \in Starts : s \in Address /\ s \in Int /\ s < k
  BY <1>4, <1>7, AddressBounds DEF Starts, allocptr
<1>14. \A s \in Starts : s # k /\ s \notin Elements(k, n) /\ mem'[s] = mem[s]
  BY <1>7, <1>10, <1>12, <1>13
<1> DEFINE S == Starts \union {k}
<1>15. Tiles(S, mem', heap, words'[heap])
  <2>1. mem'[k] \in Nat /\ words'[heap] = words[heap] + ArraySize(mem'[k])
    BY <1>3, <1>11, <1>12
  <2>2. words'[heap] <= HEAP_SIZE
    BY <1>4, <1>5, <1>6, <1>11, Constants
  <2> QED
    BY <1>4, <1>7, <1>14, <2>1, <2>2, TilesAdd
\* The elements of the arrays that were there before
<1>16. ASSUME NEW s \in Starts, NEW j \in 1..ArraySize(mem[s])-1
       PROVE  /\ Element(s, j) \in Address /\ Element(s, j) # k
              /\ Element(s, j) \notin Elements(k, n) /\ ~valid[Element(s, j)]
  <2>1. Element(s, j) \in AddressesOf(heap) /\ Element(s, j) \notin Starts
        /\ Element(s, j) < k
    BY <1>4, <1>7, Inner
  <2>2. Element(s, j) \in Int /\ Element(s, j) \in Address
    BY <1>4, <2>1, AddressBounds
  <2>3. ~valid[Element(s, j)]
    BY <2>1, <1>7 DEF Starts, allocptr
  <2> QED
    BY <1>7, <1>10, <2>1, <2>2, <2>3
<1>17. \A j \in 1..ArraySize(n)-1 : Element(k, j) \in Elements(k, n)
  BY DEF Elements
<1>18. \A j \in 1..ArraySize(n)-1 : Element(k, j) \in Address
  <2>1. k \in S
    OBVIOUS
  <2>2. words'[heap] \in Nat /\ words'[heap] <= HEAP_SIZE
    BY <1>4, <1>5, <1>6, <1>11, Constants
  <2> QED
    BY <1>4, <1>12, <1>15, <2>1, <2>2, Inner, AddressBounds
<1>19. Starts' = S
  <2>1. \A s \in S : /\ valid'[s]
                     /\ \A j \in 1..ArraySize(mem'[s])-1 : ~valid'[Element(s, j)]
    <3> SUFFICES ASSUME NEW s \in S
                 PROVE  /\ valid'[s]
                        /\ \A j \in 1..ArraySize(mem'[s])-1 : ~valid'[Element(s, j)]
      OBVIOUS
    <3>1. CASE s \in Starts
      <4>1. valid'[s]
        BY <1>9, <1>13, <1>14, <3>1 DEF Starts
      <4>2. \A j \in 1..ArraySize(mem'[s])-1 : ~valid'[Element(s, j)]
        BY <1>9, <1>14, <1>16, <3>1
      <4> QED
        BY <4>1, <4>2
    <3>2. CASE s = k
      <4>1. valid'[s]
        BY <1>8, <1>9, <3>2
      <4>2. \A j \in 1..ArraySize(mem'[s])-1 : ~valid'[Element(s, j)]
        <5> SUFFICES ASSUME NEW j \in 1..ArraySize(mem'[s])-1 PROVE ~valid'[Element(s, j)]
          OBVIOUS
        <5>1. j \in 1..ArraySize(n)-1
          BY <1>12, <3>2
        <5>2. Element(k, j) \in Elements(k, n) /\ Element(k, j) \in Address /\ Element(k, j) # k
          BY <1>7, <1>10, <1>17, <1>18, <5>1
        <5> QED
          BY <1>9, <3>2, <5>2
      <4> QED
        BY <4>1, <4>2
    <3> QED
      BY <3>1, <3>2
  <2>2. words'[heap] \in Nat /\ words'[heap] <= HEAP_SIZE
    BY <1>4, <1>5, <1>6, <1>11, Constants
  <2>3. S = {a \in AddressesOf(heap) : a < Base(heap) + 8 * words'[heap] /\ valid'[a]}
    BY <1>4, <1>15, <2>1, <2>2, FlagsTell
  <2> HIDE DEF S
  <2> QED
    BY <1>9, <2>3 DEF Starts, allocptr
<1>20. \A s \in Starts : \A j \in 1..ArraySize(mem[s])-1 :
          mem'[Element(s, j)] = mem[Element(s, j)]
  BY <1>12, <1>16
<1>21. \A j \in 1..ArraySize(n)-1 : mem'[Element(k, j)] = IF n = 0 THEN 1 ELSE FwFill
  BY <1>12, <1>17, <1>18
<1> QED
  BY <1>3, <1>8, <1>11, <1>12, <1>13, <1>14, <1>15, <1>19, <1>20, <1>21, <1>9 DEF n, k

LEMMA GrantIInv == IInv /\ Grant => IInv'
<1> SUFFICES ASSUME IInv, Grant PROVE IInv'
  OBVIOUS
<1>1. PICK p \in Scratch : Allocated(p)
  BY DEF Grant
<1>2. /\ control \in {"allocate", "retry"} /\ control' = "program" /\ HasSpace
      /\ ~Collecting /\ ~Collecting' /\ Running /\ control # "program"
      /\ control = "allocate" => DataSize >= 0
  BY <1>1 DEF Grant, Allocated, Collecting, Running
<1> DEFINE n == DataSize
           k == allocptr
<1>3. n \in Nat /\ FwFill \in Int
  BY <1>2, DataSizeInt DEF IInv, Frame
<1>4. /\ heap \in Heaps /\ words[heap] \in Nat /\ words[heap] <= HEAP_SIZE
      /\ Tiles(Starts, mem, heap, words[heap])
      /\ words \in [Heaps -> 0..HEAP_SIZE] /\ mem \in [Address -> Int]
      /\ valid \in [Address -> BOOLEAN] /\ word \in [Places -> Int]
  BY <1>2, QuietState DEF IInv, TypeOK
<1>5. ArraySize(n) \in Nat /\ ArraySize(n) >= 2
  BY <1>3, SizeOfArray
<1>6. words[heap] + ArraySize(n) < HEAP_SIZE
  BY <1>2 DEF HasSpace
<1>7. k = Base(heap) + 8 * words[heap] /\ k \in Int
  BY <1>4, BaseInt DEF allocptr
<1>8. k \in AddressesOf(heap) /\ k \in Address
  <2>1. words[heap] \in 0..HEAP_SIZE-1
    BY <1>4, <1>5, <1>6, Constants
  <2> QED
    BY <1>4, <1>7, <2>1 DEF AddressesOf, Address, Heaps
<1>9. /\ mem' = [a \in Address |->
                   IF a = k THEN n
                   ELSE IF a \notin Elements(k, n) THEN mem[a]
                   ELSE IF n = 0 THEN 1 ELSE FwFill]
      /\ valid' = [a \in Address |-> a = k \/ (a \notin Elements(k, n) /\ valid[a])]
      /\ words' = [words EXCEPT ![heap] = @ + ArraySize(n)]
      /\ name' = [name EXCEPT ![k] = CHOOSE id \in Ids \ {name[a] : a \in Starts} : TRUE]
      /\ word' = [q \in Places |-> IF q = p THEN k
                                   ELSE IF \E i \in DOMAIN Saved : Saved[i] = q
                                   THEN word[SavedAt(CHOOSE i \in DOMAIN Saved : Saved[i] = q)]
                                   ELSE word[q]]
      /\ defined' = defined \union {p} /\ request' = <<>>
      /\ heap' = heap /\ rsp' = rsp /\ value' = value /\ frames' = frames /\ scan' = scan
  BY <1>1 DEF Allocated, collector
<1>10. /\ n \in Nat /\ FwFill \in Int /\ k \in Address /\ k \notin Starts
       /\ Starts' = Starts \union {k} /\ Tiles(Starts', mem', heap, words'[heap])
       /\ words' \in [Heaps -> 0..HEAP_SIZE] /\ mem'[k] = n
       /\ \A j \in 1..ArraySize(n)-1 : mem'[Element(k, j)] = IF n = 0 THEN 1 ELSE FwFill
       /\ \A s \in Starts :
             /\ s \in Address /\ mem'[s] = mem[s]
             /\ \A j \in 1..ArraySize(mem[s])-1 : mem'[Element(s, j)] = mem[Element(s, j)]
  BY GrantHeap
<1> HIDE DEF n, k
<1> DEFINE S == Starts \union {k}
<1>11. Leads(FwFill, Starts) /\ Leads(1, Starts)
  BY <1>2 DEF IInv, Quiet, Frame, Leads, IsPointer
<1>12. ASSUME NEW s \in S, NEW j \in 1..ArraySize(mem'[s])-1
       PROVE  Leads(mem'[Element(s, j)], S)
  <2>1. CASE s \in Starts
    <3>1. mem'[Element(s, j)] = mem[Element(s, j)]
      BY <1>10, <2>1
    <3>2. Leads(mem[Element(s, j)], Starts)
      BY <1>2, <1>10, <2>1, QuietState
    <3> QED
      BY <3>1, <3>2 DEF Leads
  <2>2. CASE s = k
    <3>1. mem'[Element(s, j)] \in {1, FwFill}
      BY <1>10, <2>2
    <3> QED
      BY <1>11, <3>1 DEF Leads
  <2> QED
    BY <2>1, <2>2
<1>13. ASSUME NEW q \in defined' PROVE Leads(Root(q)', S)
  <2>1. Root(q)' = word'[q]
    BY <1>2 DEF Root
  <2>2. q \in Places
    BY <1>2, <1>9, QuietState DEF Places
  <2>3. CASE q = p
    BY <1>9, <2>1, <2>2, <2>3 DEF Leads
  <2>4. CASE q # p
    <3>1. q \in defined /\ Leads(Root(q), Starts)
      BY <1>2, <1>9, <2>4, QuietState
    <3>2. (\E i \in DOMAIN Saved : Saved[i] = q) <=> q \in Range(Saved)
      BY DEF Range
    <3>3. word'[q] = Root(q)
      BY <1>2, <1>9, <2>2, <2>4, <3>2 DEF Root
    <3> QED
      BY <2>1, <3>1, <3>3 DEF Leads
  <2> QED
    BY <2>3, <2>4
<1>14. Quiet'
  <2>1. Tiles(Starts', mem', heap', words'[heap'])
    BY <1>9, <1>10
  <2>2. \A s \in Starts' : \A j \in 1..ArraySize(mem'[s])-1 : Leads(mem'[Element(s, j)], Starts')
    BY <1>10, <1>12
  <2>3. \A q \in defined' : Leads(Root(q)', Starts')
    BY <1>10, <1>13
  <2> QED
    BY <1>9, <2>1, <2>2, <2>3 DEF Quiet
<1>15. TypeOK'
  <2>1. mem' \in [Address -> Int]
    <3>1. \A a \in Address : mem'[a] \in Int
      BY <1>3, <1>4, <1>9
    <3> QED
      BY <1>9, <3>1
  <2>2. valid' \in [Address -> BOOLEAN]
    BY <1>9
  <2>3. word' \in [Places -> Int]
    <3>1. ASSUME NEW q \in Range(Saved)
          PROVE  word[SavedAt(CHOOSE i \in DOMAIN Saved : Saved[i] = q)] \in Int
      <4> DEFINE i == CHOOSE i \in DOMAIN Saved : Saved[i] = q
      <4>1. i \in 1..Len(Saved)
        BY Constants
      <4> HIDE DEF i
      <4>2. rsp \in Len(Saved)+1..StackWords
        BY DEF IInv, TypeOK
      <4>3. SavedAt(i) \in 1..StackWords
        BY <4>1, <4>2, Constants DEF SavedAt
      <4>4. word[SavedAt(i)] \in Int
        BY <1>4, <4>3 DEF Places
      <4> QED
        BY <4>4 DEF i
    <3>2. ASSUME NEW q \in Places PROVE word'[q] \in Int
      <4>1. CASE q \in Range(Saved)
        BY <1>7, <1>9, <3>1, <3>2, <4>1, Constants
      <4>2. CASE q \notin Range(Saved)
        <5>1. ~\E i \in DOMAIN Saved : Saved[i] = q
          BY <4>2 DEF Range
        <5> QED
          BY <1>4, <1>7, <1>9, <3>2, <5>1
      <4> QED
        BY <4>1, <4>2
    <3> QED
      BY <1>9, <3>2
  <2>4. name' \in [Address -> Ids \union {0}]
    <3>1. (CHOOSE id \in Ids \ {name[a] : a \in Starts} : TRUE) \in Ids
      BY <1>4, FreshName
    <3> QED
      BY <1>9, <3>1 DEF IInv, TypeOK
  <2>5. defined' \subseteq Places
    BY <1>9 DEF IInv, TypeOK, Places
  <2> QED
    BY <1>2, <1>9, <1>10, <2>1, <2>2, <2>3, <2>4, <2>5 DEF IInv, TypeOK
<1>16. Frame'
  BY <1>2, <1>9 DEF IInv, Frame, Running, Usable
<1> QED
  BY <1>2, <1>14, <1>15, <1>16 DEF IInv

-----------------------------------------------------------------------------
(***************************************************************************)
(* The collection                                                          *)
(***************************************************************************)
LEMMA StartGCIInv == IInv /\ StartGC => IInv'
<1> SUFFICES ASSUME IInv, StartGC PROVE IInv'
  OBVIOUS
<1>1. /\ control = "allocate" /\ control' = "copy" /\ Running /\ control # "program"
      /\ ~Collecting /\ Collecting' /\ DataSize >= 0
      /\ heap' = heap2 /\ words' = [words EXCEPT ![heap2] = 0]
      /\ scan' = StackTop /\ value' = word[StackTop]
      /\ UNCHANGED <<mem, valid, name, word, rsp, defined, frames, request>>
  BY DEF StartGC, Running, Collecting, program
<1>2. /\ heap \in Heaps /\ words[heap] \in Nat /\ words[heap] <= HEAP_SIZE
      /\ Tiles(Starts, mem, heap, words[heap]) /\ frames = <<>>
      /\ words \in [Heaps -> 0..HEAP_SIZE] /\ word \in [Places -> Int]
      /\ rsp \in Len(Saved)+1..StackWords
  BY <1>1, QuietState DEF IInv, TypeOK
<1>3. heap2 \in Heaps /\ heap2 # heap /\ heap2' = heap
  BY <1>1, <1>2 DEF heap2, Heaps
<1>4. words' \in [Heaps -> 0..HEAP_SIZE] /\ words'[heap'] = 0 /\ words'[heap2'] = words[heap]
  BY <1>1, <1>2, <1>3, Constants
<1>5. StackTop \in 1..StackWords /\ StackTop \in Places
  BY <1>2, Constants DEF StackTop, Places
<1>6. TypeOK'
  <2>1. StackTop \in 0..StackWords+1
    BY <1>5, Constants
  <2> QED
    BY <1>1, <1>2, <1>3, <1>4, <1>5, <2>1 DEF IInv, TypeOK
<1>7. Frame'
  <2>1. DataSize' = DataSize /\ Usable' = Usable /\ StackTop' = StackTop
    BY <1>1 DEF DataSize, FwSize, Usable, StackTop
  <2>2. DataSize \in Nat
    BY <1>1, DataSizeInt
  <2>3. StackTop \in StackTop..StackWords+1
    BY <1>5, Constants
  <2> QED
    BY <1>1, <2>1, <2>2, <2>3 DEF IInv, Frame, Running
<1>8. PICK From, size, To : From = Starts /\ size = mem /\ To = {}
  OBVIOUS
<1>9. OldHeap(From, size)'
  <2>1. From = {a \in AddressesOf(heap) : a < Base(heap) + 8 * words[heap] /\ valid[a]}
    BY <1>8 DEF Starts, allocptr
  <2>2. Tiles(From, size, heap, words[heap])
    BY <1>2, <1>8
  <2> QED
    BY <1>1, <1>3, <1>4, <2>1, <2>2 DEF OldHeap
<1>10. \A o \in From : /\ mem'[o] = size[o] /\ mem'[o] # -1
                       /\ \A j \in 1..ArraySize(size[o])-1 : Leads(mem'[Element(o, j)], From)
  BY <1>1, <1>2, <1>8, QuietState, TileBounds
<1>11. Gone(From, size)' = {}
  BY <1>10 DEF Gone
<1>12. NewHeap(From, size, To)'
  <2>1. \A a \in AddressesOf(heap2) : ~(a < Base(heap2) + 8 * 0)
    BY <1>3, AddressBounds, BaseInt
  <2>2. Tiles(To, mem', heap', words'[heap'])
    BY <1>1, <1>4, <1>8, <2>1 DEF Tiles
  <2> QED
    BY <1>4, <1>11, <2>2, FS_EmptySet DEF NewHeap
<1>13. Arrays(From, size, To)'
  BY <1>10 DEF Arrays
<1>14. Calls(From, size, To)'
  BY <1>1, <1>2, <1>8 DEF Calls
<1>15. StackScanned(From, To)'
  <2>1. FwFill' = FwFill /\ Leads(FwFill, From)
    BY <1>1, <1>8 DEF FwFill, IInv, Quiet, Frame
  <2>2. ASSUME NEW p \in defined
        PROVE  Leads(word'[At(p)'], IF At(p)' < scan' THEN To ELSE From)
    <3>1. At(p)' = At(p)
      BY <1>1, AtSame
    <3>2. At(p) \in StackTop..StackWords-1 /\ Root(p) = word[At(p)]
      BY <1>1, RootAt
    <3>3. ~(At(p) < scan')
      BY <1>1, <1>5, <3>2, Constants
    <3> QED
      BY <1>1, <1>8, <3>1, <3>2, <3>3, QuietState
  <2> QED
    BY <1>1, <2>1, <2>2 DEF StackScanned
<1>16. Value(From, To)'
  <2>1. scan' <= StackWords /\ value' = word'[scan']
    BY <1>1, <1>5, Constants
  <2> QED
    BY <1>1, <1>2, <2>1 DEF Value
<1> QED
  BY <1>1, <1>6, <1>7, <1>9, <1>12, <1>13, <1>14, <1>15, <1>16 DEF IInv, Collection

\* What the invariant says during a collection
LEMMA CollectionState ==
  ASSUME IInv, Collecting, NEW From, NEW size, NEW To, Collection(From, size, To)
  PROVE  /\ heap \in Heaps /\ heap2 \in Heaps /\ heap # heap2
         /\ words[heap] \in Nat /\ words[heap] <= HEAP_SIZE
         /\ words[heap2] \in Nat /\ words[heap2] <= HEAP_SIZE
         /\ words \in [Heaps -> 0..HEAP_SIZE]
         /\ mem \in [Address -> Int] /\ valid \in [Address -> BOOLEAN]
         /\ word \in [Places -> Int] /\ value \in Int
         /\ frames \in Seq(CallRecord)
         /\ Tiles(From, size, heap2, words[heap2]) /\ Tiles(To, mem, heap, words[heap])
         /\ rsp \in Len(Saved)+1..StackWords /\ scan \in StackTop..StackWords+1
         /\ scan \in Int /\ StackTop \in 1..StackWords
         /\ FwFill \in Int /\ request \in Requests \X Int
<1>1. heap2 \in Heaps /\ heap2 # heap
  BY TwoHeaps DEF IInv, TypeOK
<1>2. words \in [Heaps -> 0..HEAP_SIZE] /\ heap \in Heaps
  BY DEF IInv, TypeOK
<1>3. words[heap] \in Nat /\ words[heap] <= HEAP_SIZE
      /\ words[heap2] \in Nat /\ words[heap2] <= HEAP_SIZE
  BY <1>1, <1>2, Constants
<1>4. Running
  BY DEF Collecting, Running
<1>5. rsp \in Len(Saved)+1..StackWords /\ scan \in StackTop..StackWords+1
  BY DEF IInv, TypeOK, Frame
<1>6. scan \in Int /\ StackTop \in 1..StackWords
  BY <1>5, Constants DEF StackTop
<1>7. request \in Requests \X Int
  BY <1>4 DEF IInv, TypeOK, Frame
<1> QED
  BY <1>1, <1>2, <1>3, <1>4, <1>5, <1>6, <1>7, DataSizeInt
     DEF IInv, TypeOK, CallRecord, Collection, OldHeap, NewHeap

\* A set of numbers below n has at most n of them.
LEMMA NumbersBelow ==
  ASSUME NEW n \in Nat, NEW S \in SUBSET (0..n-1)
  PROVE  IsFiniteSet(S) /\ Cardinality(S) \in Nat /\ Cardinality(S) <= n
<1> DEFINE I == 0..n-1
<1>1. IsFiniteSet(I) /\ Cardinality(I) = IF 0 > n-1 THEN 0 ELSE n-1 - 0 + 1
  <2>1. 0 \in Int /\ n-1 \in Int
    OBVIOUS
  <2> QED
    BY <2>1, FS_Interval
<1>2. Cardinality(I) = n
  BY <1>1
<1> HIDE DEF I
<1>3. IsFiniteSet(S) /\ Cardinality(S) <= Cardinality(I)
  <2>1. S \in SUBSET I
    BY DEF I
  <2> QED
    BY <1>1, <2>1, FS_Subset
<1> QED
  BY <1>2, <1>3, FS_CardinalityType

\* The words of the arrays that have been moved are words of the old heap.
LEMMA GoneBound ==
  ASSUME IInv, Collecting, NEW From, NEW size
  PROVE  /\ IsFiniteSet(Gone(From, size)) /\ Cardinality(Gone(From, size)) \in Nat
         /\ Cardinality(Gone(From, size)) <= words[heap2]
<1>1. words[heap2] \in Nat
  <2>1. heap2 \in Heaps /\ words \in [Heaps -> 0..HEAP_SIZE]
    BY TwoHeaps DEF IInv, TypeOK
  <2> QED
    BY <2>1, Constants
<1>2. Gone(From, size) \in SUBSET (0..words[heap2]-1)
  BY DEF Gone
<1> QED
  BY <1>1, <1>2, NumbersBelow

LEMMA IInvCopiesFit == IInv => CopiesFit
<1> SUFFICES ASSUME IInv, Collecting PROVE words[heap] <= words[heap2]
  BY DEF CopiesFit
<1>1. PICK From, size, To : Collection(From, size, To)
  BY DEF IInv
<1> QED
  BY <1>1, GoneBound DEF Collection, NewHeap

-----------------------------------------------------------------------------
(***************************************************************************)
(* What becomes of a result of gc_copy                                     *)
(***************************************************************************)
LEMMA UpdateRootIInv ==
  ASSUME IInv, Collecting, NEW From, NEW size, NEW To, Collection(From, size, To),
         NEW result \in Int, \A p \in defined : At(p) = scan => Leads(result, To),
         UpdateRoot(result)
  PROVE  IInv'
<1>1. /\ frames = <<>> /\ scan <= StackWords /\ control' = "copy" /\ Collecting'
      /\ word' = [word EXCEPT ![scan] = result] /\ scan' = scan + 1
      /\ value' = IF scan < StackWords THEN word[scan + 1] ELSE FwFill
      /\ UNCHANGED <<mem, valid, heap, words, name, rsp, defined, frames, request>>
  BY DEF UpdateRoot, Collecting, memory
<1>2. /\ word \in [Places -> Int] /\ scan \in Int /\ StackTop \in 1..StackWords
      /\ scan \in StackTop..StackWords+1 /\ FwFill \in Int
  BY CollectionState
<1>3. scan \in 1..StackWords /\ scan \in Places
  BY <1>1, <1>2, Constants DEF Places
<1>4. scan < StackWords => scan + 1 \in Places /\ scan + 1 # scan
  BY <1>3, Constants DEF Places
<1>5. word' \in [Places -> Int] /\ value' \in Int
  BY <1>1, <1>2, <1>3, <1>4
<1>6. StackTop' = StackTop /\ Usable' = Usable /\ DataSize' = DataSize /\ FwFill' = FwFill
      /\ heap2' = heap2
  BY <1>1 DEF StackTop, Usable, DataSize, FwSize, FwFill, heap2
<1>7. scan' \in StackTop..StackWords+1 /\ scan' \in 0..StackWords+1
  BY <1>1, <1>2, <1>3, Constants
<1>8. TypeOK'
  BY <1>1, <1>5, <1>7 DEF IInv, TypeOK
<1>9. control \in {"copy", "copied"}
  BY DEF Collecting
<1>10. Frame'
  BY <1>1, <1>6, <1>7, <1>9 DEF IInv, Frame, Running
<1>11. OldHeap(From, size)' /\ NewHeap(From, size, To)' /\ Arrays(From, size, To)'
  <2>1. OldHeap(From, size) /\ NewHeap(From, size, To) /\ Arrays(From, size, To)
    BY DEF Collection
  <2>2. Gone(From, size)' = Gone(From, size)
    BY <1>1, <1>6 DEF Gone
  <2> QED
    BY <1>1, <1>6, <2>1, <2>2 DEF OldHeap, NewHeap, Arrays
<1>12. Calls(From, size, To)'
  <2>1. Calls(From, size, To)
    BY DEF Collection
  <2> QED
    BY <1>1, <2>1 DEF Calls, Waits, Filled
<1>13. StackScanned(From, To)'
  <2>1. Leads(FwFill', From)
    BY <1>6 DEF Collection, StackScanned
  <2>2. ASSUME NEW p \in defined
        PROVE  Leads(word'[At(p)'], IF At(p)' < scan' THEN To ELSE From)
    <3>1. At(p)' = At(p)
      BY <1>1, AtSame
    <3>2. At(p) \in StackTop..StackWords-1 /\ At(p) \in Places
      BY <1>9, RootAt
    <3>3. At(p) \in Int
      BY <1>2, <3>2, Constants
    <3>4. Leads(word[At(p)], IF At(p) < scan THEN To ELSE From)
      BY DEF Collection, StackScanned
    <3>5. CASE At(p) = scan
      <4>1. word'[At(p)] = result /\ At(p) < scan'
        BY <1>1, <1>2, <3>2, <3>5
      <4> QED
        BY <3>1, <3>5, <4>1
    <3>6. CASE At(p) # scan
      <4>1. word'[At(p)] = word[At(p)] /\ (At(p) < scan' <=> At(p) < scan)
        BY <1>1, <1>2, <3>2, <3>3, <3>6
      <4> QED
        BY <3>1, <3>4, <4>1
    <3> QED
      BY <3>5, <3>6
  <2> QED
    BY <1>1, <2>1, <2>2 DEF StackScanned
<1>14. Value(From, To)'
  <2>1. value' = IF scan' <= StackWords THEN word'[scan'] ELSE FwFill'
    <3>1. CASE scan < StackWords
      BY <1>1, <1>2, <1>4, <3>1, Constants
    <3>2. CASE ~(scan < StackWords)
      BY <1>1, <1>3, <1>6, <3>2, Constants
    <3> QED
      BY <3>1, <3>2
  <2> QED
    BY <1>1, <2>1 DEF Value
<1> QED
  BY <1>1, <1>8, <1>10, <1>11, <1>12, <1>13, <1>14 DEF IInv, Collection

LEMMA UpdateFillIInv ==
  ASSUME IInv, Collecting, NEW From, NEW size, NEW To, Collection(From, size, To),
         NEW result \in Int, Leads(result, To), UpdateFill(result)
  PROVE  IInv'
<1>1. /\ frames = <<>> /\ scan > StackWords /\ control' = "retry"
      /\ ~Collecting' /\ control \in {"copy", "copied"}
      /\ request' = <<FwSize, result>>
      /\ mem' = [a \in Address |-> IF a \in AddressesOf(heap2) THEN 0 ELSE mem[a]]
      /\ name' = [a \in Address |-> IF a \in AddressesOf(heap2) THEN 0 ELSE name[a]]
      /\ value' = 0 /\ scan' = 0
      /\ UNCHANGED <<valid, heap, words, frames, word, rsp, defined>>
  BY DEF UpdateFill, Collecting, program
<1>2. /\ heap \in Heaps /\ heap2 \in Heaps /\ heap # heap2
      /\ words[heap] \in Nat /\ words[heap] <= HEAP_SIZE
      /\ mem \in [Address -> Int] /\ Tiles(To, mem, heap, words[heap])
      /\ scan \in Int /\ request \in Requests \X Int /\ StackTop \in 1..StackWords
  BY CollectionState
<1>3. \A a \in AddressesOf(heap) : a \in Address /\ mem'[a] = mem[a]
  BY <1>1, <1>2, AddressBounds, HeapsDisjoint
<1>4. \A c \in To : mem'[c] = mem[c]
  BY <1>2, <1>3, TileBounds
<1>5. \A c \in To : Filled(mem, valid, c, ArraySize(mem[c]), To)
  BY <1>1 DEF Collection, Calls
<1>6. \A c \in To : \A j \in 1..ArraySize(mem[c])-1 :
         Element(c, j) \in AddressesOf(heap) /\ mem'[Element(c, j)] = mem[Element(c, j)]
  BY <1>2, <1>3, Inner
<1>7. Starts' = To
  <2>1. \A c \in To : valid[c] /\ \A j \in 1..ArraySize(mem[c])-1 : ~valid[Element(c, j)]
    <3> SUFFICES ASSUME NEW c \in To
                 PROVE  valid[c] /\ \A j \in 1..ArraySize(mem[c])-1 : ~valid[Element(c, j)]
      OBVIOUS
    <3>1. ArraySize(mem[c]) > 1
      BY <1>2, TileBounds
    <3> QED
      BY <1>5, <3>1 DEF Filled
  <2>2. To = {a \in AddressesOf(heap) : a < Base(heap) + 8 * words[heap] /\ valid[a]}
    BY <1>2, <2>1, FlagsTell
  <2> QED
    BY <1>1, <2>2 DEF Starts, allocptr
<1>8. Tiles(To, mem', heap, words[heap])
  BY <1>2, <1>4, TilesSame
<1>9. ASSUME NEW c \in To, NEW j \in 1..ArraySize(mem'[c])-1
      PROVE  Leads(mem'[Element(c, j)], To)
  BY <1>4, <1>5, <1>6 DEF Filled
<1>10. ASSUME NEW p \in defined PROVE Leads(Root(p)', To)
  <2>1. Root(p)' = word[At(p)]
    <3>1. At(p)' = At(p)
      BY <1>1, AtSame
    <3>2. Root(p)' = word'[At(p)']
      BY <1>1 DEF Root, At, Slot
    <3> QED
      BY <1>1, <3>1, <3>2
  <2>2. At(p) \in StackTop..StackWords-1
    BY <1>1, RootAt
  <2>3. At(p) < scan
    BY <1>1, <1>2, <2>2, Constants
  <2> QED
    BY <2>1, <2>3 DEF Collection, StackScanned
<1>11. FwFill' = result /\ FwSize' = FwSize /\ DataSize' = DataSize /\ request' # <<>>
  BY <1>1 DEF FwFill, FwSize, DataSize
<1>12. Quiet'
  BY <1>1, <1>7, <1>8, <1>9, <1>10, <1>11 DEF Quiet
<1>13. TypeOK'
  <2>1. mem' \in [Address -> Int]
    BY <1>1, <1>2
  <2>2. request' \in Requests \X Int
    BY <1>1, <1>2 DEF FwSize
  <2>3. name' \in [Address -> Ids \union {0}]
    BY <1>1 DEF IInv, TypeOK
  <2>4. value' \in Int /\ scan' \in 0..StackWords+1
    BY <1>1, Constants
  <2> QED
    BY <1>1, <2>1, <2>2, <2>3, <2>4 DEF IInv, TypeOK
<1>14. Frame'
  BY <1>1, <1>11 DEF IInv, Frame, Running, Usable
<1> QED
  BY <1>1, <1>12, <1>13, <1>14 DEF IInv

\* The innermost call of gc_copy that waits
LEMMA TopFrame ==
  ASSUME IInv, Collecting, NEW From, NEW size, NEW To, Collection(From, size, To),
         frames # <<>>
  PROVE  /\ Len(frames) \in Nat \ {0} /\ DOMAIN frames = 1..Len(frames)
         /\ Len(frames) \in DOMAIN frames /\ Top = frames[Len(frames)]
         /\ Top \in CallRecord
         /\ Waits(mem, valid, Top, From, size, To)
         /\ ArraySize(Top.size) \in Nat
<1>1. frames \in Seq(CallRecord)
  BY CollectionState
<1>2. Len(frames) \in Nat \ {0} /\ DOMAIN frames = 1..Len(frames)
  BY <1>1
<1>3. Len(frames) \in DOMAIN frames
  BY <1>2
<1>4. Top = frames[Len(frames)] /\ Top \in CallRecord
  <2>1. Top = frames[Len(frames)]
    BY DEF Top
  <2>2. frames[Len(frames)] \in CallRecord
    BY <1>1, <1>2, ElementOfSeq
  <2> QED
    BY <2>1, <2>2
<1>5. Waits(mem, valid, Top, From, size, To)
  BY <1>3, <1>4 DEF Collection, Calls
<1>6. Top.size \in Nat
  BY <1>4 DEF CallRecord
<1> QED
  BY <1>2, <1>3, <1>4, <1>5, <1>6, SizeOfArray

\* The frames after an element has been filled in: those below the innermost are as
\* they were, and that one has gone on or is gone.
LEMMA FramesAfter ==
  ASSUME NEW R, NEW s \in Seq(R), s # <<>>
  PROVE  LET t == SubSeq(s, 1, Len(s) - 1)
         IN  /\ t \in Seq(R) /\ DOMAIN t = 1..Len(s)-1
             /\ \A k \in 1..Len(s)-1 : t[k] = s[k]
<1>1. Len(s) \in Nat \ {0}
  OBVIOUS
<1>2. /\ \A k \in 1..Len(s)-1 : k \in 1..Len(s)
      /\ 1 <= Len(s) - 1 + 1 /\ Len(s) - 1 \in Int
  BY <1>1
<1>3. SubSeq(s, 1, Len(s) - 1) = [k \in 1..Len(s)-1 |-> s[k]]
  BY <1>1
<1>4. \A k \in 1..Len(s)-1 : s[k] \in R
  BY <1>1, <1>2
<1>5. SubSeq(s, 1, Len(s) - 1) \in Seq(R)
  BY <1>1, <1>3, <1>4
<1> QED
  BY <1>3, <1>5

LEMMA CopyElementIInv ==
  ASSUME IInv, Collecting, NEW From, NEW size, NEW To, Collection(From, size, To),
         NEW result \in Int, Leads(result, To), CopyElement(result)
  PROVE  IInv'
<1> DEFINE L == Len(frames)
           new == Top.new
           i == Top.i
           e == Element(new, i)
           n == ArraySize(Top.size)
<1>1. /\ frames # <<>> /\ control' \in {"copy", "copied"} /\ Collecting'
      /\ mem' = [mem EXCEPT ![e] = result] /\ valid' = Flags(new, i)
      /\ UNCHANGED <<heap, words, name, word, rsp, defined, scan, request>>
      /\ control \in {"copy", "copied"} /\ control # "program"
  BY DEF CopyElement, Collecting, program
<1>2. /\ heap \in Heaps /\ heap2 \in Heaps /\ heap # heap2
      /\ words[heap] \in Nat /\ words[heap] <= HEAP_SIZE
      /\ words[heap2] \in Nat /\ words[heap2] <= HEAP_SIZE
      /\ mem \in [Address -> Int] /\ valid \in [Address -> BOOLEAN]
      /\ Tiles(From, size, heap2, words[heap2]) /\ Tiles(To, mem, heap, words[heap])
      /\ frames \in Seq(CallRecord)
  BY CollectionState
<1>3. /\ L \in Nat \ {0} /\ DOMAIN frames = 1..L /\ L \in DOMAIN frames /\ Top = frames[L]
      /\ Top \in CallRecord /\ n \in Nat
      /\ Waits(mem, valid, Top, From, size, To)
  BY <1>1, TopFrame
<1>4. /\ new \in To /\ mem[new] = Top.size /\ i \in 1..n-1 /\ Filled(mem, valid, new, i, To)
      /\ Top.old \in From /\ mem[Top.old] = -1 /\ Top.size = size[Top.old]
      /\ \A j \in i+1..n-1 : Leads(mem[Element(Top.old, j)], From)
  BY <1>3 DEF Waits
<1>5. e \in AddressesOf(heap) /\ e \notin To /\ e \in Address
  BY <1>2, <1>4, Inner, AddressBounds
<1>6. new \in Address /\ new # e
  BY <1>2, <1>4, <1>5, TileBounds, AddressBounds
<1> HIDE DEF new, i, e, n, L
\* What the step leaves as it was
<1>7. ASSUME NEW a \in AddressesOf(heap2)
      PROVE  mem'[a] = mem[a] /\ valid'[a] = valid[a]
  <2>1. a \in Address /\ a # e /\ a # new
    <3>1. new \in AddressesOf(heap)
      BY <1>2, <1>4, TileBounds
    <3>2. a \in Address
      BY <1>2, AddressBounds
    <3> QED
      BY <1>2, <1>5, <3>1, <3>2, HeapsDisjoint
  <2>2. mem'[a] = mem[a]
    BY <1>1, <1>2, <2>1
  <2>3. valid'[a] = valid[a]
    BY <1>1, <1>2, <2>1 DEF Flags, e
  <2> QED
    BY <2>2, <2>3
<1>8. ASSUME NEW c \in To
      PROVE  c \in Address /\ mem'[c] = mem[c] /\ (valid[c] => valid'[c])
  <2>1. c \in Address /\ c # e
    BY <1>2, <1>5, TileBounds, AddressBounds
  <2>2. mem'[c] = mem[c]
    BY <1>1, <1>2, <2>1
  <2>3. valid[c] => valid'[c]
    BY <1>1, <1>2, <1>6, <2>1 DEF Flags, e
  <2> QED
    BY <2>1, <2>2, <2>3
\* What it fills in
<1>9. mem'[e] = result /\ ~valid'[e]
  <2>1. mem'[e] = result
    BY <1>1, <1>2, <1>5
  <2>2. ~valid'[e]
    BY <1>1, <1>2, <1>5, <1>6 DEF Flags, e
  <2> QED
    BY <2>1, <2>2
<1>10. valid'[new]
  <2>1. CASE i = 1
    <3>1. valid'[new]
      BY <1>1, <1>2, <1>5, <1>6, <2>1 DEF Flags, e
    <3> QED
      BY <3>1
  <2>2. CASE i # 1
    <3>1. valid[new]
      BY <1>4, <2>2 DEF Filled
    <3> QED
      BY <1>4, <1>8, <3>1
  <2> QED
    BY <2>1, <2>2
<1>11. ASSUME NEW a \in AddressesOf(heap), a # e, a \notin To
       PROVE  mem'[a] = mem[a] /\ valid'[a] = valid[a]
  <2>1. a \in Address /\ a # new
    BY <1>2, <1>4, <1>11, AddressBounds
  <2>2. mem'[a] = mem[a]
    BY <1>1, <1>2, <1>11, <2>1
  <2>3. valid'[a] = valid[a]
    BY <1>1, <1>2, <1>11, <2>1 DEF Flags, e
  <2> QED
    BY <2>2, <2>3
<1>12. ASSUME NEW c \in To, NEW m \in Nat, m <= ArraySize(mem[c]), c # new,
              Filled(mem, valid, c, m, To)
       PROVE  Filled(mem', valid', c, m, To)
  <2>1. m > 1 => valid'[c]
    BY <1>8, <1>12 DEF Filled
  <2>2. ASSUME NEW j \in 1..m-1
        PROVE  ~valid'[Element(c, j)] /\ Leads(mem'[Element(c, j)], To)
    <3>1. j \in 1..ArraySize(mem[c])-1
      <4>1. ArraySize(mem[c]) \in Nat
        BY <1>2, TileBounds
      <4> QED
        BY <1>12, <4>1
    <3>2. Element(c, j) \in AddressesOf(heap) /\ Element(c, j) \notin To
      BY <1>2, <3>1, Inner
    <3>3. Element(c, j) # e
      BY <1>2, <1>4, <1>12, <3>1, Inner DEF e, n
    <3>4. /\ mem'[Element(c, j)] = mem[Element(c, j)]
          /\ valid'[Element(c, j)] = valid[Element(c, j)]
      BY <1>11, <3>2, <3>3
    <3> QED
      BY <1>12, <3>4 DEF Filled
  <2> QED
    BY <2>1, <2>2 DEF Filled
<1>13. Filled(mem', valid', new, i + 1, To)
  <2>1. ASSUME NEW j \in 1..(i+1)-1
        PROVE  ~valid'[Element(new, j)] /\ Leads(mem'[Element(new, j)], To)
    <3>1. CASE j = i
      BY <1>9, <3>1 DEF e
    <3>2. CASE j # i
      <4>1. j \in 1..i-1 /\ j \in 1..n-1
        BY <1>3, <1>4, <3>2
      <4>2. Element(new, j) \in AddressesOf(heap) /\ Element(new, j) \notin To
            /\ Element(new, j) # e
        BY <1>2, <1>4, <3>2, <4>1, Inner DEF e, n
      <4>3. /\ mem'[Element(new, j)] = mem[Element(new, j)]
            /\ valid'[Element(new, j)] = valid[Element(new, j)]
        BY <1>11, <4>2
      <4> QED
        BY <1>4, <4>1, <4>3 DEF Filled
    <3> QED
      BY <3>1, <3>2
  <2> QED
    BY <1>10, <2>1 DEF Filled
<1>14. heap2' = heap2 /\ Usable' = Usable /\ StackTop' = StackTop /\ FwFill' = FwFill
       /\ DataSize' = DataSize
  BY <1>1 DEF heap2, Usable, StackTop, FwFill, FwSize, DataSize
\* The old heap
<1>15. ASSUME NEW o \in From
       PROVE  /\ mem'[o] = mem[o]
              /\ \A j \in 1..ArraySize(size[o])-1 : mem'[Element(o, j)] = mem[Element(o, j)]
  BY <1>2, <1>7, TileBounds, Inner
<1>16. OldHeap(From, size)'
  <2>1. From = {a \in AddressesOf(heap2) : a < Base(heap2) + 8 * words[heap2] /\ valid[a]}
    BY DEF Collection, OldHeap
  <2>2. From = {a \in AddressesOf(heap2) : a < Base(heap2) + 8 * words[heap2] /\ valid'[a]}
    BY <1>7, <2>1
  <2> QED
    BY <1>1, <1>2, <1>14, <2>2 DEF OldHeap
<1>17. Arrays(From, size, To)'
  <2> SUFFICES ASSUME NEW o \in From
               PROVE  IF mem'[o] = -1 THEN mem'[Element(o, 1)] \in To
                      ELSE /\ mem'[o] = size[o]
                           /\ \A j \in 1..ArraySize(size[o])-1 : Leads(mem'[Element(o, j)], From)
    BY DEF Arrays
  <2>1. 1 \in 1..ArraySize(size[o])-1
    BY <1>2, TileBounds
  <2> QED
    BY <1>15, <2>1 DEF Collection, Arrays
<1>18. NewHeap(From, size, To)'
  <2>1. Gone(From, size)' = Gone(From, size)
    BY <1>1, <1>14, <1>15 DEF Gone
  <2>2. Tiles(To, mem', heap, words[heap])
    BY <1>2, <1>8, TilesSame
  <2> QED
    BY <1>1, <2>1, <2>2 DEF NewHeap, Collection
<1>19. StackScanned(From, To)'
  BY <1>1, <1>14, AtSame DEF StackScanned, Collection
\* The calls that wait for the innermost one
<1>20. ASSUME NEW k \in DOMAIN frames, k # L PROVE Waits(mem', valid', frames[k], From, size, To)
  <2>1. Waits(mem, valid, frames[k], From, size, To) /\ frames[k].new # new
    BY <1>3, <1>20 DEF Collection, Calls, new
  <2>2. PICK f : f = frames[k]
    OBVIOUS
  <2>3. Waits(mem, valid, f, From, size, To) /\ f.new # new
    BY <2>1, <2>2
  <2>4. /\ f.old \in From /\ mem[f.old] = -1 /\ f.size = size[f.old] /\ f.new \in To
        /\ mem[f.new] = f.size /\ f.i \in 1..ArraySize(f.size)-1
        /\ Filled(mem, valid, f.new, f.i, To)
    BY <2>3 DEF Waits
  <2>5. f.i \in Nat /\ f.i <= ArraySize(mem[f.new]) /\ ArraySize(f.size) \in Nat
    <3>1. ArraySize(mem[f.new]) \in Nat
      BY <1>2, <2>4, TileBounds
    <3> QED
      BY <2>4, <3>1
  <2>6. Filled(mem', valid', f.new, f.i, To)
    BY <1>12, <2>3, <2>4, <2>5
  <2>7. \A j \in f.i+1..ArraySize(f.size)-1 : Leads(mem'[Element(f.old, j)], From)
    <3>1. \A j \in f.i+1..ArraySize(f.size)-1 : j \in 1..ArraySize(size[f.old])-1
      BY <2>4, <2>5
    <3> QED
      BY <1>15, <2>3, <2>4, <3>1 DEF Waits
  <2>8. Waits(mem', valid', f, From, size, To)
    BY <1>8, <1>15, <2>4, <2>6, <2>7 DEF Waits
  <2> QED
    BY <2>2, <2>8

<1>21. ASSUME NEW c \in To, c # new, \A k \in DOMAIN frames : frames[k].new # c
       PROVE  Filled(mem', valid', c, ArraySize(mem'[c]), To)
  <2>1. Filled(mem, valid, c, ArraySize(mem[c]), To)
    BY <1>21 DEF Collection, Calls
  <2>2. ArraySize(mem[c]) \in Nat
    BY <1>2, TileBounds
  <2>3. Filled(mem', valid', c, ArraySize(mem[c]), To)
    <3>1. PICK m \in Nat : m = ArraySize(mem[c])
      BY <2>2
    <3>2. m <= ArraySize(mem[c]) /\ Filled(mem, valid, c, m, To)
      BY <2>1, <3>1
    <3>3. Filled(mem', valid', c, m, To)
      BY <1>12, <1>21, <3>2
    <3> QED
      BY <3>1, <3>3
  <2> QED
    BY <1>8, <2>3
<1>22. CASE MoreElements
  <2>1. /\ frames' = [frames EXCEPT ![L].i = @ + 1]
        /\ value' = mem[Element(Top.old, i + 1)] /\ control' = "copy"
    BY <1>22 DEF CopyElement, L, i
  <2>2. i + 1 \in 1..n-1 /\ i + 1 \in i+1..n-1
    BY <1>3, <1>4, <1>22 DEF MoreElements, i, n
  <2>3. /\ DOMAIN frames' = 1..L /\ frames' # <<>>
        /\ \A k \in 1..L : k # L => frames'[k] = frames[k]
        /\ frames'[L] = [Top EXCEPT !.i = @ + 1]
    BY <1>2, <1>3, <2>1
  <2>4. frames'[L] \in CallRecord
    BY <1>3, <2>3 DEF CallRecord
  <2>5. frames' \in Seq(CallRecord)
    BY <1>2, <1>3, <2>1, <2>3, <2>4
  <2>6. /\ frames'[L].old = Top.old /\ frames'[L].new = new /\ frames'[L].size = Top.size
        /\ frames'[L].i = i + 1
    BY <1>3, <2>3 DEF new, i
  <2>7. Waits(mem, valid, frames[L], From, size, To)
    BY <1>3
  <2>8. \A j \in (i+1)+1..n-1 : Leads(mem'[Element(Top.old, j)], From)
    <3>1. \A j \in (i+1)+1..n-1 : j \in i+1..n-1 /\ j \in 1..ArraySize(size[Top.old])-1
      BY <1>3, <1>4, <2>2 DEF n
    <3> QED
      BY <1>4, <1>15, <3>1
  <2>9. Waits(mem', valid', frames'[L], From, size, To)
    <3>1. PICK f : f = frames'[L]
      OBVIOUS
    <3>2. /\ f.old = Top.old /\ f.new = new /\ f.size = Top.size /\ f.i = i + 1
      BY <2>6, <3>1
    <3>3. /\ f.old \in From /\ mem'[f.old] = -1 /\ f.size = size[f.old]
          /\ f.new \in To /\ mem'[f.new] = f.size /\ f.i \in 1..ArraySize(f.size)-1
      BY <1>4, <1>8, <1>15, <2>2, <3>2 DEF n
    <3>4. \A j \in f.i+1..ArraySize(f.size)-1 : Leads(mem'[Element(f.old, j)], From)
      BY <2>8, <3>2 DEF n
    <3>5. Filled(mem', valid', f.new, f.i, To)
      BY <1>13, <3>2
    <3>6. Waits(mem', valid', f, From, size, To)
      BY <3>3, <3>4, <3>5 DEF Waits
    <3> QED
      BY <3>1, <3>6
  <2>10. \A k \in DOMAIN frames' : Waits(mem', valid', frames'[k], From, size, To)
    BY <1>3, <1>20, <2>3, <2>9
  <2>11. \A k \in 1..L : frames'[k].new = frames[k].new
    BY <1>3, <2>3, <2>6 DEF new
  <2>12. \A k, l \in DOMAIN frames' : k # l => frames'[k].new # frames'[l].new
    BY <1>3, <2>3, <2>11 DEF Collection, Calls
  <2>13. \A c \in To : (\A k \in DOMAIN frames' : frames'[k].new # c)
                         => Filled(mem', valid', c, ArraySize(mem'[c]), To)
    BY <1>3, <1>21, <2>3, <2>6, <2>11
  <2>14. Calls(From, size, To)'
    BY <2>10, <2>12, <2>13 DEF Calls
  <2>15. Leads(mem[Element(Top.old, i + 1)], From)
    BY <1>4, <2>2
  <2>16. Element(Top.old, i + 1) \in Address
    BY <1>2, <1>4, <2>2, Inner, AddressBounds DEF n
  <2>17. value' \in Int
    BY <1>2, <2>1, <2>16
  <2>18. Value(From, To)'
    BY <2>1, <2>3, <2>15 DEF Value
  <2>19. TypeOK'
    <3>1. mem' \in [Address -> Int] /\ valid' \in [Address -> BOOLEAN]
      BY <1>1, <1>2, <1>5, <1>6 DEF Flags
    <3> QED
      BY <1>1, <2>1, <2>5, <2>17, <3>1 DEF IInv, TypeOK, CallRecord
  <2>20. Frame'
    BY <1>1, <1>14 DEF IInv, Frame, Running
  <2> QED
    BY <1>1, <1>16, <1>17, <1>18, <1>19, <2>14, <2>18, <2>19, <2>20 DEF IInv, Collection
<1>23. CASE ~MoreElements
  <2>1. /\ frames' = SubSeq(frames, 1, L - 1) /\ value' = new /\ control' = "copied"
    BY <1>23 DEF CopyElement, L, new
  <2>2. i + 1 = n
    BY <1>3, <1>4, <1>23 DEF MoreElements, i, n
  <2>3. /\ frames' \in Seq(CallRecord)
        /\ DOMAIN frames' = 1..L-1
        /\ \A k \in 1..L-1 : frames'[k] = frames[k]
    BY <1>1, <1>2, <2>1, FramesAfter DEF L
  <2>4. \A k \in 1..L-1 : k \in DOMAIN frames /\ k # L
    BY <1>3
  <2>5. \A k \in DOMAIN frames' : Waits(mem', valid', frames'[k], From, size, To)
    BY <1>20, <2>3, <2>4
  <2>6. \A k, l \in DOMAIN frames' : k # l => frames'[k].new # frames'[l].new
    BY <2>3, <2>4 DEF Collection, Calls
  <2>7. \A c \in To : (\A k \in DOMAIN frames' : frames'[k].new # c)
                         => Filled(mem', valid', c, ArraySize(mem'[c]), To)
    <3> SUFFICES ASSUME NEW c \in To, \A k \in DOMAIN frames' : frames'[k].new # c
                 PROVE  Filled(mem', valid', c, ArraySize(mem'[c]), To)
      OBVIOUS
    <3>1. CASE c = new
      <4>1. ArraySize(mem'[c]) = i + 1
        BY <1>4, <1>8, <2>2, <3>1 DEF n
      <4> QED
        BY <1>13, <3>1, <4>1
    <3>2. CASE c # new
      <4>1. \A k \in DOMAIN frames : frames[k].new # c
        <5>1. \A k \in DOMAIN frames : k = L \/ k \in 1..L-1
          BY <1>3
        <5> QED
          BY <1>3, <2>3, <3>2, <5>1 DEF new
      <4> QED
        BY <1>21, <3>2, <4>1
    <3> QED
      BY <3>1, <3>2
  <2>8. Calls(From, size, To)'
    BY <2>5, <2>6, <2>7 DEF Calls
  <2>9. Value(From, To)'
    BY <1>4, <2>1 DEF Value
  <2>10. value' \in Int
    BY <1>2, <1>4, <2>1, TileBounds
  <2>11. TypeOK'
    <3>1. mem' \in [Address -> Int] /\ valid' \in [Address -> BOOLEAN]
      BY <1>1, <1>2, <1>5, <1>6 DEF Flags
    <3> QED
      BY <1>1, <2>1, <2>3, <2>10, <3>1 DEF IInv, TypeOK, CallRecord
  <2>12. Frame'
    BY <1>1, <1>14 DEF IInv, Frame, Running
  <2> QED
    BY <1>1, <1>16, <1>17, <1>18, <1>19, <2>8, <2>9, <2>11, <2>12 DEF IInv, Collection
<1> QED
  BY <1>22, <1>23

LEMMA DeliverIInv ==
  ASSUME IInv, Collecting, NEW From, NEW size, NEW To, Collection(From, size, To),
         NEW result \in Int,
         frames # <<>> \/ scan > StackWords => Leads(result, To),
         \A p \in defined : frames = <<>> /\ At(p) = scan => Leads(result, To),
         Deliver(result)
  PROVE  IInv'
<1>1. CASE UpdateRoot(result)
  <2>1. \A p \in defined : At(p) = scan => Leads(result, To)
    BY <1>1 DEF UpdateRoot
  <2> QED
    BY <1>1, <2>1, UpdateRootIInv
<1>2. CASE UpdateFill(result)
  <2>1. Leads(result, To)
    BY <1>2 DEF UpdateFill
  <2> QED
    BY <1>2, <2>1, UpdateFillIInv
<1>3. CASE CopyElement(result)
  <2>1. Leads(result, To)
    BY <1>3 DEF CopyElement
  <2> QED
    BY <1>3, <2>1, CopyElementIInv
<1> QED
  BY <1>1, <1>2, <1>3 DEF Deliver

\* The test of gc_copy finds the arrays of the old heap.
LEMMA CollectableStart ==
  ASSUME IInv, Collecting, NEW From, NEW size, NEW To, Collection(From, size, To)
  PROVE  Collectable(value) <=> IsPointer(value) /\ value \in From
<1>1. /\ heap2 \in Heaps /\ words[heap2] \in Nat /\ words[heap2] <= HEAP_SIZE /\ value \in Int
  BY CollectionState
<1>2. From = {a \in AddressesOf(heap2) : a < Base(heap2) + 8 * words[heap2] /\ valid[a]}
  BY DEF Collection, OldHeap
<1>3. ASSUME Collectable(value) PROVE IsPointer(value) /\ value \in From
  <2>1. value < Base(heap2) + 8 * HEAP_SIZE
    BY <1>1, <1>3, BaseInt, Constants DEF Collectable
  <2>2. value \in AddressesOf(heap2)
    BY <1>1, <1>3, <2>1, AddressByBounds DEF Collectable
  <2> QED
    BY <1>2, <1>3, <2>2 DEF Collectable
<1>4. ASSUME IsPointer(value), value \in From PROVE Collectable(value)
  BY <1>1, <1>2, <1>4, AddressBounds DEF Collectable
<1> QED
  BY <1>3, <1>4

LEMMA CopyNothingIInv == IInv /\ CopyNothing => IInv'
<1> SUFFICES ASSUME IInv, CopyNothing PROVE IInv'
  OBVIOUS
<1>1. control = "copy" /\ Collecting /\ ~Collectable(value) /\ Deliver(value)
  BY DEF CopyNothing, Collecting
<1>2. PICK From, size, To : Collection(From, size, To)
  BY <1>1 DEF IInv
<1>3. Leads(value, From) => Leads(value, To)
  BY <1>1, <1>2, CollectableStart DEF Leads
<1>4. ASSUME frames # <<>> \/ scan > StackWords PROVE Leads(value, To)
  <2>1. CASE frames # <<>>
    BY <1>1, <1>2, <1>3, <2>1 DEF Collection, Value
  <2>2. CASE frames = <<>>
    <3>1. scan \in Int /\ ~(scan <= StackWords)
      BY <1>1, <1>2, <1>4, <2>2, CollectionState, Constants
    <3>2. value = FwFill
      BY <1>1, <1>2, <2>2, <3>1 DEF Collection, Value
    <3> QED
      BY <1>2, <1>3, <3>2 DEF Collection, StackScanned
  <2> QED
    BY <2>1, <2>2
<1>5. ASSUME NEW p \in defined, frames = <<>>, At(p) = scan PROVE Leads(value, To)
  <2>1. At(p) \in StackTop..StackWords-1
    BY <1>1, RootAt
  <2>2. scan \in Int /\ scan <= StackWords /\ ~(At(p) < scan)
    BY <1>1, <1>2, <1>5, <2>1, CollectionState, Constants
  <2>3. value = word[At(p)]
    BY <1>1, <1>2, <1>5, <2>2 DEF Collection, Value
  <2>4. Leads(word[At(p)], From)
    BY <1>2, <2>2 DEF Collection, StackScanned
  <2> QED
    BY <1>3, <2>3, <2>4
<1>6. value \in Int
  BY DEF IInv, TypeOK
<1> QED
  BY <1>1, <1>2, <1>4, <1>5, <1>6, DeliverIInv

LEMMA CopyForwardedIInv == IInv /\ CopyForwarded => IInv'
<1> SUFFICES ASSUME IInv, CopyForwarded PROVE IInv'
  OBVIOUS
<1>1. /\ control = "copy" /\ Collecting /\ Collectable(value) /\ mem[value] = -1
      /\ Deliver(mem[Element(value, 1)])
  BY DEF CopyForwarded, Collecting, Forwarded
<1>2. PICK From, size, To : Collection(From, size, To)
  BY <1>1 DEF IInv
<1>3. value \in From
  BY <1>1, <1>2, CollectableStart
<1>4. mem[Element(value, 1)] \in To
  BY <1>1, <1>2, <1>3 DEF Collection, Arrays
<1>5. mem[Element(value, 1)] \in Int
  BY <1>1, <1>2, <1>4, CollectionState, TileBounds
<1>6. Leads(mem[Element(value, 1)], To)
  BY <1>4 DEF Leads
<1> QED
  BY <1>1, <1>2, <1>5, <1>6, DeliverIInv

LEMMA ArrayCopiedIInv == IInv /\ ArrayCopied => IInv'
<1> SUFFICES ASSUME IInv, ArrayCopied PROVE IInv'
  OBVIOUS
<1>1. control = "copied" /\ Collecting /\ Deliver(value) /\ value \in Int
  BY DEF ArrayCopied, Collecting, IInv, TypeOK
<1>2. PICK From, size, To : Collection(From, size, To)
  BY <1>1 DEF IInv
<1>3. Leads(value, To)
  BY <1>1, <1>2 DEF Collection, Value, Leads
<1> QED
  BY <1>1, <1>2, <1>3, DeliverIInv

(***************************************************************************)
(* An array is copied.                                                     *)
(***************************************************************************)
\* It adds its words to those of the arrays that have been moved, none of which it
\* shares.
LEMMA GoneGrows ==
  ASSUME IInv, Collecting, NEW From, NEW size, NEW To, Collection(From, size, To),
         NEW v \in From, mem[v] # -1, mem'[v] = -1,
         \A o \in From : o # v => mem'[o] = mem[o],
         heap' = heap, words'[heap2] = words[heap2]
  PROVE  /\ Cardinality(Gone(From, size)') = Cardinality(Gone(From, size)) + ArraySize(size[v])
         /\ Cardinality(Gone(From, size)') <= words[heap2]
<1>1. /\ heap2 \in Heaps /\ words[heap2] \in Nat /\ words[heap2] <= HEAP_SIZE
      /\ Tiles(From, size, heap2, words[heap2]) /\ heap2' = heap2
  BY CollectionState DEF heap2
<1>2. /\ v \in AddressesOf(heap2) /\ v \in Int
      /\ ArraySize(size[v]) \in Nat /\ ArraySize(size[v]) >= 2
      /\ End(v, size[v]) = v + 8 * ArraySize(size[v])
      /\ End(v, size[v]) <= Base(heap2) + 8 * words[heap2]
  BY <1>1, TileBounds
<1>3. PICK k \in 0..HEAP_SIZE-1 : v = Base(heap2) + 8 * k
  BY <1>1, <1>2, AddressBounds
<1> DEFINE W == ArraySize(size[v])
           K == k..k+W-1
           B == Base(heap2)
           G == Gone(From, size)
<1>4. B \in Int
  BY <1>1, BaseInt
<1>5. k \in Int /\ W \in Nat /\ W >= 2 /\ k + W <= words[heap2] /\ k >= 0
  BY <1>1, <1>2, <1>3, <1>4, Constants
<1>6. K \subseteq 0..words[heap2]-1
  BY <1>1, <1>5
<1>7. \A l \in 0..words[heap2]-1 : l \in K <=> v <= B + 8 * l /\ B + 8 * l < End(v, size[v])
  BY <1>1, <1>2, <1>3, <1>4, <1>5
<1>8. Gone(From, size)' = {l \in 0..words[heap2]-1 :
         \E o \in From : mem'[o] = -1 /\ o <= B + 8 * l /\ B + 8 * l < End(o, size[o])}
  BY <1>1 DEF Gone
<1>9. G = {l \in 0..words[heap2]-1 :
         \E o \in From : mem[o] = -1 /\ o <= B + 8 * l /\ B + 8 * l < End(o, size[o])}
  BY DEF Gone
<1> HIDE DEF G, K, W, B
<1>10. Gone(From, size)' = G \union K
  <2>1. ASSUME NEW l \in Gone(From, size)' PROVE l \in G \union K
    <3>1. PICK o \in From : mem'[o] = -1 /\ o <= B + 8 * l /\ B + 8 * l < End(o, size[o])
      BY <1>8
    <3>2. l \in 0..words[heap2]-1
      BY <1>8
    <3>3. CASE o = v
      BY <1>7, <3>1, <3>2, <3>3
    <3>4. CASE o # v
      BY <1>9, <3>1, <3>2, <3>4
    <3> QED
      BY <3>3, <3>4
  <2>2. ASSUME NEW l \in G PROVE l \in Gone(From, size)'
    <3>1. PICK o \in From : mem[o] = -1 /\ o <= B + 8 * l /\ B + 8 * l < End(o, size[o])
      BY <1>9
    <3>2. l \in 0..words[heap2]-1 /\ o # v /\ mem'[o] = -1
      BY <1>9, <3>1
    <3> QED
      BY <1>8, <3>1, <3>2
  <2>3. ASSUME NEW l \in K PROVE l \in Gone(From, size)'
    <3>1. l \in 0..words[heap2]-1
      BY <1>6
    <3> QED
      BY <1>7, <1>8, <3>1
  <2> QED
    BY <2>1, <2>2, <2>3
<1>11. G \intersect K = {}
  <2> SUFFICES ASSUME NEW l \in G, l \in K PROVE FALSE
    OBVIOUS
  <2>1. PICK o \in From : mem[o] = -1 /\ o <= B + 8 * l /\ B + 8 * l < End(o, size[o])
    BY <1>9
  <2>2. l \in Int /\ v <= B + 8 * l /\ B + 8 * l < End(v, size[v])
    BY <1>1, <1>6, <1>7
  <2>3. o # v /\ o \in Int /\ End(o, size[o]) \in Int
    <3>1. o # v
      BY <2>1
    <3>2. o \in Int /\ ArraySize(size[o]) \in Nat /\ End(o, size[o]) = o + 8 * ArraySize(size[o])
      BY <1>1, TileBounds
    <3> QED
      BY <3>1, <3>2
  <2>4. (o < v => End(o, size[o]) <= v) /\ (v < o => End(v, size[v]) <= o)
    BY <1>1 DEF Tiles
  <2> QED
    BY <1>2, <1>4, <2>1, <2>2, <2>3, <2>4
<1>12. IsFiniteSet(K) /\ Cardinality(K) = W
  <2>1. PICK m \in Int : m = k+W-1
    BY <1>5
  <2>2. IsFiniteSet(k..m) /\ Cardinality(k..m) = IF k > m THEN 0 ELSE m - k + 1
    BY <1>5, <2>1, FS_Interval
  <2>3. K = k..m
    BY <2>1 DEF K
  <2>4. (IF k > m THEN 0 ELSE m - k + 1) = W
    BY <1>5, <2>1
  <2> QED
    BY <2>2, <2>3, <2>4
<1>13. IsFiniteSet(G) /\ Cardinality(G) \in Nat
  BY GoneBound DEF G
<1>14. Cardinality(G \union K) = Cardinality(G) + W
  <2>1. Cardinality(G \union K) = Cardinality(G) + Cardinality(K) - Cardinality(G \intersect K)
    BY <1>12, <1>13, FS_Union
  <2>2. Cardinality(G \intersect K) = 0
    BY <1>11, FS_EmptySet
  <2> QED
    BY <1>5, <1>12, <1>13, <2>1, <2>2
<1>15. Cardinality(G \union K) <= words[heap2]
  <2>1. G \union K \in SUBSET (0..words[heap2]-1)
    BY <1>6, <1>9
  <2> QED
    BY <1>1, <2>1, NumbersBelow
<1> QED
  BY <1>10, <1>14, <1>15 DEF W, G

\* The heaps with one more array moved
LEMMA CopyArrayHeap ==
  ASSUME IInv, CopyArray, NEW From, NEW size, NEW To, Collection(From, size, To)
  PROVE  /\ value \in From /\ mem[value] # -1
         /\ mem[value] = size[value]
         /\ \A j \in 1..ArraySize(size[value])-1 : Leads(mem[Element(value, j)], From)
         /\ value \in AddressesOf(heap2) /\ mem[value] \in Nat
         /\ ArraySize(mem[value]) \in Nat /\ ArraySize(mem[value]) >= 2
         /\ 1 \in 1..ArraySize(size[value])-1
         /\ allocptr = Base(heap) + 8 * words[heap] /\ allocptr \in Int
         /\ allocptr \in AddressesOf(heap) /\ allocptr \in Address
         /\ value \in Address /\ Element(value, 1) \in Address /\ value # Element(value, 1)
         /\ mem' \in [Address -> Int] /\ mem'[value] = -1
         /\ mem'[Element(value, 1)] = allocptr /\ mem'[allocptr] = mem[value]
         /\ \A a \in AddressesOf(heap2) : a # value /\ a # Element(value, 1) => mem'[a] = mem[a]
         /\ \A o \in From : o # value =>
               /\ mem'[o] = mem[o]
               /\ \A j \in 1..ArraySize(size[o])-1 : mem'[Element(o, j)] = mem[Element(o, j)]
         /\ \A a \in AddressesOf(heap) : a # allocptr => mem'[a] = mem[a]
         /\ \A c \in To : c \in AddressesOf(heap) /\ c # allocptr /\ mem'[c] = mem[c]
         /\ words' \in [Heaps -> 0..HEAP_SIZE] /\ words'[heap2] = words[heap2]
         /\ words'[heap] = Cardinality(Gone(From, size)')
         /\ allocptr \notin To /\ Tiles(To \union {allocptr}, mem', heap, words'[heap])
<1>1. /\ control = "copy" /\ control' = "copy" /\ Collecting /\ Collecting'
      /\ Collectable(value) /\ mem[value] # -1
      /\ words' = [words EXCEPT ![heap] = @ + ArraySize(mem[value])]
      /\ name' = [name EXCEPT ![allocptr] = name[value]]
      /\ frames' = Append(frames, [old |-> value, new |-> allocptr, size |-> mem[value], i |-> 1])
      /\ value' = mem[Element(value, 1)] /\ mem' = ArrayCopy
      /\ UNCHANGED <<valid, heap, word, rsp, defined, scan, request>>
  BY DEF CopyArray, Collecting, Forwarded, program
<1>3. /\ heap \in Heaps /\ heap2 \in Heaps /\ heap # heap2
      /\ words[heap] \in Nat /\ words[heap] <= HEAP_SIZE
      /\ words[heap2] \in Nat /\ words[heap2] <= HEAP_SIZE
      /\ words \in [Heaps -> 0..HEAP_SIZE]
      /\ mem \in [Address -> Int] /\ valid \in [Address -> BOOLEAN]
      /\ Tiles(From, size, heap2, words[heap2]) /\ Tiles(To, mem, heap, words[heap])
      /\ frames \in Seq(CallRecord)
  BY <1>1, CollectionState
<1> DEFINE v == value
           w == Element(v, 1)
           k == allocptr
           n == mem[v]
<1>4. v \in From /\ n # -1
  BY <1>1, CollectableStart
<1>5. n = size[v] /\ \A j \in 1..ArraySize(size[v])-1 : Leads(mem[Element(v, j)], From)
  BY <1>4 DEF Collection, Arrays
<1>6. /\ v \in AddressesOf(heap2) /\ n \in Nat
      /\ ArraySize(n) \in Nat /\ ArraySize(n) >= 2
  BY <1>3, <1>4, <1>5, TileBounds
<1>7. 1 \in 1..ArraySize(size[v])-1
  BY <1>5, <1>6
<1>8. w \in AddressesOf(heap2) /\ w \notin From
  <2>1. PICK j : j = 1
    OBVIOUS
  <2>2. j \in 1..ArraySize(size[v])-1
    BY <1>7, <2>1
  <2> HIDE DEF v
  <2>3. Element(v, j) \in AddressesOf(heap2) /\ Element(v, j) \notin From
    BY <1>3, <1>4, <2>2, Inner
  <2> QED
    BY <2>1, <2>3
<1>9. k = Base(heap) + 8 * words[heap] /\ k \in Int
  BY <1>3, BaseInt DEF allocptr
<1>10. mem' = [mem EXCEPT ![v] = -1, ![w] = k, ![k] = n]
  BY <1>1 DEF ArrayCopy
<1> HIDE DEF v, w, k, n
<1>11. /\ words'[heap] = words[heap] + ArraySize(n) /\ words'[heap2] = words[heap2]
       /\ DOMAIN words' = Heaps
  BY <1>1, <1>3 DEF n, v
\* What the step changes
<1>12. /\ v \in Address /\ w \in Address /\ v # w
  BY <1>3, <1>4, <1>6, <1>8, AddressBounds
<1>13. \A a \in AddressesOf(heap2) : a # k
  <2> SUFFICES ASSUME NEW a \in AddressesOf(heap2) PROVE a # k
    OBVIOUS
  <2>1. a \in Int /\ Base(heap2) <= a /\ a <= Base(heap2) + 8 * HEAP_SIZE - 8
    BY <1>3, AddressBounds
  <2>2. (heap = 1 /\ heap2 = 2) \/ (heap = 2 /\ heap2 = 1)
    BY <1>3 DEF Heaps
  <2>3. Base(1) = 8 /\ Base(2) = 8 * (HEAP_SIZE + 2)
    BY DEF Base
  <2> QED
    BY <1>3, <1>9, <2>1, <2>2, <2>3, Constants
<1>14. /\ mem'[v] = -1 /\ mem'[w] = k
       /\ \A a \in AddressesOf(heap2) : a # v /\ a # w => mem'[a] = mem[a]
  BY <1>3, <1>6, <1>8, <1>10, <1>12, <1>13, AddressBounds
<1>15. \A o \in From : o # v => mem'[o] = mem[o]
  BY <1>3, <1>8, <1>14, TileBounds
<1>16. \A o \in From : o # v => \A j \in 1..ArraySize(size[o])-1 :
          mem'[Element(o, j)] = mem[Element(o, j)]
  <2> SUFFICES ASSUME NEW o \in From, o # v, NEW j \in 1..ArraySize(size[o])-1
               PROVE  mem'[Element(o, j)] = mem[Element(o, j)]
    OBVIOUS
  <2>1. Element(o, j) \in AddressesOf(heap2) /\ Element(o, j) # v
    BY <1>3, <1>4, Inner
  <2>2. Element(o, j) # w
    BY <1>3, <1>4, <1>7, Inner DEF w
  <2> QED
    BY <1>14, <2>1, <2>2
\* The copy fits.
<1>17. words[heap] = Cardinality(Gone(From, size))
  BY DEF Collection, NewHeap
<1>18. /\ Cardinality(Gone(From, size)') = words'[heap]
       /\ words'[heap] <= HEAP_SIZE /\ words'[heap] \in Nat
  <2>1. /\ Cardinality(Gone(From, size)') = Cardinality(Gone(From, size)) + ArraySize(size[v])
        /\ Cardinality(Gone(From, size)') <= words[heap2]
    BY <1>1, <1>4, <1>11, <1>14, <1>15, GoneGrows DEF n
  <2> QED
    BY <1>3, <1>5, <1>6, <1>11, <1>17, <2>1, Constants
<1>19. words' \in [Heaps -> 0..HEAP_SIZE]
  BY <1>1, <1>3, <1>6, <1>11, <1>18, Constants DEF n, v
<1>20. k \in AddressesOf(heap) /\ k \in Address
  <2>1. words[heap] \in 0..HEAP_SIZE-1
    BY <1>3, <1>6, <1>11, <1>18, Constants
  <2>2. k \in AddressesOf(heap)
    BY <1>9, <2>1 DEF AddressesOf
  <2> QED
    BY <1>3, <2>2, AddressBounds
<1>21. /\ mem'[k] = n
       /\ \A a \in AddressesOf(heap) : a # k => mem'[a] = mem[a]
  BY <1>3, <1>6, <1>8, <1>10, <1>12, <1>20, AddressBounds, HeapsDisjoint
<1>22. \A c \in To : c \in AddressesOf(heap) /\ c # k /\ mem'[c] = mem[c]
  <2> SUFFICES ASSUME NEW c \in To PROVE c \in AddressesOf(heap) /\ c # k /\ mem'[c] = mem[c]
    OBVIOUS
  <2>1. c \in AddressesOf(heap) /\ c < k
    BY <1>3, <1>9, TileBounds, BaseInt
  <2> QED
    BY <1>9, <1>21, <2>1
<1>23. PICK To2 : To2 = To \union {k}
  OBVIOUS
<1>24. Tiles(To2, mem', heap, words'[heap]) /\ k \notin To
  <2>1. mem'[k] \in Nat /\ words'[heap] = words[heap] + ArraySize(mem'[k])
    BY <1>6, <1>11, <1>21
  <2>2. \A c \in To : mem'[c] = mem[c]
    BY <1>22
  <2>3. /\ heap \in Heaps /\ words[heap] \in Nat /\ Tiles(To, mem, heap, words[heap])
        /\ k = Base(heap) + 8 * words[heap] /\ words'[heap] <= HEAP_SIZE
    BY <1>3, <1>9, <1>18
  <2>4. PICK f, g, m, u, h :
          f = mem /\ g = mem' /\ u = words[heap] /\ m = words'[heap] /\ h = heap
    OBVIOUS
  <2>5. /\ h \in Heaps /\ u \in Nat /\ Tiles(To, f, h, u) /\ \A s \in To : g[s] = f[s]
        /\ k = Base(h) + 8 * u /\ g[k] \in Nat /\ m = u + ArraySize(g[k]) /\ m <= HEAP_SIZE
    BY <2>1, <2>2, <2>3, <2>4
  <2>6. Tiles(To \union {k}, g, h, m) /\ k \notin To
    BY <2>5, TilesAdd
  <2> QED
    BY <1>23, <2>4, <2>6
<1>25. mem' \in [Address -> Int]
  <2>1. \A a \in Address : mem'[a] \in {-1, k, n, mem[a]}
    BY <1>3, <1>10
  <2>2. DOMAIN mem' = Address /\ mem' = [a \in Address |-> mem'[a]]
    BY <1>3, <1>10
  <2> QED
    BY <1>3, <1>6, <1>9, <2>1, <2>2
<1> HIDE DEF v, w, k, n
<1>26. /\ v \in From /\ n # -1
       /\ n = size[v] /\ \A j \in 1..ArraySize(size[v])-1 : Leads(mem[Element(v, j)], From)
       /\ v \in AddressesOf(heap2) /\ n \in Nat /\ ArraySize(n) \in Nat /\ ArraySize(n) >= 2
       /\ 1 \in 1..ArraySize(size[v])-1
       /\ k = Base(heap) + 8 * words[heap] /\ k \in Int /\ k \in AddressesOf(heap) /\ k \in Address
       /\ v \in Address /\ w \in Address /\ v # w
       /\ mem' \in [Address -> Int] /\ mem'[v] = -1 /\ mem'[w] = k /\ mem'[k] = n
       /\ \A a \in AddressesOf(heap2) : a # v /\ a # w => mem'[a] = mem[a]
       /\ \A o \in From : o # v =>
             /\ mem'[o] = mem[o]
             /\ \A j \in 1..ArraySize(size[o])-1 : mem'[Element(o, j)] = mem[Element(o, j)]
       /\ \A a \in AddressesOf(heap) : a # k => mem'[a] = mem[a]
       /\ \A c \in To : c \in AddressesOf(heap) /\ c # k /\ mem'[c] = mem[c]
       /\ words' \in [Heaps -> 0..HEAP_SIZE] /\ words'[heap2] = words[heap2]
       /\ words'[heap] = Cardinality(Gone(From, size)')
       /\ k \notin To /\ Tiles(To \union {k}, mem', heap, words'[heap])
  BY <1>4, <1>5, <1>6, <1>7, <1>9, <1>11, <1>12, <1>14, <1>15, <1>16, <1>18, <1>19, <1>20, <1>21,
     <1>22, <1>23, <1>24, <1>25
<1> QED
  BY <1>26 DEF v, w, k, n

LEMMA CopyArrayIInv == IInv /\ CopyArray => IInv'
<1> SUFFICES ASSUME IInv, CopyArray PROVE IInv'
  OBVIOUS
<1>1. /\ control = "copy" /\ control' = "copy" /\ Collecting /\ Collecting'
      /\ Collectable(value) /\ mem[value] # -1
      /\ words' = [words EXCEPT ![heap] = @ + ArraySize(mem[value])]
      /\ name' = [name EXCEPT ![allocptr] = name[value]]
      /\ frames' = Append(frames, [old |-> value, new |-> allocptr, size |-> mem[value], i |-> 1])
      /\ value' = mem[Element(value, 1)] /\ mem' = ArrayCopy
      /\ UNCHANGED <<valid, heap, word, rsp, defined, scan, request>>
  BY DEF CopyArray, Collecting, Forwarded, program
<1>2. PICK From, size, To : Collection(From, size, To)
  BY <1>1 DEF IInv
<1>3. /\ heap \in Heaps /\ heap2 \in Heaps /\ heap # heap2
      /\ words[heap] \in Nat /\ words[heap] <= HEAP_SIZE
      /\ words[heap2] \in Nat /\ words[heap2] <= HEAP_SIZE
      /\ words \in [Heaps -> 0..HEAP_SIZE]
      /\ mem \in [Address -> Int] /\ valid \in [Address -> BOOLEAN]
      /\ Tiles(From, size, heap2, words[heap2]) /\ Tiles(To, mem, heap, words[heap])
      /\ frames \in Seq(CallRecord)
  BY <1>1, <1>2, CollectionState
<1> DEFINE v == value
           w == Element(v, 1)
           k == allocptr
           n == mem[v]
<1>4. /\ v \in From /\ n # -1
      /\ n = size[v]
      /\ \A j \in 1..ArraySize(size[v])-1 : Leads(mem[Element(v, j)], From)
      /\ v \in AddressesOf(heap2) /\ n \in Nat
      /\ ArraySize(n) \in Nat /\ ArraySize(n) >= 2
      /\ 1 \in 1..ArraySize(size[v])-1
      /\ k = Base(heap) + 8 * words[heap] /\ k \in Int
      /\ k \in AddressesOf(heap) /\ k \in Address
      /\ v \in Address /\ w \in Address /\ v # w
      /\ mem' \in [Address -> Int] /\ mem'[v] = -1
      /\ mem'[w] = k /\ mem'[k] = n
      /\ \A a \in AddressesOf(heap2) : a # v /\ a # w => mem'[a] = mem[a]
      /\ \A o \in From : o # v =>
            /\ mem'[o] = mem[o]
            /\ \A j \in 1..ArraySize(size[o])-1 : mem'[Element(o, j)] = mem[Element(o, j)]
      /\ \A a \in AddressesOf(heap) : a # k => mem'[a] = mem[a]
      /\ \A c \in To : c \in AddressesOf(heap) /\ c # k /\ mem'[c] = mem[c]
      /\ words' \in [Heaps -> 0..HEAP_SIZE] /\ words'[heap2] = words[heap2]
      /\ words'[heap] = Cardinality(Gone(From, size)')
      /\ k \notin To /\ Tiles(To \union {k}, mem', heap, words'[heap])
  BY <1>2, CopyArrayHeap
<1> HIDE DEF v, w, k, n
<1>5. PICK To2 : To2 = To \union {k}
  OBVIOUS
<1>6. heap2' = heap2 /\ Usable' = Usable /\ StackTop' = StackTop /\ FwFill' = FwFill
       /\ DataSize' = DataSize
  BY <1>1 DEF heap2, Usable, StackTop, FwFill, FwSize, DataSize
<1>7. \A x : Leads(x, To) => Leads(x, To2)
  BY <1>5 DEF Leads
<1>8. OldHeap(From, size)'
  BY <1>1, <1>2, <1>4, <1>6 DEF Collection, OldHeap
<1>9. NewHeap(From, size, To2)'
  BY <1>1, <1>4, <1>5 DEF NewHeap
<1>10. Arrays(From, size, To2)'
  <2> SUFFICES ASSUME NEW o \in From
               PROVE  IF mem'[o] = -1 THEN mem'[Element(o, 1)] \in To2
                      ELSE /\ mem'[o] = size[o]
                           /\ \A j \in 1..ArraySize(size[o])-1 : Leads(mem'[Element(o, j)], From)
    BY DEF Arrays
  <2>1. CASE o = v
    BY <1>4, <1>5, <2>1 DEF w
  <2>2. CASE o # v
    <3>1. 1 \in 1..ArraySize(size[o])-1
      BY <1>3, TileBounds
    <3> QED
      BY <1>2, <1>4, <1>5, <2>2, <3>1 DEF Collection, Arrays
  <2> QED
    BY <2>1, <2>2
<1>11. ASSUME NEW c \in To, NEW m \in Nat, m <= ArraySize(mem[c]), Filled(mem, valid, c, m, To)
       PROVE  Filled(mem', valid', c, m, To2)
  <2>1. ASSUME NEW j \in 1..m-1
        PROVE  ~valid'[Element(c, j)] /\ Leads(mem'[Element(c, j)], To2)
    <3>1. ArraySize(mem[c]) \in Nat
      BY <1>3, TileBounds
    <3>2. j \in 1..ArraySize(mem[c])-1
      BY <1>11, <3>1
    <3>3. Element(c, j) \in AddressesOf(heap) /\ Element(c, j) < Base(heap) + 8 * words[heap]
      BY <1>3, <3>2, Inner
    <3>4. Element(c, j) # k
      <4>1. Element(c, j) \in Int /\ k = Base(heap) + 8 * words[heap] /\ k \in Int
        BY <1>3, <1>4, <3>3, AddressBounds
      <4> QED
        BY <3>3, <4>1
    <3>5. mem'[Element(c, j)] = mem[Element(c, j)]
      BY <1>4, <3>3, <3>4
    <3> QED
      BY <1>1, <1>7, <1>11, <3>5 DEF Filled
  <2> QED
    BY <1>1, <1>11, <2>1 DEF Filled
<1> DEFINE g == [old |-> v, new |-> k, size |-> n, i |-> 1]
           L == Len(frames)
<1>12. g \in CallRecord /\ frames' = Append(frames, g)
  BY <1>1, <1>4 DEF CallRecord, v, k, n
<1>13. g.old = v /\ g.new = k /\ g.size = n /\ g.i = 1
  OBVIOUS
<1> HIDE DEF g
<1>14. /\ L \in Nat /\ frames' \in Seq(CallRecord) /\ frames' # <<>>
       /\ DOMAIN frames = 1..L /\ DOMAIN frames' = 1..L+1
       /\ \A l \in 1..L : frames'[l] = frames[l]
       /\ frames'[L+1] = g
  BY <1>3, <1>12
<1> HIDE DEF L
<1>15. ASSUME NEW l \in 1..L PROVE Waits(mem', valid', frames[l], From, size, To2)
  <2>1. PICK f : f = frames[l]
    OBVIOUS
  <2>2. Waits(mem, valid, f, From, size, To)
    BY <1>2, <1>14, <2>1 DEF Collection, Calls
  <2>3. /\ f.old \in From /\ mem[f.old] = -1 /\ f.size = size[f.old] /\ f.new \in To
        /\ mem[f.new] = f.size /\ f.i \in 1..ArraySize(f.size)-1
        /\ Filled(mem, valid, f.new, f.i, To)
    BY <2>2 DEF Waits
  <2>4. f.i \in Nat /\ f.i <= ArraySize(mem[f.new]) /\ ArraySize(f.size) \in Nat
    <3>1. ArraySize(mem[f.new]) \in Nat
      BY <1>3, <2>3, TileBounds
    <3> QED
      BY <2>3, <3>1
  <2>5. Filled(mem', valid', f.new, f.i, To2)
    BY <1>11, <2>3, <2>4
  <2>6. f.old # v
    BY <1>4, <2>3 DEF n
  <2>7. \A j \in f.i+1..ArraySize(f.size)-1 : Leads(mem'[Element(f.old, j)], From)
    <3>1. \A j \in f.i+1..ArraySize(f.size)-1 : j \in 1..ArraySize(size[f.old])-1
      BY <2>3, <2>4
    <3> QED
      BY <1>4, <2>2, <2>3, <2>6, <3>1 DEF Waits
  <2>8. Waits(mem', valid', f, From, size, To2)
    BY <1>4, <1>5, <2>3, <2>5, <2>6, <2>7 DEF Waits
  <2> QED
    BY <2>1, <2>8
<1>16. Waits(mem', valid', g, From, size, To2)
  <2>1. Filled(mem', valid', k, 1, To2)
    BY DEF Filled
  <2>2. ASSUME NEW j \in 2..ArraySize(n)-1 PROVE Leads(mem'[Element(v, j)], From)
    <3>1. j \in 1..ArraySize(size[v])-1 /\ j # 1
      BY <1>4
    <3>2. Element(v, j) \in AddressesOf(heap2) /\ Element(v, j) # v /\ Element(v, j) # w
      BY <1>3, <1>4, <3>1, Inner DEF w
    <3> QED
      BY <1>4, <3>1, <3>2
  <2>3. PICK f : f = g
    OBVIOUS
  <2>4. f.old = v /\ f.new = k /\ f.size = n /\ f.i = 1
    BY <1>13, <2>3
  <2>5. f.i + 1 = 2 /\ f.i \in 1..ArraySize(f.size)-1
    BY <1>4, <2>4
  <2>6. Waits(mem', valid', f, From, size, To2)
    BY <1>4, <1>5, <2>1, <2>2, <2>4, <2>5 DEF Waits
  <2> QED
    BY <2>3, <2>6
<1>17. \A l \in 1..L+1 : l \in 1..L \/ l = L+1
  BY <1>14
<1>18. \A l \in 1..L : frames[l].new \in To
  BY <1>2, <1>14 DEF Collection, Calls, Waits
<1>19. Calls(From, size, To2)'
  <2>1. \A l \in DOMAIN frames' : Waits(mem', valid', frames'[l], From, size, To2)
    BY <1>14, <1>15, <1>16, <1>17
  <2>2. \A l, m \in DOMAIN frames' : l # m => frames'[l].new # frames'[m].new
    <3> SUFFICES ASSUME NEW l \in DOMAIN frames', NEW m \in DOMAIN frames', l # m
                 PROVE  frames'[l].new # frames'[m].new
      OBVIOUS
    <3>1. CASE l \in 1..L /\ m \in 1..L
      BY <1>2, <1>14, <3>1 DEF Collection, Calls
    <3>2. CASE l = L+1 /\ m \in 1..L
      BY <1>4, <1>13, <1>14, <1>18, <3>2
    <3>3. CASE l \in 1..L /\ m = L+1
      BY <1>4, <1>13, <1>14, <1>18, <3>3
    <3> QED
      BY <1>14, <1>17, <3>1, <3>2, <3>3
  <2>3. ASSUME NEW c \in To2, \A l \in DOMAIN frames' : frames'[l].new # c
        PROVE  Filled(mem', valid', c, ArraySize(mem'[c]), To2)
    <3>1. L+1 \in DOMAIN frames' /\ \A l \in 1..L : l \in DOMAIN frames'
      BY <1>14
    <3>2. c \in To
      BY <1>5, <1>13, <1>14, <2>3, <3>1
    <3>3. \A l \in DOMAIN frames : frames[l].new # c
      BY <1>14, <2>3, <3>1
    <3>4. Filled(mem, valid, c, ArraySize(mem[c]), To)
      BY <1>2, <3>2, <3>3 DEF Collection, Calls
    <3>5. ArraySize(mem[c]) \in Nat /\ ArraySize(mem[c]) <= ArraySize(mem[c])
      BY <1>3, <3>2, TileBounds
    <3>6. Filled(mem', valid', c, ArraySize(mem[c]), To2)
      BY <1>11, <3>2, <3>4, <3>5
    <3> QED
      BY <1>4, <3>2, <3>6
  <2> QED
    BY <2>1, <2>2, <2>3 DEF Calls
<1>20. StackScanned(From, To2)'
  <2>1. Leads(FwFill', From)
    BY <1>2, <1>6 DEF Collection, StackScanned
  <2>2. ASSUME NEW p \in defined
        PROVE  Leads(word[At(p)], IF At(p) < scan THEN To2 ELSE From)
    <3>1. Leads(word[At(p)], IF At(p) < scan THEN To ELSE From)
      BY <1>2 DEF Collection, StackScanned
    <3> QED
      BY <1>7, <3>1
  <2>3. \A p \in defined : At(p)' = At(p)
    BY <1>1, AtSame
  <2> QED
    BY <1>1, <2>1, <2>2, <2>3 DEF StackScanned
<1>21. value' = mem[w] /\ Leads(mem[w], From) /\ mem[w] \in Int
  <2>1. Leads(mem[Element(v, 1)], From)
    BY <1>4
  <2>2. value' = mem[Element(v, 1)] /\ w = Element(v, 1)
    BY <1>1 DEF v, w
  <2> QED
    BY <1>3, <1>4, <2>1, <2>2
<1>22. Value(From, To2)'
  BY <1>1, <1>14, <1>21 DEF Value
<1>23. TypeOK'
  <2>1. mem' \in [Address -> Int]
    BY <1>4
  <2>2. name' \in [Address -> Ids \union {0}]
    BY <1>1, <1>4 DEF IInv, TypeOK, v
  <2>3. frames' \in Seq([old: Address, new: Address, size: Nat, i: Nat])
    BY <1>14 DEF CallRecord
  <2> QED
    BY <1>1, <1>4, <1>21, <2>1, <2>2, <2>3 DEF IInv, TypeOK
<1>24. Frame'
  BY <1>1, <1>6 DEF IInv, Frame, Running
<1> QED
  BY <1>1, <1>8, <1>9, <1>10, <1>19, <1>20, <1>22, <1>23, <1>24 DEF IInv, Collection

-----------------------------------------------------------------------------
(***************************************************************************)
(* The theorems                                                            *)
(***************************************************************************)
LEMMA StutterIInv == IInv /\ UNCHANGED vars => IInv'
<1> SUFFICES ASSUME IInv, UNCHANGED vars PROVE IInv'
  OBVIOUS
<1>1. UNCHANGED <<mem, valid, heap, words, name, word, rsp, defined, value, frames, scan,
                  control, request>>
  BY DEF vars, memory, program, collector
<1>2. TypeOK' /\ Frame' /\ Collecting' = Collecting
  BY <1>1 DEF IInv, TypeOK, Frame, Running, Collecting, Usable, DataSize, FwSize, StackTop
<1>3. ~Collecting => Quiet'
  <2>1. Starts' = Starts /\ FwFill' = FwFill
    BY <1>1 DEF Starts, allocptr, FwFill
  <2>2. ASSUME NEW p PROVE Root(p)' = Root(p)
    BY <1>1 DEF Root, SavedAt
  <2> QED
    BY <1>1, <2>1, <2>2 DEF IInv, Quiet
<1>4. ASSUME NEW From, NEW size, NEW To, Collection(From, size, To)
      PROVE  Collection(From, size, To)'
  <2>1. heap2' = heap2 /\ FwFill' = FwFill /\ Gone(From, size)' = Gone(From, size)
    BY <1>1 DEF heap2, FwFill, Gone
  <2>2. \A p : At(p)' = At(p)
    BY <1>1, AtSame
  <2> QED
    BY <1>1, <1>4, <2>1, <2>2 DEF Collection, OldHeap, NewHeap, Arrays, Calls, StackScanned, Value
<1> QED
  BY <1>2, <1>3, <1>4 DEF IInv

LEMMA NextIInv == IInv /\ [Next]_vars => IInv'
BY SetNumberIInv, MoveIInv, LoadIInv, StoreIInv, StackStepIInv, AllocateIInv, ExitIInv,
   StartGCIInv, GrantIInv, CopyNothingIInv, CopyForwardedIInv, CopyArrayIInv,
   ArrayCopiedIInv, StutterIInv DEF Next, Program, Helper, GC

\* The invariant holds at every step of a program, of allocate and of gc_copy.
THEOREM Invariance == Spec => []IInv
<1>1. Init => IInv
  BY InitIInv
<1>2. IInv /\ [Next]_vars => IInv'
  BY NextIInv
<1> QED
  BY <1>1, <1>2, PTL DEF Spec

\* gc_copy never writes past the end of the new heap: the copies take no more words
\* than the program had been given.
THEOREM CopiesAlwaysFit == Spec => []CopiesFit
<1>1. IInv => CopiesFit
  BY IInvCopiesFit
<1> QED
  BY <1>1, Invariance, PTL

LEMMA IInvHeapWellFormed == IInv => HeapWellFormed
<1> SUFFICES ASSUME IInv, ~Collecting
             PROVE  /\ \A a \in AddressesOf(heap) : a < allocptr =>
                          Cardinality({b \in Starts : b <= a /\ a < Element(b, ArraySize(mem[b]))}) = 1
                    /\ \A a \in Starts : \A i \in 1..mem[a] :
                          IsPointer(mem[Element(a, i)]) => mem[Element(a, i)] \in Starts
                    /\ \A p \in defined : IsPointer(Root(p)) => Root(p) \in Starts
  BY DEF HeapWellFormed, IInv
<1>1. /\ heap \in Heaps /\ words[heap] \in Nat /\ Tiles(Starts, mem, heap, words[heap])
      /\ \A p \in defined : Leads(Root(p), Starts)
  BY QuietState
<1>2. ASSUME NEW a \in AddressesOf(heap), a < allocptr
      PROVE  Cardinality({b \in Starts : b <= a /\ a < Element(b, ArraySize(mem[b]))}) = 1
  <2>1. PICK s \in Starts : s <= a /\ a < End(s, mem[s])
    BY <1>1, <1>2 DEF Tiles, allocptr
  <2>2. ASSUME NEW b \in Starts, b <= a, a < End(b, mem[b]) PROVE b = s
    <3>1. /\ b \in Int /\ s \in Int /\ a \in Int
          /\ End(b, mem[b]) \in Int /\ End(s, mem[s]) \in Int
      <4>1. \A t \in Starts : /\ t \in Int /\ ArraySize(mem[t]) \in Nat
                              /\ End(t, mem[t]) = t + 8 * ArraySize(mem[t])
        BY <1>1, TileBounds
      <4>2. \A t \in Starts : End(t, mem[t]) \in Int
        BY <4>1
      <4> QED
        BY <1>1, <4>1, <4>2, AddressBounds
    <3>2. (b < s => End(b, mem[b]) <= s) /\ (s < b => End(s, mem[s]) <= b)
      BY <1>1 DEF Tiles
    <3> QED
      BY <2>1, <2>2, <3>1, <3>2
  <2>3. {b \in Starts : b <= a /\ a < Element(b, ArraySize(mem[b]))} = {s}
    BY <2>1, <2>2 DEF End
  <2> QED
    BY <2>3, FS_Singleton
<1>3. \A a \in Starts : \A i \in 1..mem[a] :
        IsPointer(mem[Element(a, i)]) => mem[Element(a, i)] \in Starts
  BY ElementLeads DEF Leads
<1> QED
  BY <1>1, <1>2, <1>3 DEF Leads

\* Between collections the heap in use is a sequence of arrays with the flags at their
\* starts, and no pointer of the program or of an array dangles.
THEOREM HeapAlwaysWellFormed == Spec => []HeapWellFormed
<1>1. IInv => HeapWellFormed
  BY IInvHeapWellFormed
<1> QED
  BY <1>1, Invariance, PTL

-----------------------------------------------------------------------------
(***************************************************************************)
(* Arrays within reach.  f holds the elements of the arrays by their names;*)
(* a set of names is closed when it holds what its arrays hold, and the    *)
(* arrays within reach of some values are those of every closed set with   *)
(* these values.                                                           *)
(***************************************************************************)
Closed(S, f) == \A a \in S : \A v \in Range(f[a]) : v \in DOMAIN f => v \in S

Span(V, f) ==
  {d \in DOMAIN f : \A S \in SUBSET DOMAIN f :
                       V \intersect DOMAIN f \subseteq S /\ Closed(S, f) => d \in S}

\* A nonempty set of numbers has a least one.
LEMMA LeastNumber ==
  ASSUME NEW T, T \subseteq Nat, T # {}
  PROVE  \E x \in T : \A y \in T : x <= y
<1>1. IsWellFoundedOn(OpToRel(<,Nat), Nat)
  BY NatLessThanWellFounded
<1>2. PICK x \in T : \A y \in T : <<y, x>> \notin OpToRel(<,Nat)
  BY <1>1, WFMin
<1>3. \A y \in T : ~(y < x)
  BY <1>2 DEF OpToRel
<1> QED
  BY <1>3

LEMMA SpanContains ==
  ASSUME NEW V, NEW f
  PROVE  /\ Span(V, f) \subseteq DOMAIN f
         /\ V \intersect DOMAIN f \subseteq Span(V, f)
         /\ Closed(Span(V, f), f)
BY DEF Span, Closed

LEMMA SpanLeast ==
  ASSUME NEW V, NEW f, NEW S, S \subseteq DOMAIN f,
         V \intersect DOMAIN f \subseteq S, Closed(S, f)
  PROVE  Span(V, f) \subseteq S
BY DEF Span

\* Two stores that agree on a closed set have the same arrays within reach of it.
LEMMA SpanSame ==
  ASSUME NEW V, NEW f, NEW g, NEW C, C \subseteq DOMAIN f, C \subseteq DOMAIN g,
         \A a \in C : f[a] = g[a],
         V \intersect DOMAIN f \subseteq C, V \intersect DOMAIN g \subseteq C,
         Closed(C, f), Closed(C, g)
  PROVE  /\ Span(V, f) = Span(V, g) /\ Span(V, f) \subseteq C
         /\ Restrict(f, Span(V, f)) = Restrict(g, Span(V, g))
<1>1. Span(V, f) \subseteq C /\ Span(V, g) \subseteq C
  BY SpanLeast
<1>2. Span(V, f) \subseteq Span(V, g)
  <2>1. Closed(Span(V, g), f)
    BY <1>1, SpanContains DEF Closed
  <2>2. V \intersect DOMAIN f \subseteq Span(V, g)
    BY SpanContains
  <2> QED
    BY <1>1, <2>1, <2>2, SpanLeast
<1>3. Span(V, g) \subseteq Span(V, f)
  <2>1. Closed(Span(V, f), g)
    BY <1>1, SpanContains DEF Closed
  <2>2. V \intersect DOMAIN g \subseteq Span(V, f)
    BY SpanContains
  <2> QED
    BY <1>1, <2>1, <2>2, SpanLeast
<1> QED
  BY <1>1, <1>2, <1>3 DEF Restrict

-----------------------------------------------------------------------------
(***************************************************************************)
(* Sets that are reached step by step: a first one, and F makes each of    *)
(* them out of the one before.                                             *)
(***************************************************************************)
Steps(g, N, V, F) == g[0] = V /\ \A n \in 1..N : g[n] = F[g[n-1]]

LEMMA StepsExist ==
  ASSUME NEW D, NEW V \in SUBSET D, NEW F \in [SUBSET D -> SUBSET D], NEW N \in Nat
  PROVE  \E g \in [0..N -> SUBSET D] : Steps(g, N, V, F)
<1> DEFINE Has(m) == \E g \in [0..m -> SUBSET D] : Steps(g, m, V, F)
           Bad == {m \in Nat : ~Has(m)}
<1> SUFFICES ASSUME Bad # {} PROVE FALSE
  OBVIOUS
<1> HIDE DEF Has
<1>1. PICK m \in Bad : \A k \in Bad : m <= k
  BY LeastNumber
<1>2. Has(0)
  <2> DEFINE g == [n \in 0..0 |-> V]
  <2>1. g \in [0..0 -> SUBSET D] /\ Steps(g, 0, V, F)
    BY DEF Steps
  <2> HIDE DEF g
  <2> QED
    BY <2>1 DEF Has
<1>3. m \in Nat /\ m # 0 /\ m-1 \in Nat
  BY <1>1, <1>2
<1>4. Has(m-1)
  BY <1>1, <1>3
<1>5. PICK g \in [0..m-1 -> SUBSET D] : Steps(g, m-1, V, F)
  BY <1>4 DEF Has
<1> DEFINE h == [n \in 0..m |-> IF n = m THEN F[g[m-1]] ELSE g[n]]
<1>6. h \in [0..m -> SUBSET D]
  <2>1. \A n \in 0..m : n # m => n \in 0..m-1
    BY <1>3
  <2>2. g[m-1] \in SUBSET D
    BY <1>3, <1>5
  <2> QED
    BY <2>1, <2>2, <1>5
<1>7. Steps(h, m, V, F)
  <2>1. h[0] = V
    BY <1>3, <1>5 DEF Steps
  <2>2. ASSUME NEW n \in 1..m PROVE h[n] = F[h[n-1]]
    <3>1. n \in 0..m /\ n-1 \in 0..m /\ n-1 # m /\ n-1 \in 0..m-1
      BY <1>3
    <3>2. h[n-1] = g[n-1]
      BY <3>1
    <3>3. CASE n = m
      BY <3>1, <3>2, <3>3
    <3>4. CASE n # m
      <4>1. n \in 1..m-1 /\ h[n] = g[n]
        BY <3>1, <3>4, <1>3
      <4> QED
        BY <4>1, <3>2, <1>5 DEF Steps
    <3> QED
      BY <3>3, <3>4
  <2> QED
    BY <2>1, <2>2 DEF Steps
<1> HIDE DEF h
<1>8. Has(m)
  BY <1>6, <1>7 DEF Has
<1> QED
  BY <1>1, <1>8

\* In a finite set they stop growing when there have been as many steps as it has
\* elements.
LEMMA StepsSaturate ==
  ASSUME NEW D, IsFiniteSet(D), NEW V, NEW F \in [SUBSET D -> SUBSET D], NEW N \in Nat,
         Cardinality(D) <= N, NEW g \in [0..N -> SUBSET D], Steps(g, N, V, F),
         \A n \in 1..N : g[n-1] \subseteq g[n]
  PROVE  F[g[N]] \subseteq g[N]
<1>1. CASE \E k \in 1..N : g[k-1] = g[k]
  <2>1. PICK k \in 1..N : g[k-1] = g[k]
    BY <1>1
  <2> DEFINE Bad == {n \in Nat : k <= n /\ n <= N /\ F[g[n]] # g[n]}
  <2>2. F[g[k]] = g[k]
    <3>1. g[k] = F[g[k-1]]
      BY DEF Steps
    <3> QED
      BY <2>1, <3>1
  <2>3. SUFFICES ASSUME Bad # {} PROVE FALSE
    <3>1. N \notin Bad
      BY <2>3
    <3>2. k <= N
      OBVIOUS
    <3> QED
      BY <3>1, <3>2
  <2>4. PICK m \in Bad : \A n \in Bad : m <= n
    BY <2>3, LeastNumber
  <2>5. m \in Nat /\ k < m /\ m <= N /\ m-1 \in Nat /\ m-1 \notin Bad
    BY <2>2, <2>4
  <2>6. F[g[m-1]] = g[m-1]
    BY <2>5
  <2>7. m \in 1..N
    BY <2>5
  <2>8. g[m] = F[g[m-1]]
    BY <2>7 DEF Steps
  <2> QED
    BY <2>4, <2>6, <2>8
<1>2. CASE \A k \in 1..N : g[k-1] # g[k]
  <2> DEFINE Bad == {n \in Nat : n <= N /\ ~(n <= Cardinality(g[n]))}
  <2>1. \A n \in 0..N : IsFiniteSet(g[n]) /\ Cardinality(g[n]) \in Nat
                        /\ Cardinality(g[n]) <= Cardinality(D)
    BY FS_Subset, FS_CardinalityType
  <2>2. Bad = {}
    <3> SUFFICES ASSUME Bad # {} PROVE FALSE
      OBVIOUS
    <3>1. PICK m \in Bad : \A n \in Bad : m <= n
      BY LeastNumber
    <3>2. m # 0
      BY <2>1, <3>1
    <3>3. m \in 1..N /\ m-1 \in 0..N /\ m \in 0..N /\ m-1 \notin Bad
      BY <3>1, <3>2
    <3>4. m-1 <= Cardinality(g[m-1])
      BY <3>3
    <3>5. g[m-1] \subseteq g[m] /\ g[m-1] # g[m]
      BY <1>2, <3>3
    <3>6. IsFiniteSet(g[m]) /\ Cardinality(g[m-1]) <= Cardinality(g[m])
          /\ Cardinality(g[m-1]) # Cardinality(g[m])
      BY <2>1, <3>3, <3>5, FS_Subset
    <3>7. Cardinality(g[m-1]) \in Nat /\ Cardinality(g[m]) \in Nat
      BY <2>1, <3>3
    <3> QED
      BY <3>1, <3>3, <3>4, <3>6, <3>7
  <2>3. N <= Cardinality(g[N])
    BY <2>2
  <2>4. g[N] \subseteq D /\ Cardinality(g[N]) = Cardinality(D)
    <3>1. Cardinality(D) \in Nat
      BY FS_CardinalityType
    <3> QED
      BY <2>1, <2>3, <3>1
  <2>5. g[N] = D
    BY <2>4, FS_Subset
  <2> QED
    BY <2>5
<1> QED
  BY <1>1, <1>2

\* One more step from a set of arrays
Further(V, f) ==
  [T \in SUBSET DOMAIN f |-> DOMAIN f \intersect (V \union UNION {Range(f[a]) : a \in T})]

LEMMA FurtherIn ==
  ASSUME NEW V, NEW f
  PROVE  /\ Further(V, f) \in [SUBSET DOMAIN f -> SUBSET DOMAIN f]
         /\ \A T \in SUBSET DOMAIN f : \A d \in DOMAIN f :
               d \in Further(V, f)[T] <=> d \in V \/ \E a \in T : d \in Range(f[a])
BY DEF Further

LEMMA StepsSpan ==
  ASSUME NEW V, NEW f, IsFiniteSet(DOMAIN f), NEW N \in Nat,
         Cardinality(DOMAIN f) <= N, NEW g \in [0..N -> SUBSET DOMAIN f],
         Steps(g, N, V \intersect DOMAIN f, Further(V, f))
  PROVE  g[N] = Span(V, f)
<1>1. \A n \in 0..N : g[n] \in SUBSET DOMAIN f
  OBVIOUS
<1>2. ASSUME NEW n \in 1..N
      PROVE  \A d \in DOMAIN f : d \in g[n] <=> d \in V \/ \E a \in g[n-1] : d \in Range(f[a])
  <2>1. g[n] = Further(V, f)[g[n-1]] /\ n-1 \in 0..N
    BY DEF Steps
  <2>2. g[n-1] \in SUBSET DOMAIN f
    BY <1>1, <2>1
  <2> QED
    BY <2>1, <2>2, FurtherIn
<1>3. g[0] = V \intersect DOMAIN f
  BY DEF Steps
<1>4. \A n \in 1..N : g[n-1] \subseteq g[n]
  <2> DEFINE Bad == {n \in Nat : n \in 1..N /\ ~(g[n-1] \subseteq g[n])}
  <2> SUFFICES ASSUME Bad # {} PROVE FALSE
    <3>1. \A n \in 1..N : n \in Nat
      OBVIOUS
    <3> QED
      BY <3>1
  <2>1. PICK m \in Bad : \A n \in Bad : m <= n
    BY LeastNumber
  <2>2. m \in 1..N /\ m-1 \in 0..N /\ m-1 \in Nat
    BY <2>1
  <2>3. PICK d \in g[m-1] : d \notin g[m]
    BY <2>1
  <2>4. d \in DOMAIN f
    BY <1>1, <2>2, <2>3
  <2>5. m-1 # 0
    BY <1>2, <1>3, <2>2, <2>3, <2>4
  <2>6. m-1 \in 1..N /\ m-1 \notin Bad
    BY <2>1, <2>2, <2>5
  <2>7. g[m-1-1] \subseteq g[m-1]
    BY <2>2, <2>6
  <2>8. d \in V \/ \E a \in g[m-1-1] : d \in Range(f[a])
    BY <1>2, <2>3, <2>4, <2>6
  <2>9. d \in V \/ \E a \in g[m-1] : d \in Range(f[a])
    BY <2>7, <2>8
  <2> QED
    BY <1>2, <2>2, <2>3, <2>4, <2>9
<1>5. g[N] \subseteq Span(V, f)
  <2> DEFINE Bad == {n \in Nat : n \in 0..N /\ ~(g[n] \subseteq Span(V, f))}
  <2> SUFFICES ASSUME Bad # {} PROVE FALSE
    OBVIOUS
  <2>1. PICK m \in Bad : \A n \in Bad : m <= n
    BY LeastNumber
  <2>2. m \in 0..N
    BY <2>1
  <2>3. PICK d \in g[m] : d \notin Span(V, f)
    BY <2>1
  <2>4. d \in DOMAIN f
    BY <1>1, <2>2, <2>3
  <2>5. m # 0 /\ d \notin V
    BY <1>3, <2>3, <2>4, SpanContains
  <2>6. m \in 1..N /\ m-1 \in 0..N /\ m-1 \in Nat /\ m-1 \notin Bad
    BY <2>1, <2>2, <2>5
  <2>7. PICK a \in g[m-1] : d \in Range(f[a])
    BY <1>2, <2>3, <2>4, <2>5, <2>6
  <2>8. a \in Span(V, f)
    BY <2>6, <2>7
  <2> QED
    BY <2>3, <2>4, <2>7, <2>8, SpanContains DEF Closed
<1>6. Span(V, f) \subseteq g[N]
  <2>1. Further(V, f)[g[N]] \subseteq g[N]
    <3>1. Further(V, f) \in [SUBSET DOMAIN f -> SUBSET DOMAIN f]
      BY FurtherIn
    <3> QED
      BY <1>4, <3>1, StepsSaturate
  <2>2. g[N] \in SUBSET DOMAIN f
    BY <1>1
  <2>3. V \intersect DOMAIN f \subseteq g[N] /\ Closed(g[N], f)
    BY <2>1, <2>2, FurtherIn DEF Closed
  <2> QED
    BY <2>2, <2>3, SpanLeast
<1> QED
  BY <1>5, <1>6

\* What ObjectStore computes is what is within reach.
LEMMA WithinIsSpan ==
  ASSUME NEW V, NEW f, IsFiniteSet(DOMAIN f)
  PROVE  Promise!Within(V, f) = Span(V, f)
<1> DEFINE N == Cardinality(DOMAIN f)
           Is(h) == h = [n \in 0..N |->
                           DOMAIN f \intersect
                             (V \union IF n = 0 THEN {} ELSE UNION {Range(f[a]) : a \in h[n-1]})]
           c == CHOOSE h : Is(h)
<1>1. N \in Nat
  BY FS_CardinalityType
<1>2. Promise!Within(V, f) = c[N]
  BY DEF Promise!Within, Range, Promise!Range, Cardinality, Promise!Cardinality
<1>3. PICK g \in [0..N -> SUBSET DOMAIN f] : Steps(g, N, V \intersect DOMAIN f, Further(V, f))
  <2>1. V \intersect DOMAIN f \in SUBSET DOMAIN f
    OBVIOUS
  <2> QED
    BY <1>1, <2>1, FurtherIn, StepsExist
<1>4. Is(g)
  <2>1. ASSUME NEW n \in 0..N
        PROVE  g[n] = DOMAIN f \intersect
                        (V \union IF n = 0 THEN {} ELSE UNION {Range(f[a]) : a \in g[n-1]})
    <3>1. CASE n = 0
      BY <1>3, <3>1 DEF Steps
    <3>2. CASE n # 0
      <4>1. n \in 1..N /\ n-1 \in 0..N
        BY <1>1, <3>2
      <4>2. g[n] = Further(V, f)[g[n-1]]
        BY <1>3, <4>1 DEF Steps
      <4>3. g[n-1] \in SUBSET DOMAIN f
        BY <4>1
      <4>4. g[n] = DOMAIN f \intersect (V \union UNION {Range(f[a]) : a \in g[n-1]})
        BY <4>2, <4>3 DEF Further
      <4> QED
        BY <3>2, <4>4
    <3> QED
      BY <3>1, <3>2
  <2> HIDE DEF N
  <2> QED
    BY <2>1
<1> HIDE DEF Is
<1>5. Is(c)
  BY <1>4
<1> USE DEF Is
<1> HIDE DEF c, N
<1>6. c = [n \in 0..N |-> DOMAIN f \intersect
              (V \union IF n = 0 THEN {} ELSE UNION {Range(f[a]) : a \in c[n-1]})]
  BY <1>5
<1> HIDE DEF Is
<1>7. DOMAIN c = 0..N /\ \A n \in 0..N : c[n] \in SUBSET DOMAIN f
  BY <1>6
<1>8. c \in [0..N -> SUBSET DOMAIN f]
  BY <1>6, <1>7
<1>9. Steps(c, N, V \intersect DOMAIN f, Further(V, f))
  <2>1. c[0] = V \intersect DOMAIN f
    BY <1>1, <1>6
  <2>2. ASSUME NEW n \in 1..N PROVE c[n] = Further(V, f)[c[n-1]]
    <3>1. n \in 0..N /\ n # 0 /\ n-1 \in 0..N
      BY <1>1
    <3>2. c[n] = DOMAIN f \intersect (V \union UNION {Range(f[a]) : a \in c[n-1]})
      BY <1>6, <3>1
    <3>3. c[n-1] \in SUBSET DOMAIN f
      BY <1>7, <3>1
    <3> QED
      BY <3>2, <3>3 DEF Further
  <2> QED
    BY <2>1, <2>2 DEF Steps
<1>10. c[N] = Span(V, f)
  <2>1. Cardinality(DOMAIN f) <= N
    BY <1>1 DEF N
  <2> QED
    BY <1>1, <1>8, <1>9, <2>1, StepsSpan
<1> QED
  BY <1>2, <1>10

-----------------------------------------------------------------------------
(***************************************************************************)
(* The arrays of the heap by their names, which they keep when they are    *)
(* moved.  While a collection runs they are the arrays of the old heap,    *)
(* moved or not.                                                           *)
(***************************************************************************)
Originals ==
  IF Collecting
  THEN {a \in AddressesOf(heap2) : a < Base(heap2) + 8 * words[heap2] /\ valid[a]}
  ELSE Starts

\* Where the arrays of the heap in use start, during a collection too
Copies == CHOOSE S \in SUBSET AddressesOf(heap) : Tiles(S, mem, heap, words[heap])

Copy(o) == mem[Element(o, 1)]

Names == {name[o] : o \in Originals}
Contents == [id \in Names |-> ArrayAt(Where(id))]

\* No two arrays have one name, and only an array and its copy have the same.
Named ==
  /\ \A o \in Originals : name[o] \in Ids
  /\ \A o, q \in Originals : name[o] = name[q] => o = q
  /\ \A a \in Address : name[a] \in Ids => a \in Originals \/ (Collecting /\ a \in Copies)

\* The value gc is working on
Source == IF scan <= StackWords THEN word[scan] ELSE FwFill

\* A copy has the name of its original, and only what has been moved has a copy; the
\* outermost call of gc_copy is about the value gc is working on.
Moved ==
  /\ \A o \in Originals : Forwarded(o) => name[Copy(o)] = name[o]
  /\ \A c \in Copies : \E o \in Originals : Forwarded(o) /\ Copy(o) = c
  /\ \A k \in DOMAIN frames : frames[k].new = Copy(frames[k].old)
  /\ frames # <<>> => frames[1].old = Source
  /\ frames = <<>> /\ control = "copied"
        => Source \in Originals /\ Forwarded(Source) /\ Copy(Source) = value

\* The second word of an array without elements, which gc_copy copies like an
\* element, is not a pointer.
Padded ==
  /\ \A o \in Originals : mem[o] = 0 => ~IsPointer(mem[Element(o, 1)])
  /\ Collecting =>
       /\ \A c \in Copies : mem[c] = 0 /\ FrameOf(c) = {} => ~IsPointer(mem[Element(c, 1)])
       /\ \A k \in DOMAIN frames :
             frames[k].size = 0 => k = Len(frames) /\ control = "copy" /\ ~IsPointer(value)

\* Whatever has been copied was found: it is within reach of the words of the stack
\* that have been updated and of the value gc is working on.
Found ==
  \A S \in SUBSET Names :
     /\ Closed(S, Contents)
     /\ \A w \in StackTop..StackWords : w < scan /\ word[w] \in Copies => name[word[w]] \in S
     /\ Source \in Originals => name[Source] \in S
     => \A c \in Copies : name[c] \in S

\* After the collection everything is within reach of the stack and the fill value.
Kept ==
  control \in {"retry", "out of memory"} =>
     /\ request # <<>>
     /\ Names \subseteq Span({Meaning(word[w]) : w \in StackTop..StackWords}
                                \union {Meaning(FwFill)}, Contents)

SInv == /\ IInv /\ Named /\ Padded
        /\ Collecting => Moved /\ Found
        /\ Kept

-----------------------------------------------------------------------------
(***************************************************************************)
(* Where the arrays of a heap start follows from their sizes, so that the  *)
(* sets the invariant of a collection speaks of are these.                 *)
(***************************************************************************)
LEMMA TilesLower ==
  ASSUME NEW h \in Heaps, NEW n \in Nat, NEW S, NEW T, NEW size,
         Tiles(S, size, h, n), Tiles(T, size, h, n), NEW x \in S, x \notin T
  PROVE  \E t \in T : t < x /\ t \notin S
<1>1. /\ x \in AddressesOf(h) /\ x \in Int /\ ArraySize(size[x]) \in Nat
      /\ ArraySize(size[x]) >= 2 /\ End(x, size[x]) = x + 8 * ArraySize(size[x])
      /\ End(x, size[x]) <= Base(h) + 8 * n
  BY TileBounds
<1>2. x < Base(h) + 8 * n
  BY <1>1, BaseInt
<1>3. PICK t \in T : t <= x /\ x < End(t, size[t])
  BY <1>1, <1>2 DEF Tiles
<1>4. t \in Int /\ End(t, size[t]) \in Int
  BY TileBounds
<1>5. t < x
  BY <1>1, <1>3, <1>4
<1>6. t \in S => End(t, size[t]) <= x
  BY <1>5 DEF Tiles
<1> QED
  BY <1>1, <1>3, <1>4, <1>5, <1>6

LEMMA TilesEqual ==
  ASSUME NEW h \in Heaps, NEW n \in Nat, NEW S, NEW T, NEW size,
         Tiles(S, size, h, n), Tiles(T, size, h, n)
  PROVE  S = T
<1> DEFINE D == (S \ T) \union (T \ S)
<1>1. \A x \in S \union T : x \in Nat
  <2>1. \A x \in S : x \in Int /\ Base(h) <= x
    BY TileBounds
  <2>2. \A x \in T : x \in Int /\ Base(h) <= x
    BY TileBounds
  <2> QED
    BY <2>1, <2>2, BaseInt
<1> SUFFICES ASSUME D # {} PROVE FALSE
  OBVIOUS
<1>2. D \subseteq Nat
  BY <1>1
<1> HIDE DEF D
<1>3. PICK x \in D : \A y \in D : x <= y
  BY <1>2, LeastNumber
<1>4. ASSUME NEW y \in D, y < x PROVE FALSE
  <2>1. x \in Nat /\ y \in Nat /\ x <= y
    BY <1>2, <1>3, <1>4
  <2> QED
    BY <1>4, <2>1
<1>5. CASE x \in S /\ x \notin T
  BY <1>4, <1>5, TilesLower DEF D
<1>6. CASE x \in T /\ x \notin S
  BY <1>4, <1>6, TilesLower DEF D
<1> QED
  BY <1>3, <1>5, <1>6 DEF D

LEMMA CopiesAre ==
  ASSUME heap \in Heaps, words[heap] \in Nat, NEW S, Tiles(S, mem, heap, words[heap])
  PROVE  Copies = S
<1>1. S \in SUBSET AddressesOf(heap)
  BY DEF Tiles
<1>2. Tiles(Copies, mem, heap, words[heap])
  BY <1>1 DEF Copies
<1> QED
  BY <1>2, TilesEqual

LEMMA CollectionIs ==
  IInv /\ Collecting => \E size : Collection(Originals, size, Copies)
<1> SUFFICES ASSUME IInv, Collecting PROVE \E size : Collection(Originals, size, Copies)
  OBVIOUS
<1>1. PICK From, size, To : Collection(From, size, To)
  BY DEF IInv
<1>2. /\ heap \in Heaps /\ words[heap] \in Nat /\ Tiles(To, mem, heap, words[heap])
  BY <1>1, CollectionState
<1>3. Copies = To
  BY <1>2, CopiesAre
<1>4. Originals = From
  BY <1>1 DEF Originals, Collection, OldHeap
<1> QED
  BY <1>1, <1>3, <1>4

LEMMA OriginalsQuiet == ~Collecting => Originals = Starts
BY DEF Originals

-----------------------------------------------------------------------------
(***************************************************************************)
(* How the program's arrays are read while the collector runs              *)
(***************************************************************************)
LEMMA RawPlain ==
  \A b, i : (\A k \in DOMAIN frames : frames[k].new # b) => Raw(b, i) = mem[Element(b, i)]
<1> SUFFICES ASSUME NEW b, NEW i, \A k \in DOMAIN frames : frames[k].new # b
             PROVE  Raw(b, i) = mem[Element(b, i)]
  OBVIOUS
<1>1. FrameOf(b) = {}
  BY DEF FrameOf
<1> QED
  BY <1>1, Zenon DEF Raw

LEMMA RawWaiting ==
  \A b, i : \A k \in DOMAIN frames :
     frames[k].new = b /\ (\A l \in DOMAIN frames : frames[l].new = b => l = k)
       => Raw(b, i) = IF i < frames[k].i THEN mem[Element(b, i)]
                      ELSE IF i > frames[k].i THEN mem[Element(frames[k].old, i)]
                      ELSE InHand(k)
<1> SUFFICES ASSUME NEW b, NEW i, NEW k \in DOMAIN frames, frames[k].new = b,
                    \A l \in DOMAIN frames : frames[l].new = b => l = k
             PROVE  Raw(b, i) = IF i < frames[k].i THEN mem[Element(b, i)]
                                ELSE IF i > frames[k].i THEN mem[Element(frames[k].old, i)]
                                ELSE InHand(k)
  OBVIOUS
<1>1. FrameOf(b) = {k}
  BY DEF FrameOf
<1>2. (CHOOSE l \in FrameOf(b) : TRUE) = k /\ FrameOf(b) # {}
  BY <1>1
<1> QED
  BY <1>2, Zenon DEF Raw

LEMMA ArrayAtPlace == \A a, b : Place(a) = Place(b) => ArrayAt(a) = ArrayAt(b)
BY DEF ArrayAt

-----------------------------------------------------------------------------
(***************************************************************************)
(* Names                                                                   *)
(***************************************************************************)
WInv == IInv /\ Named /\ (Collecting => Moved)

\* The arrays of the old heap and the copies, and what is between them
LEMMA Halves ==
  IInv /\ Collecting =>
    /\ \A o \in Originals : /\ o \in AddressesOf(heap2) /\ o \in Address
                            /\ o \notin AddressesOf(heap) /\ o \notin Copies
                            /\ Forwarded(o) => Copy(o) \in Copies
    /\ \A c \in Copies : /\ c \in AddressesOf(heap) /\ c \in Address
                         /\ c \notin AddressesOf(heap2) /\ mem[c] \in Nat
<1> SUFFICES ASSUME IInv, Collecting
             PROVE  /\ \A o \in Originals : /\ o \in AddressesOf(heap2) /\ o \in Address
                                            /\ o \notin AddressesOf(heap) /\ o \notin Copies
                                            /\ Forwarded(o) => Copy(o) \in Copies
                    /\ \A c \in Copies : /\ c \in AddressesOf(heap) /\ c \in Address
                                         /\ c \notin AddressesOf(heap2) /\ mem[c] \in Nat
  OBVIOUS
<1>1. PICK size : Collection(Originals, size, Copies)
  BY CollectionIs
<1>2. /\ heap \in Heaps /\ heap2 \in Heaps /\ heap # heap2
      /\ words[heap] \in Nat /\ words[heap2] \in Nat
      /\ Tiles(Originals, size, heap2, words[heap2]) /\ Tiles(Copies, mem, heap, words[heap])
  BY <1>1, CollectionState
<1>3. \A o \in Originals : o \in AddressesOf(heap2)
  BY <1>2, TileBounds
<1>4. \A c \in Copies : c \in AddressesOf(heap) /\ mem[c] \in Nat
  BY <1>2, TileBounds
<1>5. \A o \in Originals : Forwarded(o) => Copy(o) \in Copies
  BY <1>1 DEF Collection, Arrays, Forwarded, Copy
<1>6. \A a \in AddressesOf(heap2) : a \notin AddressesOf(heap)
  BY <1>2, HeapsDisjoint
<1>7. \A a \in AddressesOf(heap2) \union AddressesOf(heap) : a \in Address
  BY <1>2, AddressBounds
<1> QED
  BY <1>3, <1>4, <1>5, <1>6, <1>7

\* An array is read in the same place under each of its addresses.
LEMMA PlaceOfName ==
  WInv => \A a, b \in Address : name[a] = name[b] /\ name[a] \in Ids => Place(a) = Place(b)
<1> SUFFICES ASSUME WInv, NEW a \in Address, NEW b \in Address, name[a] = name[b],
                    name[a] \in Ids
             PROVE  Place(a) = Place(b)
  OBVIOUS
<1>1. CASE ~Collecting
  BY <1>1 DEF WInv, Named, Place
<1>2. CASE Collecting
  <2>1. ASSUME NEW x \in Address, name[x] \in Ids
        PROVE  \E o \in Originals : name[o] = name[x] /\ Place(o) = Place(x)
    <3>1. CASE x \in Originals
      BY <3>1
    <3>2. CASE x \in Copies
      <4>1. PICK o \in Originals : Forwarded(o) /\ Copy(o) = x
        BY <1>2, <3>2 DEF WInv, Moved
      <4>2. name[o] = name[x]
        BY <1>2, <4>1 DEF WInv, Moved
      <4>3. Place(o) = x /\ Place(x) = x
        BY <1>2, <3>2, <4>1, Halves DEF WInv, Place, Copy
      <4> QED
        BY <4>2, <4>3
    <3> QED
      BY <2>1, <3>1, <3>2 DEF WInv, Named
  <2>2. PICK o \in Originals : name[o] = name[a] /\ Place(o) = Place(a)
    BY <2>1
  <2>3. PICK q \in Originals : name[q] = name[b] /\ Place(q) = Place(b)
    BY <2>1
  <2>4. o = q
    BY <2>2, <2>3 DEF WInv, Named
  <2> QED
    BY <2>2, <2>3, <2>4
<1> QED
  BY <1>1, <1>2

LEMMA ContentsAt ==
  WInv => \A a \in Address : name[a] \in Ids =>
             name[a] \in Names /\ Contents[name[a]] = ArrayAt(a)
<1> SUFFICES ASSUME WInv, NEW a \in Address, name[a] \in Ids
             PROVE  name[a] \in Names /\ Contents[name[a]] = ArrayAt(a)
  OBVIOUS
<1>1. name[a] \in Names
  BY DEF WInv, Named, Names, Moved
<1>2. Where(name[a]) \in Address /\ name[Where(name[a])] = name[a]
  BY DEF Where
<1>3. Place(Where(name[a])) = Place(a)
  BY <1>2, PlaceOfName
<1>4. ArrayAt(Where(name[a])) = ArrayAt(a)
  BY <1>3, ArrayAtPlace
<1> QED
  BY <1>1, <1>4 DEF Contents

\* The addresses of the arrays
Known == Originals \union (IF Collecting THEN Copies ELSE {})

LEMMA KnownNames ==
  WInv => /\ Known \subseteq Address
          /\ \A a \in Address : name[a] \in Ids <=> a \in Known
<1> SUFFICES ASSUME WInv
             PROVE  /\ Known \subseteq Address
                    /\ \A a \in Address : name[a] \in Ids <=> a \in Known
  OBVIOUS
<1>1. CASE ~Collecting
  <2>1. heap \in Heaps
    BY <1>1, QuietState DEF WInv
  <2>2. \A a \in Starts : a \in Address
    BY <2>1, AddressBounds DEF Starts
  <2>3. Known = Starts /\ Originals = Starts
    BY <1>1, OriginalsQuiet DEF Known
  <2> QED
    BY <1>1, <2>2, <2>3 DEF WInv, Named
<1>2. CASE Collecting
  <2>1. \A c \in Copies : c \in Address /\ name[c] \in Ids
    <3> SUFFICES ASSUME NEW c \in Copies PROVE c \in Address /\ name[c] \in Ids
      OBVIOUS
    <3>1. PICK o \in Originals : Forwarded(o) /\ Copy(o) = c
      BY <1>2 DEF WInv, Moved
    <3>2. name[c] = name[o] /\ name[o] \in Ids
      BY <1>2, <3>1 DEF WInv, Moved, Named
    <3> QED
      BY <1>2, <3>2, Halves DEF WInv
  <2>2. \A o \in Originals : o \in Address /\ name[o] \in Ids
    BY <1>2, Halves DEF WInv, Named
  <2>3. Known = Originals \union Copies
    BY <1>2 DEF Known
  <2> QED
    BY <1>2, <2>1, <2>2, <2>3 DEF WInv, Named
<1> QED
  BY <1>1, <1>2

\* An array that has not been moved is read where it is, any other in its copy.
LEMMA PlaceOfOriginal ==
  IInv /\ Collecting =>
     \A o \in Originals :
        /\ ~Forwarded(o) => /\ Place(o) = o /\ mem[o] \in Nat
                            /\ \A i : Raw(o, i) = mem[Element(o, i)]
        /\ Forwarded(o) => Place(o) = Copy(o) /\ Copy(o) \in Copies /\ mem[Copy(o)] \in Nat
<1> SUFFICES ASSUME IInv, Collecting, NEW o \in Originals
             PROVE  /\ ~Forwarded(o) => /\ Place(o) = o /\ mem[o] \in Nat
                                        /\ \A i : Raw(o, i) = mem[Element(o, i)]
                    /\ Forwarded(o) => /\ Place(o) = Copy(o) /\ Copy(o) \in Copies
                                       /\ mem[Copy(o)] \in Nat
  OBVIOUS
<1>1. PICK size : Collection(Originals, size, Copies)
  BY CollectionIs
<1>2. heap2 \in Heaps /\ words[heap2] \in Nat /\ Tiles(Originals, size, heap2, words[heap2])
  BY <1>1, CollectionState
<1>3. ASSUME ~Forwarded(o)
      PROVE  Place(o) = o /\ mem[o] \in Nat /\ \A i : Raw(o, i) = mem[Element(o, i)]
  <2>1. mem[o] = size[o] /\ size[o] \in Nat
    BY <1>1, <1>2, <1>3, TileBounds DEF Collection, Arrays, Forwarded
  <2>2. \A k \in DOMAIN frames : frames[k].new \in Copies
    BY <1>1 DEF Collection, Calls, Waits
  <2>3. \A k \in DOMAIN frames : frames[k].new # o
    BY <2>2, Halves
  <2> QED
    BY <1>3, <2>1, <2>3, RawPlain DEF Place
<1>4. ASSUME Forwarded(o)
      PROVE  Place(o) = Copy(o) /\ Copy(o) \in Copies /\ mem[Copy(o)] \in Nat
  BY <1>4, Halves DEF Place, Copy
<1> QED
  BY <1>3, <1>4

\* What an array holds are numbers and arrays.
LEMMA Visible ==
  WInv => \A a \in Known :
             /\ Place(a) \in Known /\ mem[Place(a)] \in Nat
             /\ \A i \in 1..mem[Place(a)] : /\ Raw(Place(a), i) \in Int
                                            /\ Leads(Raw(Place(a), i), Known)
<1> SUFFICES ASSUME WInv, NEW a \in Known
             PROVE  /\ Place(a) \in Known /\ mem[Place(a)] \in Nat
                    /\ \A i \in 1..mem[Place(a)] : /\ Raw(Place(a), i) \in Int
                                                   /\ Leads(Raw(Place(a), i), Known)
  OBVIOUS
<1>1. CASE ~Collecting
  <2>1. a \in Starts /\ Known = Starts /\ Place(a) = a
    BY <1>1, OriginalsQuiet DEF Known, Place
  <2>2. heap \in Heaps /\ words[heap] \in Nat /\ frames = <<>>
        /\ Tiles(Starts, mem, heap, words[heap])
    BY <1>1, QuietState DEF WInv
  <2>3. mem[a] \in Nat
    BY <2>1, <2>2, TileBounds
  <2>4. \A i : Raw(a, i) = mem[Element(a, i)]
    BY <2>2, RawPlain
  <2>5. \A i \in 1..mem[a] : mem[Element(a, i)] \in Int /\ Leads(mem[Element(a, i)], Starts)
    BY <1>1, <2>1, ElementLeads DEF WInv
  <2> QED
    BY <2>1, <2>3, <2>4, <2>5
<1>2. CASE Collecting
  <2>1. PICK size : Collection(Originals, size, Copies)
    BY <1>2, CollectionIs DEF WInv
  <2>2. /\ heap \in Heaps /\ heap2 \in Heaps /\ mem \in [Address -> Int]
        /\ words[heap] \in Nat /\ words[heap] <= HEAP_SIZE
        /\ words[heap2] \in Nat /\ words[heap2] <= HEAP_SIZE
        /\ Tiles(Originals, size, heap2, words[heap2])
        /\ Tiles(Copies, mem, heap, words[heap])
        /\ frames \in Seq(CallRecord) /\ value \in Int
    BY <1>2, <2>1, CollectionState DEF WInv
  <2>3. Known = Originals \union Copies
    BY <1>2 DEF Known
  <2>4. \A v, S : Leads(v, S) /\ S \subseteq Known => Leads(v, Known)
    BY DEF Leads
  \* An array that has not been moved
  <2>5. ASSUME NEW o \in Originals, ~Forwarded(o), NEW i \in 1..mem[o]
        PROVE  Raw(o, i) \in Int /\ Leads(Raw(o, i), Known)
    <3>1. /\ mem[o] = size[o] /\ size[o] \in Nat
          /\ \A j \in 1..ArraySize(size[o])-1 : Leads(mem[Element(o, j)], Originals)
      BY <2>1, <2>2, <2>5, TileBounds DEF Collection, Arrays, Forwarded
    <3>2. i \in 1..ArraySize(size[o])-1
      BY <3>1, SizeOfArray
    <3>3. Element(o, i) \in Address
      BY <2>2, <3>2, Inner, AddressBounds
    <3>4. Raw(o, i) = mem[Element(o, i)]
      BY <1>2, <2>5, PlaceOfOriginal DEF WInv
    <3> QED
      BY <2>2, <2>3, <2>4, <3>1, <3>2, <3>3, <3>4
  \* A copy
  <2>6. ASSUME NEW c \in Copies, NEW i \in 1..mem[c]
        PROVE  Raw(c, i) \in Int /\ Leads(Raw(c, i), Known)
    <3>1. mem[c] \in Nat
      BY <2>2, TileBounds
    <3>2. i \in 1..ArraySize(mem[c])-1 /\ i \in Int
      BY <3>1, SizeOfArray
    <3>3. Element(c, i) \in Address
      BY <2>2, <3>2, Inner, AddressBounds
    <3>4. CASE \A k \in DOMAIN frames : frames[k].new # c
      <4>1. Leads(mem[Element(c, i)], Copies)
        BY <2>1, <3>2, <3>4 DEF Collection, Calls, Filled
      <4>2. Raw(c, i) = mem[Element(c, i)]
        BY <3>4, RawPlain
      <4> QED
        BY <2>2, <2>3, <2>4, <3>3, <4>1, <4>2
    <3>5. ASSUME NEW k \in DOMAIN frames, frames[k].new = c
          PROVE  Raw(c, i) \in Int /\ Leads(Raw(c, i), Known)
      <4>1. \A l \in DOMAIN frames : frames[l].new = c => l = k
        BY <2>1, <3>5 DEF Collection, Calls
      <4>2. Waits(mem, valid, frames[k], Originals, size, Copies)
        BY <2>1 DEF Collection, Calls
      <4>3. Len(frames) \in Nat /\ DOMAIN frames = 1..Len(frames) /\ frames[k].i \in Int
        BY <2>2, <4>2 DEF Waits
      <4>4. Raw(c, i) = IF i < frames[k].i THEN mem[Element(c, i)]
                        ELSE IF i > frames[k].i THEN mem[Element(frames[k].old, i)]
                        ELSE InHand(k)
        BY <3>5, <4>1, RawWaiting
      <4>5. CASE i < frames[k].i
        <5>1. i \in 1..frames[k].i-1
          BY <3>2, <4>3, <4>5
        <5>2. Leads(mem[Element(c, i)], Copies)
          BY <3>5, <4>2, <5>1 DEF Waits, Filled
        <5>3. Raw(c, i) = mem[Element(c, i)]
          BY <4>4, <4>5
        <5> QED
          BY <2>2, <2>3, <2>4, <3>3, <5>2, <5>3
      <4>6. CASE i > frames[k].i
        <5>1. i \in frames[k].i+1..ArraySize(frames[k].size)-1
          <6>1. mem[c] = frames[k].size
            BY <3>5, <4>2 DEF Waits
          <6>2. ArraySize(frames[k].size) \in Nat /\ i <= ArraySize(frames[k].size)-1
            BY <3>1, <3>2, <6>1, SizeOfArray
          <6> QED
            BY <3>2, <4>3, <4>6, <6>2
        <5>2. Leads(mem[Element(frames[k].old, i)], Originals)
          BY <4>2, <5>1 DEF Waits
        <5>3. Raw(c, i) = mem[Element(frames[k].old, i)]
          BY <4>3, <4>4, <4>6
        <5>4. frames[k].old \in Originals /\ i \in 1..ArraySize(size[frames[k].old])-1
          BY <3>2, <3>5, <4>2 DEF Waits
        <5>5. Element(frames[k].old, i) \in Address
          BY <2>2, <5>4, Inner, AddressBounds
        <5> QED
          BY <2>2, <2>3, <2>4, <5>2, <5>3, <5>5
      <4>7. CASE i = frames[k].i
        <5>1. Raw(c, i) = InHand(k)
          BY <4>3, <4>4, <4>7
        <5>2. CASE k < Len(frames)
          <6>1. k+1 \in DOMAIN frames /\ InHand(k) = frames[k+1].old
            BY <4>3, <5>2 DEF InHand
          <6>2. frames[k+1].old \in Originals
            BY <2>1, <6>1 DEF Collection, Calls, Waits
          <6>3. frames[k+1].old \in Int
            BY <2>2, <6>2, TileBounds
          <6> QED
            BY <2>3, <5>1, <6>1, <6>2, <6>3 DEF Leads
        <5>3. CASE ~(k < Len(frames))
          <6>1. InHand(k) = value /\ frames # <<>>
            BY <4>3, <5>3 DEF InHand
          <6>2. Leads(value, Known)
            BY <1>2, <2>1, <2>3, <6>1 DEF Collection, Value, Leads, Collecting
          <6> QED
            BY <2>2, <5>1, <6>1, <6>2
        <5> QED
          BY <5>2, <5>3
      <4> QED
        BY <3>2, <4>3, <4>5, <4>6, <4>7
    <3> QED
      BY <3>4, <3>5
  <2>7. CASE a \in Copies
    <3>1. Place(a) = a /\ mem[a] \in Nat
      BY <1>2, <2>7, Halves DEF WInv, Place
    <3> QED
      BY <2>3, <2>6, <2>7, <3>1
  <2>8. CASE a \in Originals /\ Forwarded(a)
    <3>1. Place(a) = Copy(a) /\ Copy(a) \in Copies /\ mem[Copy(a)] \in Nat
      BY <1>2, <2>8, PlaceOfOriginal DEF WInv
    <3> QED
      BY <2>3, <2>6, <3>1
  <2>9. CASE a \in Originals /\ ~Forwarded(a)
    <3>1. Place(a) = a /\ mem[a] \in Nat
      BY <1>2, <2>9, PlaceOfOriginal DEF WInv
    <3> QED
      BY <2>3, <2>5, <2>9, <3>1
  <2> QED
    BY <2>3, <2>7, <2>8, <2>9
<1> QED
  BY <1>1, <1>2

-----------------------------------------------------------------------------
(***************************************************************************)
(* What is within reach, for the runtime and by name                       *)
(***************************************************************************)
\* At most every second word is the start of an array.
LEMMA TilesFew ==
  ASSUME NEW h \in Heaps, NEW n \in Nat, NEW S, NEW size, Tiles(S, size, h, n)
  PROVE  IsFiniteSet(S) /\ Cardinality(S) \in Nat /\ Cardinality(S) <= n \div 2
<1> DEFINE I == 0..(n \div 2)-1
           f == [s \in S |-> (s - Base(h)) \div 16]
<1>1. ASSUME NEW s \in S
      PROVE  \E k \in Nat : /\ s = Base(h) + 8 * k /\ k + 2 <= n
                            /\ \A t \in S : s < t => s + 16 <= t
  <2>1. /\ s \in AddressesOf(h) /\ s \in Int /\ ArraySize(size[s]) \in Nat
        /\ ArraySize(size[s]) >= 2 /\ End(s, size[s]) = s + 8 * ArraySize(size[s])
        /\ End(s, size[s]) <= Base(h) + 8 * n
    BY TileBounds
  <2>2. PICK k \in 0..HEAP_SIZE-1 : s = Base(h) + 8 * k
    BY <2>1, AddressBounds
  <2>3. k \in Nat /\ k + 2 <= n
    BY <2>1, <2>2, BaseInt, Constants
  <2>4. \A t \in S : t \in Int /\ (s < t => End(s, size[s]) <= t)
    BY TileBounds DEF Tiles
  <2>5. \A t \in S : s < t => s + 16 <= t
    BY <2>1, <2>4
  <2> QED
    BY <2>2, <2>3, <2>5
<1>2. \A s \in S : f[s] \in I
  <2> SUFFICES ASSUME NEW s \in S PROVE (s - Base(h)) \div 16 \in I
    OBVIOUS
  <2>1. PICK k \in Nat : s = Base(h) + 8 * k /\ k + 2 <= n
    BY <1>1
  <2>2. s - Base(h) = 8 * k
    BY <2>1, BaseInt
  <2>3. (8 * k) \div 16 \in 0..(n \div 2)-1
    BY <2>1
  <2> QED
    BY <2>2, <2>3
<1>3. \A s, t \in S : f[s] = f[t] => s = t
  <2> SUFFICES ASSUME NEW s \in S, NEW t \in S,
                      (s - Base(h)) \div 16 = (t - Base(h)) \div 16
               PROVE  s = t
    OBVIOUS
  <2>1. PICK k \in Nat : s = Base(h) + 8 * k /\ \A u \in S : s < u => s + 16 <= u
    BY <1>1
  <2>2. PICK l \in Nat : t = Base(h) + 8 * l /\ \A u \in S : t < u => t + 16 <= u
    BY <1>1
  <2>3. (s < t => s + 16 <= t) /\ (t < s => t + 16 <= s)
    BY <2>1, <2>2
  <2> QED
    BY <2>1, <2>2, <2>3, BaseInt
<1>4. f \in Injection(S, I)
  <2>1. f \in [S -> I]
    BY <1>2
  <2> HIDE DEF f
  <2> QED
    BY <1>3, <2>1 DEF Injection, IsInjective
<1>5. IsFiniteSet(I) /\ Cardinality(I) = n \div 2
  <2>1. n \div 2 \in Nat
    OBVIOUS
  <2>2. I \in SUBSET I /\ 0 \in Int /\ (n \div 2)-1 \in Int
    BY <2>1
  <2>3. IsFiniteSet(I) /\ Cardinality(I) = IF 0 > (n \div 2)-1 THEN 0 ELSE (n \div 2)-1-0+1
    BY <2>2, FS_Interval
  <2> QED
    BY <2>1, <2>3
<1> HIDE DEF f, I
<1> QED
  BY <1>4, <1>5, FS_Injection, FS_CardinalityType

LEMMA NamesFew ==
  IInv => IsFiniteSet(Names) /\ Cardinality(Names) <= HEAP_SIZE \div 2
<1> SUFFICES ASSUME IInv PROVE IsFiniteSet(Names) /\ Cardinality(Names) <= HEAP_SIZE \div 2
  OBVIOUS
<1>1. \E h \in Heaps : \E n \in Nat : \E size : n <= HEAP_SIZE /\ Tiles(Originals, size, h, n)
  <2>1. CASE ~Collecting
    BY <2>1, QuietState, OriginalsQuiet
  <2>2. CASE Collecting
    BY <2>2, CollectionIs, CollectionState
  <2> QED
    BY <2>1, <2>2
<1>2. PICK h, n, size : /\ h \in Heaps /\ n \in Nat /\ n <= HEAP_SIZE
                        /\ Tiles(Originals, size, h, n)
  BY <1>1
<1>3. /\ IsFiniteSet(Originals) /\ Cardinality(Originals) \in Nat
      /\ Cardinality(Originals) <= n \div 2
  BY <1>2, TilesFew
<1> DEFINE f == [o \in Originals |-> name[o]]
<1>4. f \in Surjection(Originals, Names)
  <2>1. f \in [Originals -> Names] /\ \A id \in Names : \E o \in Originals : f[o] = id
    BY DEF Names
  <2> HIDE DEF f
  <2> QED
    BY <2>1 DEF Surjection
<1> HIDE DEF f
<1>5. IsFiniteSet(Names) /\ Cardinality(Names) <= Cardinality(Originals)
  BY <1>3, <1>4, FS_Surjection
<1>6. Cardinality(Names) \in Nat
  BY <1>5, FS_CardinalityType
<1> QED
  BY <1>2, <1>3, <1>5, <1>6, Constants

\* The sets that Reachable computes, one after the other
LEMMA ReachableSteps ==
  ASSUME NEW values
  PROVE  \E g \in [0..HEAP_SIZE \div 2 -> SUBSET Address] :
            /\ Reachable(values) = g[HEAP_SIZE \div 2]
            /\ \A v \in Address : v \in g[0] <=> v \in values
            /\ \A n \in 1..HEAP_SIZE \div 2 : \A v \in Address :
                  v \in g[n] <=> \/ v \in values
                                 \/ \E a \in g[n-1] : \E i \in 1..mem[Place(a)] :
                                       v = Raw(Place(a), i)
<1> DEFINE N == HEAP_SIZE \div 2
           V == {v \in values : v \in Address}
           F == [T \in SUBSET Address |->
                   {v \in Address :
                      v \in values \/ \E a \in T : \E i \in 1..mem[Place(a)] : v = Raw(Place(a), i)}]
           Is(h) == h = [n \in 0..HEAP_SIZE \div 2 |->
                           {v \in values \union
                               IF n = 0 THEN {}
                               ELSE UNION {{Raw(Place(a), i) : i \in 1..mem[Place(a)]} :
                                              a \in h[n-1]} :
                            v \in Address}]
           c == CHOOSE h : Is(h)
<1>1. N \in Nat
  BY Constants
<1>2. Reachable(values) = c[N]
  BY DEF Reachable
<1>3. F \in [SUBSET Address -> SUBSET Address] /\ V \in SUBSET Address
  OBVIOUS
<1>4. PICK g \in [0..N -> SUBSET Address] : Steps(g, N, V, F)
  <2> HIDE DEF F, V, N
  <2> QED
    BY <1>1, <1>3, StepsExist
<1>5. \A T \in SUBSET Address : \A v \in Address :
        v \in F[T] <=> v \in values \/ \E a \in T : \E i \in 1..mem[Place(a)] : v = Raw(Place(a), i)
  OBVIOUS
<1>6. \A v \in Address : v \in g[0] <=> v \in values
  BY <1>4 DEF Steps
<1>7. ASSUME NEW n \in 1..N
      PROVE  /\ n \in 0..N /\ n-1 \in 0..N /\ n # 0 /\ g[n] \in SUBSET Address
             /\ g[n-1] \in SUBSET Address
             /\ \A v \in Address :
                  v \in g[n] <=> \/ v \in values
                                 \/ \E a \in g[n-1] : \E i \in 1..mem[Place(a)] :
                                       v = Raw(Place(a), i)
  <2>1. n \in 0..N /\ n-1 \in 0..N /\ n # 0 /\ g[n] = F[g[n-1]]
    <3> HIDE DEF F, V, N, Is
    <3> QED
      BY <1>1, <1>4 DEF Steps
  <2>2. g[n] \in SUBSET Address /\ g[n-1] \in SUBSET Address
    BY <1>4, <2>1
  <2> HIDE DEF F
  <2> QED
    BY <1>5, <2>1, <2>2
<1>8. Is(g)
  <2>1. ASSUME NEW n \in 0..N
        PROVE  g[n] = {v \in values \union
                               IF n = 0 THEN {}
                               ELSE UNION {{Raw(Place(a), i) : i \in 1..mem[Place(a)]} :
                                              a \in g[n-1]} :
                            v \in Address}
    <3>1. g[n] \in SUBSET Address
      BY <1>4
    <3>2. CASE n = 0
      BY <1>6, <3>1, <3>2
    <3>3. CASE n # 0
      <4>1. n \in 1..N
        BY <1>1, <3>3
      <4> HIDE DEF N
      <4> QED
        BY <1>7, <3>1, <3>3, <4>1
    <3> QED
      BY <3>2, <3>3
  <2> QED
    BY <2>1
<1> HIDE DEF Is
<1>9. Is(c)
  BY <1>8
<1> USE DEF Is
<1> HIDE DEF c, F, V
<1>10. c = [n \in 0..HEAP_SIZE \div 2 |->
                           {v \in values \union
                               IF n = 0 THEN {}
                               ELSE UNION {{Raw(Place(a), i) : i \in 1..mem[Place(a)]} :
                                              a \in c[n-1]} :
                            v \in Address}]
  BY <1>9
<1> HIDE DEF Is
<1>11. c \in [0..N -> SUBSET Address]
  BY <1>10
<1>12. \A v \in Address : v \in c[0] <=> v \in values
  BY <1>1, <1>10
<1>13. ASSUME NEW n \in 1..N, NEW v \in Address
       PROVE  v \in c[n] <=> \/ v \in values
                             \/ \E a \in c[n-1] : \E i \in 1..mem[Place(a)] :
                                   v = Raw(Place(a), i)
  <2>1. n \in 0..N /\ n # 0
    BY <1>1
  <2>2. c[n] = {x \in values \union
                       UNION {{Raw(Place(a), i) : i \in 1..mem[Place(a)]} : a \in c[n-1]} :
                   x \in Address}
    BY <1>10, <2>1
  <2> QED
    BY <2>2
<1> QED
  BY <1>2, <1>11, <1>12, <1>13

LEMMA ContentsDomain == DOMAIN Contents = Names
BY DEF Contents

LEMMA MeaningName ==
  ASSUME WInv, NEW v \in Int, Meaning(v) \in Ids
  PROVE  v \in Address /\ v \in Known /\ Meaning(v) = name[v]
<1>1. v \in Address
  BY ConstantsFit DEF Meaning
<1> QED
  BY <1>1, KnownNames DEF Meaning

LEMMA NamesAreIds == WInv => Names \subseteq Ids
BY DEF WInv, Named, Names

\* The elements of an array, by name
LEMMA ElementOfContents ==
  ASSUME WInv, NEW a \in Known
  PROVE  /\ name[a] \in Names
         /\ \A i \in 1..mem[Place(a)] : Meaning(Raw(Place(a), i)) \in Range(Contents[name[a]])
         /\ \A x \in Range(Contents[name[a]]) :
               \E i \in 1..mem[Place(a)] : x = Meaning(Raw(Place(a), i))
<1>1. a \in Address /\ name[a] \in Ids
  BY KnownNames
<1>2. name[a] \in Names /\ Contents[name[a]] = ArrayAt(a)
  BY <1>1, ContentsAt
<1> QED
  BY <1>2 DEF ArrayAt, Range

\* All that is within reach by name is reached by the runtime.
LEMMA SpanReached ==
  ASSUME WInv, NEW values, values \subseteq Int
  PROVE  \A id \in Span({Meaning(v) : v \in values}, Contents) :
            \E a \in Reachable(values) : a \in Known /\ name[a] = id
<1> DEFINE N == HEAP_SIZE \div 2
           V == {Meaning(v) : v \in values}
           F == Further(V, Contents)
<1>1. N \in Nat
  BY Constants
<1>2. PICK g \in [0..N -> SUBSET Address] :
            /\ Reachable(values) = g[N]
            /\ \A v \in Address : v \in g[0] <=> v \in values
            /\ \A n \in 1..N : \A v \in Address :
                  v \in g[n] <=> \/ v \in values
                                 \/ \E a \in g[n-1] : \E i \in 1..mem[Place(a)] :
                                       v = Raw(Place(a), i)
  BY ReachableSteps
<1>3. IsFiniteSet(Names) /\ Cardinality(Names) <= N
  BY NamesFew DEF WInv
<1> HIDE DEF N, V
<1>4. F \in [SUBSET Names -> SUBSET Names] /\ V \intersect Names \in SUBSET Names
  BY ContentsDomain, FurtherIn
<1>5. PICK c \in [0..N -> SUBSET Names] : Steps(c, N, V \intersect Names, F)
  <2> HIDE DEF F
  <2> QED
    BY <1>1, <1>4, StepsExist
<1>6. c[N] = Span(V, Contents)
  BY <1>1, <1>3, <1>5, ContentsDomain, StepsSpan
<1> DEFINE Bad == {n \in Nat : n \in 0..N /\
                      \E id \in c[n] : \A a \in g[n] : ~(a \in Known /\ name[a] = id)}
<1>7. SUFFICES ASSUME Bad # {} PROVE FALSE
  <2>1. \A n \in 0..N : \A id \in c[n] : \E a \in g[n] : a \in Known /\ name[a] = id
    BY <1>1, <1>7
  <2>2. N \in 0..N
    BY <1>1
  <2> QED
    BY <1>2, <1>6, <2>1, <2>2 DEF V
<1>8. PICK m \in Bad : \A n \in Bad : m <= n
  BY <1>7, LeastNumber
<1>9. m \in 0..N /\ c[m] \in SUBSET Names /\ g[m] \in SUBSET Address
  BY <1>2, <1>5, <1>8
<1>10. PICK id \in c[m] : \A a \in g[m] : ~(a \in Known /\ name[a] = id)
  BY <1>8
<1>11. id \in Names /\ id \in Ids
  BY <1>9, <1>10, NamesAreIds
<1>12. ASSUME id \in V PROVE FALSE
  <2>1. PICK v \in values : id = Meaning(v)
    BY <1>12 DEF V
  <2>2. v \in Address /\ v \in Known /\ id = name[v]
    BY <1>11, <2>1, MeaningName
  <2>3. v \in g[m]
    BY <1>1, <1>2, <1>9, <2>1, <2>2
  <2> QED
    BY <1>10, <2>2, <2>3
<1>13. m \in 1..N /\ m-1 \in 0..N /\ m-1 \in Nat
  <2>1. c[0] = V \intersect Names
    BY <1>5 DEF Steps
  <2>2. m # 0
    BY <1>10, <1>12, <2>1
  <2> QED
    BY <1>1, <1>9, <2>2
<1>14. PICK b \in c[m-1] : id \in Range(Contents[b])
  <2>1. c[m] = F[c[m-1]] /\ c[m-1] \in SUBSET Names
    BY <1>5, <1>13 DEF Steps
  <2> QED
    BY <1>10, <1>11, <1>12, <2>1, ContentsDomain, FurtherIn
<1>15. PICK a \in g[m-1] : a \in Known /\ name[a] = b
  <2>1. m-1 \notin Bad
    BY <1>8, <1>13
  <2> QED
    BY <1>13, <1>14, <2>1
<1>16. PICK i \in 1..mem[Place(a)] : id = Meaning(Raw(Place(a), i))
  BY <1>14, <1>15, ElementOfContents
<1>17. Raw(Place(a), i) \in Int
  BY <1>15, Visible
<1>18. /\ Raw(Place(a), i) \in Address /\ Raw(Place(a), i) \in Known
       /\ id = name[Raw(Place(a), i)]
  BY <1>11, <1>16, <1>17, MeaningName
<1>19. Raw(Place(a), i) \in g[m]
  BY <1>2, <1>13, <1>15, <1>18
<1> QED
  BY <1>10, <1>18, <1>19

\* From values that the program can have, nothing else is reached.
LEMMA ReachedIsSpan ==
  ASSUME WInv, NEW values, \A v \in values : v \in Int /\ Leads(v, Known)
  PROVE  \A a \in Reachable(values) :
            a \in Known /\ name[a] \in Span({Meaning(v) : v \in values}, Contents)
<1> DEFINE N == HEAP_SIZE \div 2
           V == {Meaning(v) : v \in values}
<1>1. N \in Nat
  BY Constants
<1>2. PICK g \in [0..N -> SUBSET Address] :
            /\ Reachable(values) = g[N]
            /\ \A v \in Address : v \in g[0] <=> v \in values
            /\ \A n \in 1..N : \A v \in Address :
                  v \in g[n] <=> \/ v \in values
                                 \/ \E a \in g[n-1] : \E i \in 1..mem[Place(a)] :
                                       v = Raw(Place(a), i)
  BY ReachableSteps
<1> HIDE DEF N
<1> DEFINE Bad == {n \in Nat : n \in 0..N /\
                      \E a \in g[n] : ~(a \in Known /\ name[a] \in Span(V, Contents))}
<1>3. SUFFICES ASSUME Bad # {} PROVE FALSE
  <2>1. \A n \in 0..N : \A a \in g[n] : a \in Known /\ name[a] \in Span(V, Contents)
    <3> HIDE DEF V
    <3>1. \A n \in 0..N : n \in Nat /\ n \notin Bad
      BY <1>1, <1>3
    <3> QED
      BY <3>1
  <2>2. N \in 0..N
    BY <1>1
  <2> QED
    BY <1>2, <2>1, <2>2
<1>4. PICK m \in Bad : \A n \in Bad : m <= n
  BY <1>3, LeastNumber
<1>5. m \in 0..N /\ g[m] \in SUBSET Address
  BY <1>2, <1>4
<1>6. PICK a \in g[m] : ~(a \in Known /\ name[a] \in Span(V, Contents))
  BY <1>4
<1>7. a \in Address
  BY <1>5, <1>6
<1>8. IsPointer(a)
  <2>1. heap \in Heaps
    BY DEF WInv, IInv, TypeOK
  <2>2. a \in AddressesOf(1) \/ a \in AddressesOf(2)
    BY <1>7 DEF Address
  <2> QED
    BY <2>2, AddressBounds DEF Heaps
<1>9. V \intersect Names \subseteq Span(V, Contents) /\ Closed(Span(V, Contents), Contents)
  BY ContentsDomain, SpanContains
<1>10. ASSUME a \in values PROVE FALSE
  <2>1. a \in Known
    BY <1>8, <1>10 DEF Leads
  <2>2. Meaning(a) = name[a] /\ name[a] \in Names
    BY <1>7, <2>1, ElementOfContents DEF Meaning
  <2>3. name[a] \in V
    BY <1>10, <2>2
  <2> QED
    BY <1>6, <1>9, <2>1, <2>2, <2>3
<1>11. m \in 1..N /\ m-1 \in 0..N /\ m-1 \in Nat
  <2>1. m # 0
    BY <1>2, <1>6, <1>7, <1>10
  <2> QED
    BY <1>1, <1>5, <2>1
<1>12. PICK b \in g[m-1] : \E i \in 1..mem[Place(b)] : a = Raw(Place(b), i)
  BY <1>2, <1>6, <1>7, <1>10, <1>11
<1>13. b \in Known /\ name[b] \in Span(V, Contents)
  <2> HIDE DEF V
  <2>1. m-1 \notin Bad
    BY <1>4, <1>11
  <2> QED
    BY <1>11, <1>12, <2>1
<1>14. a \in Known
  <2>1. PICK i \in 1..mem[Place(b)] : a = Raw(Place(b), i)
    BY <1>12
  <2> QED
    BY <1>8, <1>13, <2>1, Visible DEF Leads
<1>15. name[a] \in Names /\ name[a] \in Range(Contents[name[b]])
  <2>1. PICK i \in 1..mem[Place(b)] : a = Raw(Place(b), i)
    BY <1>12
  <2>2. name[a] = Meaning(a)
    BY <1>7 DEF Meaning
  <2> QED
    BY <1>13, <1>14, <2>1, <2>2, ElementOfContents
<1> HIDE DEF V
<1>16. name[a] \in Span(V, Contents)
  BY <1>9, <1>13, <1>15, ContentsDomain DEF Closed
<1> QED
  BY <1>6, <1>14, <1>16

\* The values of the program's variables and of the call of allocate
Held == Range(Roots) \union (IF request = <<>> THEN {} ELSE {FwFill})
HeldNames == {Meaning(v) : v \in Held}

LEMMA HeldLeads == WInv => \A v \in Held : v \in Int /\ Leads(v, Known)
<1> SUFFICES ASSUME WInv, NEW v \in Held PROVE v \in Int /\ Leads(v, Known)
  OBVIOUS
<1>1. \A S : S \subseteq Known => \A x : Leads(x, S) => Leads(x, Known)
  BY DEF Leads
<1>2. ASSUME NEW p \in defined PROVE Root(p) \in Int /\ Leads(Root(p), Known)
  <2>1. word \in [Places -> Int] /\ defined \subseteq Places
    BY DEF WInv, IInv, TypeOK
  <2>2. CASE control = "program"
    <3>1. Root(p) = word[p] /\ ~Collecting
      BY <2>2 DEF Root, Collecting
    <3>2. Leads(word[p], Starts) /\ Starts = Known
      BY <2>2, <3>1, QuietState, OriginalsQuiet DEF WInv, Known
    <3> QED
      BY <2>1, <3>1, <3>2
  <2>3. CASE control # "program"
    <3>1. At(p) \in Places /\ Root(p) = word[At(p)]
      BY <2>3, RootAt DEF WInv
    <3>2. CASE Collecting
      <4>1. PICK size : Collection(Originals, size, Copies)
        BY <3>2, CollectionIs DEF WInv
      <4>2. Leads(word[At(p)], IF At(p) < scan THEN Copies ELSE Originals)
        BY <4>1 DEF Collection, StackScanned
      <4>3. Copies \subseteq Known /\ Originals \subseteq Known
        BY <3>2 DEF Known
      <4> QED
        BY <1>1, <2>1, <3>1, <4>2, <4>3
    <3>3. CASE ~Collecting
      <4>1. Leads(Root(p), Starts) /\ Starts = Known
        BY <3>3, QuietState, OriginalsQuiet DEF WInv, Known
      <4> QED
        BY <2>1, <3>1, <4>1
    <3> QED
      BY <3>2, <3>3
  <2> QED
    BY <2>2, <2>3
<1>3. ASSUME request # <<>> PROVE FwFill \in Int /\ Leads(FwFill, Known)
  <2>1. FwFill \in Int
    BY <1>3 DEF WInv, IInv, TypeOK, FwFill
  <2>2. CASE Collecting
    <3>1. PICK size : Collection(Originals, size, Copies)
      BY <2>2, CollectionIs DEF WInv
    <3>2. Leads(FwFill, Originals) /\ Originals \subseteq Known
      BY <2>2, <3>1 DEF Collection, StackScanned, Known
    <3> QED
      BY <1>1, <2>1, <3>2
  <2>3. CASE ~Collecting
    <3>1. Leads(FwFill, Starts) /\ Starts = Known
      BY <1>3, <2>3, OriginalsQuiet DEF WInv, IInv, Quiet, Known
    <3> QED
      BY <2>1, <3>1
  <2> QED
    BY <2>2, <2>3
<1> QED
  BY <1>2, <1>3 DEF Held, Roots, Range

\* The state that the program sees
LEMMA InUseIs == WInv => InUse = Restrict(Contents, Span(HeldNames, Contents))
<1> SUFFICES ASSUME WInv PROVE InUse = Restrict(Contents, Span(HeldNames, Contents))
  OBVIOUS
<1>1. {name[a] : a \in Reachable(Held)} = Span(HeldNames, Contents)
  <2>1. Held \subseteq Int
    BY HeldLeads
  <2>2. Span(HeldNames, Contents) \subseteq {name[a] : a \in Reachable(Held)}
    BY <2>1, SpanReached DEF HeldNames
  <2>3. {name[a] : a \in Reachable(Held)} \subseteq Span(HeldNames, Contents)
    BY HeldLeads, ReachedIsSpan DEF HeldNames
  <2> QED
    BY <2>2, <2>3
<1>2. InUse = [id \in {name[a] : a \in Reachable(Held)} |-> ArrayAt(Where(id))]
  BY DEF InUse, Held
<1>3. Span(HeldNames, Contents) \subseteq Names
  BY SpanContains, ContentsDomain
<1> QED
  BY <1>1, <1>2, <1>3 DEF Restrict, Contents

-----------------------------------------------------------------------------
(***************************************************************************)
(* The same in the next state                                              *)
(***************************************************************************)
LEMMA NextState ==
  /\ WInv' => (\A a \in Address : name[a] \in Ids =>
                  name[a] \in Names /\ Contents[name[a]] = ArrayAt(a))'
  /\ (IInv /\ Collecting)' => (\E size : Collection(Originals, size, Copies))'
  /\ (\A b, i : (\A k \in DOMAIN frames : frames[k].new # b) => Raw(b, i) = mem[Element(b, i)])'
  /\ (\A b, i : \A k \in DOMAIN frames :
        frames[k].new = b /\ (\A l \in DOMAIN frames : frames[l].new = b => l = k)
          => Raw(b, i) = IF i < frames[k].i THEN mem[Element(b, i)]
                         ELSE IF i > frames[k].i THEN mem[Element(frames[k].old, i)]
                         ELSE InHand(k))'
  /\ (~Collecting)' => (Originals = Starts)'
  /\ WInv' => (InUse = Restrict(Contents, Span(HeldNames, Contents)))'
BY ContentsAt, CollectionIs, RawPlain, RawWaiting, OriginalsQuiet, InUseIs, PTL

LEMMA ContentsAtNext ==
  ASSUME WInv', NEW a \in Address, name'[a] \in Ids
  PROVE  name'[a] \in Names' /\ Contents'[name'[a]] = ArrayAt(a)'
BY NextState

LEMMA CollectionNext ==
  ASSUME IInv', Collecting'
  PROVE  \E size : Collection(Originals, size, Copies)'
BY NextState

LEMMA RawPlainNext ==
  ASSUME NEW b, NEW i, \A k \in DOMAIN frames' : frames'[k].new # b
  PROVE  Raw(b, i)' = mem'[Element(b, i)]
BY NextState

LEMMA RawWaitingNext ==
  ASSUME NEW b, NEW i, NEW k \in DOMAIN frames', frames'[k].new = b,
         \A l \in DOMAIN frames' : frames'[l].new = b => l = k
  PROVE  Raw(b, i)' = IF i < frames'[k].i THEN mem'[Element(b, i)]
                      ELSE IF i > frames'[k].i THEN mem'[Element(frames'[k].old, i)]
                      ELSE InHand(k)'
BY NextState

\* The arrays are the same when each of them reads the same.
LEMMA ContentsSame ==
  ASSUME WInv, WInv', Originals' = Originals,
         \A o \in Originals : name'[o] = name[o] /\ ArrayAt(o)' = ArrayAt(o)
  PROVE  Names' = Names /\ Contents' = Contents
<1>1. \A o \in Originals : o \in Address /\ name[o] \in Ids /\ name'[o] \in Ids
  BY KnownNames DEF WInv, Named, Known
<1>2. Names' = Names
  BY DEF Names
<1>3. ASSUME NEW id \in Names PROVE Contents'[id] = Contents[id]
  <2>1. PICK o \in Originals : id = name[o]
    BY DEF Names
  <2>2. Contents[id] = ArrayAt(o)
    BY <1>1, <2>1, ContentsAt
  <2>3. Contents'[id] = ArrayAt(o)'
    BY <1>1, <2>1, ContentsAtNext
  <2> QED
    BY <2>1, <2>2, <2>3
<1>4. Contents = [id \in Names |-> Contents[id]] /\ Contents' = [id \in Names' |-> Contents'[id]]
  BY DEF Contents
<1> QED
  BY <1>2, <1>3, <1>4

LEMMA ArrayAtQuiet ==
  IInv /\ ~Collecting =>
     \A a : Place(a) = a /\ ArrayAt(a) = [i \in 1..mem[a] |-> Meaning(mem[Element(a, i)])]
<1> SUFFICES ASSUME IInv, ~Collecting, NEW a
             PROVE  /\ Place(a) = a
                    /\ ArrayAt(a) = [i \in 1..mem[a] |-> Meaning(mem[Element(a, i)])]
  OBVIOUS
<1>1. Place(a) = a
  BY DEF Place
<1>2. frames = <<>>
  BY DEF IInv, Frame
<1>3. \A i : Raw(a, i) = mem[Element(a, i)]
  BY <1>2, RawPlain
<1> QED
  BY <1>1, <1>3 DEF ArrayAt

LEMMA ArrayAtQuietNext ==
  (IInv /\ ~Collecting)' =>
     (\A a : Place(a) = a /\ ArrayAt(a) = [i \in 1..mem[a] |-> Meaning(mem[Element(a, i)])])'
BY ArrayAtQuiet, PTL

\* Steps between collections that leave the memory as it is
LEMMA QuietSame ==
  ASSUME SInv, IInv', ~Collecting, ~Collecting', UNCHANGED memory
  PROVE  /\ Originals' = Originals /\ Names' = Names /\ Contents' = Contents
         /\ Named' /\ Padded' /\ WInv' /\ \A v : Meaning(v)' = Meaning(v)
<1>1. /\ UNCHANGED <<mem, valid, heap, words, name>> /\ WInv
  BY DEF memory, SInv, WInv
<1>2. Originals = Starts /\ Originals' = Starts' /\ Starts' = Starts
  BY <1>1, OriginalsQuiet, NextState DEF Starts, allocptr
<1>3. \A v : Meaning(v)' = Meaning(v)
  BY <1>1 DEF Meaning
<1>4. Named'
  BY <1>1, <1>2 DEF Named, WInv
<1>5. Padded'
  BY <1>1, <1>2 DEF Padded, SInv
<1>6. WInv'
  BY <1>4 DEF WInv
<1>7. ASSUME NEW o \in Originals PROVE name'[o] = name[o] /\ ArrayAt(o)' = ArrayAt(o)
  <2>1. ArrayAt(o) = [i \in 1..mem[o] |-> Meaning(mem[Element(o, i)])]
    BY <1>1, ArrayAtQuiet DEF WInv
  <2>2. ArrayAt(o)' = [i \in 1..mem[o] |-> Meaning(mem[Element(o, i)])']
    BY <1>1, ArrayAtQuietNext
  <2>3. \A i : Meaning(mem[Element(o, i)])' = Meaning(mem[Element(o, i)])
    BY <1>1 DEF Meaning
  <2> QED
    BY <1>1, <2>1, <2>2, <2>3
<1>8. Names' = Names /\ Contents' = Contents
  BY <1>1, <1>2, <1>6, <1>7, ContentsSame
<1> QED
  BY <1>2, <1>3, <1>4, <1>5, <1>6, <1>8

-----------------------------------------------------------------------------
(***************************************************************************)
(* Steps between collections                                               *)
(***************************************************************************)
LEMMA InitSInv == Init => SInv
<1> SUFFICES ASSUME Init PROVE SInv
  OBVIOUS
<1>1. IInv /\ control = "program" /\ ~Collecting
  BY InitIInv DEF Init, Collecting
<1>2. Starts = {}
  <2>1. heap \in Heaps /\ allocptr = Base(heap)
    BY BaseInt DEF Init, allocptr, Heaps
  <2>2. \A a \in AddressesOf(heap) : ~(a < Base(heap))
    BY <2>1, AddressBounds, BaseInt
  <2> QED
    BY <2>1, <2>2 DEF Starts
<1>3. Originals = {}
  BY <1>1, <1>2, OriginalsQuiet
<1>4. \A a \in Address : name[a] \notin Ids
  BY ConstantsFit DEF Init
<1> QED
  BY <1>1, <1>3, <1>4 DEF SInv, Named, Padded, Kept

\* Steps of the program and of allocate that leave the memory alone
LEMMA MemorySameSInv ==
  ASSUME SInv, IInv', ~Collecting, ~Collecting', UNCHANGED memory,
         control' \in {"retry", "out of memory"} =>
            /\ control \in {"retry", "out of memory"}
            /\ UNCHANGED <<word, rsp, request>>
  PROVE  SInv'
<1>1. /\ Originals' = Originals /\ Names' = Names /\ Contents' = Contents
      /\ Named' /\ Padded' /\ \A v : Meaning(v)' = Meaning(v)
  BY QuietSame
<1>2. Kept'
  <2> SUFFICES ASSUME control' \in {"retry", "out of memory"}
               PROVE  /\ request' # <<>>
                      /\ Names' \subseteq Span({Meaning(word[w]) : w \in StackTop..StackWords}
                                                 \union {Meaning(FwFill)}, Contents)'
    BY DEF Kept
  <2>1. /\ request' = request /\ request # <<>> /\ FwFill' = FwFill
        /\ word' = word /\ StackTop' = StackTop
    BY DEF SInv, Kept, FwFill, StackTop
  <2>2. {Meaning(word[w]) : w \in StackTop..StackWords}'
          = {Meaning(word[w]) : w \in StackTop..StackWords}
    BY <1>1, <2>1
  <2>3. Meaning(FwFill)' = Meaning(FwFill)
    BY <1>1, <2>1
  <2>4. Names \subseteq Span({Meaning(word[w]) : w \in StackTop..StackWords}
                                \union {Meaning(FwFill)}, Contents)
    BY DEF SInv, Kept
  <2>5. Span({Meaning(word[w]) : w \in StackTop..StackWords} \union {Meaning(FwFill)}, Contents)'
          = Span({Meaning(word[w]) : w \in StackTop..StackWords} \union {Meaning(FwFill)}, Contents)
    BY <1>1, <2>2, <2>3 DEF Span, Closed
  <2> QED
    BY <1>1, <2>1, <2>4, <2>5
<1> QED
  BY <1>1, <1>2 DEF SInv

LEMMA ProgramSInv ==
  SInv /\ (SetNumber \/ Move \/ Load \/ Enter \/ Return \/ Allocate \/ BadSize \/ OutOfMemory)
    => SInv' /\ ~Collecting /\ ~Collecting' /\ UNCHANGED memory
<1> SUFFICES ASSUME SInv, SetNumber \/ Move \/ Load \/ Enter \/ Return \/ Allocate
                          \/ BadSize \/ OutOfMemory
             PROVE  SInv' /\ ~Collecting /\ ~Collecting' /\ UNCHANGED memory
  OBVIOUS
<1>1. IInv'
  BY SetNumberIInv, MoveIInv, LoadIInv, StackStepIInv, AllocateIInv, ExitIInv DEF SInv
<1>2. ASSUME SetNumber \/ Move \/ Load
      PROVE  control' = control /\ control = "program" /\ UNCHANGED memory
  BY <1>2 DEF SetNumber, Move, Load, Put
<1>3. ASSUME Enter \/ Return
      PROVE  control' = control /\ control = "program" /\ UNCHANGED memory
  BY <1>3 DEF Enter, Return
<1>4. ASSUME Allocate
      PROVE  control' = "allocate" /\ control = "program" /\ UNCHANGED memory
  BY <1>4 DEF Allocate
<1>5. ASSUME BadSize
      PROVE  control' = "bad size" /\ control = "allocate" /\ UNCHANGED memory
  BY <1>5 DEF BadSize, Exit
<1>6. ASSUME OutOfMemory
      PROVE  /\ control' = "out of memory" /\ control = "retry" /\ UNCHANGED memory
             /\ UNCHANGED <<word, rsp, request>>
  BY <1>6 DEF OutOfMemory, Exit, program
<1>7. ~Collecting /\ ~Collecting' /\ UNCHANGED memory
  BY <1>2, <1>3, <1>4, <1>5, <1>6 DEF Collecting
<1>8. control' \in {"retry", "out of memory"} =>
            /\ control \in {"retry", "out of memory"}
            /\ UNCHANGED <<word, rsp, request>>
  BY <1>2, <1>3, <1>4, <1>5, <1>6
<1> QED
  BY <1>1, <1>7, <1>8, MemorySameSInv

LEMMA FunctionExcept ==
  ASSUME NEW D, NEW i \in D, NEW v, NEW f, NEW g,
         f = [j \in D |-> f[j]], g = [j \in D |-> g[j]],
         \A j \in D : g[j] = IF j = i THEN v ELSE f[j]
  PROVE  g = [f EXCEPT ![i] = v]
OBVIOUS

\* A store changes one element of one array.
LEMMA StoreContents ==
  ASSUME SInv, IInv', control = "program", NEW p \in defined, NEW q \in defined,
         IsPointer(word[q]), NEW i \in 1..mem[word[q]],
         mem' = [mem EXCEPT ![Element(word[q], i)] = word[p]],
         UNCHANGED <<valid, heap, words, name, program, collector, control, request>>
  PROVE  /\ SInv' /\ Names' = Names /\ word[q] \in Known /\ i \in DOMAIN Contents[name[word[q]]]
         /\ Contents' = [Contents EXCEPT ![name[word[q]]][i] = Meaning(word[p])]
<1> DEFINE s == word[q]
           e == Element(s, i)
<1>1. /\ ~Collecting /\ ~Collecting' /\ WInv /\ IInv
      /\ UNCHANGED <<valid, heap, words, name, word, control>>
  BY DEF Collecting, SInv, WInv, program
<1>2. /\ heap \in Heaps /\ words[heap] \in Nat /\ words[heap] <= HEAP_SIZE
      /\ Tiles(Starts, mem, heap, words[heap]) /\ s \in Starts /\ mem \in [Address -> Int]
  BY <1>1, QuietState DEF Leads, IInv, TypeOK
<1>3. i \in 1..ArraySize(mem[s])-1 /\ e \in Address /\ i \in Nat
  BY <1>1, <1>2, ElementLeads
<1>4. e \notin Starts /\ \A t \in Starts : \A j \in 1..ArraySize(mem[t])-1 :
               Element(t, j) = e => t = s /\ j = i
  BY <1>2, <1>3, Inner
<1>5. Starts' = Starts /\ Originals = Starts /\ Originals' = Starts /\ Known = Starts
  BY <1>1, OriginalsQuiet, NextState DEF Starts, allocptr, Known
<1>6. \A t \in Starts : t \in Address /\ mem'[t] = mem[t] /\ mem[t] \in Nat
  BY <1>2, <1>4, TileBounds, AddressBounds
<1>7. ASSUME NEW t \in Starts, NEW j \in 1..ArraySize(mem[t])-1
      PROVE  mem'[Element(t, j)] = IF t = s /\ j = i THEN word[p] ELSE mem[Element(t, j)]
  <2>1. Element(t, j) \in Address
    BY <1>2, Inner, AddressBounds
  <2> QED
    BY <1>2, <1>4, <2>1
<1> HIDE DEF e, s
<1>8. Named'
  BY <1>1, <1>5 DEF Named, WInv
<1>9. Padded'
  <2> SUFFICES ASSUME NEW o \in Starts, mem'[o] = 0 PROVE ~IsPointer(mem'[Element(o, 1)])
    BY <1>1, <1>5 DEF Padded
  <2>1. mem[o] = 0 /\ o # s
    BY <1>3, <1>6 DEF s
  <2>2. 1 \in 1..ArraySize(mem[o])-1
    BY <2>1 DEF ArraySize
  <2>3. mem'[Element(o, 1)] = mem[Element(o, 1)]
    BY <1>7, <2>1, <2>2
  <2> QED
    BY <1>5, <2>1, <2>3 DEF SInv, Padded
<1>10. WInv' /\ SInv'
  BY <1>1, <1>8, <1>9 DEF WInv, SInv, Kept
<1>11. Names' = Names
  BY <1>1, <1>5 DEF Names
<1>12. ASSUME NEW o \in Starts
       PROVE  /\ name[o] \in Names
              /\ Contents[name[o]] = [j \in 1..mem[o] |-> Meaning(mem[Element(o, j)])]
              /\ Contents'[name[o]] = [j \in 1..mem[o] |-> Meaning(mem'[Element(o, j)])]
  <2>1. o \in Address /\ name[o] \in Ids /\ name'[o] \in Ids
    BY <1>1, <1>5, KnownNames
  <2>2. ArrayAt(o) = [j \in 1..mem[o] |-> Meaning(mem[Element(o, j)])]
    BY <1>1, ArrayAtQuiet
  <2>3. ArrayAt(o)' = [j \in 1..mem'[o] |-> Meaning(mem[Element(o, j)])']
    BY <1>1, <1>10, ArrayAtQuietNext DEF WInv
  <2>4. \A j : Meaning(mem[Element(o, j)])' = Meaning(mem'[Element(o, j)])
    BY <1>1 DEF Meaning
  <2> QED
    BY <1>1, <1>6, <1>10, <2>1, <2>2, <2>3, <2>4, ContentsAt, ContentsAtNext
<1>13. ASSUME NEW o \in Starts, o # s
       PROVE  Contents'[name[o]] = Contents[name[o]]
  <2>1. \A j \in 1..mem[o] : mem'[Element(o, j)] = mem[Element(o, j)]
    <3>1. mem[o] \in Nat /\ 1..mem[o] \subseteq 1..ArraySize(mem[o])-1
      BY <1>6, SizeOfArray
    <3> QED
      BY <1>7, <1>13, <3>1
  <2>2. \A j \in 1..mem[o] : Meaning(mem'[Element(o, j)]) = Meaning(mem[Element(o, j)])
    BY <2>1
  <2>3. /\ Contents[name[o]] = [j \in 1..mem[o] |-> Meaning(mem[Element(o, j)])]
        /\ Contents'[name[o]] = [j \in 1..mem[o] |-> Meaning(mem'[Element(o, j)])]
    BY <1>12
  <2> QED
    BY <2>2, <2>3
<1>14. Contents'[name[s]] = [Contents[name[s]] EXCEPT ![i] = Meaning(word[p])]
       /\ i \in DOMAIN Contents[name[s]]
  <2>1. \A j \in 1..mem[s] : mem'[Element(s, j)] = IF j = i THEN word[p] ELSE mem[Element(s, j)]
    <3>1. mem[s] \in Nat /\ 1..mem[s] \subseteq 1..ArraySize(mem[s])-1
      BY <1>2, <1>6, SizeOfArray
    <3> QED
      BY <1>2, <1>7, <3>1
  <2>2. i \in 1..mem[s]
    BY DEF s
  <2>3. \A j \in 1..mem[s] : Meaning(mem'[Element(s, j)])
                               = IF j = i THEN Meaning(word[p]) ELSE Meaning(mem[Element(s, j)])
    BY <2>1
  <2>4. /\ Contents[name[s]] = [j \in 1..mem[s] |-> Meaning(mem[Element(s, j)])]
        /\ Contents'[name[s]] = [j \in 1..mem[s] |-> Meaning(mem'[Element(s, j)])]
    BY <1>2, <1>12
  <2>5. DOMAIN Contents[name[s]] = 1..mem[s]
        /\ Contents[name[s]] = [j \in 1..mem[s] |-> Contents[name[s]][j]]
        /\ Contents'[name[s]] = [j \in 1..mem[s] |-> Contents'[name[s]][j]]
    BY <2>4
  <2>6. \A j \in 1..mem[s] : Contents'[name[s]][j]
                               = IF j = i THEN Meaning(word[p]) ELSE Contents[name[s]][j]
    BY <2>3, <2>4
  <2> QED
    BY <2>2, <2>5, <2>6, FunctionExcept
<1>15. Contents' = [Contents EXCEPT ![name[s]] = [Contents[name[s]] EXCEPT ![i] = Meaning(word[p])]]
  <2>1. ASSUME NEW id \in Names
        PROVE  Contents'[id] = IF id = name[s] THEN [Contents[name[s]] EXCEPT ![i] = Meaning(word[p])]
                               ELSE Contents[id]
    <3>1. PICK o \in Starts : id = name[o]
      BY <1>5 DEF Names
    <3> QED
      BY <1>13, <1>14, <3>1
  <2>2. DOMAIN Contents = Names /\ Contents' = [id \in Names |-> Contents'[id]]
        /\ Contents = [id \in Names |-> Contents[id]]
    BY <1>11 DEF Contents
  <2> QED
    BY <2>1, <2>2
<1> QED
  BY <1>2, <1>5, <1>10, <1>11, <1>14, <1>15 DEF s

LEMMA StoreSInv == SInv /\ Store => SInv'
<1> SUFFICES ASSUME SInv, Store PROVE SInv'
  OBVIOUS
<1>1. IInv'
  BY StoreIInv DEF SInv
<1>2. /\ control = "program"
      /\ UNCHANGED <<valid, heap, words, name, program, collector, control, request>>
  BY DEF Store
<1>3. PICK p \in defined, q \in defined :
         /\ IsPointer(word[q])
         /\ \E i \in 1..mem[word[q]] : mem' = [mem EXCEPT ![Element(word[q], i)] = word[p]]
  BY DEF Store
<1>4. PICK i \in 1..mem[word[q]] : mem' = [mem EXCEPT ![Element(word[q], i)] = word[p]]
  BY <1>3
<1> QED
  BY <1>1, <1>2, <1>3, <1>4, StoreContents

\* allocate adds one array, under a name of its own, and changes no other.
LEMMA GrantContents ==
  ASSUME SInv, Grant
  PROVE  /\ SInv' /\ ~Collecting /\ ~Collecting'
         /\ name'[allocptr] \in Ids \ Names
         /\ Names' = Names \union {name'[allocptr]}
         /\ \A id \in Names : Contents'[id] = Contents[id]
         /\ Contents'[name'[allocptr]] = [i \in 1..DataSize |-> Meaning(FwFill)]
         /\ \A v \in Int : Leads(v, Starts) => Meaning(v)' = Meaning(v)
<1> PICK k : k = allocptr
  OBVIOUS
<1> PICK n : n = DataSize
  OBVIOUS
<1>1. IInv /\ IInv' /\ WInv /\ ~Collecting /\ ~Collecting' /\ control' = "program"
      /\ name' = [name EXCEPT ![k] = CHOOSE id \in Ids \ {name[a] : a \in Starts} : TRUE]
      /\ Running
  BY GrantIInv DEF SInv, WInv, Grant, Allocated, Collecting, Running
<1>2. /\ n \in Nat /\ FwFill \in Int /\ k \in Address /\ k \notin Starts
      /\ Starts' = Starts \union {k} /\ mem'[k] = n
      /\ \A j \in 1..ArraySize(n)-1 : mem'[Element(k, j)] = IF n = 0 THEN 1 ELSE FwFill
      /\ \A s \in Starts :
            /\ s \in Address /\ mem'[s] = mem[s]
            /\ \A j \in 1..ArraySize(mem[s])-1 : mem'[Element(s, j)] = mem[Element(s, j)]
  BY <1>1, GrantHeap
<1>3. /\ heap \in Heaps /\ words[heap] \in Nat /\ words[heap] <= HEAP_SIZE
      /\ Tiles(Starts, mem, heap, words[heap])
  BY <1>1, QuietState
<1>4. Originals = Starts /\ Originals' = Starts' /\ Known = Starts
  BY <1>1, OriginalsQuiet, NextState DEF Known
<1>5. \A s \in Starts : mem[s] \in Nat /\ 1..mem[s] \subseteq 1..ArraySize(mem[s])-1
  BY <1>3, TileBounds, SizeOfArray
<1>6. Leads(FwFill, Starts)
  BY <1>1 DEF IInv, Quiet, Frame
<1>7. \A s \in Starts : name[s] \in Ids /\ s # k /\ name'[s] = name[s]
  BY <1>1, <1>2, <1>4 DEF WInv, Named
<1>8. name'[k] \in Ids \ Names
  <2>1. (CHOOSE id \in Ids \ {name[a] : a \in Starts} : TRUE) \in Ids \ {name[a] : a \in Starts}
    BY <1>3, FreshName
  <2>2. IInv => name \in [Address -> Ids \union {0}]
    BY DEF IInv, TypeOK
  <2>3. name'[k] = CHOOSE id \in Ids \ {name[a] : a \in Starts} : TRUE
    BY <1>1, <1>2, <2>2
  <2> QED
    BY <1>4, <2>1, <2>3 DEF Names
<1>9. Named'
  <2>1. \A o \in Starts' : name'[o] \in Ids
    BY <1>2, <1>7, <1>8
  <2>2. ASSUME NEW o \in Starts', NEW q \in Starts', name'[o] = name'[q] PROVE o = q
    <3>1. \A x \in Starts : name[x] \in Names
      BY <1>4 DEF Names
    <3>2. \A x, y \in Starts : name[x] = name[y] => x = y
      BY <1>1, <1>4 DEF WInv, Named
    <3> QED
      BY <1>2, <1>7, <1>8, <2>2, <3>1, <3>2
  <2>3. ASSUME NEW a \in Address, name'[a] \in Ids PROVE a \in Starts'
    <3>1. a # k => name'[a] = name[a]
      BY <1>1
    <3> QED
      BY <1>1, <1>2, <1>4, <2>3, <3>1 DEF WInv, Named
  <2> QED
    BY <1>1, <1>4, <2>1, <2>2, <2>3 DEF Named
<1>10. Padded'
  <2> SUFFICES ASSUME NEW o \in Starts', mem'[o] = 0 PROVE ~IsPointer(mem'[Element(o, 1)])
    BY <1>1, <1>4 DEF Padded
  <2>1. 1 \in 1..ArraySize(0)-1
    BY DEF ArraySize
  <2>2. CASE o \in Starts
    <3>1. mem[o] = 0 /\ mem'[Element(o, 1)] = mem[Element(o, 1)]
      BY <1>2, <2>1, <2>2
    <3> QED
      BY <1>4, <2>2, <3>1 DEF SInv, Padded
  <2>3. CASE o = k
    BY <1>2, <2>1, <2>3 DEF IsPointer
  <2> QED
    BY <1>2, <2>2, <2>3
<1>11. WInv' /\ SInv'
  <2>1. WInv'
    BY <1>1, <1>9 DEF WInv
  <2>2. Kept'
    BY <1>1 DEF Kept
  <2> QED
    BY <1>1, <1>9, <1>10, <2>1, <2>2 DEF SInv
<1>12. Names' = Names \union {name'[k]}
  BY <1>2, <1>4, <1>7 DEF Names
<1>13. \A v \in Int : Leads(v, Starts) => Meaning(v)' = Meaning(v)
  <2>1. \A v \in Address : IsPointer(v)
    BY AddressBounds DEF Address, Heaps
  <2> QED
    BY <1>7, <2>1 DEF Meaning, Leads
<1>14. ASSUME NEW s \in Starts PROVE Contents'[name[s]] = Contents[name[s]]
  <2>1. Contents[name[s]] = ArrayAt(s) /\ Contents'[name'[s]] = ArrayAt(s)'
    BY <1>1, <1>2, <1>7, <1>11, ContentsAt, ContentsAtNext
  <2>2. ArrayAt(s) = [j \in 1..mem[s] |-> Meaning(mem[Element(s, j)])]
        /\ ArrayAt(s)' = [j \in 1..mem'[s] |-> Meaning(mem[Element(s, j)])']
    BY <1>1, <1>11, ArrayAtQuiet, ArrayAtQuietNext DEF WInv
  <2>3. ASSUME NEW j \in 1..mem[s] PROVE Meaning(mem[Element(s, j)])' = Meaning(mem[Element(s, j)])
    <3>1. mem[Element(s, j)] \in Int /\ Leads(mem[Element(s, j)], Starts)
      BY <1>1, ElementLeads
    <3>2. mem'[Element(s, j)] = mem[Element(s, j)]
      BY <1>2, <1>5
    <3> QED
      BY <1>13, <3>1, <3>2 DEF Meaning
  <2>4. ArrayAt(s)' = ArrayAt(s)
    BY <1>2, <2>2, <2>3
  <2> QED
    BY <1>7, <2>1, <2>4
<1>15. Contents'[name'[k]] = [i \in 1..n |-> Meaning(FwFill)]
  <2>1. Contents'[name'[k]] = ArrayAt(k)'
    BY <1>2, <1>8, <1>11, ContentsAtNext
  <2>2. ArrayAt(k)' = [j \in 1..mem'[k] |-> Meaning(mem[Element(k, j)])']
    BY <1>1, <1>11, ArrayAtQuietNext DEF WInv
  <2>3. ASSUME NEW j \in 1..n PROVE Meaning(mem[Element(k, j)])' = Meaning(FwFill)
    <3>1. n # 0 /\ j \in 1..ArraySize(n)-1
      BY <1>2, SizeOfArray
    <3>2. mem'[Element(k, j)] = FwFill
      BY <1>2, <3>1
    <3> QED
      BY <1>2, <1>6, <1>13, <3>2 DEF Meaning
  <2> QED
    BY <1>2, <2>1, <2>2, <2>3
<1> QED
  BY <1>1, <1>4, <1>7, <1>8, <1>11, <1>12, <1>13, <1>14, <1>15 DEF Names

-----------------------------------------------------------------------------
(***************************************************************************)
(* The collection starts: every array is where it was.                     *)
(***************************************************************************)
LEMMA StartGCContents ==
  ASSUME SInv, StartGC
  PROVE  /\ SInv' /\ Originals' = Originals /\ Names' = Names /\ Contents' = Contents
         /\ ~Collecting /\ Collecting' /\ \A v : Meaning(v)' = Meaning(v)
<1>1. /\ IInv /\ IInv' /\ WInv /\ ~Collecting /\ Collecting' /\ control' = "copy"
      /\ heap' = heap2 /\ words' = [words EXCEPT ![heap2] = 0]
      /\ UNCHANGED <<mem, valid, name, frames>>
  BY StartGCIInv DEF SInv, WInv, StartGC, Collecting
<1>2. /\ heap \in Heaps /\ words[heap] \in Nat /\ words[heap] <= HEAP_SIZE /\ frames = <<>>
      /\ Tiles(Starts, mem, heap, words[heap]) /\ words \in [Heaps -> 0..HEAP_SIZE]
  BY <1>1, QuietState DEF IInv, TypeOK
<1>3. heap2 \in Heaps /\ heap2 # heap /\ heap2' = heap
  BY <1>1, <1>2 DEF heap2, Heaps
<1>4. words'[heap'] = 0 /\ words'[heap2'] = words[heap]
  BY <1>1, <1>2, <1>3
<1>5. Originals = Starts /\ Originals' = Starts
  <2>1. Originals' = {a \in AddressesOf(heap) : a < Base(heap) + 8 * words[heap] /\ valid[a]}
    BY <1>1, <1>3, <1>4 DEF Originals
  <2> QED
    BY <1>1, <2>1, OriginalsQuiet DEF Starts, allocptr
<1>6. Copies' = {}
  <2>1. PICK size : Collection(Originals, size, Copies)'
    BY <1>1, CollectionNext
  <2>2. Tiles(Copies', mem', heap2, 0)
    BY <1>1, <1>4, <2>1 DEF Collection, NewHeap
  <2>3. ASSUME NEW c \in Copies' PROVE FALSE
    <3>1. c \in Int /\ Base(heap2) <= c /\ ArraySize(mem'[c]) \in Nat /\ ArraySize(mem'[c]) >= 2
          /\ c + 8 * ArraySize(mem'[c]) <= Base(heap2) + 8 * 0
      BY <1>3, <2>2, TileBounds
    <3> QED
      BY <1>3, <3>1, BaseInt
  <2> QED
    BY <2>3
<1>7. \A o \in Starts : mem'[o] \in Nat /\ mem'[o] # -1 /\ o \in Address /\ name'[o] = name[o]
  BY <1>1, <1>2, TileBounds, AddressBounds
<1>8. Named'
  BY <1>1, <1>5 DEF WInv, Named
<1>9. Moved'
  BY <1>1, <1>2, <1>5, <1>6, <1>7 DEF Moved, Forwarded
<1>10. Padded'
  BY <1>1, <1>2, <1>5, <1>6 DEF SInv, Padded
<1>11. Found'
  BY <1>6 DEF Found
<1>12. Kept'
  BY <1>1 DEF Kept
<1>13. WInv' /\ SInv'
  BY <1>1, <1>8, <1>9, <1>10, <1>11, <1>12 DEF WInv, SInv
<1>14. ASSUME NEW o \in Originals PROVE ArrayAt(o)' = ArrayAt(o)
  <2>1. ArrayAt(o) = [j \in 1..mem[o] |-> Meaning(mem[Element(o, j)])]
    BY <1>1, ArrayAtQuiet
  <2>2. Place(o)' = o
    BY <1>5, <1>7 DEF Place, Forwarded
  <2>3. \A j : Raw(o, j)' = mem'[Element(o, j)]
    BY <1>1, <1>2, RawPlainNext
  <2>4. ArrayAt(o)' = [j \in 1..mem'[o] |-> Meaning(Raw(o, j))']
    BY <2>2 DEF ArrayAt
  <2>5. ASSUME NEW j PROVE Meaning(Raw(o, j))' = Meaning(mem[Element(o, j)])
    BY <1>1, <2>3 DEF Meaning
  <2> QED
    BY <1>1, <2>1, <2>4, <2>5
<1>15. Names' = Names /\ Contents' = Contents
  BY <1>1, <1>5, <1>7, <1>13, <1>14, ContentsSame
<1>16. \A v : Meaning(v)' = Meaning(v)
  BY <1>1 DEF Meaning
<1> QED
  BY <1>1, <1>5, <1>13, <1>15, <1>16

-----------------------------------------------------------------------------
(***************************************************************************)
(* The steps of the collection.  What gc_copy returns means what it was    *)
(* given, and when it was given an array it returns a copy.                *)
(***************************************************************************)
LEMMA Delivered ==
  ASSUME SInv, CopyNothing \/ CopyForwarded \/ ArrayCopied
  PROVE  /\ Collecting /\ IInv'
         /\ \E result \in Int :
               /\ Deliver(result) /\ Meaning(result) = Meaning(value)
               /\ frames = <<>> => Meaning(result) = Meaning(Source)
               /\ frames = <<>> /\ Source \in Originals
                     => result \in Copies /\ name[result] = name[Source]
               /\ frames # <<>> \/ scan > StackWords => Leads(result, Copies)
               /\ control = "copy" /\ ~IsPointer(value) => ~IsPointer(result)
<1>1. Collecting /\ IInv /\ IInv' /\ WInv /\ Moved
  BY CopyNothingIInv, CopyForwardedIInv, ArrayCopiedIInv
     DEF SInv, WInv, CopyNothing, CopyForwarded, ArrayCopied, Collecting
<1>2. PICK size : Collection(Originals, size, Copies)
  BY <1>1, CollectionIs
<1>3. /\ heap \in Heaps /\ heap2 \in Heaps /\ mem \in [Address -> Int] /\ value \in Int
      /\ Tiles(Originals, size, heap2, words[heap2])
      /\ scan \in Int /\ StackWords \in Int
  BY <1>1, <1>2, CollectionState, Constants
<1>4. Collectable(value) <=> value \in Originals
  <2>1. Collectable(value) <=> IsPointer(value) /\ value \in Originals
    BY <1>1, <1>2, CollectableStart
  <2>2. value \in Originals => IsPointer(value)
    BY <1>1, Halves, AddressBounds, <1>3
  <2> QED
    BY <2>1, <2>2
<1>5. control = "copy" /\ frames = <<>> => value = Source
  BY <1>2 DEF Collection, Value, Source
<1>6. control = "copy" /\ (frames # <<>> \/ scan > StackWords) => Leads(value, Originals)
  <2>1. control = "copy" /\ frames # <<>> => Leads(value, Originals)
    BY <1>2 DEF Collection, Value
  <2>2. frames = <<>> /\ control = "copy" /\ scan > StackWords => value = FwFill
    BY <1>3, <1>5 DEF Source
  <2>3. Leads(FwFill, Originals)
    BY <1>2 DEF Collection, StackScanned
  <2> QED
    BY <2>1, <2>2, <2>3
<1>7. CASE CopyNothing
  <2>1. control = "copy" /\ value \notin Originals /\ Deliver(value)
    BY <1>4, <1>7 DEF CopyNothing
  <2>2. frames # <<>> \/ scan > StackWords => Leads(value, Copies)
    BY <1>6, <2>1 DEF Leads
  <2> QED
    BY <1>1, <1>3, <1>5, <2>1, <2>2
<1>8. CASE CopyForwarded
  <2>1. control = "copy" /\ value \in Originals /\ Forwarded(value) /\ Deliver(Copy(value))
    BY <1>4, <1>8 DEF CopyForwarded, Copy
  <2>2. /\ Copy(value) \in Copies /\ value \in Address /\ Copy(value) \in Address
        /\ name[Copy(value)] = name[value] /\ Copy(value) \in Int /\ IsPointer(value)
    BY <1>1, <1>3, <2>1, Halves, AddressBounds DEF Moved
  <2>3. Meaning(Copy(value)) = Meaning(value)
    BY <2>2 DEF Meaning
  <2>4. Leads(Copy(value), Copies)
    BY <2>2 DEF Leads
  <2> QED
    BY <1>1, <1>5, <2>1, <2>2, <2>3, <2>4
<1>9. CASE ArrayCopied
  <2>1. control = "copied" /\ Deliver(value) /\ value \in Copies
    BY <1>2, <1>9 DEF ArrayCopied, Collection, Value
  <2>2. ASSUME frames = <<>>
        PROVE  /\ Source \in Originals /\ Copy(Source) = value /\ name[value] = name[Source]
               /\ Meaning(value) = Meaning(Source)
    <3>1. Source \in Originals /\ Forwarded(Source) /\ Copy(Source) = value
          /\ name[value] = name[Source]
      BY <1>1, <2>1, <2>2 DEF Moved
    <3>2. Source \in Address /\ value \in Address
      BY <1>1, <2>1, <3>1, Halves
    <3> QED
      BY <3>1, <3>2 DEF Meaning
  <2>3. Leads(value, Copies)
    BY <2>1 DEF Leads
  <2> QED
    BY <1>1, <1>3, <2>1, <2>2, <2>3
<1> QED
  BY <1>7, <1>8, <1>9

\* The result goes back into the stack.
LEMMA UpdateRootContents ==
  ASSUME SInv, IInv', Collecting, NEW result \in Int, UpdateRoot(result),
         Source \in Originals => result \in Copies /\ name[result] = name[Source]
  PROVE  /\ SInv' /\ Originals' = Originals /\ Names' = Names /\ Contents' = Contents
         /\ \A v : Meaning(v)' = Meaning(v)
<1>1. /\ IInv /\ WInv /\ Moved /\ Found /\ Collecting' /\ control' = "copy"
      /\ frames = <<>> /\ frames' = <<>> /\ scan <= StackWords /\ scan' = scan + 1
      /\ word' = [word EXCEPT ![scan] = result]
      /\ UNCHANGED <<mem, valid, heap, words, name, rsp, request>>
  BY DEF SInv, WInv, UpdateRoot, Collecting, memory
<1>2. PICK size : Collection(Originals, size, Copies)
  BY <1>1, CollectionIs
<1>3. /\ scan \in StackTop..StackWords /\ StackTop \in 1..StackWords /\ StackWords \in Nat
      /\ word \in [Places -> Int] /\ \A w \in StackTop..StackWords : w \in Places
  <2>1. /\ scan \in StackTop..StackWords+1 /\ StackTop \in 1..StackWords
        /\ word \in [Places -> Int]
    BY <1>1, <1>2, CollectionState
  <2> QED
    BY <1>1, <2>1, Constants DEF Places
<1>4. Originals' = Originals /\ Copies' = Copies
  <2>1. heap2' = heap2
    BY <1>1 DEF heap2
  <2> QED
    BY <1>1, <2>1 DEF Originals, Copies, Tiles
<1>5. \A v : Meaning(v)' = Meaning(v)
  BY <1>1 DEF Meaning
<1>6. Named' /\ Moved'
  BY <1>1, <1>4 DEF WInv, Named, Moved, Forwarded, Copy
<1>7. Padded'
  <2>1. \A c : FrameOf(c)' = {} /\ FrameOf(c) = {}
    BY <1>1 DEF FrameOf
  <2> QED
    BY <1>1, <1>4, <2>1 DEF SInv, Padded
<1>8. WInv'
  BY <1>1, <1>6 DEF WInv
<1>9. ASSUME NEW o \in Originals PROVE name'[o] = name[o] /\ ArrayAt(o)' = ArrayAt(o)
  <2>1. heap2' = heap2
    BY <1>1 DEF heap2
  <2>2. Place(o)' = Place(o)
    BY <1>1, <2>1 DEF Place, Forwarded
  <2>3. \A b, j : Raw(b, j) = mem[Element(b, j)] /\ Raw(b, j)' = mem'[Element(b, j)]
    BY <1>1, RawPlain, RawPlainNext
  <2>4. ArrayAt(o) = [j \in 1..mem[Place(o)] |-> Meaning(Raw(Place(o), j))]
    BY DEF ArrayAt
  <2>5. ArrayAt(o)' = [j \in 1..mem'[Place(o)'] |-> Meaning(Raw(Place(o), j))']
    BY DEF ArrayAt
  <2>6. \A j : Meaning(Raw(Place(o), j))' = Meaning(Raw(Place(o), j))
    BY <1>1, <2>2, <2>3 DEF Meaning
  <2> QED
    BY <1>1, <2>2, <2>4, <2>5, <2>6
<1>10. Names' = Names /\ Contents' = Contents
  BY <1>1, <1>4, <1>8, <1>9, ContentsSame
<1>11. Found'
  <2> SUFFICES ASSUME NEW S \in SUBSET Names, Closed(S, Contents),
                      \A w \in StackTop..StackWords :
                         w < scan' /\ word'[w] \in Copies => name[word'[w]] \in S
               PROVE  \A c \in Copies : name[c] \in S
    <3>1. StackTop' = StackTop
      BY <1>1 DEF StackTop
    <3>2. \A S : Closed(S, Contents)' = Closed(S, Contents)
      BY <1>10 DEF Closed
    <3> QED
      BY <1>1, <1>4, <1>10, <3>1, <3>2 DEF Found
  <2>1. \A w \in StackTop..StackWords : w < scan /\ word[w] \in Copies => name[word[w]] \in S
    <3> SUFFICES ASSUME NEW w \in StackTop..StackWords, w < scan, word[w] \in Copies
                 PROVE  name[word[w]] \in S
      OBVIOUS
    <3>1. word'[w] = word[w] /\ w < scan'
      BY <1>1, <1>3
    <3> QED
      BY <3>1
  <2>2. Source \in Originals => name[Source] \in S
    BY <1>1, <1>3
  <2> QED
    BY <1>1, <2>1, <2>2 DEF Found
<1>12. Kept'
  BY <1>1 DEF Kept
<1> QED
  BY <1>1, <1>4, <1>5, <1>6, <1>7, <1>10, <1>11, <1>12 DEF SInv

\* The collection is over: the arrays that were found are left.
LEMMA UpdateFillContents ==
  ASSUME SInv, IInv', Collecting, NEW result \in Int, UpdateFill(result),
         Leads(result, Copies),
         Source \in Originals => result \in Copies /\ name[result] = name[Source]
  PROVE  /\ SInv' /\ ~Collecting'
         /\ Names' \subseteq Names /\ Names' = {name[c] : c \in Copies}
         /\ Closed(Names', Contents)
         /\ \A id \in Names' : Contents'[id] = Contents[id]
         /\ \A v \in Int : Leads(v, Copies) => Meaning(v)' = Meaning(v)
<1>1. /\ IInv /\ WInv /\ Moved /\ Found /\ ~Collecting' /\ control' = "retry"
      /\ frames = <<>> /\ frames' = <<>> /\ scan > StackWords
      /\ request' = <<FwSize, result>>
      /\ mem' = [a \in Address |-> IF a \in AddressesOf(heap2) THEN 0 ELSE mem[a]]
      /\ name' = [a \in Address |-> IF a \in AddressesOf(heap2) THEN 0 ELSE name[a]]
      /\ UNCHANGED <<valid, heap, words, word, rsp>>
  BY DEF SInv, WInv, UpdateFill, Collecting, program
<1>2. PICK size : Collection(Originals, size, Copies)
  BY <1>1, CollectionIs
<1>3. /\ heap \in Heaps /\ heap2 \in Heaps /\ words[heap] \in Nat /\ words[heap] <= HEAP_SIZE
      /\ Tiles(Copies, mem, heap, words[heap])
      /\ scan \in StackTop..StackWords+1 /\ StackTop \in 1..StackWords
      /\ word \in [Places -> Int] /\ scan \in Int /\ StackWords \in Nat
  BY <1>1, <1>2, CollectionState, Constants
<1>4. \A a \in AddressesOf(heap) : a \in Address /\ mem'[a] = mem[a] /\ name'[a] = name[a]
  <2>1. \A a \in AddressesOf(heap) : a \in Address /\ a \notin AddressesOf(heap2)
    BY <1>3, AddressBounds, HeapsDisjoint, TwoHeaps
  <2> QED
    BY <1>1, <2>1
<1>5. \A c \in Copies : /\ c \in AddressesOf(heap) /\ c \in Address /\ c \notin AddressesOf(heap2)
                        /\ mem[c] \in Nat /\ name[c] \in Ids
  BY <1>1, Halves, KnownNames DEF Known
<1>6. Originals' = Copies
  <2>1. Tiles(Starts', mem', heap, words[heap])
    BY <1>1 DEF IInv, Quiet
  <2>2. Tiles(Copies, mem', heap, words[heap])
    BY <1>3, <1>4, <1>5, TilesSame
  <2>3. Starts' = Copies
    BY <1>3, <2>1, <2>2, TilesEqual
  <2> QED
    BY <1>1, <2>3, NextState
<1>7. Names' = {name[c] : c \in Copies}
  BY <1>4, <1>5, <1>6 DEF Names
<1>8. ASSUME NEW c \in Copies, NEW d \in Copies, name[c] = name[d] PROVE c = d
  <2>1. PICK o \in Originals : Forwarded(o) /\ Copy(o) = c /\ name[c] = name[o]
    BY <1>1 DEF Moved
  <2>2. PICK q \in Originals : Forwarded(q) /\ Copy(q) = d /\ name[d] = name[q]
    BY <1>1 DEF Moved
  <2> QED
    BY <1>1, <1>8, <2>1, <2>2 DEF WInv, Named
<1>9. Named'
  <2>1. \A a \in Address : name'[a] \in Ids => a \in Copies
    <3> SUFFICES ASSUME NEW a \in Address, name'[a] \in Ids PROVE a \in Copies
      OBVIOUS
    <3>1. a \notin AddressesOf(heap2) /\ name[a] \in Ids
      BY <1>1, ConstantsFit
    <3> QED
      BY <1>1, <3>1, Halves DEF WInv, Named
  <2> QED
    BY <1>1, <1>4, <1>5, <1>6, <1>8, <2>1 DEF Named
<1>10. ASSUME NEW c \in Copies, NEW j \in 1..ArraySize(mem[c])-1
       PROVE  /\ mem'[Element(c, j)] = mem[Element(c, j)] /\ mem[Element(c, j)] \in Int
              /\ Leads(mem[Element(c, j)], Copies)
  <2>1. Filled(mem, valid, c, ArraySize(mem[c]), Copies)
    BY <1>1, <1>2 DEF Collection, Calls
  <2>2. Element(c, j) \in AddressesOf(heap)
    BY <1>3, Inner
  <2>3. mem \in [Address -> Int]
    BY <1>1 DEF IInv, TypeOK
  <2> QED
    BY <1>4, <2>1, <2>2, <2>3 DEF Filled
<1>11. Padded'
  <2>1. \A c \in Copies : mem[c] = 0 => ~IsPointer(mem[Element(c, 1)])
    BY <1>1 DEF SInv, Padded, FrameOf
  <2>2. \A c \in Copies : mem[c] = 0 => mem'[Element(c, 1)] = mem[Element(c, 1)]
    BY <1>10 DEF ArraySize
  <2> QED
    BY <1>1, <1>4, <1>5, <1>6, <2>1, <2>2 DEF Padded
<1>12. WInv'
  BY <1>1, <1>9 DEF WInv
<1>13. \A v \in Int : Leads(v, Copies) => Meaning(v)' = Meaning(v)
  <2>1. \A v \in Address : IsPointer(v)
    BY AddressBounds DEF Address, Heaps
  <2> QED
    BY <1>4, <1>5, <2>1 DEF Meaning, Leads
<1>14. Names' \subseteq Names
  BY <1>1, <1>5, <1>7, ContentsAt
<1>15. ASSUME NEW c \in Copies
       PROVE  /\ Contents'[name[c]] = Contents[name[c]]
              /\ Contents[name[c]] = [j \in 1..mem[c] |-> Meaning(mem[Element(c, j)])]
              /\ 1..mem[c] \subseteq 1..ArraySize(mem[c])-1
  <2>1. Contents[name[c]] = ArrayAt(c) /\ Contents'[name[c]] = ArrayAt(c)'
    BY <1>1, <1>4, <1>5, <1>12, ContentsAt, ContentsAtNext
  <2>2. Place(c) = c /\ \A j : Raw(c, j) = mem[Element(c, j)]
    BY <1>1, <1>5, RawPlain DEF Place
  <2>3. ArrayAt(c) = [j \in 1..mem[c] |-> Meaning(mem[Element(c, j)])]
    BY <2>2 DEF ArrayAt
  <2>4. ArrayAt(c)' = [j \in 1..mem'[c] |-> Meaning(mem[Element(c, j)])']
    BY <1>1, ArrayAtQuietNext
  <2>5. 1..mem[c] \subseteq 1..ArraySize(mem[c])-1
    BY <1>5, SizeOfArray
  <2>6. ASSUME NEW j \in 1..mem[c] PROVE Meaning(mem[Element(c, j)])' = Meaning(mem[Element(c, j)])
    <3>1. /\ mem'[Element(c, j)] = mem[Element(c, j)] /\ mem[Element(c, j)] \in Int
          /\ Leads(mem[Element(c, j)], Copies)
      BY <1>10, <2>5
    <3> QED
      BY <1>13, <3>1 DEF Meaning
  <2>7. ArrayAt(c)' = ArrayAt(c)
    BY <1>4, <1>5, <2>3, <2>4, <2>6
  <2> QED
    BY <2>1, <2>3, <2>5, <2>7
<1>16. Closed(Names', Contents)
  <2> SUFFICES ASSUME NEW c \in Copies, NEW v \in Range(Contents[name[c]]), v \in Names
               PROVE  v \in Names'
    BY <1>7, ContentsDomain DEF Closed
  <2>1. PICK j \in 1..mem[c] : v = Meaning(mem[Element(c, j)])
    <3>1. PICK f : f = Contents[name[c]]
      OBVIOUS
    <3>2. f = [j \in 1..mem[c] |-> Meaning(mem[Element(c, j)])]
      BY <1>15, <3>1
    <3>3. PICK j \in DOMAIN f : v = f[j]
      BY <3>1 DEF Range
    <3> QED
      BY <3>2, <3>3
  <2>2. mem[Element(c, j)] \in Int /\ Leads(mem[Element(c, j)], Copies)
    BY <1>10, <1>15
  <2>3. mem[Element(c, j)] \in Address /\ v = name[mem[Element(c, j)]]
    BY <1>1, <2>1, <2>2, NamesAreIds, MeaningName
  <2>4. mem[Element(c, j)] \in Copies
    BY <2>2, <2>3, AddressBounds DEF Address, Heaps, Leads
  <2> QED
    BY <1>7, <2>3, <2>4
<1>17. \A id \in Names' : Contents'[id] = Contents[id]
  BY <1>7, <1>15
<1>18. Names' \subseteq Span({Meaning(word[w]) : w \in StackTop..StackWords}
                               \union {Meaning(FwFill)}, Contents)'
  <2> PICK V : V = ({Meaning(word[w]) : w \in StackTop..StackWords} \union {Meaning(FwFill)})'
    OBVIOUS
  <2> PICK S : S = Span(V, Contents')
    OBVIOUS
  <2>1. DOMAIN Contents' = Names' /\ DOMAIN Contents = Names
    BY DEF Contents
  <2>2. S \subseteq Names' /\ V \intersect Names' \subseteq S /\ Closed(S, Contents')
    BY <2>1, SpanContains
  <2>3. Closed(S, Contents)
    BY <1>16, <1>17, <2>1, <2>2 DEF Closed
  <2>4. ASSUME NEW w \in StackTop..StackWords, word[w] \in Copies PROVE name[word[w]] \in S
    <3>1. StackTop' = StackTop
      BY <1>1 DEF StackTop
    <3>2. Meaning(word[w])' \in V
      BY <3>1
    <3>3. Meaning(word[w])' = name[word[w]]
      BY <1>1, <1>4, <1>5, <2>4 DEF Meaning
    <3> QED
      BY <1>7, <2>2, <2>4, <3>2, <3>3
  <2>5. Source \in Originals => name[Source] \in S
    <3> SUFFICES ASSUME Source \in Originals PROVE name[Source] \in S
      OBVIOUS
    <3>1. result \in Copies /\ name[result] = name[Source]
      OBVIOUS
    <3>2. Meaning(FwFill)' \in V /\ FwFill' = result
      BY <1>1 DEF FwFill
    <3>3. Meaning(FwFill)' = name[result]
      BY <1>4, <1>5, <3>1, <3>2 DEF Meaning
    <3> QED
      BY <1>7, <2>2, <3>1, <3>2, <3>3
  <2>6. \A c \in Copies : name[c] \in S
    BY <1>1, <1>14, <2>2, <2>3, <2>4, <2>5 DEF Found
  <2> QED
    BY <1>7, <2>6
<1>19. Kept'
  BY <1>1, <1>18 DEF Kept
<1>20. SInv'
  BY <1>1, <1>9, <1>11, <1>19 DEF SInv
<1> QED
  BY <1>1, <1>7, <1>13, <1>14, <1>16, <1>17, <1>20

\* The calls of gc_copy after an element has been copied
LEMMA FramesNext ==
  ASSUME IInv, Collecting, NEW From, NEW size, NEW To, Collection(From, size, To),
         NEW result, CopyElement(result)
  PROVE  LET L == Len(frames)
         IN  /\ L \in Nat \ {0} /\ DOMAIN frames = 1..L /\ frames[L] = Top
             /\ \A k \in 1..L-1 : frames'[k] = frames[k]
             /\ \/ /\ DOMAIN frames' = 1..L /\ Len(frames') = L /\ control' = "copy"
                   /\ value' = mem[Element(Top.old, Top.i + 1)]
                   /\ frames'[L].old = Top.old /\ frames'[L].new = Top.new
                   /\ frames'[L].size = Top.size /\ frames'[L].i = Top.i + 1
                   /\ Top.i + 1 \in 1..ArraySize(Top.size)-1
                \/ /\ DOMAIN frames' = 1..L-1 /\ Len(frames') = L - 1 /\ control' = "copied"
                   /\ value' = Top.new /\ Top.i + 1 = ArraySize(Top.size)
<1> PICK L : L = Len(frames)
  OBVIOUS
<1>1. /\ L \in Nat \ {0} /\ DOMAIN frames = 1..L /\ Top = frames[L] /\ Top \in CallRecord
      /\ Top.i \in 1..ArraySize(Top.size)-1 /\ ArraySize(Top.size) \in Nat
      /\ frames \in Seq(CallRecord) /\ frames # <<>>
  <2>1. frames # <<>>
    BY DEF CopyElement
  <2> QED
    BY <2>1, CollectionState, TopFrame DEF Waits
<1>2. CASE MoreElements
  <2>1. /\ frames' = [frames EXCEPT ![L].i = @ + 1] /\ control' = "copy"
        /\ value' = mem[Element(Top.old, Top.i + 1)]
    BY <1>2 DEF CopyElement
  <2>2. /\ \A k \in 1..L-1 : k \in DOMAIN frames /\ k # L
        /\ Top.i + 1 \in 1..ArraySize(Top.size)-1
    BY <1>1, <1>2 DEF MoreElements
  <2>3. /\ DOMAIN frames' = 1..L /\ \A k \in 1..L-1 : frames'[k] = frames[k]
        /\ frames'[L] = [Top EXCEPT !.i = @ + 1]
    BY <1>1, <2>1, <2>2
  <2>4. /\ frames'[L].old = Top.old /\ frames'[L].new = Top.new
        /\ frames'[L].size = Top.size /\ frames'[L].i = Top.i + 1
    BY <1>1, <2>3 DEF CallRecord
  <2>5. Len(frames') = L
    BY <1>1, <2>1, <2>3
  <2> QED
    BY <1>1, <2>1, <2>2, <2>3, <2>4, <2>5
<1>3. CASE ~MoreElements
  <2>1. frames' = SubSeq(frames, 1, L - 1) /\ value' = Top.new /\ control' = "copied"
    BY <1>3 DEF CopyElement
  <2>2. /\ DOMAIN frames' = 1..L-1 /\ \A k \in 1..L-1 : frames'[k] = frames[k]
    BY <1>1, <2>1, FramesAfter
  <2>3. Top.i + 1 = ArraySize(Top.size)
    BY <1>1, <1>3 DEF MoreElements
  <2>4. Len(frames') = L - 1
    BY <1>1, <2>1
  <2> QED
    BY <1>1, <2>1, <2>2, <2>3, <2>4
<1> QED
  BY <1>2, <1>3

\* The result becomes an element of a copy.
LEMMA CopyElementContents ==
  ASSUME SInv, IInv', Collecting, NEW result \in Int, CopyElement(result),
         Meaning(result) = Meaning(value),
         control = "copy" /\ ~IsPointer(value) => ~IsPointer(result)
  PROVE  /\ SInv' /\ Originals' = Originals /\ Names' = Names /\ Contents' = Contents
         /\ \A v : Meaning(v)' = Meaning(v)
<1> PICK L : L = Len(frames)
  OBVIOUS
<1> PICK new, old, i : new = Top.new /\ old = Top.old /\ i = Top.i
  OBVIOUS
<1> PICK e : e = Element(new, i)
  OBVIOUS
<1>1. /\ IInv /\ WInv /\ Moved /\ Found /\ Collecting' /\ frames # <<>>
      /\ mem' = [mem EXCEPT ![e] = result] /\ valid' = Flags(new, i)
      /\ UNCHANGED <<heap, words, name, word, rsp, scan, request>>
      /\ control' \in {"copy", "copied"}
  BY DEF SInv, WInv, CopyElement, Collecting, program
<1>2. PICK size : Collection(Originals, size, Copies)
  BY <1>1, CollectionIs
<1>3. /\ heap \in Heaps /\ heap2 \in Heaps /\ heap # heap2
      /\ words[heap] \in Nat /\ words[heap] <= HEAP_SIZE
      /\ words[heap2] \in Nat /\ words[heap2] <= HEAP_SIZE
      /\ mem \in [Address -> Int] /\ valid \in [Address -> BOOLEAN]
      /\ Tiles(Originals, size, heap2, words[heap2]) /\ Tiles(Copies, mem, heap, words[heap])
  BY <1>1, <1>2, CollectionState
<1>4. /\ L \in Nat \ {0} /\ DOMAIN frames = 1..L
      /\ frames[L].new = new /\ frames[L].old = old /\ frames[L].i = i
      /\ \A k \in 1..L-1 : frames'[k] = frames[k]
      /\ \/ /\ DOMAIN frames' = 1..L /\ Len(frames') = L /\ control' = "copy"
            /\ value' = mem[Element(old, i + 1)]
            /\ frames'[L].old = old /\ frames'[L].new = new
            /\ frames'[L].size = frames[L].size /\ frames'[L].i = i + 1
            /\ i + 1 \in 1..ArraySize(frames[L].size)-1
         \/ /\ DOMAIN frames' = 1..L-1 /\ Len(frames') = L - 1 /\ control' = "copied"
            /\ value' = new /\ i + 1 = ArraySize(frames[L].size)
  BY <1>1, <1>2, FramesNext
<1>5. /\ \A k \in 1..L : Waits(mem, valid, frames[k], Originals, size, Copies)
      /\ \A k, l \in 1..L : k # l => frames[k].new # frames[l].new
  BY <1>2, <1>4 DEF Collection, Calls
<1>6. /\ new \in Copies /\ mem[new] = frames[L].size /\ i \in 1..ArraySize(mem[new])-1
      /\ old \in Originals /\ Forwarded(old) /\ i \in Nat /\ mem[new] = size[old]
  <2>1. PICK f : f = frames[L]
    OBVIOUS
  <2>2. Waits(mem, valid, f, Originals, size, Copies) /\ f.new = new /\ f.old = old /\ f.i = i
    BY <1>4, <1>5, <2>1
  <2>3. /\ new \in Copies /\ mem[new] = f.size /\ i \in 1..ArraySize(f.size)-1
        /\ old \in Originals /\ mem[old] = -1 /\ f.size = size[old]
    BY <2>2 DEF Waits
  <2>4. ArraySize(mem[new]) \in Nat
    BY <1>3, <2>3, TileBounds
  <2> QED
    BY <2>1, <2>3, <2>4 DEF Forwarded
<1>7. e \in AddressesOf(heap) /\ e \notin Copies /\ e \in Address /\ mem'[e] = result
      /\ \A a \in Address : a # e => mem'[a] = mem[a]
  BY <1>1, <1>3, <1>6, Inner, AddressBounds
<1>8. ASSUME NEW a \in AddressesOf(heap2)
      PROVE  a \in Address /\ a # e /\ mem'[a] = mem[a] /\ valid'[a] = valid[a]
  <2>1. a \in Address /\ new \in Address /\ new \in AddressesOf(heap)
    BY <1>1, <1>3, <1>6, AddressBounds, Halves
  <2>3. a # e /\ a # new
    BY <1>3, <1>7, <2>1, HeapsDisjoint
  <2>2. valid'[a] = valid[a]
    BY <1>1, <1>3, <2>1, <2>3 DEF Flags
  <2> QED
    BY <1>7, <2>1, <2>2, <2>3
<1>9. \A c \in Copies : /\ c \in Address /\ c \in AddressesOf(heap) /\ c \notin AddressesOf(heap2)
                        /\ mem'[c] = mem[c] /\ mem[c] \in Nat
  BY <1>1, <1>7, Halves
<1>10. ASSUME NEW o \in Originals
       PROVE  /\ o \in AddressesOf(heap2) /\ o \in Address /\ mem'[o] = mem[o]
              /\ \A j \in 1..ArraySize(size[o])-1 :
                    /\ Element(o, j) \in AddressesOf(heap2)
                    /\ mem'[Element(o, j)] = mem[Element(o, j)]
              /\ 1 \in 1..ArraySize(size[o])-1
  BY <1>3, <1>8, Inner, TileBounds
<1>11. Originals' = Originals
  <2>1. heap2' = heap2
    BY <1>1 DEF heap2
  <2> QED
    BY <1>1, <1>8, <2>1 DEF Originals
<1>12. Copies' = Copies
  <2>1. PICK z : Collection(Originals, z, Copies)'
    BY <1>1, CollectionNext
  <2>2. Tiles(Copies', mem', heap, words[heap])
    BY <1>1, <2>1 DEF Collection, NewHeap
  <2>3. Tiles(Copies, mem', heap, words[heap])
    BY <1>3, <1>9, TilesSame
  <2> QED
    BY <1>3, <2>2, <2>3, TilesEqual
<1>13. \A o \in Originals : (Forwarded(o)' <=> Forwarded(o)) /\ Copy(o)' = Copy(o)
  BY <1>10 DEF Forwarded, Copy
<1>14. \A v : Meaning(v)' = Meaning(v)
  BY <1>1 DEF Meaning
<1>15. Named'
  BY <1>1, <1>11, <1>12 DEF WInv, Named
<1>16. Source' = Source /\ StackTop' = StackTop
  BY <1>1 DEF Source, FwFill, StackTop
<1>17. Moved'
  <2>1. \A o \in Originals : Forwarded(o)' => name'[Copy(o)'] = name'[o]
    BY <1>1, <1>13 DEF Moved
  <2>2. \A c \in Copies : \E o \in Originals : Forwarded(o)' /\ Copy(o)' = c
    BY <1>1, <1>13 DEF Moved
  <2>3. \A k \in 1..L : frames[k].new = Copy(frames[k].old) /\ frames[k].old \in Originals
    BY <1>1, <1>4, <1>5 DEF Moved, Waits
  <2>4. ASSUME NEW k \in DOMAIN frames'
        PROVE  k \in 1..L /\ frames'[k].old = frames[k].old /\ frames'[k].new = frames[k].new
    BY <1>4
  <2>5. \A k \in DOMAIN frames' : frames'[k].new = mem'[Element(frames'[k].old, 1)]
    <3> SUFFICES ASSUME NEW k \in DOMAIN frames'
                 PROVE  frames'[k].new = mem'[Element(frames'[k].old, 1)]
      OBVIOUS
    <3>1. PICK o \in Originals : o = frames[k].old /\ frames[k].new = Copy(o)
      BY <2>3, <2>4
    <3>2. mem'[Element(o, 1)] = Copy(o)
      BY <1>10 DEF Copy
    <3> QED
      BY <2>4, <3>1, <3>2
  <2>6. frames' # <<>> => frames'[1].old = Source
    <3> SUFFICES ASSUME frames' # <<>> PROVE frames'[1].old = Source
      OBVIOUS
    <3>1. 1 \in DOMAIN frames'
      <4>1. frames' \in Seq([old: Address, new: Address, size: Nat, i: Nat])
        BY DEF IInv, TypeOK
      <4> QED
        BY <4>1
    <3> QED
      BY <1>1, <2>4, <3>1 DEF Moved
  <2>7. ASSUME frames' = <<>>, control' = "copied"
        PROVE  Source \in Originals /\ Forwarded(Source)' /\ Copy(Source)' = value'
    <3>1. L = 1 /\ value' = new
      BY <1>4, <2>7
    <3>2. Source = old /\ new = Copy(old)
      BY <1>1, <1>4, <2>3, <3>1 DEF Moved
    <3>3. Forwarded(old)' /\ Copy(old)' = Copy(old)
      BY <1>6, <1>13
    <3> QED
      BY <1>6, <1>16, <3>1, <3>2, <3>3 DEF Forwarded, Copy
  <2> QED
    BY <1>11, <1>12, <1>16, <2>1, <2>2, <2>5, <2>6, <2>7 DEF Moved, Copy
\* A copy reads the same, whether it waits for this element, for an inner call or for
\* nothing.
<1>18. ASSUME NEW b \in Copies, NEW j \in 1..mem[b]
       PROVE  Meaning(Raw(b, j))' = Meaning(Raw(b, j))
  <2>1. j \in 1..ArraySize(mem[b])-1
    <3>1. mem[b] \in Nat
      BY <1>9
    <3>2. ArraySize(mem[b]) \in Nat /\ mem[b] <= ArraySize(mem[b]) - 1
      BY <3>1, SizeOfArray
    <3> QED
      BY <3>1, <3>2
  <2>2. Element(b, j) \in Address /\ (Element(b, j) = e => b = new /\ j = i)
    <3>1. Element(b, j) \in AddressesOf(heap)
      BY <1>3, <2>1, Inner
    <3>2. Element(b, j) = Element(new, i) => b = new /\ j = i
      BY <1>3, <1>6, <2>1, Inner
    <3> QED
      BY <1>3, <3>1, <3>2, AddressBounds
  <2>3. CASE \A k \in 1..L : frames[k].new # b
    <3>1. Raw(b, j) = mem[Element(b, j)]
      BY <1>4, <2>3, RawPlain
    <3>2. \A k \in DOMAIN frames' : frames'[k].new # b
      BY <1>4, <2>3
    <3>3. Raw(b, j)' = mem'[Element(b, j)]
      BY <3>2, RawPlainNext
    <3>4. Element(b, j) # e
      BY <1>4, <2>2, <2>3
    <3>5. Raw(b, j)' = Raw(b, j)
      BY <1>7, <2>2, <3>1, <3>3, <3>4
    <3> QED
      BY <1>1, <3>5 DEF Meaning
  <2>4. ASSUME NEW k \in 1..L-1, frames[k].new = b
        PROVE  Meaning(Raw(b, j))' = Meaning(Raw(b, j))
    <3> PICK f : f = frames[k]
      OBVIOUS
    <3>1. k \in 1..L /\ k \in DOMAIN frames /\ k \in DOMAIN frames' /\ frames'[k] = f
      BY <1>4
    <3>2. \A l \in DOMAIN frames : frames[l].new = b => l = k
      BY <1>4, <1>5, <2>4, <3>1
    <3>3. \A l \in DOMAIN frames' : frames'[l].new = b => l = k
      <4>1. \A l \in DOMAIN frames' : l \in 1..L /\ (l = L \/ l \in 1..L-1)
        BY <1>4
      <4>2. \A l \in DOMAIN frames' : l \in DOMAIN frames /\ frames'[l].new = frames[l].new
        BY <1>4, <4>1
      <4> QED
        BY <3>2, <4>2
    <3>4. Raw(b, j) = IF j < f.i THEN mem[Element(b, j)]
                      ELSE IF j > f.i THEN mem[Element(f.old, j)] ELSE InHand(k)
      BY <2>4, <3>1, <3>2, RawWaiting
    <3>5. Raw(b, j)' = IF j < f.i THEN mem'[Element(b, j)]
                       ELSE IF j > f.i THEN mem'[Element(f.old, j)] ELSE InHand(k)'
      BY <2>4, <3>1, <3>3, RawWaitingNext
    <3>6. Waits(mem, valid, f, Originals, size, Copies)
      BY <1>5, <3>1
    <3>7. f.old \in Originals /\ mem[b] = size[f.old]
      BY <2>4, <3>6 DEF Waits
    <3>8. mem'[Element(f.old, j)] = mem[Element(f.old, j)]
      BY <1>10, <2>1, <3>7
    <3>9. b # new
      BY <1>4, <1>5, <2>4, <3>1
    <3>10. mem'[Element(b, j)] = mem[Element(b, j)]
      BY <1>7, <2>2, <3>9
    <3>11. Meaning(InHand(k))' = Meaning(InHand(k))
      <4>1. InHand(k) = frames[k+1].old
        BY <1>4 DEF InHand
      <4>2. CASE k < Len(frames')
        <5>1. InHand(k)' = frames'[k+1].old
          BY <4>2 DEF InHand
        <5>2. frames'[k+1].old = frames[k+1].old
          <6>1. CASE k+1 = L
            BY <1>4, <4>2, <6>1
          <6>2. CASE k+1 \in 1..L-1
            BY <1>4, <6>2
          <6> QED
            BY <1>4, <6>1, <6>2
        <5> QED
          BY <1>1, <4>1, <5>1, <5>2 DEF Meaning
      <4>3. CASE ~(k < Len(frames'))
        <5>1. k + 1 = L /\ value' = new
          BY <1>4, <4>3
        <5>2. InHand(k)' = value' /\ InHand(k) = old
          BY <1>4, <4>1, <4>3, <5>1 DEF InHand
        <5>3. new = Copy(old) /\ name[new] = name[old]
          BY <1>1, <1>4, <1>6 DEF Moved
        <5>4. new \in Address /\ old \in Address
          BY <1>6, <1>9, <1>10
        <5> QED
          BY <1>1, <5>1, <5>2, <5>3, <5>4 DEF Meaning
      <4> QED
        BY <4>2, <4>3
    <3>12. CASE j < f.i
      BY <1>1, <3>4, <3>5, <3>10, <3>12 DEF Meaning
    <3>13. CASE ~(j < f.i) /\ j > f.i
      BY <1>1, <3>4, <3>5, <3>8, <3>13 DEF Meaning
    <3>14. CASE ~(j < f.i) /\ ~(j > f.i)
      <4>1. Raw(b, j) = InHand(k)
        BY <3>4, <3>14
      <4>2. Raw(b, j)' = InHand(k)'
        BY <3>5, <3>14
      <4> QED
        BY <3>11, <4>1, <4>2 DEF Meaning
    <3> QED
      BY <3>12, <3>13, <3>14
  <2>5. CASE b = new
    <3>1. Raw(b, j) = IF j < i THEN mem[Element(b, j)]
                      ELSE IF j > i THEN mem[Element(old, j)] ELSE value
      <4>1. L \in DOMAIN frames /\ \A l \in DOMAIN frames : frames[l].new = b => l = L
        BY <1>4, <1>5, <2>5
      <4>2. InHand(L) = value
        BY <1>4 DEF InHand
      <4> QED
        BY <1>4, <2>5, <4>1, <4>2, RawWaiting
    <3>2. j # i => mem'[Element(b, j)] = mem[Element(b, j)]
      BY <1>7, <2>2
    <3>3. j = i => mem'[Element(b, j)] = result
      BY <1>7, <2>5
    <3>4. mem'[Element(old, j)] = mem[Element(old, j)]
      BY <1>6, <1>10, <2>1, <2>5
    <3>5. CASE L \in DOMAIN frames'
      <4>1. /\ frames'[L].new = b /\ frames'[L].i = i + 1 /\ frames'[L].old = old
            /\ value' = mem[Element(old, i + 1)] /\ Len(frames') = L
        BY <1>4, <2>5, <3>5
      <4>2. \A l \in DOMAIN frames' : frames'[l].new = b => l = L
        BY <1>4, <1>5, <2>5, <3>5
      <4>3. InHand(L)' = value'
        BY <1>4, <4>1 DEF InHand
      <4>4. Raw(b, j)' = IF j < i + 1 THEN mem'[Element(b, j)]
                         ELSE IF j > i + 1 THEN mem'[Element(old, j)] ELSE value'
        BY <3>5, <4>1, <4>2, <4>3, RawWaitingNext
      <4>5. CASE j < i
        <5>1. Raw(b, j)' = Raw(b, j)
          BY <1>6, <2>1, <3>1, <3>2, <4>4, <4>5
        <5> QED
          BY <1>1, <5>1 DEF Meaning
      <4>6. CASE j = i
        <5>1. Raw(b, j)' = result /\ Raw(b, j) = value
          BY <1>6, <3>1, <3>3, <4>4, <4>6
        <5> QED
          BY <1>1, <5>1 DEF Meaning
      <4>7. CASE j > i
        <5>1. Raw(b, j) = mem[Element(old, j)]
          BY <1>6, <3>1, <4>7
        <5>2. Raw(b, j)' = mem[Element(old, j)]
          BY <1>6, <3>4, <4>1, <4>4, <4>7
        <5> QED
          BY <1>1, <5>1, <5>2 DEF Meaning
      <4> QED
        BY <1>6, <4>5, <4>6, <4>7
    <3>6. CASE L \notin DOMAIN frames'
      <4>1. DOMAIN frames' = 1..L-1 /\ i + 1 = ArraySize(mem[new])
        BY <1>4, <1>6, <3>6
      <4>2. \A k \in DOMAIN frames' : frames'[k].new # b
        BY <1>4, <1>5, <2>5, <4>1
      <4>3. Raw(b, j)' = mem'[Element(b, j)]
        BY <4>2, RawPlainNext
      <4>4. ~(j > i)
        BY <1>6, <2>1, <2>5, <4>1
      <4>5. CASE j < i
        <5>1. Raw(b, j)' = Raw(b, j)
          BY <1>6, <3>1, <3>2, <4>3, <4>5
        <5> QED
          BY <1>1, <5>1 DEF Meaning
      <4>6. CASE j = i
        <5>1. Raw(b, j)' = result /\ Raw(b, j) = value
          BY <1>6, <3>1, <3>3, <4>3, <4>6
        <5> QED
          BY <1>1, <5>1 DEF Meaning
      <4> QED
        BY <1>6, <4>4, <4>5, <4>6
    <3> QED
      BY <3>5, <3>6
  <2> QED
    BY <1>4, <2>3, <2>4, <2>5
<1>19. ASSUME NEW o \in Originals PROVE ArrayAt(o)' = ArrayAt(o)
  <2> PICK b : b = Place(o)
    OBVIOUS
  <2>1. Place(o)' = b
    <3>1. heap2' = heap2
      BY <1>1 DEF heap2
    <3> QED
      BY <1>1, <1>10, <3>1 DEF Place, Forwarded
  <2>2. CASE Forwarded(o)
    <3>1. b \in Copies
      BY <1>1, <2>2, PlaceOfOriginal
    <3>2. ArrayAt(o) = [j \in 1..mem[b] |-> Meaning(Raw(b, j))]
      BY DEF ArrayAt
    <3>3. ArrayAt(o)' = [j \in 1..mem'[b] |-> Meaning(Raw(b, j))']
      BY <2>1 DEF ArrayAt
    <3> QED
      BY <1>9, <1>18, <3>1, <3>2, <3>3
  <2>3. CASE ~Forwarded(o)
    <3>1. b = o /\ mem[o] \in Nat /\ mem[o] = size[o]
      BY <1>1, <1>2, <2>3, PlaceOfOriginal DEF Collection, Arrays, Forwarded
    <3>2. \A k \in DOMAIN frames' : frames'[k].new # o
      <4>1. \A k \in DOMAIN frames' : k \in DOMAIN frames /\ frames'[k].new = frames[k].new
        BY <1>4
      <4>2. \A k \in DOMAIN frames : frames[k].new \in Copies
        BY <1>2 DEF Collection, Calls, Waits
      <4> QED
        BY <1>1, <4>1, <4>2, Halves
    <3>3. \A j : Raw(o, j) = mem[Element(o, j)] /\ Raw(o, j)' = mem'[Element(o, j)]
      BY <1>1, <2>3, <3>2, PlaceOfOriginal, RawPlainNext
    <3>4. ASSUME NEW j \in 1..mem[o] PROVE Meaning(Raw(o, j))' = Meaning(Raw(o, j))
      <4>1. j \in 1..ArraySize(size[o])-1
        BY <3>1, SizeOfArray
      <4>2. Raw(o, j)' = Raw(o, j)
        BY <1>10, <3>3, <4>1
      <4> QED
        BY <1>1, <4>2 DEF Meaning
    <3>5. ArrayAt(o) = [j \in 1..mem[o] |-> Meaning(Raw(o, j))]
      BY <3>1 DEF ArrayAt
    <3>6. ArrayAt(o)' = [j \in 1..mem'[o] |-> Meaning(Raw(o, j))']
      BY <2>1, <3>1 DEF ArrayAt
    <3> QED
      BY <1>10, <3>4, <3>5, <3>6
  <2> QED
    BY <2>2, <2>3
<1>20. WInv'
  BY <1>1, <1>15, <1>17 DEF WInv
<1>21. Names' = Names /\ Contents' = Contents
  BY <1>1, <1>11, <1>19, <1>20, ContentsSame
<1>22. Padded'
  <2>1. \A k \in 1..L : frames[k].size = 0 => k = L /\ control = "copy" /\ ~IsPointer(value)
    BY <1>4 DEF SInv, Padded
  <2>2. \A o \in Originals : mem'[o] = 0 => ~IsPointer(mem'[Element(o, 1)])
    BY <1>10 DEF SInv, Padded
  <2>3. ASSUME NEW c \in Copies, mem'[c] = 0, FrameOf(c)' = {}
        PROVE  ~IsPointer(mem'[Element(c, 1)])
    <3>1. mem[c] = 0 /\ 1 \in 1..ArraySize(mem[c])-1
      BY <1>9, <2>3 DEF ArraySize
    <3>2. Element(c, 1) \in Address
      BY <1>3, <3>1, Inner, AddressBounds
    <3>3. CASE c = new
      <4>1. i = 1
        BY <1>6, <3>1, <3>3 DEF ArraySize
      <4>2. ~IsPointer(result)
        <5>1. L \in 1..L /\ frames[L].size = 0
          BY <1>4, <1>6, <3>1, <3>3
        <5>2. control = "copy" /\ ~IsPointer(value)
          BY <2>1, <5>1
        <5> QED
          BY <5>2
      <4> QED
        BY <1>7, <3>3, <4>1, <4>2
    <3>4. CASE c # new
      <4>1. Element(c, 1) # e
        BY <1>3, <1>6, <3>1, <3>4, Inner
      <4>2. FrameOf(c) = {}
        <5> SUFFICES ASSUME NEW k \in DOMAIN frames, frames[k].new = c PROVE FALSE
          BY DEF FrameOf
        <5>1. k \in 1..L-1
          BY <1>4, <3>4
        <5>2. k \in DOMAIN frames' /\ frames'[k].new = c
          BY <1>4, <5>1
        <5> QED
          BY <2>3, <5>2 DEF FrameOf
      <4> QED
        BY <1>7, <2>3, <3>1, <3>2, <4>1, <4>2 DEF SInv, Padded
    <3> QED
      BY <3>3, <3>4
  <2>4. ASSUME NEW k \in DOMAIN frames', frames'[k].size = 0 PROVE FALSE
    <3>1. k \in 1..L /\ frames[k].size = 0
      BY <1>4, <2>4
    <3>2. k = L /\ L \in DOMAIN frames'
      BY <2>1, <2>4, <3>1
    <3>3. i + 1 \in 1..ArraySize(frames[L].size)-1
      BY <1>4, <3>2
    <3>4. ArraySize(frames[L].size) = 2
      BY <3>1, <3>2 DEF ArraySize
    <3> QED
      BY <1>6, <3>3, <3>4
  <2> QED
    BY <1>11, <1>12, <2>2, <2>3, <2>4 DEF Padded
<1>23. Found'
  <2>1. \A S : Closed(S, Contents)' = Closed(S, Contents)
    BY <1>21 DEF Closed
  <2> QED
    BY <1>1, <1>11, <1>12, <1>16, <1>21, <2>1 DEF Found
<1>24. Kept'
  BY <1>1 DEF Kept
<1>25. SInv'
  BY <1>1, <1>15, <1>17, <1>22, <1>23, <1>24 DEF SInv
<1> QED
  BY <1>11, <1>14, <1>21, <1>25

\* An array is moved.  It is read in its copy from now on, and what has not been copied
\* yet where it was.
LEMMA CopyArrayContents ==
  ASSUME SInv, IInv', CopyArray
  PROVE  /\ SInv' /\ Collecting /\ Collecting'
         /\ Originals' = Originals /\ Names' = Names /\ Contents' = Contents
         /\ \A x \in Int : Leads(x, Known) => Meaning(x)' = Meaning(x)
<1> PICK v, k, n, L : v = value /\ k = allocptr /\ n = mem[value] /\ L = Len(frames)
  OBVIOUS
<1> PICK w : w = Element(v, 1)
  OBVIOUS
<1>1. /\ IInv /\ WInv /\ Moved /\ Found /\ Collecting /\ Collecting'
      /\ control = "copy" /\ control' = "copy"
      /\ name' = [name EXCEPT ![k] = name[v]]
      /\ frames' = Append(frames, [old |-> v, new |-> k, size |-> n, i |-> 1])
      /\ value' = mem[w]
      /\ UNCHANGED <<valid, heap, word, rsp, defined, scan, request>>
  BY DEF SInv, WInv, CopyArray, Collecting, program
<1>2. PICK size : Collection(Originals, size, Copies)
  BY <1>1, CollectionIs
<1>3. /\ heap \in Heaps /\ heap2 \in Heaps /\ heap # heap2
      /\ words[heap] \in Nat /\ words[heap] <= HEAP_SIZE
      /\ words[heap2] \in Nat /\ words[heap2] <= HEAP_SIZE
      /\ mem \in [Address -> Int] /\ name \in [Address -> Ids \union {0}]
      /\ Tiles(Originals, size, heap2, words[heap2]) /\ Tiles(Copies, mem, heap, words[heap])
      /\ frames \in Seq(CallRecord)
  BY <1>1, <1>2, CollectionState DEF IInv, TypeOK
<1>4. /\ v \in Originals /\ n # -1 /\ n = mem[v]
      /\ n = size[v] /\ v \in AddressesOf(heap2) /\ n \in Nat
      /\ 1 \in 1..ArraySize(size[v])-1
      /\ k = Base(heap) + 8 * words[heap] /\ k \in Int /\ k \in AddressesOf(heap) /\ k \in Address
      /\ v \in Address /\ w \in Address /\ v # w
      /\ mem' \in [Address -> Int] /\ mem'[v] = -1 /\ mem'[w] = k /\ mem'[k] = n
      /\ \A a \in AddressesOf(heap2) : a # v /\ a # w => mem'[a] = mem[a]
      /\ \A o \in Originals : o # v =>
            /\ mem'[o] = mem[o]
            /\ \A j \in 1..ArraySize(size[o])-1 : mem'[Element(o, j)] = mem[Element(o, j)]
      /\ \A a \in AddressesOf(heap) : a # k => mem'[a] = mem[a]
      /\ \A c \in Copies : c \in AddressesOf(heap) /\ c # k /\ mem'[c] = mem[c]
      /\ words'[heap2] = words[heap2]
      /\ k \notin Copies /\ Tiles(Copies \union {k}, mem', heap, words'[heap])
  <2>1. /\ v \in Originals /\ n # -1 /\ n = mem[v]
        /\ n = size[v] /\ v \in AddressesOf(heap2) /\ n \in Nat
        /\ 1 \in 1..ArraySize(size[v])-1
    BY <1>1, <1>2, CopyArrayHeap
  <2>2. /\ k = Base(heap) + 8 * words[heap] /\ k \in Int /\ k \in AddressesOf(heap) /\ k \in Address
        /\ v \in Address /\ w \in Address /\ v # w
    BY <1>1, <1>2, CopyArrayHeap
  <2>3. /\ mem' \in [Address -> Int] /\ mem'[v] = -1 /\ mem'[w] = k /\ mem'[k] = n
        /\ \A a \in AddressesOf(heap2) : a # v /\ a # w => mem'[a] = mem[a]
    BY <1>1, <1>2, CopyArrayHeap
  <2>6. \A o \in Originals : o # v =>
            /\ mem'[o] = mem[o]
            /\ \A j \in 1..ArraySize(size[o])-1 : mem'[Element(o, j)] = mem[Element(o, j)]
    <3> SUFFICES ASSUME NEW o \in Originals, o # v
                 PROVE  /\ mem'[o] = mem[o]
                        /\ \A j \in 1..ArraySize(size[o])-1 :
                              mem'[Element(o, j)] = mem[Element(o, j)]
      OBVIOUS
    <3>1. w = Element(v, 1) /\ w \notin Originals
      BY <1>3, <2>1, Inner
    <3>2. mem'[o] = mem[o]
      BY <1>3, <2>3, <3>1, TileBounds
    <3>3. ASSUME NEW j \in 1..ArraySize(size[o])-1
          PROVE  mem'[Element(o, j)] = mem[Element(o, j)]
      <4>1. Element(o, j) \in AddressesOf(heap2) /\ Element(o, j) # v
        BY <1>3, <2>1, Inner
      <4>2. Element(o, j) # w
        BY <1>3, <2>1, <3>1, Inner
      <4> QED
        BY <2>3, <4>1, <4>2
    <3> QED
      BY <3>2, <3>3
  <2>4. /\ \A a \in AddressesOf(heap) : a # k => mem'[a] = mem[a]
        /\ \A c \in Copies : c \in AddressesOf(heap) /\ c # k /\ mem'[c] = mem[c]
        /\ words'[heap2] = words[heap2]
    BY <1>1, <1>2, CopyArrayHeap
  <2>5. k \notin Copies /\ Tiles(Copies \union {k}, mem', heap, words'[heap])
    BY <1>1, <1>2, CopyArrayHeap
  <2> QED
    BY <2>1, <2>2, <2>3, <2>4, <2>5, <2>6
<1>5. Originals' = Originals
  <2>1. heap2' = heap2
    BY <1>1 DEF heap2
  <2> QED
    BY <1>1, <1>4, <2>1 DEF Originals
<1>6. Copies' = Copies \union {k}
  <2>1. PICK z : Collection(Originals, z, Copies)'
    BY <1>1, CollectionNext
  <2>2. Tiles(Copies', mem', heap, words'[heap])
    BY <1>1, <2>1 DEF Collection, NewHeap
  <2>3. words'[heap] \in Nat
    BY <1>1, <1>3 DEF IInv, TypeOK
  <2> QED
    BY <1>3, <1>4, <2>2, <2>3, TilesEqual
<1>7. /\ \A o \in Originals : o \in Address /\ o # k /\ name'[o] = name[o]
      /\ \A c \in Copies : c \in Address /\ c # k /\ name'[c] = name[c]
      /\ name'[k] = name[v]
      /\ \A a \in Address : a # k => name'[a] = name[a]
  BY <1>1, <1>3, <1>4, Halves
<1>8. k \notin Known
  BY <1>1, <1>4, <1>7 DEF Known
<1>9. \A x \in Int : Leads(x, Known) => Meaning(x)' = Meaning(x)
  <2>1. \A x \in Address : IsPointer(x)
    BY AddressBounds DEF Address, Heaps
  <2> QED
    BY <1>7, <1>8, <2>1 DEF Meaning, Leads
<1>10. \A o \in Originals : o # v => (Forwarded(o)' <=> Forwarded(o)) /\ Copy(o)' = Copy(o)
  <2> SUFFICES ASSUME NEW o \in Originals, o # v
               PROVE  (Forwarded(o)' <=> Forwarded(o)) /\ Copy(o)' = Copy(o)
    OBVIOUS
  <2>1. 1 \in 1..ArraySize(size[o])-1
    BY <1>3, TileBounds
  <2> QED
    BY <1>4, <2>1 DEF Forwarded, Copy
<1>11. Forwarded(v)' /\ Copy(v)' = k /\ ~Forwarded(v)
  BY <1>4 DEF Forwarded, Copy
<1>12. Named'
  <2>1. \A a \in Address : name'[a] \in Ids => a \in Originals \/ a \in Copies'
    BY <1>1, <1>6, <1>7 DEF WInv, Named
  <2> QED
    BY <1>1, <1>5, <1>7, <2>1 DEF WInv, Named
<1>13. /\ L \in Nat /\ DOMAIN frames = 1..L /\ DOMAIN frames' = 1..L+1 /\ Len(frames') = L + 1
       /\ \A l \in 1..L : frames'[l] = frames[l] /\ l \in 1..L+1
       /\ L + 1 \in 1..L+1 /\ \A l \in 1..L+1 : l \in 1..L \/ l = L + 1
       /\ frames'[L+1].old = v /\ frames'[L+1].new = k /\ frames'[L+1].size = n
       /\ frames'[L+1].i = 1
  <2>1. PICK g : g = [old |-> v, new |-> k, size |-> n, i |-> 1]
    OBVIOUS
  <2>2. g.old = v /\ g.new = k /\ g.size = n /\ g.i = 1
    BY <2>1
  <2>3. frames' = Append(frames, g)
    BY <1>1, <2>1
  <2>4. /\ L \in Nat /\ DOMAIN frames = 1..L /\ DOMAIN frames' = 1..L+1 /\ Len(frames') = L + 1
        /\ \A l \in 1..L : frames'[l] = frames[l]
        /\ frames'[L+1] = g
    BY <1>3, <2>3
  <2> QED
    BY <2>2, <2>4
<1>14. ASSUME NEW l \in 1..L
       PROVE  /\ frames[l].old \in Originals /\ frames[l].old # v /\ frames[l].new \in Copies
              /\ frames[l].size = size[frames[l].old] /\ mem[frames[l].new] = frames[l].size
              /\ frames[l].new = Copy(frames[l].old)
              /\ frames[l].i \in 1..ArraySize(frames[l].size)-1
  <2>1. Waits(mem, valid, frames[l], Originals, size, Copies)
    BY <1>2, <1>13 DEF Collection, Calls
  <2> QED
    BY <1>1, <1>4, <1>13, <2>1 DEF Waits, Moved
<1>15. \A l, m \in 1..L : l # m => frames[l].new # frames[m].new
  BY <1>2, <1>13 DEF Collection, Calls
<1>16. Source' = Source /\ StackTop' = StackTop
  BY <1>1 DEF Source, FwFill, StackTop
<1>17. frames = <<>> => v = Source
  BY <1>1, <1>2 DEF Collection, Value, Source
<1>18. Moved'
  <2>1. \A o \in Originals : Forwarded(o)' => name'[Copy(o)'] = name'[o]
    <3> SUFFICES ASSUME NEW o \in Originals, Forwarded(o)' PROVE name'[Copy(o)'] = name'[o]
      OBVIOUS
    <3>1. CASE o = v
      BY <1>7, <1>11, <3>1
    <3>2. CASE o # v
      <4>1. Forwarded(o) /\ Copy(o)' = Copy(o)
        BY <1>10, <3>2
      <4>2. Copy(o) \in Copies /\ name[Copy(o)] = name[o]
        BY <1>1, <4>1, Halves DEF Moved
      <4> QED
        BY <1>7, <4>1, <4>2
    <3> QED
      BY <3>1, <3>2
  <2>2. ASSUME NEW c \in Copies' PROVE \E o \in Originals : Forwarded(o)' /\ Copy(o)' = c
    <3>1. CASE c = k
      BY <1>4, <1>11, <3>1
    <3>2. CASE c \in Copies
      <4>1. PICK o \in Originals : Forwarded(o) /\ Copy(o) = c
        BY <1>1, <3>2 DEF Moved
      <4>2. o # v
        BY <1>11, <4>1
      <4> QED
        BY <1>10, <4>1, <4>2
    <3> QED
      BY <1>6, <3>1, <3>2
  <2>3. ASSUME NEW l \in DOMAIN frames' PROVE frames'[l].new = mem'[Element(frames'[l].old, 1)]
    <3>1. CASE l = L + 1
      BY <1>4, <1>13, <3>1
    <3>2. CASE l \in 1..L
      <4>1. PICK o : o = frames[l].old
        OBVIOUS
      <4>2. Copy(o)' = Copy(o) /\ frames[l].new = Copy(o)
        BY <1>10, <1>14, <3>2, <4>1
      <4>3. mem'[Element(o, 1)] = Copy(o)
        BY <4>2 DEF Copy
      <4> QED
        BY <1>13, <3>2, <4>1, <4>2, <4>3
    <3> QED
      BY <1>13, <3>1, <3>2
  <2>4. frames'[1].old = Source
    <3>1. CASE frames = <<>>
      <4>1. L = 0
        BY <3>1
      <4> QED
        BY <1>13, <1>17, <3>1, <4>1
    <3>2. CASE frames # <<>>
      <4>1. 1 \in 1..L
        BY <1>3, <1>13, <3>2
      <4> QED
        BY <1>1, <1>13, <3>2, <4>1 DEF Moved
    <3> QED
      BY <3>1, <3>2
  <2> QED
    BY <1>1, <1>5, <1>16, <2>1, <2>2, <2>3, <2>4 DEF Moved, Copy
<1>19. \A c \in Copies : \A j \in 1..ArraySize(mem[c])-1 :
          /\ Element(c, j) \in AddressesOf(heap) /\ mem'[Element(c, j)] = mem[Element(c, j)]
  <2> SUFFICES ASSUME NEW c \in Copies, NEW j \in 1..ArraySize(mem[c])-1
               PROVE  /\ Element(c, j) \in AddressesOf(heap)
                      /\ mem'[Element(c, j)] = mem[Element(c, j)]
    OBVIOUS
  <2>1. Element(c, j) \in AddressesOf(heap) /\ Element(c, j) < Base(heap) + 8 * words[heap]
    BY <1>3, Inner
  <2>2. Element(c, j) \in Int
    BY <1>3, <2>1, AddressBounds
  <2>3. Element(c, j) # k
    BY <1>4, <2>1, <2>2
  <2> QED
    BY <1>4, <2>1, <2>3
<1>20. WInv'
  BY <1>1, <1>12, <1>18 DEF WInv
<1>21. ASSUME NEW o \in Originals
       PROVE  /\ o \in AddressesOf(heap2) /\ 1 \in 1..ArraySize(size[o])-1
              /\ \A j \in 1..ArraySize(size[o])-1 :
                    Element(o, j) \in AddressesOf(heap2) /\ Element(o, j) \in Address
  BY <1>3, Inner, TileBounds, AddressBounds
<1>22. Padded'
  <2>1. ASSUME NEW l \in 1..L, frames[l].size = 0 PROVE FALSE
    <3>1. control = "copy" /\ ~IsPointer(v)
      BY <1>1, <1>13, <2>1 DEF SInv, Padded
    <3> QED
      BY <1>1, <1>4, <3>1, AddressBounds, <1>3
  <2>2. n = 0 => ~IsPointer(mem[w])
    BY <1>4 DEF SInv, Padded
  <2>3. ASSUME NEW o \in Originals, mem'[o] = 0 PROVE ~IsPointer(mem'[Element(o, 1)])
    <3>1. o # v
      BY <1>4, <2>3
    <3>2. mem[o] = 0 /\ mem'[Element(o, 1)] = mem[Element(o, 1)]
      BY <1>4, <1>21, <2>3, <3>1
    <3> QED
      BY <3>2 DEF SInv, Padded
  <2>4. ASSUME NEW c \in Copies', mem'[c] = 0, FrameOf(c)' = {}
        PROVE  ~IsPointer(mem'[Element(c, 1)])
    <3>1. c # k
      BY <1>13, <2>4 DEF FrameOf
    <3>2. c \in Copies /\ mem[c] = 0
      BY <1>4, <1>6, <2>4, <3>1
    <3>3. FrameOf(c) = {}
      <4> SUFFICES ASSUME NEW l \in DOMAIN frames, frames[l].new = c PROVE FALSE
        BY DEF FrameOf
      <4>1. l \in DOMAIN frames' /\ frames'[l].new = c
        BY <1>13
      <4> QED
        BY <2>4, <4>1 DEF FrameOf
    <3>4. 1 \in 1..ArraySize(mem[c])-1
      BY <3>2 DEF ArraySize
    <3>5. mem'[Element(c, 1)] = mem[Element(c, 1)]
      BY <1>19, <3>2, <3>4
    <3> QED
      BY <1>1, <3>2, <3>3, <3>5 DEF SInv, Padded
  <2>5. ASSUME NEW l \in DOMAIN frames', frames'[l].size = 0
        PROVE  l = Len(frames') /\ ~IsPointer(value')
    <3>1. l = L + 1
      BY <1>13, <2>1, <2>5
    <3> QED
      BY <1>1, <1>13, <2>2, <2>5, <3>1
  <2> QED
    BY <1>1, <1>5, <2>3, <2>4, <2>5 DEF Padded
\* A copy reads the same, whether a call of gc_copy waits with it or not.
<1>24. ASSUME NEW b \in Copies, NEW j \in 1..mem[b]
       PROVE  Raw(b, j)' = Raw(b, j)
  <2>1. j \in 1..ArraySize(mem[b])-1
    BY <1>1, Halves, SizeOfArray
  <2>2. mem'[Element(b, j)] = mem[Element(b, j)] /\ b # k
    BY <1>4, <1>19, <2>1
  <2>3. CASE \A l \in 1..L : frames[l].new # b
    <3>1. Raw(b, j) = mem[Element(b, j)]
      BY <1>13, <2>3, RawPlain
    <3>2. \A l \in DOMAIN frames' : frames'[l].new # b
      BY <1>13, <2>2, <2>3
    <3>3. Raw(b, j)' = mem'[Element(b, j)]
      BY <3>2, RawPlainNext
    <3> QED
      BY <2>2, <3>1, <3>3
  <2>4. ASSUME NEW l \in 1..L, frames[l].new = b
        PROVE  Raw(b, j)' = Raw(b, j)
    <3> PICK f : f = frames[l]
      OBVIOUS
    <3>1. l \in DOMAIN frames /\ l \in DOMAIN frames' /\ frames'[l] = f
      BY <1>13
    <3>2. \A m \in DOMAIN frames : frames[m].new = b => m = l
      BY <1>13, <1>15, <2>4
    <3>3. \A m \in DOMAIN frames' : frames'[m].new = b => m = l
      BY <1>13, <2>2, <3>2
    <3>4. Raw(b, j) = IF j < f.i THEN mem[Element(b, j)]
                      ELSE IF j > f.i THEN mem[Element(f.old, j)] ELSE InHand(l)
      BY <2>4, <3>1, <3>2, RawWaiting
    <3>5. Raw(b, j)' = IF j < f.i THEN mem'[Element(b, j)]
                       ELSE IF j > f.i THEN mem'[Element(f.old, j)] ELSE InHand(l)'
      BY <2>4, <3>1, <3>3, RawWaitingNext
    <3>6. f.old \in Originals /\ f.old # v /\ mem[b] = size[f.old]
      BY <1>14, <2>4
    <3>7. mem'[Element(f.old, j)] = mem[Element(f.old, j)]
      BY <1>4, <2>1, <3>6
    <3>8. InHand(l)' = InHand(l)
      <4>1. InHand(l)' = frames'[l+1].old
        BY <1>13 DEF InHand
      <4>2. CASE l < L
        <5>1. InHand(l) = frames[l+1].old /\ l + 1 \in 1..L
          BY <1>13, <4>2 DEF InHand
        <5> QED
          BY <1>13, <4>1, <5>1
      <4>3. CASE l = L
        <5>1. InHand(l) = value
          BY <1>13, <4>3 DEF InHand
        <5> QED
          BY <1>13, <4>1, <4>3, <5>1
      <4> QED
        BY <1>13, <4>2, <4>3
    <3> QED
      BY <2>2, <3>4, <3>5, <3>7, <3>8
  <2> QED
    BY <2>3, <2>4
<1>25. ASSUME NEW o \in Originals PROVE ArrayAt(o)' = ArrayAt(o)
  <2> PICK b : b = Place(o)
    OBVIOUS
  <2>1. b \in Known /\ mem[b] \in Nat
        /\ \A j \in 1..mem[b] : Raw(b, j) \in Int /\ Leads(Raw(b, j), Known)
    BY <1>1, Visible DEF Known
  <2>2. ArrayAt(o) = [j \in 1..mem[b] |-> Meaning(Raw(b, j))]
    BY DEF ArrayAt
  <2>3. heap2' = heap2
    BY <1>1 DEF heap2
  <2>4. CASE Forwarded(o)
    <3>1. b \in Copies /\ o # v /\ b = Copy(o)
      BY <1>1, <1>11, <2>4, PlaceOfOriginal
    <3>2. Place(o)' = b
      BY <1>1, <1>10, <1>21, <2>3, <2>4, <3>1 DEF Place, Copy
    <3>3. ArrayAt(o)' = [j \in 1..mem'[b] |-> Meaning(Raw(b, j))']
      BY <3>2 DEF ArrayAt
    <3>4. \A j \in 1..mem[b] : Meaning(Raw(b, j))' = Meaning(Raw(b, j))
      <4> SUFFICES ASSUME NEW j \in 1..mem[b] PROVE Meaning(Raw(b, j))' = Meaning(Raw(b, j))
        OBVIOUS
      <4> PICK x : x = Raw(b, j)
        OBVIOUS
      <4>1. Raw(b, j)' = x
        BY <1>24, <3>1
      <4>2. Meaning(x)' = Meaning(x)
        BY <1>9, <2>1
      <4> QED
        BY <4>1, <4>2 DEF Meaning
    <3>5. mem'[b] = mem[b]
      BY <1>4, <3>1
    <3> QED
      BY <2>2, <3>3, <3>4, <3>5
  <2>5. CASE ~Forwarded(o) /\ o # v
    <3>1. b = o /\ mem[o] \in Nat /\ mem[o] = size[o]
      BY <1>1, <1>2, <2>5, PlaceOfOriginal DEF Collection, Arrays, Forwarded
    <3>2. Place(o)' = b
      BY <1>10, <2>5, <3>1 DEF Place
    <3>3. \A l \in DOMAIN frames' : frames'[l].new # o
      <4>1. \A l \in 1..L : frames[l].new \in Copies
        BY <1>14
      <4> QED
        BY <1>1, <1>7, <1>13, <4>1, Halves
    <3>4. ArrayAt(o)' = [j \in 1..mem'[b] |-> Meaning(Raw(b, j))']
      BY <3>2 DEF ArrayAt
    <3>5. \A j \in 1..mem[b] : Meaning(Raw(b, j))' = Meaning(Raw(b, j))
      <4> SUFFICES ASSUME NEW j \in 1..mem[b] PROVE Meaning(Raw(b, j))' = Meaning(Raw(b, j))
        OBVIOUS
      <4> PICK x : x = Raw(b, j)
        OBVIOUS
      <4>1. x = mem[Element(o, j)] /\ j \in 1..ArraySize(size[o])-1
        BY <1>1, <2>5, <3>1, PlaceOfOriginal, SizeOfArray
      <4>2. Raw(b, j)' = x
        BY <1>4, <2>5, <3>1, <3>3, <4>1, RawPlainNext
      <4>3. Meaning(x)' = Meaning(x)
        BY <1>9, <2>1
      <4> QED
        BY <4>2, <4>3 DEF Meaning
    <3>6. mem'[b] = mem[b]
      BY <1>4, <2>5, <3>1
    <3> QED
      BY <2>2, <3>4, <3>5, <3>6
  <2>6. CASE o = v
    <3>1. b = v /\ ~Forwarded(v)
      BY <1>1, <1>11, <2>6, PlaceOfOriginal
    <3>2. Place(v)' = k
      BY <1>1, <1>4, <1>11, <2>3 DEF Place, Copy
    <3>3. ArrayAt(v)' = [j \in 1..mem'[k] |-> Meaning(Raw(k, j))']
      BY <3>2 DEF ArrayAt
    <3>4. \A j \in 1..n : Meaning(Raw(k, j))' = Meaning(Raw(v, j))
      <4> SUFFICES ASSUME NEW j \in 1..n PROVE Meaning(Raw(k, j))' = Meaning(Raw(v, j))
        OBVIOUS
      <4> PICK x : x = Raw(v, j)
        OBVIOUS
      <4>1. x = mem[Element(v, j)] /\ j \in 1..ArraySize(size[v])-1
        BY <1>1, <1>4, <1>11, PlaceOfOriginal, SizeOfArray
      <4>2. Raw(k, j)' = x
        <5>1. /\ L + 1 \in DOMAIN frames' /\ frames'[L+1].new = k
              /\ \A m \in DOMAIN frames' : frames'[m].new = k => m = L + 1
          BY <1>4, <1>13, <1>14
        <5>2. Raw(k, j)' = IF j < 1 THEN mem'[Element(k, j)]
                           ELSE IF j > 1 THEN mem'[Element(v, j)] ELSE InHand(L+1)'
          BY <1>13, <5>1, RawWaitingNext
        <5>3. InHand(L+1)' = mem[w]
          BY <1>1, <1>13 DEF InHand
        <5>4. CASE j = 1
          <6>1. w = Element(v, j)
            BY <5>4
          <6> QED
            BY <4>1, <5>2, <5>3, <5>4, <6>1
        <5>5. CASE j > 1
          <6>1. Element(v, j) # v /\ Element(v, j) # w
            BY <1>3, <1>4, <4>1, <5>5, Inner
          <6>2. mem'[Element(v, j)] = mem[Element(v, j)]
            BY <1>4, <1>21, <4>1, <6>1
          <6> QED
            BY <4>1, <5>2, <5>5, <6>2
        <5> QED
          BY <1>4, <5>4, <5>5
      <4>3. Meaning(x)' = Meaning(x)
        BY <1>4, <1>9, <2>1, <3>1
      <4> QED
        BY <4>2, <4>3 DEF Meaning
    <3>5. mem'[k] = mem[b]
      BY <1>4, <3>1
    <3> QED
      BY <1>4, <2>2, <2>6, <3>1, <3>3, <3>4, <3>5
  <2> QED
    BY <2>4, <2>5, <2>6
<1>26. Names' = Names /\ Contents' = Contents
  BY <1>1, <1>5, <1>7, <1>20, <1>25, ContentsSame
<1>27. \A S : Closed(S, Contents)' <=> Closed(S, Contents)
  BY <1>26 DEF Closed
\* The array that is moved is the value gc works on or was found in a copy.
<1>28. ASSUME NEW S \in SUBSET Names, Closed(S, Contents), \A c \in Copies : name[c] \in S,
              Source \in Originals => name[Source] \in S
       PROVE  name[v] \in S
  <2>1. CASE frames = <<>>
    BY <1>4, <1>17, <1>28, <2>1
  <2>2. CASE frames # <<>>
    <3>1. L \in 1..L /\ L \in DOMAIN frames
      BY <1>3, <1>13, <2>2
    <3> PICK f, c : f = frames[L] /\ c = f.new
      OBVIOUS
    <3>2. c \in Copies /\ mem[c] = f.size /\ f.i \in 1..ArraySize(f.size)-1 /\ f.size \in Nat
      <4>1. c \in Copies /\ mem[c] = f.size /\ f.i \in 1..ArraySize(f.size)-1
        BY <1>14, <3>1
      <4> QED
        BY <1>3, <4>1, TileBounds
    <3>3. f.size # 0
      <4>1. IsPointer(v)
        BY <1>3, <1>4, AddressBounds
      <4> QED
        BY <1>1, <3>1, <4>1 DEF SInv, Padded
    <3>4. f.i \in 1..mem[c]
      BY <3>2, <3>3 DEF ArraySize
    <3>5. Place(c) = c /\ c \in Known
      BY <1>1, <3>2, Halves DEF Place, Known
    <3>6. Raw(c, f.i) = v
      <4>1. \A m \in DOMAIN frames : frames[m].new = c => m = L
        BY <1>13, <1>15, <3>1
      <4>2. InHand(L) = v
        BY <1>13 DEF InHand
      <4>3. \A i : Raw(c, i) = IF i < f.i THEN mem[Element(c, i)]
                               ELSE IF i > f.i THEN mem[Element(f.old, i)] ELSE InHand(L)
        BY <3>1, <4>1, RawWaiting
      <4>4. f.i \in Int
        BY <3>4, <3>2
      <4> QED
        BY <4>2, <4>3, <4>4
    <3>7. Meaning(v) \in Range(Contents[name[c]])
      BY <1>1, <3>4, <3>5, <3>6, ElementOfContents
    <3>8. Meaning(v) = name[v] /\ name[v] \in Names
      BY <1>4 DEF Meaning, Names
    <3> QED
      BY <1>28, <3>2, <3>7, <3>8, ContentsDomain DEF Closed
  <2> QED
    BY <2>1, <2>2
<1>29. Found'
  <2>1. \A S \in SUBSET Names :
          /\ Closed(S, Contents)
          /\ \A a \in StackTop..StackWords : a < scan /\ word[a] \in Copies' => name'[word[a]] \in S
          /\ Source \in Originals => name[Source] \in S
          => \A c \in Copies' : name'[c] \in S
    <3> SUFFICES ASSUME NEW S \in SUBSET Names, Closed(S, Contents),
                        \A a \in StackTop..StackWords :
                           a < scan /\ word[a] \in Copies' => name'[word[a]] \in S,
                        Source \in Originals => name[Source] \in S
                 PROVE  \A c \in Copies' : name'[c] \in S
      OBVIOUS
    <3>1. \A a \in StackTop..StackWords : a < scan /\ word[a] \in Copies => name[word[a]] \in S
      BY <1>6, <1>7
    <3>2. \A c \in Copies : name[c] \in S
      BY <1>1, <3>1 DEF Found
    <3>3. name[v] \in S
      BY <1>28, <3>2
    <3> QED
      BY <1>6, <1>7, <3>2, <3>3
  <2>2. Source \in Originals => name'[Source] = name[Source]
    BY <1>7
  <2> QED
    BY <1>1, <1>5, <1>16, <1>26, <1>27, <2>1, <2>2 DEF Found
<1>30. Kept'
  BY <1>1 DEF Kept
<1>31. SInv'
  BY <1>1, <1>12, <1>18, <1>22, <1>29, <1>30 DEF SInv
<1> QED
  BY <1>1, <1>5, <1>9, <1>26, <1>31

-----------------------------------------------------------------------------
(***************************************************************************)
(* The invariant                                                           *)
(***************************************************************************)
LEMMA GCSInv == SInv /\ GC => SInv'
<1> SUFFICES ASSUME SInv, GC PROVE SInv'
  OBVIOUS
<1>1. CASE CopyArray
  <2>1. IInv'
    BY <1>1, CopyArrayIInv DEF SInv
  <2> QED
    BY <1>1, <2>1, CopyArrayContents
<1>2. CASE CopyNothing \/ CopyForwarded \/ ArrayCopied
  <2>1. Collecting /\ IInv'
    BY <1>2, Delivered
  <2>2. PICK result \in Int :
           /\ Deliver(result) /\ Meaning(result) = Meaning(value)
           /\ frames = <<>> /\ Source \in Originals
                 => result \in Copies /\ name[result] = name[Source]
           /\ frames # <<>> \/ scan > StackWords => Leads(result, Copies)
           /\ control = "copy" /\ ~IsPointer(value) => ~IsPointer(result)
    BY <1>2, Delivered
  <2>3. CASE UpdateRoot(result)
    <3>1. frames = <<>>
      BY <2>3 DEF UpdateRoot
    <3> QED
      BY <2>1, <2>2, <2>3, <3>1, UpdateRootContents
  <2>4. CASE UpdateFill(result)
    <3>1. frames = <<>> /\ scan > StackWords
      BY <2>4 DEF UpdateFill
    <3> QED
      BY <2>1, <2>2, <2>4, <3>1, UpdateFillContents
  <2>5. CASE CopyElement(result)
    BY <2>1, <2>2, <2>5, CopyElementContents
  <2> QED
    BY <2>2, <2>3, <2>4, <2>5 DEF Deliver
<1> QED
  BY <1>1, <1>2 DEF GC

\* Whatever the invariant says is about the variables.
LEMMA StutterContents ==
  ASSUME SInv, UNCHANGED vars
  PROVE  SInv' /\ Names' = Names /\ Contents' = Contents
<1>1. UNCHANGED <<memory, program, collector, control, request>>
  BY DEF vars
<1>2. IInv'
  BY StutterIInv DEF SInv
<1>3. heap2' = heap2 /\ allocptr' = allocptr
  BY <1>1 DEF heap2, allocptr, memory
<1>4. Originals' = Originals /\ Copies' = Copies /\ Source' = Source /\ StackTop' = StackTop
      /\ (Collecting' <=> Collecting)
  BY <1>1, <1>3 DEF Originals, Copies, Source, StackTop, FwFill, Collecting, Starts, Tiles, End,
                    memory, program, collector
<1>5. Named' /\ Padded' /\ (Moved => Moved')
  BY <1>1, <1>4 DEF SInv, Named, Padded, Moved, FrameOf, Forwarded, Copy, memory, collector
<1>6. \A a : Meaning(a)' = Meaning(a)
  BY <1>1 DEF Meaning, memory
<1>7. \A a : Place(a)' = Place(a)
  BY <1>1, <1>3, <1>4 DEF Place, Forwarded, memory
<1>8. \A b, i : Raw(b, i)' = Raw(b, i)
  BY <1>1 DEF Raw, FrameOf, InHand, memory, collector
<1>9. \A a : ArrayAt(a)' = ArrayAt(a)
  BY <1>1, <1>7, <1>8 DEF ArrayAt, Meaning, memory
<1>10. Names' = Names /\ Contents' = Contents
  BY <1>1, <1>2, <1>4, <1>5, <1>9, ContentsSame DEF SInv, WInv, memory
<1>11. \A S : Closed(S, Contents)' <=> Closed(S, Contents)
  BY <1>10 DEF Closed
<1>12. Found => Found'
  BY <1>1, <1>4, <1>10, <1>11 DEF Found, memory, program, collector
<1>13. Kept'
  <2>1. {Meaning(word[w]) : w \in StackTop..StackWords}'
          = {Meaning(word[w]) : w \in StackTop..StackWords}
    BY <1>1, <1>4, <1>6 DEF program
  <2>2. Meaning(FwFill)' = Meaning(FwFill)
    BY <1>1, <1>6 DEF FwFill
  <2>3. Span({Meaning(word[w]) : w \in StackTop..StackWords} \union {Meaning(FwFill)}, Contents)'
          = Span({Meaning(word[w]) : w \in StackTop..StackWords} \union {Meaning(FwFill)}, Contents)
    BY <1>10, <2>1, <2>2 DEF Span, Closed
  <2> QED
    BY <1>1, <1>10, <2>3 DEF SInv, Kept
<1>14. SInv'
  BY <1>2, <1>4, <1>5, <1>12, <1>13 DEF SInv
<1> QED
  BY <1>10, <1>14

LEMMA NextSInv == SInv /\ [Next]_vars => SInv'
BY ProgramSInv, StoreSInv, StartGCContents, GrantContents, GCSInv, StutterContents
   DEF Next, Program, Helper

\* The arrays of the program, whole or half copied, are as the invariant says at every
\* step of a program, of allocate and of gc_copy.
THEOREM StoreInvariance == Spec => []SInv
<1>1. Init => SInv
  BY InitSInv
<1>2. SInv /\ [Next]_vars => SInv'
  BY NextSInv
<1> QED
  BY <1>1, <1>2, PTL DEF Spec

LEMMA StackIsInt == IInv => \A w \in StackTop..StackWords : word[w] \in Int
<1> SUFFICES ASSUME IInv PROVE \A w \in StackTop..StackWords : word[w] \in Int
  OBVIOUS
<1>1. rsp \in Len(Saved)+1..StackWords /\ word \in [Places -> Int]
  BY DEF IInv, TypeOK
<1>2. StackTop \in 1..StackWords
  BY <1>1, Constants DEF StackTop
<1>3. \A w \in StackTop..StackWords : w \in 1..StackWords
  BY <1>2, Constants
<1> QED
  BY <1>1, <1>3 DEF Places

LEMMA SInvNothingElseSurvives == SInv => NothingElseSurvives
<1> SUFFICES ASSUME SInv, control \in {"retry", "out of memory"}, NEW a \in Starts
             PROVE  a \in Reachable({word[w] : w \in StackTop..StackWords} \union {FwFill})
  BY DEF NothingElseSurvives
<1> PICK values : values = {word[w] : w \in StackTop..StackWords} \union {FwFill}
  OBVIOUS
<1>1. WInv /\ ~Collecting /\ request # <<>>
  BY DEF SInv, WInv, Kept, Collecting
<1>2. values \subseteq Int
  BY <1>1, StackIsInt DEF WInv, IInv, TypeOK, FwFill
<1>3. a \in Originals /\ name[a] \in Names /\ a \in Address
  BY <1>1, OriginalsQuiet, KnownNames DEF Names, Known
<1>4. {Meaning(v) : v \in values}
        = {Meaning(word[w]) : w \in StackTop..StackWords} \union {Meaning(FwFill)}
  OBVIOUS
<1>5. name[a] \in Span({Meaning(v) : v \in values}, Contents)
  BY <1>3, <1>4 DEF SInv, Kept
<1>6. PICK b \in Reachable(values) : b \in Known /\ name[b] = name[a]
  BY <1>1, <1>2, <1>5, SpanReached
<1>7. b = a
  BY <1>1, <1>3, <1>6 DEF WInv, Named, Known
<1> QED
  BY <1>6, <1>7

\* `out of memory' is said only when the heap holds nothing but what the words of the
\* stack and the fill value lead to: a collection leaves nothing else.
THEOREM NothingElseEverSurvives == Spec => []NothingElseSurvives
<1>1. SInv => NothingElseSurvives
  BY SInvNothingElseSurvives
<1> QED
  BY <1>1, StoreInvariance, PTL

-----------------------------------------------------------------------------
(***************************************************************************)
(* What the program sees, in every state and over every step               *)
(***************************************************************************)
Seen == <<[p \in defined |-> Meaning(Root(p))], InUse, Call>>

LEMMA HeldNamesAre ==
  HeldNames = {Meaning(Root(p)) : p \in defined}
                 \union (IF request = <<>> THEN {} ELSE {Meaning(FwFill)})
BY DEF HeldNames, Held, Roots, Range

LEMMA CallIs ==
  /\ request = <<>> => Call = <<>>
  /\ request # <<>> => Call = <<FwSize \div 2, Meaning(FwFill)>> /\ Call # <<>>
                       /\ Call[1] = FwSize \div 2 /\ Call[2] = Meaning(FwFill)
BY DEF Call

LEMMA SeenNext ==
  /\ (HeldNames = {Meaning(Root(p)) : p \in defined}
                     \union (IF request = <<>> THEN {} ELSE {Meaning(FwFill)}))'
  /\ (/\ request = <<>> => Call = <<>>
      /\ request # <<>> => Call = <<FwSize \div 2, Meaning(FwFill)>> /\ Call # <<>>
                           /\ Call[1] = FwSize \div 2 /\ Call[2] = Meaning(FwFill))'
  /\ (\A p \in defined : IInv /\ control # "program" => Root(p) = word[At(p)])'
  /\ (\A p : control = "program" => Root(p) = word[p])'
<1>1. \A p \in defined : IInv /\ control # "program" => Root(p) = word[At(p)]
  BY RootAt
<1>2. \A p : control = "program" => Root(p) = word[p]
  BY DEF Root
<1> QED
  BY <1>1, <1>2, HeldNamesAre, CallIs, PTL

LEMMA SameOperators ==
  /\ \A f : Promise!Range(f) = Range(f)
  /\ \A f, S : Promise!Restrict(f, S) = Restrict(f, S)
BY DEF Promise!Range, Range, Promise!Restrict, Restrict

\* The state that the program sees is made of the arrays within reach, however the
\* other ones are described.
LEMMA BecomesSeen ==
  ASSUME WInv', NEW roots, NEW f, NEW call, NEW C,
         [p \in defined |-> Meaning(Root(p))]' = roots, Call' = call,
         IsFiniteSet(DOMAIN f), C \subseteq DOMAIN f, C \subseteq Names',
         \A id \in C : Contents'[id] = f[id],
         HeldNames' \intersect DOMAIN f \subseteq C, HeldNames' \intersect Names' \subseteq C,
         Closed(C, f), Closed(C, Contents')
  PROVE  Promise!Becomes(roots, f, call)
<1>1. Promise!Held(roots, call) = HeldNames'
  <2>1. Range(roots) = {Meaning(Root(p))' : p \in defined'}
    BY DEF Range
  <2>2. (IF call = <<>> THEN {} ELSE {call[2]})
           = (IF request' = <<>> THEN {} ELSE {Meaning(FwFill)'})
    BY SeenNext
  <2>3. HeldNames' = {Meaning(Root(p))' : p \in defined'}
                         \union (IF request' = <<>> THEN {} ELSE {Meaning(FwFill)'})
    BY SeenNext
  <2>4. Promise!Held(roots, call) = Range(roots) \union (IF call = <<>> THEN {} ELSE {call[2]})
    BY SameOperators DEF Promise!Held
  <2> QED
    BY <2>1, <2>2, <2>3, <2>4
<1>2. Contents' = Contents' /\ DOMAIN Contents' = Names'
  BY DEF Contents
<1>3. Restrict(Contents', Span(HeldNames', Contents')) = Restrict(f, Span(HeldNames', f))
  BY <1>2, SpanSame
<1>4. InUse' = Restrict(Contents', Span(HeldNames', Contents'))
  BY NextState DEF Restrict, Span, Closed
<1>5. Promise!Within(HeldNames', f) = Span(HeldNames', f)
  BY WithinIsSpan
<1>6. InUse' = Restrict(f, Promise!Within(Promise!Held(roots, call), f))
  BY <1>1, <1>3, <1>4, <1>5
<1> QED
  BY <1>6, SameOperators DEF Promise!Becomes

\* A step that changes none of it
LEMMA SeenSame ==
  ASSUME WInv, WInv', defined' = defined,
         \A p \in defined : Meaning(Root(p))' = Meaning(Root(p)),
         request' = <<>> <=> request = <<>>,
         request # <<>> => FwSize' = FwSize /\ Meaning(FwFill)' = Meaning(FwFill),
         NEW C, C \subseteq Names, C \subseteq Names',
         \A id \in C : Contents'[id] = Contents[id],
         HeldNames \intersect Names \subseteq C, HeldNames \intersect Names' \subseteq C,
         Closed(C, Contents), Closed(C, Contents')
  PROVE  Seen' = Seen
<1>1. HeldNames' = HeldNames
  <2>1. {Meaning(Root(p)) : p \in defined}' = {Meaning(Root(p)) : p \in defined}
    OBVIOUS
  <2> QED
    BY <2>1, HeldNamesAre, SeenNext
<1>2. DOMAIN Contents = Names /\ DOMAIN Contents' = Names'
  BY DEF Contents
<1>3. Restrict(Contents', Span(HeldNames, Contents'))
        = Restrict(Contents, Span(HeldNames, Contents))
  BY <1>2, SpanSame
<1>4. InUse' = InUse
  <2>1. InUse' = Restrict(Contents', Span(HeldNames', Contents'))
    BY NextState DEF Restrict, Span, Closed
  <2> QED
    BY <1>1, <1>3, <2>1, InUseIs
<1>5. Call' = Call
  BY CallIs, SeenNext
<1>6. [p \in defined |-> Meaning(Root(p))]' = [p \in defined |-> Meaning(Root(p))]
  OBVIOUS
<1> QED
  BY <1>4, <1>5, <1>6 DEF Seen

LEMMA SeenSameStore ==
  ASSUME WInv, WInv', defined' = defined,
         \A p \in defined : Meaning(Root(p))' = Meaning(Root(p)),
         request' = <<>> <=> request = <<>>,
         request # <<>> => FwSize' = FwSize /\ Meaning(FwFill)' = Meaning(FwFill),
         Names' = Names, Contents' = Contents
  PROVE  Seen' = Seen
<1>1. Closed(Names, Contents)
  BY ContentsDomain DEF Closed
<1> QED
  BY <1>1, SeenSame

\* The collection and the ends of the program are out of the program's sight.
LEMMA RootStays ==
  ASSUME IInv, IInv', control # "program", control' # "program",
         NEW p \in defined, defined' = defined, rsp' = rsp
  PROVE  /\ At(p) \in StackTop..StackWords-1 /\ At(p) \in Places
         /\ Root(p) = word[At(p)] /\ Root(p)' = word'[At(p)]
  BY RootAt, AtSame, SeenNext

LEMMA HiddenSeen ==
  ASSUME SInv, SInv', control # "program", control' # "program",
         UNCHANGED <<word, rsp, defined, request>>,
         Names' = Names, Contents' = Contents,
         \A v \in Int : Leads(v, Known) => Meaning(v)' = Meaning(v)
  PROVE  Seen' = Seen
<1>1. WInv /\ WInv'
  BY DEF SInv, WInv
<1>2. \A p \in defined : Meaning(Root(p))' = Meaning(Root(p))
  <2> SUFFICES ASSUME NEW p \in defined PROVE Meaning(Root(p))' = Meaning(Root(p))
    OBVIOUS
  <2> PICK x : x = Root(p)
    OBVIOUS
  <2>1. Root(p)' = x /\ x \in Held
    BY <1>1, RootStays DEF WInv, Held, Roots, Range
  <2>2. Meaning(x)' = Meaning(x)
    BY <1>1, <2>1, HeldLeads
  <2> QED
    BY <2>1, <2>2 DEF Meaning
<1>3. request # <<>> => FwSize' = FwSize /\ Meaning(FwFill)' = Meaning(FwFill)
  <2> SUFFICES ASSUME request # <<>> PROVE Meaning(FwFill)' = Meaning(FwFill)
    BY DEF FwSize
  <2> PICK x : x = FwFill
    OBVIOUS
  <2>1. FwFill' = x /\ x \in Held
    BY DEF FwFill, Held
  <2>2. Meaning(x)' = Meaning(x)
    BY <1>1, <2>1, HeldLeads
  <2> QED
    BY <2>1, <2>2 DEF Meaning
<1> QED
  BY <1>1, <1>2, <1>3, SeenSameStore

LEMMA UpdateRootSeen ==
  ASSUME SInv, SInv', Collecting, NEW result \in Int, UpdateRoot(result),
         Meaning(result) = Meaning(Source),
         Names' = Names, Contents' = Contents, \A v : Meaning(v)' = Meaning(v)
  PROVE  Seen' = Seen
<1>1. /\ WInv /\ WInv' /\ control # "program" /\ control' # "program"
      /\ word' = [word EXCEPT ![scan] = result] /\ scan <= StackWords
      /\ UNCHANGED <<rsp, defined, request>>
  BY DEF SInv, WInv, UpdateRoot, Collecting
<1>2. word \in [Places -> Int]
  BY <1>1 DEF WInv, IInv, TypeOK
<1>3. ASSUME NEW p \in defined PROVE Meaning(Root(p))' = Meaning(Root(p))
  <2>1. At(p) \in Places /\ Root(p) = word[At(p)] /\ Root(p)' = word'[At(p)]
    BY <1>1, RootStays DEF WInv
  <2>2. CASE At(p) = scan
    <3>1. Root(p)' = result /\ Root(p) = Source
      BY <1>1, <1>2, <2>1, <2>2 DEF Source
    <3>2. Meaning(result)' = Meaning(result)
      OBVIOUS
    <3> QED
      BY <3>1, <3>2 DEF Meaning
  <2>3. CASE At(p) # scan
    <3> PICK x : x = Root(p)
      OBVIOUS
    <3>1. Root(p)' = x
      BY <1>1, <1>2, <2>1, <2>3
    <3>2. Meaning(x)' = Meaning(x)
      OBVIOUS
    <3> QED
      BY <3>1, <3>2 DEF Meaning
  <2> QED
    BY <2>2, <2>3
<1>4. FwSize' = FwSize /\ Meaning(FwFill)' = Meaning(FwFill)
  BY <1>1 DEF FwSize, FwFill, Meaning
<1> QED
  BY <1>1, <1>3, <1>4, SeenSameStore

LEMMA UpdateFillSeen ==
  ASSUME SInv, SInv', Collecting, NEW result \in Int, UpdateFill(result),
         Leads(result, Copies), Meaning(result) = Meaning(Source),
         Names' \subseteq Names, Names' = {name[c] : c \in Copies}, Closed(Names', Contents),
         \A id \in Names' : Contents'[id] = Contents[id],
         \A v \in Int : Leads(v, Copies) => Meaning(v)' = Meaning(v)
  PROVE  Seen' = Seen
<1>1. /\ WInv /\ WInv' /\ control # "program" /\ control' # "program"
      /\ scan > StackWords /\ request' = <<FwSize, result>>
      /\ UNCHANGED <<word, rsp, defined>>
  BY DEF SInv, WInv, UpdateFill, Collecting, program
<1>2. PICK size : Collection(Originals, size, Copies)
  BY <1>1, CollectionIs DEF WInv
<1>3. /\ word \in [Places -> Int] /\ request # <<>>
      /\ scan \in Int /\ StackWords \in Nat /\ StackTop \in Int
  <2>1. word \in [Places -> Int] /\ scan \in Int /\ StackTop \in 1..StackWords
    BY <1>1, <1>2, CollectionState DEF WInv
  <2>2. request # <<>>
    BY <1>1 DEF WInv, IInv, Frame, Running, Collecting
  <2> QED
    BY <2>1, <2>2, Constants
<1>4. FwSize' = FwSize /\ FwFill' = result /\ request' # <<>>
  BY <1>1 DEF FwSize, FwFill
<1>5. Source = FwFill
  BY <1>1, <1>3 DEF Source
<1>6. ASSUME NEW p \in defined
      PROVE  Root(p) \in Int /\ Leads(Root(p), Copies) /\ Root(p)' = Root(p)
  <2>1. /\ At(p) \in StackTop..StackWords-1 /\ At(p) \in Places
        /\ Root(p) = word[At(p)] /\ Root(p)' = word'[At(p)]
    BY <1>1, RootStays DEF WInv
  <2>2. At(p) < scan
    BY <1>1, <1>3, <2>1
  <2>3. Leads(word[At(p)], Copies)
    BY <1>2, <2>2 DEF Collection, StackScanned
  <2> QED
    BY <1>1, <1>3, <2>1, <2>3
<1>7. \A p \in defined : Meaning(Root(p))' = Meaning(Root(p))
  <2> SUFFICES ASSUME NEW p \in defined PROVE Meaning(Root(p))' = Meaning(Root(p))
    OBVIOUS
  <2> PICK x : x = Root(p)
    OBVIOUS
  <2>1. Root(p)' = x /\ Meaning(x)' = Meaning(x)
    BY <1>6
  <2> QED
    BY <2>1 DEF Meaning
<1>8. Meaning(FwFill)' = Meaning(FwFill)
  <2>1. Meaning(result)' = Meaning(result)
    OBVIOUS
  <2> QED
    BY <1>4, <1>5, <2>1 DEF Meaning
<1>9. ASSUME NEW v \in Int, Leads(v, Copies), Meaning(v) \in Names PROVE Meaning(v) \in Names'
  <2>1. v \in Address /\ Meaning(v) = name[v]
    BY <1>1, <1>9, MeaningName, NamesAreIds
  <2>2. IsPointer(v)
    BY <2>1, AddressBounds DEF Address, Heaps
  <2> QED
    BY <1>9, <2>1, <2>2 DEF Leads
<1>10. HeldNames \intersect Names \subseteq Names'
  <2> SUFFICES ASSUME NEW id \in HeldNames, id \in Names PROVE id \in Names'
    OBVIOUS
  <2>1. CASE \E p \in defined : id = Meaning(Root(p))
    BY <1>6, <1>9, <2>1
  <2>2. CASE id = Meaning(FwFill)
    BY <1>5, <1>9, <2>2
  <2> QED
    BY <2>1, <2>2, <1>3, HeldNamesAre
<1>11. Closed(Names', Contents')
  <2>1. DOMAIN Contents' = Names'
    BY DEF Contents
  <2> QED
    BY <2>1 DEF Closed
<1> QED
  BY <1>1, <1>3, <1>4, <1>7, <1>8, <1>10, <1>11, SeenSame

LEMMA GCSeen == SInv /\ GC => Seen' = Seen
<1> SUFFICES ASSUME SInv, GC PROVE Seen' = Seen
  OBVIOUS
<1>1. SInv' /\ IInv'
  BY GCSInv DEF SInv
<1>2. CASE CopyArray
  <2>1. control # "program" /\ control' # "program" /\ UNCHANGED <<word, rsp, defined, request>>
    BY <1>2 DEF CopyArray, program
  <2> QED
    BY <1>1, <1>2, <2>1, CopyArrayContents, HiddenSeen
<1>3. CASE CopyNothing \/ CopyForwarded \/ ArrayCopied
  <2>1. Collecting
    BY <1>3, Delivered
  <2>2. PICK result \in Int :
           /\ Deliver(result) /\ Meaning(result) = Meaning(value)
           /\ frames = <<>> => Meaning(result) = Meaning(Source)
           /\ frames = <<>> /\ Source \in Originals
                 => result \in Copies /\ name[result] = name[Source]
           /\ frames # <<>> \/ scan > StackWords => Leads(result, Copies)
           /\ control = "copy" /\ ~IsPointer(value) => ~IsPointer(result)
    BY <1>3, Delivered
  <2>3. CASE UpdateRoot(result)
    <3>1. frames = <<>>
      BY <2>3 DEF UpdateRoot
    <3> QED
      BY <1>1, <2>1, <2>2, <2>3, <3>1, UpdateRootContents, UpdateRootSeen
  <2>4. CASE UpdateFill(result)
    <3>1. frames = <<>> /\ scan > StackWords
      BY <2>4 DEF UpdateFill
    <3>2. /\ Names' \subseteq Names /\ Names' = {name[c] : c \in Copies} /\ Closed(Names', Contents)
          /\ \A id \in Names' : Contents'[id] = Contents[id]
          /\ \A v \in Int : Leads(v, Copies) => Meaning(v)' = Meaning(v)
      BY <1>1, <2>1, <2>2, <2>4, <3>1, UpdateFillContents
    <3> QED
      BY <1>1, <2>1, <2>2, <2>4, <3>1, <3>2, UpdateFillSeen
  <2>5. CASE CopyElement(result)
    <3>1. /\ control # "program" /\ control' # "program"
          /\ UNCHANGED <<word, rsp, defined, request>>
      BY <2>1, <2>5 DEF CopyElement, program, Collecting
    <3>2. Names' = Names /\ Contents' = Contents /\ \A v : Meaning(v)' = Meaning(v)
      BY <1>1, <2>1, <2>2, <2>5, CopyElementContents
    <3> QED
      BY <1>1, <3>1, <3>2, HiddenSeen
  <2> QED
    BY <2>2, <2>3, <2>4, <2>5 DEF Deliver
<1> QED
  BY <1>2, <1>3 DEF GC

LEMMA HelperSeen == SInv /\ (BadSize \/ OutOfMemory \/ StartGC) => Seen' = Seen
<1> SUFFICES ASSUME SInv, BadSize \/ OutOfMemory \/ StartGC PROVE Seen' = Seen
  OBVIOUS
<1>1. SInv'
  BY ProgramSInv, StartGCContents
<1>2. control # "program" /\ control' # "program" /\ UNCHANGED <<word, rsp, defined, request>>
  BY DEF BadSize, OutOfMemory, Exit, StartGC, program
<1>3. CASE StartGC
  BY <1>1, <1>2, <1>3, StartGCContents, HiddenSeen
<1>4. CASE BadSize \/ OutOfMemory
  <2>1. ~Collecting /\ ~Collecting' /\ UNCHANGED memory
    BY <1>4, ProgramSInv
  <2>2. Names' = Names /\ Contents' = Contents /\ \A v : Meaning(v)' = Meaning(v)
    BY <1>1, <2>1, QuietSame DEF SInv
  <2> QED
    BY <1>1, <1>2, <2>2, HiddenSeen
<1> QED
  BY <1>3, <1>4

(***************************************************************************)
(* The steps the program sees                                              *)
(***************************************************************************)
LEMMA InUseState ==
  ASSUME WInv
  PROVE  /\ DOMAIN InUse \subseteq Names /\ IsFiniteSet(DOMAIN InUse)
         /\ \A id \in DOMAIN InUse : InUse[id] = Contents[id]
         /\ HeldNames \intersect Names \subseteq DOMAIN InUse
         /\ Closed(DOMAIN InUse, Contents) /\ Closed(DOMAIN InUse, InUse)
<1> PICK S : S = Span(HeldNames, Contents)
  OBVIOUS
<1>1. InUse = Restrict(Contents, S)
  BY InUseIs
<1>2. S \subseteq Names /\ HeldNames \intersect Names \subseteq S /\ Closed(S, Contents)
  BY SpanContains, ContentsDomain
<1>3. DOMAIN InUse = S /\ \A id \in S : InUse[id] = Contents[id]
  BY <1>1 DEF Restrict
<1>4. IsFiniteSet(S)
  BY <1>2, NamesFew, FS_Subset DEF WInv
<1> QED
  BY <1>2, <1>3, <1>4 DEF Closed

\* Between the calls of allocate
LEMMA ProgramState ==
  ASSUME WInv, control = "program"
  PROVE  /\ ~Collecting /\ request = <<>> /\ Call = <<>> /\ Known = Starts
         /\ word \in [Places -> Int] /\ defined \subseteq Places
         /\ \A q : Root(q) = word[q]
         /\ HeldNames = {Meaning(word[q]) : q \in defined}
         /\ \A q \in defined : word[q] \in Int /\ Leads(word[q], Known)
<1>1. /\ ~Collecting /\ request = <<>> /\ Call = <<>>
      /\ word \in [Places -> Int] /\ defined \subseteq Places
  BY DEF WInv, IInv, TypeOK, Frame, Collecting, Call
<1>2. Known = Starts
  BY <1>1, OriginalsQuiet DEF Known
<1>3. \A q : Root(q) = word[q]
  BY DEF Root
<1>4. HeldNames = {Meaning(word[q]) : q \in defined}
  BY <1>1, <1>3, HeldNamesAre
<1>5. \A q \in defined : word[q] \in Held
  BY <1>3 DEF Held, Roots, Range
<1> QED
  BY <1>1, <1>2, <1>3, <1>4, <1>5, HeldLeads

LEMMA ProgramStateNext ==
  ASSUME WInv', control' = "program"
  PROVE  /\ Call' = <<>> /\ request' = <<>>
         /\ \A q : Root(q)' = word'[q]
         /\ HeldNames' = {Meaning(word[q])' : q \in defined'}
<1>1. request' = <<>> /\ Call' = <<>>
  BY SeenNext DEF WInv, IInv, Frame
<1>2. \A q : Root(q)' = word'[q]
  BY SeenNext
<1>3. HeldNames' = {Meaning(Root(q))' : q \in defined'}
  BY <1>1, SeenNext
<1>4. \A q : Meaning(Root(q))' = Meaning(word[q])'
  BY <1>2 DEF Meaning
<1> QED
  BY <1>1, <1>2, <1>3, <1>4

\* Numbers and pointers to arrays within reach are put into places.
LEMMA PutSeen ==
  ASSUME SInv, SInv', control = "program", NEW p \in Usable, NEW x \in Int, Put(p, x),
         Meaning(x) \in Names => Meaning(x) \in DOMAIN InUse
  PROVE  /\ Promise!Becomes(Promise!With([q \in defined |-> Meaning(Root(q))], p, Meaning(x)),
                            InUse, <<>>)
         /\ p \in defined'
<1>1. /\ WInv /\ WInv' /\ control' = "program"
      /\ word' = [word EXCEPT ![p] = x] /\ defined' = defined \union {p}
      /\ UNCHANGED memory
  BY DEF SInv, WInv, Put
<1>2. ~Collecting /\ ~Collecting'
  BY <1>1 DEF Collecting
<1>3. Names' = Names /\ Contents' = Contents /\ \A v : Meaning(v)' = Meaning(v)
  BY <1>1, <1>2, QuietSame DEF SInv
<1>4. p \in Places /\ word \in [Places -> Int] /\ defined \subseteq Places
  BY <1>1, <1>2, QuietState, ProgramState DEF WInv
<1>5. \A q \in defined' : Meaning(word[q])' = IF q = p THEN Meaning(x) ELSE Meaning(word[q])
  <2> SUFFICES ASSUME NEW q \in defined'
               PROVE  Meaning(word[q])' = IF q = p THEN Meaning(x) ELSE Meaning(word[q])
    OBVIOUS
  <2> PICK y : y = word'[q]
    OBVIOUS
  <2>1. y = IF q = p THEN x ELSE word[q]
    BY <1>1, <1>4
  <2>2. Meaning(y)' = Meaning(y)
    BY <1>3
  <2> QED
    BY <2>1, <2>2 DEF Meaning
<1> PICK roots : roots = Promise!With([q \in defined |-> Meaning(Root(q))], p, Meaning(x))
  OBVIOUS
<1>6. [q \in defined |-> Meaning(Root(q))]' = roots
  <2>1. roots = [q \in defined \union {p} |-> IF q = p THEN Meaning(x) ELSE Meaning(Root(q))]
    BY DEF Promise!With
  <2>2. [q \in defined |-> Meaning(Root(q))]' = [q \in defined' |-> Meaning(word[q])']
    BY <1>1, ProgramStateNext DEF Meaning
  <2> QED
    BY <1>1, <1>5, <2>1, <2>2, ProgramState
<1>7. HeldNames' \intersect Names \subseteq DOMAIN InUse
  <2> SUFFICES ASSUME NEW q \in defined', Meaning(word[q])' \in Names
               PROVE  Meaning(word[q])' \in DOMAIN InUse
    BY <1>1, ProgramStateNext
  <2>1. CASE q = p
    BY <1>5, <2>1
  <2>2. CASE q # p
    <3>1. Meaning(word[q]) \in HeldNames
      BY <1>1, <2>2, ProgramState
    <3> QED
      BY <1>1, <1>5, <2>2, <3>1, InUseState
  <2> QED
    BY <2>1, <2>2
<1>8. Call' = <<>>
  BY <1>1, ProgramStateNext
<1>9. /\ DOMAIN InUse \subseteq Names' /\ IsFiniteSet(DOMAIN InUse)
      /\ \A id \in DOMAIN InUse : Contents'[id] = InUse[id]
      /\ HeldNames' \intersect DOMAIN InUse \subseteq DOMAIN InUse
      /\ Closed(DOMAIN InUse, InUse) /\ Closed(DOMAIN InUse, Contents')
  BY <1>1, <1>3, InUseState
<1>10. Promise!Becomes(roots, InUse, <<>>)
  BY <1>1, <1>3, <1>6, <1>7, <1>8, <1>9, BecomesSeen
<1> QED
  BY <1>1, <1>10

LEMMA PointerSeen ==
  ASSUME WInv, control = "program", NEW q \in defined, IsPointer(word[q])
  PROVE  /\ word[q] \in Starts /\ word[q] \in Known /\ Meaning(word[q]) = name[word[q]]
         /\ Meaning(word[q]) \in DOMAIN InUse
         /\ InUse[Meaning(word[q])]
               = [i \in 1..mem[word[q]] |-> Meaning(mem[Element(word[q], i)])]
<1>1. ~Collecting /\ Known = Starts /\ word[q] \in Starts
  BY ProgramState DEF Leads
<1>2. word[q] \in Address /\ name[word[q]] \in Ids
  BY <1>1, KnownNames
<1>3. Meaning(word[q]) = name[word[q]]
  BY <1>2 DEF Meaning
<1>4. name[word[q]] \in Names /\ Contents[name[word[q]]] = ArrayAt(word[q])
  BY <1>2, ContentsAt
<1>5. Meaning(word[q]) \in HeldNames
  BY ProgramState
<1>6. Meaning(word[q]) \in DOMAIN InUse
  BY <1>3, <1>4, <1>5, InUseState
<1>7. ArrayAt(word[q]) = [i \in 1..mem[word[q]] |-> Meaning(mem[Element(word[q], i)])]
  BY <1>1, ArrayAtQuiet DEF WInv
<1> QED
  BY <1>1, <1>3, <1>4, <1>6, <1>7, InUseState

LEMMA AssignSeen == SInv /\ (SetNumber \/ Move) => Promise!Assign
<1> SUFFICES ASSUME SInv, SetNumber \/ Move PROVE Promise!Assign
  OBVIOUS
<1>1. SInv' /\ WInv /\ control = "program"
  BY ProgramSInv DEF SInv, WInv, SetNumber, Move
<1>2. ASSUME NEW p \in Usable, NEW x \in Int, Put(p, x),
             Meaning(x) \in Names => Meaning(x) \in DOMAIN InUse,
             Meaning(x) \in Numbers \union {Meaning(Root(q)) : q \in defined}
      PROVE  Promise!Assign
  <2> PICK roots : roots = [q \in defined |-> Meaning(Root(q))]
    OBVIOUS
  <2>1. Promise!Becomes(Promise!With(roots, p, Meaning(x)), InUse, <<>>) /\ p \in defined'
    BY <1>1, <1>2, PutSeen
  <2>2. Meaning(x) \in Numbers \union Promise!Range(roots)
    BY <1>2 DEF Promise!Range
  <2>3. DOMAIN [q \in defined |-> Meaning(Root(q))]' = defined'
    OBVIOUS
  <2>4. Call = <<>>
    BY <1>1, ProgramState
  <2> QED
    BY <2>1, <2>2, <2>3, <2>4 DEF Promise!Assign
<1>3. CASE SetNumber
  <2>1. PICK p \in Usable, n \in Numbers : Put(p, n)
    BY <1>3 DEF SetNumber
  <2>2. n \in Int /\ n % 2 = 1
    BY ConstantsFit
  <2>3. n \notin Address
    BY <2>2, AddressBounds DEF Address, Heaps, IsPointer
  <2>4. Meaning(n) = n
    BY <2>3 DEF Meaning
  <2>5. n \notin Names
    BY <1>1, <2>2, NamesAreIds, ConstantsFit
  <2> QED
    BY <1>2, <2>1, <2>2, <2>4, <2>5
<1>4. CASE Move
  <2>1. PICK p \in Usable, q \in defined : Put(p, word[q])
    BY <1>4 DEF Move
  <2>2. word[q] \in Int /\ Meaning(word[q]) \in HeldNames /\ Root(q) = word[q]
    BY <1>1, ProgramState
  <2>3. Meaning(word[q]) \in Names => Meaning(word[q]) \in DOMAIN InUse
    BY <1>1, <2>2, InUseState
  <2>4. Meaning(word[q]) \in {Meaning(Root(r)) : r \in defined}
    BY <2>2
  <2> QED
    BY <1>2, <2>1, <2>2, <2>3, <2>4
<1> QED
  BY <1>3, <1>4

LEMMA ReadSeen == SInv /\ Load => Promise!Read
<1> SUFFICES ASSUME SInv, Load PROVE Promise!Read
  OBVIOUS
<1>1. SInv' /\ WInv /\ IInv /\ control = "program" /\ ~Collecting
  BY ProgramSInv DEF SInv, WInv, Load, Collecting
<1>2. PICK p \in Usable, q \in defined :
        IsPointer(word[q]) /\ \E i \in 1..mem[word[q]] : Put(p, mem[Element(word[q], i)])
  BY DEF Load
<1>3. PICK i \in 1..mem[word[q]] : Put(p, mem[Element(word[q], i)])
  BY <1>2
<1> PICK x, id : x = mem[Element(word[q], i)] /\ id = Meaning(word[q])
  OBVIOUS
<1> PICK roots : roots = [r \in defined |-> Meaning(Root(r))]
  OBVIOUS
<1>4. /\ word[q] \in Starts /\ id \in DOMAIN InUse /\ i \in DOMAIN InUse[id]
      /\ InUse[id][i] = Meaning(x)
  BY <1>1, <1>2, PointerSeen
<1>5. x \in Int
  BY <1>1, <1>4, ElementLeads
<1>6. roots[q] = id /\ q \in DOMAIN roots
  BY <1>1, ProgramState
<1>7. Meaning(x) \in Names => Meaning(x) \in DOMAIN InUse
  <2>1. Meaning(x) \in Range(Contents[id])
    BY <1>1, <1>4, InUseState DEF Range
  <2> QED
    BY <1>1, <1>4, <2>1, InUseState, ContentsDomain DEF Closed
<1>8. Promise!Becomes(Promise!With(roots, p, Meaning(x)), InUse, <<>>) /\ p \in defined'
  BY <1>1, <1>3, <1>5, <1>7, PutSeen
<1>9. DOMAIN [r \in defined |-> Meaning(Root(r))]' = defined'
  OBVIOUS
<1>10. Call = <<>>
  BY <1>1, ProgramState
<1> QED
  BY <1>4, <1>6, <1>8, <1>9, <1>10 DEF Promise!Read

LEMMA WriteSeen == SInv /\ Store => Promise!Write
<1> SUFFICES ASSUME SInv, Store PROVE Promise!Write
  OBVIOUS
<1>1. /\ SInv' /\ IInv' /\ WInv /\ WInv' /\ control = "program" /\ control' = "program"
      /\ UNCHANGED <<valid, heap, words, name, program, collector, control, request>>
  BY StoreSInv DEF SInv, WInv, Store
<1>2. PICK p \in defined, q \in defined :
        /\ IsPointer(word[q])
        /\ \E i \in 1..mem[word[q]] : mem' = [mem EXCEPT ![Element(word[q], i)] = word[p]]
  BY DEF Store
<1>3. PICK i \in 1..mem[word[q]] : mem' = [mem EXCEPT ![Element(word[q], i)] = word[p]]
  BY <1>2
<1> PICK x, id : x = Meaning(word[p]) /\ id = Meaning(word[q])
  OBVIOUS
<1> PICK roots : roots = [r \in defined |-> Meaning(Root(r))]
  OBVIOUS
<1>4. /\ id = name[word[q]] /\ id \in DOMAIN InUse /\ i \in DOMAIN InUse[id]
  BY <1>1, <1>2, PointerSeen
<1>5. Names' = Names /\ Contents' = [Contents EXCEPT ![id][i] = x]
  <2>1. /\ Names' = Names
        /\ Contents' = [Contents EXCEPT ![name[word[q]]][i] = Meaning(word[p])]
    BY <1>1, <1>2, <1>3, StoreContents
  <2> QED
    BY <1>4, <2>1
<1>6. /\ roots[q] = id /\ q \in DOMAIN roots /\ roots[p] = x /\ p \in DOMAIN roots
      /\ x \in HeldNames
  BY <1>1, ProgramState
<1> PICK f : f = [InUse EXCEPT ![id][i] = x]
  OBVIOUS
<1>7. DOMAIN f = DOMAIN InUse /\ \A d \in DOMAIN InUse : Contents'[d] = f[d]
  BY <1>1, <1>4, <1>5, InUseState, ContentsDomain
<1>8. [r \in defined |-> Meaning(Root(r))]' = roots /\ HeldNames' = HeldNames
  <2>1. \A r : Meaning(word[r])' = Meaning(word[r])
    BY <1>1 DEF Meaning, program
  <2>2. defined' = defined /\ \A r : Root(r)' = word'[r] /\ Root(r) = word[r]
    BY <1>1, ProgramState, ProgramStateNext DEF program
  <2>3. \A r : Meaning(Root(r))' = Meaning(Root(r))
    BY <2>1, <2>2 DEF Meaning
  <2>4. /\ HeldNames' = {Meaning(word[r])' : r \in defined'}
        /\ HeldNames = {Meaning(word[r]) : r \in defined}
    BY <1>1, ProgramState, ProgramStateNext
  <2> QED
    BY <2>1, <2>2, <2>3, <2>4
<1>9. Closed(DOMAIN InUse, f)
  BY <1>7 DEF Closed
<1>10. Closed(DOMAIN InUse, Contents')
  <2> SUFFICES ASSUME NEW d \in DOMAIN InUse, NEW v \in Range(Contents'[d]), v \in Names
               PROVE  v \in DOMAIN InUse
    BY <1>5, ContentsDomain DEF Closed
  <2>1. d \in Names /\ id \in Names
    BY <1>1, <1>4, InUseState
  <2>2. CASE v = x
    BY <1>1, <1>6, <2>2, InUseState
  <2>3. CASE v # x
    <3>1. v \in Range(Contents[d])
      <4>1. PICK k \in DOMAIN Contents'[d] : v = Contents'[d][k]
        BY DEF Range
      <4>2. Contents'[d] = IF d = id THEN [Contents[id] EXCEPT ![i] = x] ELSE Contents[d]
        BY <1>5, <2>1, ContentsDomain
      <4>3. k \in DOMAIN Contents[d] /\ v = Contents[d][k]
        BY <2>3, <4>1, <4>2
      <4> QED
        BY <4>3 DEF Range
    <3> QED
      BY <1>1, <3>1, InUseState, ContentsDomain DEF Closed
  <2> QED
    BY <2>2, <2>3
<1>11. /\ IsFiniteSet(DOMAIN f) /\ DOMAIN InUse \subseteq Names'
       /\ HeldNames' \intersect DOMAIN f \subseteq DOMAIN InUse
       /\ HeldNames' \intersect Names' \subseteq DOMAIN InUse
       /\ Call' = <<>> /\ Call = <<>>
  BY <1>1, <1>5, <1>7, <1>8, InUseState, ProgramState, ProgramStateNext
<1>12. Promise!Becomes(roots, f, <<>>)
  BY <1>1, <1>7, <1>8, <1>9, <1>10, <1>11, BecomesSeen
<1> QED
  BY <1>4, <1>6, <1>11, <1>12 DEF Promise!Write

LEMMA EnterSeen == SInv /\ Enter => Seen' = Seen
<1> SUFFICES ASSUME SInv, Enter PROVE Seen' = Seen
  OBVIOUS
<1>1. /\ SInv' /\ ~Collecting /\ ~Collecting' /\ UNCHANGED memory
      /\ WInv /\ WInv' /\ control = "program" /\ control' = "program"
      /\ UNCHANGED <<word, defined>>
  BY ProgramSInv DEF SInv, WInv, Enter
<1>2. Names' = Names /\ Contents' = Contents /\ \A v : Meaning(v)' = Meaning(v)
  BY <1>1, QuietSame DEF SInv
<1>3. \A p \in defined : Meaning(Root(p))' = Meaning(Root(p))
  <2>1. \A p : Root(p)' = word'[p] /\ Root(p) = word[p]
    BY <1>1, ProgramState, ProgramStateNext
  <2>2. name' = name
    BY <1>1 DEF memory
  <2> QED
    BY <1>1, <2>1, <2>2 DEF Meaning
<1> QED
  BY <1>1, <1>2, <1>3, ProgramState, ProgramStateNext, SeenSameStore

\* Leaving a function, the program loses a local.
LEMMA ReturnSeen == SInv /\ Return => Promise!Forget \/ Seen' = Seen
<1> SUFFICES ASSUME SInv, Return PROVE Promise!Forget \/ Seen' = Seen
  OBVIOUS
<1>1. /\ SInv' /\ ~Collecting /\ ~Collecting' /\ UNCHANGED memory
      /\ WInv /\ WInv' /\ control = "program" /\ control' = "program"
      /\ word' = word /\ defined' = defined \ {rsp}
  BY ProgramSInv DEF SInv, WInv, Return
<1>2. Names' = Names /\ Contents' = Contents /\ \A v : Meaning(v)' = Meaning(v)
  BY <1>1, QuietSame DEF SInv
<1>3. /\ \A p : Meaning(Root(p))' = Meaning(Root(p))
      /\ \A p : Meaning(word[p])' = Meaning(word[p])
  <2>1. \A p : Root(p)' = word'[p] /\ Root(p) = word[p]
    BY <1>1, ProgramState, ProgramStateNext
  <2>2. name' = name
    BY <1>1 DEF memory
  <2> QED
    BY <1>1, <2>1, <2>2 DEF Meaning
<1>4. CASE rsp \notin defined
  BY <1>1, <1>2, <1>3, <1>4, ProgramState, ProgramStateNext, SeenSameStore
<1>5. CASE rsp \in defined
  <2> PICK roots, fewer : /\ roots = [p \in defined |-> Meaning(Root(p))]
                          /\ fewer = [p \in defined \ {rsp} |-> Meaning(Root(p))]
    OBVIOUS
  <2>1. [p \in defined |-> Meaning(Root(p))]' = fewer
    BY <1>1, <1>3
  <2>2. HeldNames' \subseteq HeldNames
    <3>1. /\ HeldNames' = {Meaning(word[p])' : p \in defined'}
          /\ HeldNames = {Meaning(word[p]) : p \in defined}
      BY <1>1, ProgramState, ProgramStateNext
    <3> QED
      BY <1>1, <1>3, <3>1
  <2>3. Promise!Becomes(fewer, InUse, <<>>)
    BY <1>1, <1>2, <2>1, <2>2, InUseState, ProgramStateNext, BecomesSeen
  <2>4. /\ rsp \in DOMAIN roots
        /\ fewer = Promise!Restrict(roots, DOMAIN roots \ {rsp})
    BY <1>5 DEF Promise!Restrict
  <2>5. Call = <<>>
    BY <1>1, ProgramState
  <2> QED
    BY <2>3, <2>4, <2>5 DEF Promise!Forget, Promise!Without
<1> QED
  BY <1>4, <1>5

LEMMA NumberMeans ==
  ASSUME NEW n \in Numbers
  PROVE  n \in Int /\ Meaning(n) = n /\ n \notin Ids
<1>1. n \in Int /\ n % 2 = 1
  BY ConstantsFit
<1>2. n \notin Address
  BY <1>1, AddressBounds DEF Address, Heaps, IsPointer
<1> QED
  BY <1>1, <1>2, ConstantsFit DEF Meaning

\* allocate is called: the callee-saved registers are on the stack now, the others are
\* lost.
LEMMA AskSeen == SInv /\ Allocate => Promise!Ask
<1> SUFFICES ASSUME SInv, Allocate PROVE Promise!Ask
  OBVIOUS
<1>1. /\ SInv' /\ ~Collecting /\ ~Collecting' /\ UNCHANGED memory
      /\ WInv /\ WInv' /\ IInv /\ IInv'
      /\ control = "program" /\ control' # "program" /\ rsp' = rsp
      /\ word' = [p \in Places |-> IF p \in StackTop..rsp-1 THEN word[Saved[p - StackTop + 1]]
                                                            ELSE word[p]]
      /\ defined' = defined \ Scratch
  BY ProgramSInv DEF SInv, WInv, Allocate
<1>2. PICK fw_size \in Requests, fw_fill \in Numbers \union {word[p] : p \in defined} :
         request' = <<fw_size, fw_fill>>
  BY DEF Allocate
<1>3. Names' = Names /\ Contents' = Contents /\ \A v : Meaning(v)' = Meaning(v)
  BY <1>1, QuietSame DEF SInv
<1>4. ASSUME NEW p \in defined' PROVE Meaning(Root(p))' = Meaning(Root(p))
  <2>1. p \in Usable \ Scratch /\ p \in defined /\ rsp \in Len(Saved)+1..StackWords
    BY <1>1 DEF IInv, TypeOK, Frame
  <2>2. Root(p)' = word'[At(p)]
    BY <1>1, AtSame, SeenNext
  <2>3. word'[At(p)] = word[p]
    BY <1>1, <2>1, AtBounds
  <2>4. Root(p) = word[p]
    BY <1>1, ProgramState
  <2>5. name' = name
    BY <1>1 DEF memory
  <2> QED
    BY <2>2, <2>3, <2>4, <2>5 DEF Meaning
<1> PICK roots, fewer : /\ roots = [p \in defined |-> Meaning(Root(p))]
                        /\ fewer = [p \in defined' |-> Meaning(Root(p))]
  OBVIOUS
<1>5. [p \in defined |-> Meaning(Root(p))]' = fewer
  BY <1>4
<1>6. fewer = Promise!Restrict(roots, DOMAIN roots \intersect DOMAIN fewer)
  BY <1>1 DEF Promise!Restrict
<1> PICK fill : fill = Meaning(fw_fill)
  OBVIOUS
<1>7. fill \in Numbers \union Promise!Range(roots)
  <2>1. CASE fw_fill \in Numbers
    BY <2>1, NumberMeans
  <2>2. CASE \E p \in defined : fw_fill = word[p]
    <3>1. PICK p \in defined : fw_fill = word[p]
      BY <2>2
    <3>2. roots[p] = fill /\ p \in DOMAIN roots
      BY <1>1, <3>1, ProgramState
    <3> QED
      BY <3>2 DEF Promise!Range
  <2> QED
    BY <2>1, <2>2
<1>8. /\ request' # <<>> /\ Meaning(FwFill)' = fill /\ Call' # <<>>
      /\ Call' = <<Call'[1], fill>>
  <2>1. request' # <<>> /\ FwFill' = fw_fill
    BY <1>2 DEF FwFill
  <2>2. Meaning(FwFill)' = fill
    <3>1. name' = name
      BY <1>1 DEF memory
    <3> QED
      BY <2>1, <3>1 DEF Meaning
  <2>3. Call' = <<FwSize' \div 2, Meaning(FwFill)'>> /\ Call' # <<>>
    BY <2>1, SeenNext
  <2> QED
    BY <2>1, <2>2, <2>3
<1>9. \A id \in HeldNames' : id \in HeldNames \/ id \in Numbers
  <2>1. HeldNames' = {Meaning(Root(p))' : p \in defined'} \union {fill}
    BY <1>8, SeenNext
  <2>2. \A p \in defined' : Meaning(Root(p))' \in HeldNames
    BY <1>1, <1>4, HeldNamesAre
  <2>3. fill \in HeldNames \/ fill \in Numbers
    <3>1. Promise!Range(roots) \subseteq HeldNames
      BY HeldNamesAre DEF Promise!Range
    <3> QED
      BY <1>7, <3>1
  <2> QED
    BY <2>1, <2>2, <2>3
<1>10. HeldNames' \intersect Names \subseteq DOMAIN InUse
  BY <1>1, <1>9, InUseState, NumberMeans, NamesAreIds
<1>11. Promise!Becomes(fewer, InUse, <<Call'[1], fill>>)
  BY <1>1, <1>3, <1>5, <1>8, <1>10, InUseState, BecomesSeen
<1>12. Call = <<>>
  BY <1>1, ProgramState
<1> QED
  BY <1>5, <1>6, <1>7, <1>8, <1>11, <1>12 DEF Promise!Ask

\* Every size that is asked for is one that an int can hold: allocate_helper keeps it in
\* an int, so any other is cut off (SizeAsDesired).
RequestsFit == \A n \in Requests : Int32(n \div 2) = n \div 2

\* allocate returns: the callee-saved registers are back, and one other place has the
\* array.
LEMMA AnswerSeen == RequestsFit /\ SInv /\ Grant => Promise!Answer
<1> SUFFICES ASSUME RequestsFit, SInv, Grant PROVE Promise!Answer
  OBVIOUS
<1> PICK k, new, fill, n : /\ k = allocptr /\ new = name'[allocptr]
                           /\ fill = Meaning(FwFill) /\ n = DataSize
  OBVIOUS
<1>1. /\ SInv' /\ WInv /\ WInv' /\ ~Collecting /\ control # "program" /\ Running
      /\ control' = "program" /\ HasSpace
  BY GrantContents DEF SInv, WInv, Grant, Allocated, Running
<1>2. PICK p \in Scratch : Allocated(p)
  BY DEF Grant
<1>3. /\ new \in Ids \ Names /\ Names' = Names \union {new}
      /\ \A id \in Names : Contents'[id] = Contents[id]
      /\ Contents'[new] = [i \in 1..n |-> fill]
      /\ \A v \in Int : Leads(v, Starts) => Meaning(v)' = Meaning(v)
  BY GrantContents
<1>4. Known = Starts /\ request # <<>>
  BY <1>1, OriginalsQuiet DEF Known, WInv, IInv, Frame
<1>5. /\ Call # <<>> /\ Call[1] = n /\ Call[2] = fill
  <2>1. request \in Requests \X Int
    BY <1>1, <1>4 DEF WInv, IInv, TypeOK
  <2>2. FwSize \in Requests
    BY <2>1 DEF FwSize
  <2>3. n = FwSize \div 2
    BY <2>2 DEF RequestsFit, DataSize
  <2> QED
    BY <1>4, <2>3, CallIs
<1>6. k \in Address
  BY <1>1, GrantHeap DEF WInv
<1>7. ASSUME NEW q \in defined PROVE q # p /\ q \in Places /\ word'[q] = Root(q)
  <2>1. q # p /\ q \in Places
    BY <1>1, <1>2 DEF WInv, IInv, TypeOK, Frame
  <2>2. CASE q \in Range(Saved)
    <3>1. \E i \in DOMAIN Saved : Saved[i] = q
      BY <2>2, Constants
    <3> QED
      BY <1>1, <1>2, <2>1, <2>2, <3>1 DEF Allocated, Root
  <2>3. CASE q \notin Range(Saved)
    <3>1. ~ \E i \in DOMAIN Saved : Saved[i] = q
      BY <2>3 DEF Range
    <3> QED
      BY <1>1, <1>2, <2>1, <2>3, <3>1 DEF Allocated, Root
  <2> QED
    BY <2>2, <2>3
<1>8. word'[p] = k /\ defined' = defined \union {p} /\ p \in Places
  BY <1>2 DEF Allocated, Places
<1>9. ASSUME NEW q \in defined'
      PROVE  Meaning(Root(q))' = IF q = p THEN new ELSE Meaning(Root(q))
  <2> PICK x : x = word'[q]
    OBVIOUS
  <2>1. Root(q)' = x
    BY <1>1, ProgramStateNext
  <2>2. CASE q = p
    <3>1. Meaning(x)' = name'[x] /\ x = k
      BY <1>6, <1>8, <2>2 DEF Meaning
    <3> QED
      BY <2>1, <2>2, <3>1 DEF Meaning
  <2>3. CASE q # p
    <3>1. q \in defined /\ x = Root(q)
      BY <1>7, <1>8, <2>3
    <3>2. x \in Held
      BY <3>1 DEF Held, Roots, Range
    <3>3. Meaning(x)' = Meaning(x)
      BY <1>1, <1>3, <1>4, <3>2, HeldLeads
    <3> QED
      BY <2>1, <2>3, <3>1, <3>3 DEF Meaning
  <2> QED
    BY <2>2, <2>3
<1> PICK roots, more, f : /\ roots = [q \in defined |-> Meaning(Root(q))]
                          /\ more = Promise!With(roots, p, new)
                          /\ f = Promise!With(InUse, new, [i \in 1..n |-> fill])
  OBVIOUS
<1>10. [q \in defined |-> Meaning(Root(q))]' = more
  <2>1. more = [q \in defined \union {p} |-> IF q = p THEN new ELSE Meaning(Root(q))]
    BY DEF Promise!With
  <2> QED
    BY <1>8, <1>9, <2>1
<1> PICK C : C = DOMAIN InUse \union {new}
  OBVIOUS
<1>11. /\ C \subseteq Names' /\ new \notin DOMAIN InUse /\ IsFiniteSet(C)
       /\ DOMAIN InUse \subseteq Names
  BY <1>1, <1>3, InUseState, FS_AddElement
<1>12. DOMAIN f = C /\ \A id \in C : f[id] = IF id = new THEN [i \in 1..n |-> fill] ELSE InUse[id]
  BY DEF Promise!With
<1>13. \A id \in C : Contents'[id] = f[id]
  BY <1>1, <1>3, <1>11, <1>12, InUseState
<1>14. fill \in HeldNames
  BY <1>4, HeldNamesAre
<1>15. HeldNames' \intersect Names' \subseteq C
  <2> SUFFICES ASSUME NEW q \in defined', Meaning(Root(q))' \in Names' PROVE Meaning(Root(q))' \in C
    <3>1. HeldNames' = {Meaning(Root(q))' : q \in defined'}
      BY <1>1, SeenNext, ProgramStateNext
    <3> QED
      BY <3>1
  <2>1. CASE q = p
    BY <1>9, <2>1
  <2>2. CASE q # p
    <3>1. Meaning(Root(q))' = Meaning(Root(q)) /\ Meaning(Root(q)) \in HeldNames
      BY <1>8, <1>9, <2>2, HeldNamesAre
    <3> QED
      BY <1>1, <1>3, <3>1, InUseState
  <2> QED
    BY <2>1, <2>2
<1>16. Closed(C, Contents')
  <2> SUFFICES ASSUME NEW id \in C, NEW v \in Range(Contents'[id]), v \in Names' PROVE v \in C
    BY DEF Closed, Contents
  <2>1. v = new \/ v \in Names
    BY <1>3
  <2>2. CASE v \in Names /\ id = new
    <3>1. v = fill
      BY <1>3, <2>2 DEF Range
    <3> QED
      BY <1>1, <1>14, <2>2, <3>1, InUseState
  <2>3. CASE v \in Names /\ id # new
    <3>1. id \in DOMAIN InUse /\ v \in Range(Contents[id])
      BY <1>1, <1>3, <1>11, <2>3
    <3> QED
      BY <1>1, <2>3, <3>1, InUseState, ContentsDomain DEF Closed
  <2> QED
    BY <2>1, <2>2, <2>3
<1>17. Call' = <<>>
  BY <1>1, ProgramStateNext
<1>18. Promise!Becomes(more, f, <<>>)
  <2>1. Closed(C, f)
    BY <1>12 DEF Closed
  <2> QED
    BY <1>1, <1>10, <1>11, <1>12, <1>13, <1>15, <1>16, <1>17, <2>1, BecomesSeen
<1>19. p \in DOMAIN more /\ more[p] = new
  BY DEF Promise!With
<1> QED
  BY <1>3, <1>5, <1>10, <1>11, <1>17, <1>18, <1>19 DEF Promise!Answer

(***************************************************************************)
(* The refinement                                                          *)
(***************************************************************************)
LEMMA StutterSeen == SInv /\ UNCHANGED vars => Seen' = Seen
<1> SUFFICES ASSUME SInv, UNCHANGED vars PROVE Seen' = Seen
  OBVIOUS
<1>1. UNCHANGED <<name, word, rsp, defined, control, request>>
  BY DEF vars, memory, program
<1>2. WInv /\ WInv' /\ Names' = Names /\ Contents' = Contents
  BY StutterContents DEF SInv, WInv
<1>3. \A p : Root(p)' = Root(p)
  BY <1>1 DEF Root, SavedAt
<1>4. \A p \in defined : Meaning(Root(p))' = Meaning(Root(p))
  BY <1>1, <1>3 DEF Meaning
<1>5. FwSize' = FwSize /\ Meaning(FwFill)' = Meaning(FwFill)
  BY <1>1 DEF FwSize, FwFill, Meaning
<1> QED
  BY <1>1, <1>2, <1>4, <1>5, SeenSameStore

LEMMA InitSeen == Init => Promise!Init
<1> SUFFICES ASSUME Init PROVE Promise!Init
  OBVIOUS
<1>1. WInv /\ defined = {} /\ control = "program" /\ ~Collecting
  BY InitSInv DEF SInv, WInv, Init, Collecting
<1>2. Call = <<>>
  BY <1>1, ProgramState
<1>3. HeldNames = {}
  BY <1>1, ProgramState
<1>4. Span({}, Contents) = {}
  BY ContentsDomain, SpanLeast, SpanContains DEF Closed
<1>5. InUse = <<>>
  <2>1. InUse = [id \in Span({}, Contents) |-> Contents[id]]
    BY <1>1, <1>3, InUseIs DEF Restrict
  <2> QED
    BY <1>4, <2>1
<1>6. [p \in defined |-> Meaning(Root(p))] = <<>>
  BY <1>1
<1> QED
  BY <1>2, <1>5, <1>6 DEF Promise!Init

LEMMA NextSeen == RequestsFit /\ SInv /\ [Next]_vars => [Promise!Next]_(Promise!vars)
<1> SUFFICES ASSUME RequestsFit, SInv, [Next]_vars
             PROVE  Promise!Next \/ Seen' = Seen
  BY DEF Seen, Promise!vars
<1>1. CASE SetNumber \/ Move
  BY <1>1, AssignSeen DEF Promise!Next
<1>2. CASE Load
  BY <1>2, ReadSeen DEF Promise!Next
<1>3. CASE Store
  BY <1>3, WriteSeen DEF Promise!Next
<1>4. CASE Enter
  BY <1>4, EnterSeen
<1>5. CASE Return
  BY <1>5, ReturnSeen DEF Promise!Next
<1>6. CASE Allocate
  BY <1>6, AskSeen DEF Promise!Next
<1>7. CASE Grant
  BY <1>7, AnswerSeen DEF Promise!Next
<1>8. CASE BadSize \/ OutOfMemory \/ StartGC
  BY <1>8, HelperSeen
<1>9. CASE GC
  BY <1>9, GCSeen
<1>10. CASE UNCHANGED vars
  BY <1>10, StutterSeen
<1> QED
  BY <1>1, <1>2, <1>3, <1>4, <1>5, <1>6, <1>7, <1>8, <1>9, <1>10 DEF Next, Program, Helper

\* runtime.c keeps the promise of ObjectStore: the program sees arrays that are never
\* lost, moved, shared or changed, at every step of a collection, and allocate answers
\* with an array of its own that has the size and the elements that were asked for.
THEOREM StoreIsImplemented == ASSUME RequestsFit PROVE Spec => ImplementsStore
<1>1. Init => Promise!Init
  BY InitSeen
<1>2. SInv /\ [Next]_vars => [Promise!Next]_(Promise!vars)
  BY NextSeen
<1> QED
  BY <1>1, <1>2, StoreInvariance, PTL DEF Spec, ImplementsStore, Promise!Spec

=============================================================================
