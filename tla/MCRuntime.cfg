CONSTANTS
    rax = rax
    rbx = rbx
    n1 = n1
    n2 = n2
    n3 = n3
    n4 = n4
    n5 = n5
    n6 = n6
    HEAP_SIZE = 5
    Saved <- MCSaved
    Scratch <- MCScratch
    StackWords = 3
    Numbers <- MCNumbers
    Requests <- MCRequests
    IntRange = 64
    Ids <- MCIds
    Leftover <- MCLeftover
SPECIFICATION Spec
CHECK_DEADLOCK FALSE
INVARIANTS
    HeapWellFormed
    CopiesFit
    NothingElseSurvives
PROPERTIES
    ImplementsStore
    Terminates
