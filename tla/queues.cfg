\* Two price levels; the block grows from one slot, on the heap, to its limit of
\* three huge pages, wherever mmap puts it.
CONSTANTS
    kNoSlot = 7
    SlotLimit = 4
    InitialSlots = 1
    Garbage = garbage
    kHugePage = 3
    AddressSpace = 30
    Heap = Heap
    Prices = {p1, p2}
    MaxQty = 2
SYMMETRY PriceSymmetry
SPECIFICATION Spec
INVARIANTS
    TypeOK
    QueuesKeepTimeOrder
    SlotsAccountedFor
    BlockIsMapped
