----------------------------- MODULE Allocator -----------------------------
(***************************************************************************)
(* custom_allocator: first fit over an arena, each allocation aligned      *)
(* (utils/allocator.cpp).  The free list is sorted by address and its      *)
(* blocks never touch, free merging those that would: it is the list of    *)
(* the maximal runs of free bytes, and the set of free bytes stands for it.*)
(***************************************************************************)
EXTENDS Integers

\* An allocated block.
Block == [addr : Nat, size : Nat]

\* Mutant: a block ends with the byte behind it.
BytesClosed(b) == b.addr .. b.addr + b.size

\* The bytes of a block.
Bytes(b) == b.addr .. b.addr + b.size - 1

\* alignPointer
AlignPointer(ptr, alignment) == ((ptr + alignment - 1) \div alignment) * alignment

\* The addresses at which blocks of the free list start.
FreeBlocks(free) == {a \in free : a - 1 \notin free}

\* What an allocation at the free block a takes, padding included.
Taken(a, bytes, alignment) == a .. AlignPointer(a, alignment) + bytes - 1

\* The blocks of the list that are large enough.
Fitting(free, bytes, alignment) ==
    {a \in FreeBlocks(free) : Taken(a, bytes, alignment) \subseteq free}

\* The first block of the list that is large enough.
FirstFit(free, bytes, alignment) ==
    CHOOSE a \in Fitting(free, bytes, alignment) :
      \A b \in Fitting(free, bytes, alignment) : a <= b

\* alloc, when some block is large enough: the block returned, and the free
\* bytes after it.  The padding in front of the block is in neither.
Allocated(free, bytes, alignment) ==
    [addr |-> AlignPointer(FirstFit(free, bytes, alignment), alignment),
     size |-> bytes]

FreeAfterAlloc(free, bytes, alignment) ==
    free \ Taken(FirstFit(free, bytes, alignment), bytes, alignment)

\* free, of several blocks.
FreeAfterFree(free, blocks) == free \cup UNION {Bytes(b) : b \in blocks}
=============================================================================
