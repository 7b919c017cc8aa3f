------------------------------ MODULE BumpHeap ------------------------------
(***************************************************************************)
(* The LIFO-rewind bump allocator of the wasm modules: wasm_shim in        *)
(* bench/src/lib.rs and its duplicate in smoke-test/src/lib.rs, used by    *)
(* code that allocates, frees and reallocates in any order.                *)
(*                                                                         *)
(* Addresses are usize, i.e. numbers modulo Word; the release builds wrap. *)
(* The allocator keeps only OFFSET; the live blocks and the two history    *)
(* flags are what its caller knows.                                        *)
(***************************************************************************)
EXTENDS Integers, FiniteSets

CONSTANTS
  Word,         \* 2^32
  PageSize,     \* 0x10000
  MinAlign,     \* 16
  HeapBase,     \* __heap_base
  InitPages,    \* pages of the instantiated module
  MaxPages,     \* pages the engine grants at most
  Sizes, Aligns,   \* layouts requested
  MaxLive       \* bound on the blocks live at once

ASSUME MemoryAssumption ==
  /\ Word \in Nat \ {0} /\ PageSize \in Nat \ {0} /\ MinAlign \in Nat \ {0}
  /\ HeapBase \in Nat \ {0} /\ InitPages \in Nat /\ MaxPages \in Nat
  /\ InitPages <= MaxPages /\ MaxPages * PageSize <= Word
  /\ HeapBase <= InitPages * PageSize /\ HeapBase < Word
ASSUME LayoutAssumption ==
  Sizes \subseteq Nat \ {0} /\ Aligns \subseteq Nat \ {0} /\ MaxLive \in Nat

VARIABLES
  OFFSET,       \* the bump pointer; 0 until the first allocation
  memory_size,  \* pages
  live,         \* blocks handed out and not freed, records with ptr and size
  nested,       \* history: only the most recent live block was ever freed
  padded        \* history: an allocation had to skip bytes to be aligned

vars == <<OFFSET, memory_size, live, nested, padded>>

AtLeast(a, b) == IF a >= b THEN a ELSE b
End(b) == b.ptr + b.size

offset == IF OFFSET = 0 THEN HeapBase ELSE OFFSET

(* x & !(a - 1) for a power of two a. *)
AlignDown(x, a) == x - (x % a)

(* Where alloc puts a block, and the pages the module needs for it. *)
base(align) == AlignDown((offset + AtLeast(align, MinAlign) - 1) % Word, AtLeast(align, MinAlign))
end(align, size) == (base(align) + size) % Word
need_RoundedDown(last) == last \div PageSize
need(last) == ((last + PageSize - 1) % Word) \div PageSize

Init ==
  /\ OFFSET = 0
  /\ memory_size = InitPages
  /\ live = {}
  /\ nested = TRUE /\ padded = FALSE

(***************************************************************************)
(* alloc: grows the memory when it is too small; the engine may refuse,    *)
(* and then nothing changes and a null pointer is returned.                *)
(***************************************************************************)
Refused(align, size) ==
  /\ need(end(align, size)) > memory_size
  /\ UNCHANGED vars

Placed(align, size) ==
  /\ need(end(align, size)) <= MaxPages
  /\ memory_size' = AtLeast(memory_size, need(end(align, size)))
  /\ padded' = (padded \/ (OFFSET # 0 /\ base(align) # OFFSET))

Alloc(align, size) ==
  /\ Cardinality(live) < MaxLive
  /\ \/ Refused(align, size)
     \/ /\ Placed(align, size)
        /\ OFFSET' = end(align, size)
        /\ live' = live \union {[ptr |-> base(align), size |-> size]}
        /\ UNCHANGED nested

(***************************************************************************)
(* dealloc: only a block that ends at OFFSET is reclaimed; another one     *)
(* leaks.                                                                  *)
(***************************************************************************)
Rewound_LeakOnly(b, top) == top
Rewound_Always(b, top) == b.ptr
Rewound(b, top) == IF (b.ptr + b.size) % Word = top THEN b.ptr ELSE top

MostRecent(b) == \A c \in live : c.ptr <= b.ptr

Dealloc(b) ==
  /\ OFFSET' = Rewound(b, OFFSET)
  /\ live' = live \ {b}
  /\ nested' = (nested /\ MostRecent(b))
  /\ UNCHANGED <<memory_size, padded>>

(* GlobalAlloc's realloc, not overridden: alloc, copy, dealloc the old block. *)
Realloc(b, align, size) ==
  \/ Refused(align, size)
  \/ /\ Placed(align, size)
     /\ OFFSET' = Rewound(b, end(align, size))
     /\ live' = (live \ {b}) \union {[ptr |-> base(align), size |-> size]}
     /\ nested' = FALSE

Next ==
  \/ \E align \in Aligns, size \in Sizes : Alloc(align, size)
  \/ \E b \in live : Dealloc(b)
  \/ \E b \in live, align \in Aligns, size \in Sizes : Realloc(b, align, size)

Spec == Init /\ [][Next]_vars

-----------------------------------------------------------------------------
(* Types of the variables. *)
TypeOK ==
  /\ OFFSET \in 0..Word-1
  /\ memory_size \in InitPages..MaxPages
  /\ \A b \in live : b.ptr \in Nat /\ b.size \in Sizes
  /\ nested \in BOOLEAN /\ padded \in BOOLEAN

(***************************************************************************)
(* Every live block lies between the start of the heap and the bump        *)
(* pointer, and the bump pointer inside the memory the module has: no      *)
(* sequence of frees rewinds below a live block, and no allocation ends    *)
(* behind the pages that were asked for.                                   *)
(***************************************************************************)
LiveBlocksBelowOffset ==
  /\ \A b \in live : HeapBase <= b.ptr /\ End(b) <= OFFSET
  /\ OFFSET <= memory_size * PageSize

(***************************************************************************)
(* As long as blocks are freed in the reverse order of their allocation    *)
(* and none needed padding, the heap is a stack: every free is reclaimed,  *)
(* and OFFSET is the end of the last live block.                           *)
(***************************************************************************)
StackDiscipline ==
  nested /\ ~padded /\ live # {} => \E b \in live : End(b) = OFFSET

(***************************************************************************)
(* The comment of wasm_shim ("freeing the MOST RECENT allocation rewinds   *)
(* the bump pointer, so nested temporaries ... are reclaimed"): once every *)
(* block of a nested pattern is freed, OFFSET is back where the first      *)
(* allocation was placed.                                                  *)
(***************************************************************************)
FirstPlaces == {AlignDown(HeapBase + AtLeast(a, MinAlign) - 1, AtLeast(a, MinAlign)) : a \in Aligns}

NestedReclaimed == nested /\ live = {} /\ OFFSET # 0 => OFFSET \in FirstPlaces

(***************************************************************************)
(* docs/wasm.md: at the 4 GB ceiling "the next allocation returns null". A *)
(* request that does not get a null pointer got a block inside the memory. *)
(***************************************************************************)
ExhaustionReturnsNull == \A b \in live : End(b) <= memory_size * PageSize

(* The allocator is a heap: live blocks never overlap. *)
Abstract == INSTANCE Heap WITH blocks <- live, limit <- memory_size * PageSize

ImplementsHeap == Abstract!Spec
=============================================================================
