--------------------------- MODULE BumpHeap_proofs ---------------------------
(***************************************************************************)
(* Theorems about BumpHeap, for all layouts, page sizes and sequences of   *)
(* calls, in a module whose memory ends far enough below the end of the    *)
(* address space (Roomy); without Roomy the address arithmetic wraps.      *)
(***************************************************************************)
EXTENDS BumpHeap, TLAPS

Roomy ==
  \A a \in Aligns, s \in Sizes :
    MaxPages * PageSize + AtLeast(a, MinAlign) + s + PageSize <= Word

(* The inductive invariant. *)
Disjoint == \A b, c \in live : b = c \/ Abstract!Apart(b, c)

IInv ==
  /\ TypeOK
  /\ LiveBlocksBelowOffset
  /\ Disjoint
  /\ OFFSET = 0 \/ HeapBase <= OFFSET

LEMMA AlignDownBounds ==
  ASSUME NEW x \in Nat, NEW a \in Nat \ {0}
  PROVE  AlignDown(x, a) \in Nat /\ AlignDown(x, a) <= x /\ x < AlignDown(x, a) + a
  BY DEF AlignDown

LEMMA SmallMod ==
  ASSUME NEW x \in Nat, x < Word
  PROVE  x % Word = x
  BY MemoryAssumption

LEMMA MorePages ==
  ASSUME NEW p \in Nat, NEW q \in Nat, p <= q
  PROVE  p * PageSize <= q * PageSize /\ p * PageSize \in Nat /\ q * PageSize \in Nat
  BY MemoryAssumption

LEMMA PagesCover ==
  ASSUME NEW last \in Nat, last + PageSize <= Word
  PROVE  need(last) \in Nat /\ last <= need(last) * PageSize
  BY MemoryAssumption DEF need

(***************************************************************************)
(* Where alloc puts a block: at or above the bump pointer, and before the  *)
(* end of the pages it asks for.                                           *)
(***************************************************************************)
LEMMA Placement ==
  ASSUME Roomy, IInv, NEW align \in Aligns, NEW size \in Sizes
  PROVE  /\ base(align) \in Nat /\ HeapBase <= base(align) /\ OFFSET <= base(align)
         /\ end(align, size) = base(align) + size
         /\ end(align, size) + PageSize <= Word
<1> DEFINE A == AtLeast(align, MinAlign)
           B == base(align)
<1>1. A \in Nat \ {0} /\ size \in Nat \ {0}
  BY MemoryAssumption, LayoutAssumption DEF AtLeast
<1>2. MaxPages * PageSize + A + size + PageSize <= Word
  BY DEF Roomy
<1>3. MaxPages * PageSize \in Nat /\ PageSize \in Nat \ {0} /\ Word \in Nat \ {0}
  BY MemoryAssumption
<1>4. offset \in Nat /\ OFFSET <= offset /\ HeapBase <= offset /\ offset <= MaxPages * PageSize
  <2>1. OFFSET \in Nat /\ OFFSET <= memory_size * PageSize
    BY MemoryAssumption DEF IInv, TypeOK, LiveBlocksBelowOffset
  <2>2. memory_size \in Nat /\ memory_size <= MaxPages
    BY MemoryAssumption DEF IInv, TypeOK
  <2>3. memory_size * PageSize <= MaxPages * PageSize /\ memory_size * PageSize \in Nat
    BY <2>2, MorePages, MemoryAssumption
  <2>4. HeapBase <= MaxPages * PageSize /\ HeapBase \in Nat
    BY MorePages, MemoryAssumption
  <2> QED
    BY <1>3, <2>1, <2>3, <2>4 DEF offset, IInv
<1>5. (offset + A - 1) % Word = offset + A - 1 /\ offset + A - 1 \in Nat
  BY <1>1, <1>2, <1>3, <1>4, SmallMod
<1>6. B \in Nat /\ B <= offset + A - 1 /\ offset + A - 1 < B + A
  BY <1>1, <1>5, AlignDownBounds DEF base
<1>7. end(align, size) = B + size
  BY <1>1, <1>2, <1>3, <1>4, <1>6, SmallMod DEF end
<1>8. offset <= B /\ B + size + PageSize <= Word
  <2>1. PICK m \in Nat : m = MaxPages * PageSize
    BY <1>3
  <2> HIDE DEF A, B
  <2> QED
    BY <1>1, <1>2, <1>3, <1>4, <1>6, <2>1
<1> QED
  <2>1. OFFSET \in Nat /\ HeapBase \in Nat
    BY MemoryAssumption DEF IInv, TypeOK
  <2> HIDE DEF B
  <2>2. HeapBase <= B /\ OFFSET <= B
    BY <1>4, <1>6, <1>8, <2>1
  <2> QED
    BY <1>6, <1>7, <1>8, <2>2 DEF B

(* What a granted request leaves: a block apart from all the live ones. *)
LEMMA Granted ==
  ASSUME Roomy, IInv, NEW align \in Aligns, NEW size \in Sizes, Placed(align, size),
         NEW new, new = [ptr |-> base(align), size |-> size]
  PROVE  /\ memory_size' \in memory_size..MaxPages /\ memory_size \in Nat
         /\ HeapBase <= new.ptr /\ new.ptr \in Nat /\ new.size = size /\ size \in Nat \ {0}
         /\ End(new) = end(align, size) /\ End(new) \in 0..Word-1
         /\ End(new) <= memory_size' * PageSize
         /\ OFFSET <= new.ptr
         /\ \A c \in live : End(c) <= new.ptr /\ c # new /\ Abstract!Apart(new, c)
<1> DEFINE last == end(align, size)
<1>1. /\ base(align) \in Nat /\ HeapBase <= base(align) /\ OFFSET <= base(align)
      /\ last = base(align) + size /\ last + PageSize <= Word
  BY Placement
<1>2. size \in Nat \ {0} /\ last \in Nat /\ OFFSET \in Nat
  BY <1>1, LayoutAssumption DEF IInv, TypeOK
<1>3. need(last) \in Nat /\ last <= need(last) * PageSize
  BY <1>1, <1>2, PagesCover
<1>4. /\ memory_size' = AtLeast(memory_size, need(last)) /\ need(last) <= MaxPages
      /\ memory_size \in Nat /\ memory_size <= MaxPages /\ MaxPages \in Nat
  BY MemoryAssumption DEF Placed, IInv, TypeOK
<1>5. memory_size' \in memory_size..MaxPages
  BY <1>3, <1>4 DEF AtLeast
<1>6. last <= memory_size' * PageSize
  <2>1. PICK p \in Nat : p = memory_size' /\ need(last) <= p
    BY <1>3, <1>4 DEF AtLeast
  <2>2. need(last) * PageSize <= p * PageSize /\ p * PageSize \in Nat /\ need(last) * PageSize \in Nat
    BY <1>3, <2>1, MorePages
  <2> QED
    BY <1>2, <1>3, <2>1, <2>2
<1>7. ASSUME NEW c \in live
      PROVE  End(c) <= new.ptr /\ c # new /\ Abstract!Apart(new, c)
  <2>1. c.ptr \in Nat /\ c.size \in Nat \ {0} /\ c.ptr + c.size <= OFFSET
    BY LayoutAssumption DEF IInv, TypeOK, LiveBlocksBelowOffset, End
  <2> QED
    BY <1>1, <1>2, <2>1 DEF End, Abstract!Apart
<1> QED
  BY <1>1, <1>2, <1>4, <1>5, <1>6, <1>7, MemoryAssumption DEF End

(* A free rewinds to the block's start or not at all. *)
LEMMA RewindCases ==
  ASSUME NEW b, NEW top
  PROVE  Rewound(b, top) = top \/ (Rewound(b, top) = b.ptr /\ (b.ptr + b.size) % Word = top)
  BY DEF Rewound

(* The addresses of a live block do not wrap. *)
LEMMA LiveBlock ==
  ASSUME IInv, NEW b \in live
  PROVE  /\ b.ptr \in Nat /\ b.size \in Nat \ {0} /\ HeapBase <= b.ptr
         /\ b.ptr + b.size <= OFFSET /\ OFFSET \in Nat /\ OFFSET < Word
         /\ (b.ptr + b.size) % Word = b.ptr + b.size
<1>1. Word \in Nat /\ Sizes \subseteq Nat \ {0}
  BY LayoutAssumption, MemoryAssumption
<1>2. /\ b.ptr \in Nat /\ b.size \in Nat \ {0} /\ HeapBase <= b.ptr
      /\ b.ptr + b.size <= OFFSET /\ OFFSET \in Nat /\ OFFSET < Word
  <2>1. HeapBase <= b.ptr /\ End(b) <= OFFSET
    BY DEF IInv, LiveBlocksBelowOffset
  <2>2. OFFSET \in 0..Word-1 /\ b.ptr \in Nat /\ b.size \in Nat \ {0}
    BY <1>1 DEF IInv, TypeOK
  <2> QED
    BY <1>1, <2>1, <2>2 DEF End
<1> QED
  BY <1>1, <1>2, SmallMod

LEMMA InitIInv == Init => IInv
<1> SUFFICES ASSUME Init PROVE IInv
  OBVIOUS
<1>1. InitPages \in Nat /\ 0 <= InitPages * PageSize /\ 0 \in 0..Word-1 /\ InitPages <= MaxPages
      /\ MaxPages \in Nat
  BY MemoryAssumption, MorePages
<1>2. TypeOK
  <2>1. nested \in BOOLEAN /\ padded \in BOOLEAN /\ live = {} /\ OFFSET = 0 /\ memory_size = InitPages
    BY DEF Init
  <2>2. InitPages \in InitPages..MaxPages
    BY <1>1
  <2>3. \A b \in live : b.ptr \in Nat /\ b.size \in Sizes
    BY <2>1
  <2> QED
    BY <1>1, <2>1, <2>2, <2>3 DEF TypeOK
<1>3. LiveBlocksBelowOffset
  BY <1>1 DEF Init, LiveBlocksBelowOffset
<1> QED
  BY <1>2, <1>3 DEF Init, IInv, Disjoint

LEMMA AllocKeeps ==
  ASSUME Roomy, IInv, NEW align \in Aligns, NEW size \in Sizes, Alloc(align, size)
  PROVE  IInv'
<1>1. CASE Refused(align, size)
  BY <1>1 DEF Refused, vars, IInv, TypeOK, LiveBlocksBelowOffset, Disjoint
<1>2. CASE ~Refused(align, size)
  <2> DEFINE new == [ptr |-> base(align), size |-> size]
  <2>1. Placed(align, size) /\ OFFSET' = end(align, size) /\ live' = live \union {new} /\ nested' = nested
    BY <1>2 DEF Alloc
  <2>2. /\ memory_size' \in memory_size..MaxPages /\ memory_size \in Nat
        /\ HeapBase <= new.ptr /\ new.ptr \in Nat /\ new.size = size /\ size \in Nat \ {0}
        /\ End(new) = end(align, size) /\ End(new) \in 0..Word-1
        /\ End(new) <= memory_size' * PageSize
        /\ OFFSET <= new.ptr
        /\ \A c \in live : End(c) <= new.ptr /\ c # new /\ Abstract!Apart(new, c)
    BY <2>1, Granted
  <2> HIDE DEF new
  <2>3. TypeOK'
    <3>1. \A b \in live' : b.ptr \in Nat /\ b.size \in Sizes
      BY <2>1, <2>2 DEF IInv, TypeOK
    <3>2. memory_size' \in InitPages..MaxPages
      BY <2>2, MemoryAssumption DEF IInv, TypeOK
    <3>3. padded' \in BOOLEAN /\ nested' \in BOOLEAN
      BY <2>1 DEF Placed, IInv, TypeOK
    <3> QED
      BY <2>1, <2>2, <3>1, <3>2, <3>3 DEF TypeOK
  <2>4. LiveBlocksBelowOffset'
    <3>1. \A b \in live' : HeapBase <= b.ptr /\ End(b) <= OFFSET'
      <4>1. \A b \in live : HeapBase <= b.ptr /\ End(b) <= OFFSET'
        <5>1. SUFFICES ASSUME NEW b \in live
                       PROVE  HeapBase <= b.ptr /\ End(b) <= OFFSET'
          OBVIOUS
        <5>2. End(b) \in Nat /\ HeapBase <= b.ptr /\ End(b) <= new.ptr
          BY <2>2, LiveBlock DEF End
        <5> QED
          BY <2>1, <2>2, <5>2 DEF End
      <4>2. HeapBase <= new.ptr /\ End(new) <= OFFSET'
        BY <2>1, <2>2
      <4> QED
        BY <2>1, <4>1, <4>2
    <3> QED
      BY <2>1, <2>2, <3>1 DEF LiveBlocksBelowOffset, End
  <2>5. Disjoint'
    <3>1. \A c \in live : Abstract!Apart(new, c) /\ Abstract!Apart(c, new)
      BY <2>2 DEF Abstract!Apart
    <3> QED
      BY <2>1, <3>1 DEF IInv, Disjoint, Abstract!Apart
  <2>6. HeapBase <= OFFSET'
    BY <2>1, <2>2, MemoryAssumption DEF End
  <2> QED
    BY <2>3, <2>4, <2>5, <2>6 DEF IInv
<1> QED
  BY <1>1, <1>2

LEMMA DeallocKeeps ==
  ASSUME IInv, NEW b \in live, Dealloc(b)
  PROVE  IInv'
<1>1. live' = live \ {b} /\ memory_size' = memory_size /\ padded' = padded /\ nested' \in BOOLEAN
  BY DEF Dealloc, IInv, TypeOK
<1>2. \/ OFFSET' = OFFSET
      \/ OFFSET' = b.ptr /\ b.ptr + b.size = OFFSET
  BY RewindCases, LiveBlock DEF Dealloc
<1>3. /\ b.ptr \in Nat /\ b.size \in Nat \ {0} /\ HeapBase <= b.ptr
      /\ b.ptr + b.size <= OFFSET /\ OFFSET \in Nat /\ OFFSET < Word
  BY LiveBlock
<1>4. OFFSET' \in 0..OFFSET
  BY <1>2, <1>3
<1>5. ASSUME NEW c \in live'
      PROVE  HeapBase <= c.ptr /\ End(c) <= OFFSET'
  <2>1. c \in live /\ c # b
    BY <1>1
  <2>2. c.ptr \in Nat /\ c.size \in Nat \ {0} /\ HeapBase <= c.ptr /\ c.ptr + c.size <= OFFSET
    BY <2>1, LiveBlock
  <2>3. b.ptr + b.size <= c.ptr \/ c.ptr + c.size <= b.ptr
    BY <2>1 DEF IInv, Disjoint, Abstract!Apart
  <2> QED
    BY <1>2, <1>3, <2>2, <2>3 DEF End
<1>6. OFFSET' <= memory_size * PageSize
  <2>1. memory_size * PageSize \in Nat /\ OFFSET <= memory_size * PageSize
    BY MorePages, MemoryAssumption DEF IInv, TypeOK, LiveBlocksBelowOffset
  <2> QED
    BY <1>2, <1>3, <2>1
<1>7. OFFSET' = 0 \/ HeapBase <= OFFSET'
  BY <1>2, <1>3 DEF IInv
<1>8. TypeOK'
  <2>1. OFFSET' \in 0..Word-1
    BY <1>3, <1>4, MemoryAssumption
  <2> QED
    BY <1>1, <2>1 DEF IInv, TypeOK
<1> QED
  BY <1>1, <1>5, <1>6, <1>7, <1>8 DEF IInv, LiveBlocksBelowOffset, Disjoint

(* After a granted reallocation the new block is the top, not the old one. *)
LEMMA ReallocGrants ==
  ASSUME Roomy, IInv, NEW b \in live, NEW align \in Aligns, NEW size \in Sizes,
         Realloc(b, align, size), ~Refused(align, size)
  PROVE  /\ Placed(align, size) /\ OFFSET' = end(align, size) /\ nested' = FALSE
         /\ live' = (live \ {b}) \union {[ptr |-> base(align), size |-> size]}
<1>1. /\ Placed(align, size) /\ nested' = FALSE /\ OFFSET' = Rewound(b, end(align, size))
      /\ live' = (live \ {b}) \union {[ptr |-> base(align), size |-> size]}
  BY DEF Realloc
<1>2. (b.ptr + b.size) % Word # end(align, size)
  <2>1. b.ptr + b.size <= OFFSET /\ (b.ptr + b.size) % Word = b.ptr + b.size
        /\ b.ptr + b.size \in Nat /\ OFFSET \in Nat
    BY LiveBlock
  <2>2. OFFSET <= base(align) /\ end(align, size) = base(align) + size /\ base(align) \in Nat
    BY Placement
  <2>3. size \in Nat \ {0}
    BY LayoutAssumption
  <2> QED
    BY <2>1, <2>2, <2>3
<1> QED
  BY <1>1, <1>2 DEF Rewound

LEMMA ReallocKeeps ==
  ASSUME Roomy, IInv, NEW b \in live, NEW align \in Aligns, NEW size \in Sizes,
         Realloc(b, align, size)
  PROVE  IInv'
<1>1. CASE Refused(align, size)
  BY <1>1 DEF Refused, vars, IInv, TypeOK, LiveBlocksBelowOffset, Disjoint
<1>2. CASE ~Refused(align, size)
  <2> DEFINE new == [ptr |-> base(align), size |-> size]
  <2>1. /\ Placed(align, size) /\ OFFSET' = end(align, size) /\ nested' = FALSE
        /\ live' = (live \ {b}) \union {new}
    BY <1>2, ReallocGrants
  <2>2. /\ memory_size' \in memory_size..MaxPages /\ memory_size \in Nat
        /\ HeapBase <= new.ptr /\ new.ptr \in Nat /\ new.size = size /\ size \in Nat \ {0}
        /\ End(new) = end(align, size) /\ End(new) \in 0..Word-1
        /\ End(new) <= memory_size' * PageSize
        /\ OFFSET <= new.ptr
        /\ \A c \in live : End(c) <= new.ptr /\ c # new /\ Abstract!Apart(new, c)
    BY <2>1, Granted
  <2> HIDE DEF new
  <2>3. TypeOK'
    <3>1. \A c \in live' : c.ptr \in Nat /\ c.size \in Sizes
      BY <2>1, <2>2 DEF IInv, TypeOK
    <3>2. memory_size' \in InitPages..MaxPages
      BY <2>2, MemoryAssumption DEF IInv, TypeOK
    <3>3. padded' \in BOOLEAN /\ nested' \in BOOLEAN
      BY <2>1 DEF Placed, IInv, TypeOK
    <3> QED
      BY <2>1, <2>2, <3>1, <3>2, <3>3 DEF TypeOK
  <2>4. LiveBlocksBelowOffset'
    <3>1. ASSUME NEW c \in live'
          PROVE  HeapBase <= c.ptr /\ End(c) <= OFFSET'
      <4>1. CASE c \in live
        <5>1. End(c) \in Nat /\ HeapBase <= c.ptr /\ End(c) <= new.ptr
          BY <2>2, <4>1, LiveBlock DEF End
        <5> QED
          BY <2>1, <2>2, <5>1 DEF End
      <4>2. CASE c = new
        BY <2>1, <2>2, <4>2
      <4> QED
        BY <2>1, <4>1, <4>2
    <3> QED
      BY <2>1, <2>2, <3>1 DEF LiveBlocksBelowOffset
  <2>5. Disjoint'
    <3>1. \A c \in live : Abstract!Apart(new, c) /\ Abstract!Apart(c, new)
      BY <2>2 DEF Abstract!Apart
    <3> QED
      BY <2>1, <3>1 DEF IInv, Disjoint, Abstract!Apart
  <2>6. HeapBase <= OFFSET'
    BY <2>1, <2>2, MemoryAssumption DEF End
  <2> QED
    BY <2>3, <2>4, <2>5, <2>6 DEF IInv
<1> QED
  BY <1>1, <1>2

LEMMA StepIInv == ASSUME Roomy, IInv, [Next]_vars PROVE IInv'
<1>1. CASE UNCHANGED vars
  BY <1>1 DEF vars, IInv, TypeOK, LiveBlocksBelowOffset, Disjoint
<1> QED
  BY <1>1, AllocKeeps, DeallocKeeps, ReallocKeeps DEF Next

THEOREM InvariantHolds == Roomy => (Spec => []IInv)
<1>1. Roomy => (IInv /\ [Next]_vars => IInv')
  BY StepIInv
<1>2. ASSUME Roomy PROVE Spec => []IInv
  <2>1. IInv /\ [Next]_vars => IInv'
    BY <1>1, <1>2
  <2> QED
    BY <2>1, InitIInv, PTL DEF Spec
<1> QED
  BY <1>2

(***************************************************************************)
(* The allocator of the wasm modules never hands out memory it does not    *)
(* have, and no free rewinds into a live block.                            *)
(***************************************************************************)
THEOREM BlocksStayBelowOffset == Roomy => (Spec => []LiveBlocksBelowOffset)
<1>1. IInv => LiveBlocksBelowOffset
  BY DEF IInv
<1>2. ASSUME Roomy PROVE Spec => []LiveBlocksBelowOffset
  <2>1. Spec => []IInv
    BY <1>2, InvariantHolds
  <2> QED
    BY <1>1, <2>1, PTL
<1> QED
  BY <1>2

-----------------------------------------------------------------------------
LEMMA StepRefines ==
  ASSUME Roomy, IInv, [Next]_vars
  PROVE  [Abstract!Next]_Abstract!vars
<1>1. CASE UNCHANGED vars
  BY <1>1 DEF vars, Abstract!vars
<1>2. ASSUME NEW b \in live, Dealloc(b)
      PROVE  Abstract!Free
  BY <1>2 DEF Dealloc, Abstract!Free
<1>3. ASSUME NEW align \in Aligns, NEW size \in Sizes, Placed(align, size),
             NEW new, new = [ptr |-> base(align), size |-> size]
      PROVE  /\ memory_size' * PageSize >= memory_size * PageSize
             /\ new \notin live
             /\ Abstract!Fits(new, live, memory_size' * PageSize)
  <2>1. /\ memory_size' \in memory_size..MaxPages /\ memory_size \in Nat
        /\ new.ptr \in Nat /\ new.size \in Nat \ {0}
        /\ End(new) <= memory_size' * PageSize
        /\ \A c \in live : c # new /\ Abstract!Apart(new, c)
    BY <1>3, Granted
  <2>2. PICK p \in Nat : p = memory_size' /\ memory_size <= p
    BY <2>1, MemoryAssumption
  <2>3. memory_size * PageSize <= p * PageSize /\ p * PageSize \in Nat /\ memory_size * PageSize \in Nat
    BY <2>1, <2>2, MorePages
  <2> QED
    BY <2>1, <2>2, <2>3 DEF Abstract!Fits, End
<1>4. ASSUME NEW align \in Aligns, NEW size \in Sizes, Alloc(align, size)
      PROVE  Abstract!Allocate \/ UNCHANGED vars
  BY <1>3, <1>4 DEF Alloc, Refused, Abstract!Allocate
<1>5. ASSUME NEW b \in live, NEW align \in Aligns, NEW size \in Sizes, Realloc(b, align, size)
      PROVE  Abstract!Reallocate \/ UNCHANGED vars
  BY <1>3, <1>5 DEF Realloc, Refused, Abstract!Reallocate
<1> QED
  BY <1>1, <1>2, <1>4, <1>5 DEF Next, Abstract!Next

(***************************************************************************)
(* The bump allocator is a heap: whatever is allocated, freed and          *)
(* reallocated in whatever order, live blocks never overlap.               *)
(***************************************************************************)
THEOREM BumpImplementsHeap == Roomy => (Spec => ImplementsHeap)
<1>1. Init => Abstract!Init
  BY MorePages, MemoryAssumption DEF Init, Abstract!Init
<1>2. ASSUME Roomy PROVE Spec => ImplementsHeap
  <2>1. IInv /\ [Next]_vars => [Abstract!Next]_Abstract!vars
    BY <1>2, StepRefines
  <2>2. Spec => []IInv
    BY <1>2, InvariantHolds
  <2> QED
    BY <1>1, <2>1, <2>2, PTL DEF Spec, ImplementsHeap, Abstract!Spec
<1> QED
  BY <1>2

-----------------------------------------------------------------------------
(***************************************************************************)
(* The stack discipline needs that no gap opens between live blocks: every *)
(* one but the lowest starts where another ends.                           *)
(***************************************************************************)
NoGaps ==
  nested /\ ~padded =>
    \A b \in live : (\E c \in live : End(c) = b.ptr) \/ (\A c \in live : b.ptr <= c.ptr)

Stack == StackDiscipline /\ NoGaps

LEMMA AllocKeepsStack ==
  ASSUME Roomy, IInv, Stack, NEW align \in Aligns, NEW size \in Sizes, Alloc(align, size)
  PROVE  Stack'
<1>1. CASE Refused(align, size)
  BY <1>1 DEF Refused, vars, Stack, StackDiscipline, NoGaps
<1>2. CASE ~Refused(align, size) /\ nested' /\ ~padded'
  <2> DEFINE new == [ptr |-> base(align), size |-> size]
  <2>1. /\ Placed(align, size) /\ OFFSET' = end(align, size) /\ nested /\ ~padded
        /\ live' = live \union {new} /\ (OFFSET # 0 => base(align) = OFFSET)
    BY <1>2 DEF Alloc, Placed
  <2>2. /\ new.ptr \in Nat /\ new.ptr = base(align) /\ End(new) = end(align, size)
        /\ \A c \in live : End(c) <= new.ptr
    BY <2>1, Granted
  <2> HIDE DEF new
  <2>3. \A c \in live : c.ptr \in Nat /\ c.ptr < End(c) /\ End(c) \in Nat /\ OFFSET # 0
    BY LiveBlock DEF End
  <2>4. live = {} \/ \E b \in live : End(b) = new.ptr
    BY <2>1, <2>2, <2>3 DEF Stack, StackDiscipline
  <2>5. \A b \in live : (\E c \in live : End(c) = b.ptr) \/ (\A c \in live : b.ptr <= c.ptr)
    BY <2>1 DEF Stack, NoGaps
  <2>6. \A b \in live : b.ptr <= new.ptr
    BY <2>2, <2>3
  <2>7. \A b \in live' : (\E c \in live' : End(c) = b.ptr) \/ (\A c \in live' : b.ptr <= c.ptr)
    BY <2>1, <2>2, <2>4, <2>5, <2>6
  <2>8. \E b \in live' : End(b) = OFFSET'
    BY <2>1, <2>2
  <2> QED
    BY <2>7, <2>8 DEF Stack, StackDiscipline, NoGaps, End
<1> QED
  BY <1>1, <1>2 DEF Stack, StackDiscipline, NoGaps

LEMMA DeallocKeepsStack ==
  ASSUME IInv, Stack, NEW b \in live, Dealloc(b)
  PROVE  Stack'
<1> SUFFICES ASSUME nested', ~padded' PROVE Stack'
  BY DEF Stack, StackDiscipline, NoGaps
<1>1. /\ live' = live \ {b} /\ OFFSET' = Rewound(b, OFFSET) /\ nested /\ ~padded
      /\ \A c \in live : c.ptr <= b.ptr
  BY DEF Dealloc, MostRecent
<1>2. \A c \in live : /\ c.ptr \in Nat /\ c.size \in Nat \ {0}
                      /\ c.ptr + c.size <= OFFSET /\ OFFSET \in Nat
                      /\ (c.ptr + c.size) % Word = c.ptr + c.size
  BY LiveBlock
<1>3. \A c \in live : c = b \/ c.ptr + c.size <= b.ptr
  <2>1. \A c \in live : c = b \/ c.ptr + c.size <= b.ptr \/ b.ptr + b.size <= c.ptr
    BY DEF IInv, Disjoint, Abstract!Apart
  <2> QED
    BY <1>1, <1>2, <2>1
<1>4. b.ptr + b.size = OFFSET
  <2>1. PICK c \in live : c.ptr + c.size = OFFSET
    BY <1>1 DEF Stack, StackDiscipline, End
  <2> QED
    BY <1>2, <1>3, <2>1
<1>5. OFFSET' = b.ptr
  BY <1>1, <1>2, <1>4 DEF Rewound
<1>6. live' # {} => \E c \in live' : c.ptr + c.size = OFFSET'
  <2>1. CASE \E c \in live : c.ptr + c.size = b.ptr
    BY <1>1, <1>2, <1>5, <2>1
  <2>2. CASE \A c \in live : b.ptr <= c.ptr
    <3>1. \A c \in live : c = b
      BY <1>2, <1>3, <2>2
    <3> QED
      BY <1>1, <3>1
  <2> QED
    BY <1>1, <2>1, <2>2 DEF Stack, NoGaps, End
<1>7. \A d \in live' : (\E c \in live' : c.ptr + c.size = d.ptr) \/ (\A c \in live' : d.ptr <= c.ptr)
  <2>1. \A d \in live : (\E c \in live : c.ptr + c.size = d.ptr) \/ (\A c \in live : d.ptr <= c.ptr)
    BY <1>1 DEF Stack, NoGaps, End
  <2>2. \A d \in live : b.ptr + b.size # d.ptr
    BY <1>1, <1>2
  <2> QED
    BY <1>1, <2>1, <2>2
<1> QED
  BY <1>6, <1>7 DEF Stack, StackDiscipline, NoGaps, End

LEMMA StepStack == ASSUME Roomy, IInv, Stack, [Next]_vars PROVE Stack'
<1>1. CASE UNCHANGED vars
  BY <1>1 DEF vars, Stack, StackDiscipline, NoGaps
<1>2. ASSUME NEW b \in live, NEW align \in Aligns, NEW size \in Sizes, Realloc(b, align, size)
      PROVE  Stack'
  <2>1. CASE Refused(align, size)
    BY <2>1 DEF Refused, vars, Stack, StackDiscipline, NoGaps
  <2>2. CASE nested' = FALSE
    BY <2>2 DEF Stack, StackDiscipline, NoGaps
  <2> QED
    BY <1>2, <2>1, <2>2 DEF Realloc
<1> QED
  BY <1>1, <1>2, AllocKeepsStack, DeallocKeepsStack DEF Next

(***************************************************************************)
(* What the rewind guarantees nested temporaries: as long as no allocation *)
(* needs padding, frees in reverse order are all reclaimed.                *)
(***************************************************************************)
THEOREM NestedIsAStack == Roomy => (Spec => []StackDiscipline)
<1>1. Init => Stack
  BY DEF Init, Stack, StackDiscipline, NoGaps
<1>2. Stack => StackDiscipline
  BY DEF Stack
<1>3. ASSUME Roomy PROVE Spec => []StackDiscipline
  <2>1. IInv /\ Stack /\ [Next]_vars => Stack'
    BY <1>3, StepStack
  <2>2. Spec => []IInv
    BY <1>3, InvariantHolds
  <2> QED
    BY <1>1, <1>2, <2>1, <2>2, PTL DEF Spec
<1> QED
  BY <1>3
=============================================================================
