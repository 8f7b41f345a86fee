------------------------- MODULE CompilerMemory_proofs -------------------------
(***************************************************************************)
(* Proofs about the memory of a compiler, for every size of a word, a      *)
(* slab, a node, a buffer and a request of the program, any alignment      *)
(* malloc keeps and any places it chooses.  IInv (module MemoryInvariant)  *)
(* is shown to hold initially and to be preserved by each action.          *)
(***************************************************************************)
EXTENDS MemoryInvariant, StackLemmas

-----------------------------------------------------------------------------
(* Multiples, as align_number and the cutting of slabs need them.           *)

\* A multiple is what has no remainder.
LEMMA Multiples ==
  ASSUME NEW w \in Nat, w > 0
  PROVE  /\ \A k \in Nat : (w * k) % w = 0
         /\ \A a \in Nat : a % w = 0 => \E k \in Nat : a = w * k
         /\ \A a \in Nat : (a % w) \in 0 .. w - 1
         /\ \A a \in Nat : a = w * (a \div w) + (a % w) /\ a \div w \in Nat
<1>1. \A k \in Nat : (w * k) % w = 0
  OBVIOUS
<1>2. \A a \in Nat : a = w * (a \div w) + (a % w) /\ a \div w \in Nat
  OBVIOUS
<1>3. \A a \in Nat : (a % w) \in 0 .. w - 1
  OBVIOUS
<1> QED
  BY <1>1, <1>2, <1>3

LEMMA SumOfMultiples ==
  ASSUME NEW w \in Nat, w > 0, NEW a \in Nat, NEW b \in Nat, a % w = 0, b % w = 0
  PROVE  (a + b) % w = 0 /\ (a >= b => (a - b) % w = 0)
<1>1. PICK j \in Nat : a = w * j
  BY Multiples
<1>2. PICK k \in Nat : b = w * k
  BY Multiples
<1>3. a + b = w * (j + k) /\ j + k \in Nat
  BY <1>1, <1>2
<1>4. (a + b) % w = 0
  BY <1>3, Multiples
<1>5. ASSUME a >= b PROVE (a - b) % w = 0
  <2>1. j >= k
    BY <1>1, <1>2, <1>5
  <2>2. a - b = w * (j - k) /\ j - k \in Nat
    BY <1>1, <1>2, <2>1
  <2> QED
    BY <2>2, Multiples
<1> QED
  BY <1>4, <1>5

LEMMA MultipleOfMultiple ==
  ASSUME NEW a \in Nat, NEW m \in Nat, NEW w \in Nat, w > 0, m > 0, m % w = 0, a % m = 0
  PROVE  a % w = 0
<1>1. PICK j \in Nat : a = m * j
  BY Multiples
<1>2. PICK k \in Nat : m = w * k
  BY Multiples
<1>3. a = w * (k * j) /\ k * j \in Nat
  BY <1>1, <1>2
<1> QED
  BY <1>3, Multiples

\* The pieces of w bytes that n bytes are cut into end before n, and are apart.
LEMMA PieceInside ==
  ASSUME NEW n \in Nat, NEW w \in Nat, w > 0, NEW k \in 1 .. (n \div w)
  PROVE  (k - 1) * w \in Nat /\ (k - 1) * w + w <= n
<1>1. n \div w \in Nat /\ w * (n \div w) <= n
  BY Multiples
<1>2. PICK d \in Nat : n \div w = k + d /\ k \in Nat
  BY <1>1
<1>3. w * (k + d) = w * k + w * d /\ w * d \in Nat /\ w * k \in Nat
  BY <1>2
<1>4. (k - 1) * w + w = w * k
  BY <1>2
<1> QED
  BY <1>1, <1>2, <1>3, <1>4

LEMMA PiecesApart ==
  ASSUME NEW w \in Nat, w > 0, NEW j \in Nat, NEW k \in Nat, j < k
  PROVE  (j - 1) * w + w <= (k - 1) * w
<1>1. PICK d \in Nat : k = j + d + 1
  <2>1. k - j - 1 \in Nat /\ k = j + (k - j - 1) + 1
    OBVIOUS
  <2> QED
    BY <2>1
<1>2. (k - 1) * w = (j - 1) * w + d * w + w
  BY <1>1
<1>3. d * w \in Nat /\ (j - 1) * w \in Int
  OBVIOUS
<1> QED
  BY <1>2, <1>3

\* align_number: the next multiple, or the number itself when it is one.
LEMMA Aligned ==
  ASSUME NEW data \in Nat, NEW alignment \in Nat, alignment > 0
  PROVE  LET a == AlignNumber(data, alignment) IN
         /\ a \in Nat /\ a >= data /\ a <= data + alignment - 1
         /\ a % alignment = 0
         /\ data % alignment = 0 => a = data
<1> DEFINE r == data % alignment
<1>1. r \in 0 .. alignment - 1
  BY Multiples
<1>2. CASE r = 0
  BY <1>2 DEF AlignNumber
<1>3. CASE r # 0
  <2>1. AlignNumber(data, alignment) = data + alignment - r
    BY <1>3 DEF AlignNumber
  <2>2. PICK q \in Nat : data = alignment * q + r
    BY Multiples
  <2> HIDE DEF r
  <2>3. data + alignment - r = alignment * (q + 1) /\ q + 1 \in Nat
    BY <1>1, <2>2
  <2>4. (data + alignment - r) % alignment = 0
    BY <2>3, Multiples
  <2> QED
    BY <1>1, <1>3, <2>1, <2>4 DEF r
<1> QED
  BY <1>2, <1>3

-----------------------------------------------------------------------------
(* The tracking allocator.                                                  *)

\* Where a block lies in the chunk asked of malloc for it, and that a byte can hold how
\* far behind its beginning.
LEMMA PtrInChunk ==
  ASSUME NEW size \in Nat \ {0}, NEW alignment \in Nat, CanAlign(alignment), NEW base \in Bases
  PROVE  LET ptr == Ptr(base, alignment) IN
         /\ base \in Nat \ {0} /\ ptr \in Nat /\ base + Header <= ptr
         /\ ptr + size <= base + NewSize(size, alignment)
         /\ Distance(base, ptr) = ptr - base
         /\ ptr % alignment = 0
         /\ NewSize(size, alignment) \in Nat \ {0}
<1> DEFINE data == base + Header
           ptr == Ptr(base, alignment)
<1>1. /\ Word \in Nat /\ MallocAlignment \in Nat \ {0} /\ ByteSize \in Nat /\ Word >= 2
      /\ Header = 2 * Word /\ Header \in Nat /\ Header % MallocAlignment = 0
      /\ Word \div 2 \in Nat
  BY MemoryAssumption DEF Header
<1>2. base \in Nat \ {0} /\ base % MallocAlignment = 0
  BY MemoryAssumption DEF Bases
<1>3. alignment > 0 /\ Header + alignment <= ByteSize
  BY DEF CanAlign
<1>4. data \in Nat
  BY <1>1, <1>2
<1>5. /\ ptr \in Nat /\ ptr >= data /\ ptr <= data + alignment - 1 /\ ptr % alignment = 0
      /\ data % alignment = 0 => ptr = data
  <2>1. ptr = AlignNumber(data, alignment)
    BY DEF Ptr
  <2> HIDE DEF data, ptr
  <2> QED
    BY <1>3, <1>4, <2>1, Aligned
<1> HIDE DEF ptr
<1>6. ASSUME ~ alignment > Word \div 2 PROVE ptr = data
  <2>1. MallocAlignment % alignment = 0
    BY <1>1, <1>6 DEF CanAlign
  <2>2. /\ base \in Nat /\ Header \in Nat /\ MallocAlignment \in Nat /\ alignment \in Nat
        /\ alignment > 0 /\ MallocAlignment > 0
        /\ base % MallocAlignment = 0 /\ Header % MallocAlignment = 0
    BY <1>1, <1>2, <1>3
  <2>3. base % alignment = 0
    BY ONLY <2>1, <2>2, MultipleOfMultiple
  <2>4. Header % alignment = 0
    BY ONLY <2>1, <2>2, MultipleOfMultiple
  <2>5. data % alignment = 0
    BY ONLY <2>2, <2>3, <2>4, SumOfMultiples
  <2> QED
    BY <1>5, <2>5
<1>7. ptr + size <= base + NewSize(size, alignment)
  <2>1. CASE alignment > Word \div 2
    <3>1. NewSize(size, alignment) = size + Header + (alignment - 1)
      BY <2>1 DEF NewSize
    <3> QED
      BY <1>1, <1>2, <1>3, <1>5, <3>1
  <2>2. CASE ~ alignment > Word \div 2
    <3>1. NewSize(size, alignment) = size + Header + 0
      BY <2>2 DEF NewSize
    <3> QED
      BY <1>1, <1>2, <1>6, <2>2, <3>1
  <2> QED
    BY <2>1, <2>2
<1>8. ptr - base \in Nat /\ ptr - base < ByteSize /\ base + Header <= ptr
  BY <1>1, <1>2, <1>3, <1>5
<1>9. Distance(base, ptr) = ptr - base
  BY <1>1, <1>8 DEF Distance
<1>10. NewSize(size, alignment) \in Nat \ {0}
  BY <1>1, <1>3 DEF NewSize
<1> QED
  BY <1>2, <1>5, <1>7, <1>8, <1>9, <1>10 DEF ptr

\* Behind every block there is a chunk, and the block lies in it, behind the header.
LEMMA ChunkOfBlock ==
  ASSUME TrackingSound, NEW p \in DOMAIN outstanding
  PROVE  /\ p \in Nat \ {0} /\ outstanding[p].size \in Nat \ {0} /\ outstanding[p].at = p
         /\ outstanding[p].alignment \in Nat \ {0} /\ p % outstanding[p].alignment = 0
         /\ Original(p) \in DOMAIN chunks /\ Original(p) \in Nat \ {0}
         /\ chunks[Original(p)] \in Nat \ {0}
         /\ Original(p) + Header <= p
         /\ p + outstanding[p].size <= Original(p) + chunks[Original(p)]
         /\ Original(p) + chunks[Original(p)] - 1 <= MaxAddress
<1>1. Word \in Nat /\ Word >= 2 /\ Header = 2 * Word
  BY MemoryAssumption DEF Header
<1>2. /\ p \in Nat /\ outstanding[p] \in [at : {p}, size : Nat \ {0}, alignment : Nat \ {0}]
      /\ p % outstanding[p].alignment = 0
  BY DEF TrackingSound, BlocksAligned
<1>3. /\ Original(p) \in DOMAIN chunks /\ Original(p) + Header <= p
      /\ p + outstanding[p].size <= Original(p) + chunks[Original(p)]
  BY DEF TrackingSound, HeadersIntact
<1>4. /\ Original(p) \in Nat \ {0} /\ chunks[Original(p)] \in Nat \ {0}
      /\ Original(p) + chunks[Original(p)] - 1 <= MaxAddress
  BY <1>3 DEF TrackingSound, ChunksApart
<1>5. p # 0
  BY <1>1, <1>2, <1>3, <1>4
<1> QED
  BY <1>2, <1>3, <1>4, <1>5

\* Any two outstanding blocks are apart, with room for a header between them.
LEMMA BlocksApart ==
  ASSUME TrackingSound, NEW p \in DOMAIN outstanding, NEW q \in DOMAIN outstanding, p # q
  PROVE  p + outstanding[p].size <= q - Header \/ q + outstanding[q].size <= p - Header
<1> DEFINE o == Original(p)
           r == Original(q)
<1>1. /\ p \in Nat /\ outstanding[p].size \in Nat /\ o \in DOMAIN chunks /\ o \in Nat
      /\ chunks[o] \in Nat /\ o + Header <= p /\ p + outstanding[p].size <= o + chunks[o]
  BY ChunkOfBlock
<1>2. /\ q \in Nat /\ outstanding[q].size \in Nat /\ r \in DOMAIN chunks /\ r \in Nat
      /\ chunks[r] \in Nat /\ r + Header <= q /\ q + outstanding[q].size <= r + chunks[r]
  BY ChunkOfBlock
<1>3. o # r
  BY DEF TrackingSound, BlocksAligned
<1> HIDE DEF o, r
<1>4. o + chunks[o] <= r \/ r + chunks[r] <= o
  BY <1>1, <1>2, <1>3 DEF TrackingSound, ChunksApart
<1>5. Header \in Nat
  BY MemoryAssumption DEF Header
<1> QED
  BY <1>1, <1>2, <1>4, <1>5

\* What allocate hands out is a block that is aligned, lies in malloc's memory and is apart
\* from all others; the headers of those stay as they are.
LEMMA Allocated ==
  ASSUME TrackingSound, NEW size \in Nat \ {0}, NEW alignment \in Nat, CanAlign(alignment),
         NEW base \in Bases, Allocate(size, alignment, base)
  PROVE  LET ptr == Ptr(base, alignment) IN
         /\ ptr \in Nat \ {0} /\ ptr \notin DOMAIN outstanding
         /\ DOMAIN outstanding' = DOMAIN outstanding \union {ptr}
         /\ outstanding'[ptr] = Block(ptr, size, alignment)
         /\ \A p \in DOMAIN outstanding : outstanding'[p] = outstanding[p]
         /\ \A p \in DOMAIN outstanding : ptr + size <= p \/ p + outstanding[p].size <= ptr
         /\ ptr % alignment = 0 /\ ptr + size - 1 <= MaxAddress
         /\ TrackingSound'
<1> DEFINE ptr == Ptr(base, alignment)
           newsize == NewSize(size, alignment)
           written == (base .. base + Word) \union (ptr .. ptr + size - 1)
<1>1. /\ Word \in Nat /\ Word >= 2 /\ Header = 2 * Word /\ Header \in Nat
      /\ MaxAddress \in Nat /\ alignment \in Nat \ {0}
  BY MemoryAssumption DEF Header, CanAlign
<1>2. /\ base \in Nat \ {0} /\ ptr \in Nat /\ base + Header <= ptr /\ ptr + size <= base + newsize
      /\ Distance(base, ptr) = ptr - base /\ ptr % alignment = 0 /\ newsize \in Nat \ {0}
  BY PtrInChunk
<1>3. /\ CanMalloc(base, newsize)
      /\ chunks' = [a \in DOMAIN chunks \union {base} |->
                      IF a = base THEN newsize ELSE chunks[a]]
      /\ outstanding' = [p \in DOMAIN outstanding \union {ptr} |->
                           IF p = ptr THEN Block(ptr, size, alignment) ELSE outstanding[p]]
      /\ offsets' = [a \in (DOMAIN offsets \union {ptr - 1}) \ written |->
                       IF a = ptr - 1 THEN Distance(base, ptr) ELSE offsets[a]]
  BY DEF Allocate
<1> HIDE DEF ptr, newsize, written
<1>4. /\ base + newsize - 1 <= MaxAddress
      /\ \A other \in DOMAIN chunks : base + newsize <= other \/ other + chunks[other] <= base
  BY <1>3 DEF CanMalloc
<1>5. base \notin DOMAIN chunks
  BY <1>2, <1>4 DEF TrackingSound, ChunksApart
<1>6. ChunksApart'
  <2>1. \A a \in DOMAIN chunks : /\ a # base /\ chunks'[a] = chunks[a] /\ a \in DOMAIN chunks'
                                 /\ a \in Nat \ {0} /\ chunks[a] \in Nat \ {0}
                                 /\ a + chunks[a] - 1 <= MaxAddress
    BY <1>3, <1>5 DEF TrackingSound, ChunksApart
  <2>2. DOMAIN chunks' = DOMAIN chunks \union {base} /\ chunks'[base] = newsize
    BY <1>3
  <2>3. \A a \in DOMAIN chunks' : /\ a \in Nat \ {0} /\ chunks'[a] \in Nat \ {0}
                                  /\ a + chunks'[a] - 1 <= MaxAddress
    BY <1>2, <1>4, <2>1, <2>2
  <2>4. ASSUME NEW a \in DOMAIN chunks', NEW b \in DOMAIN chunks', a # b
        PROVE  a + chunks'[a] <= b \/ b + chunks'[b] <= a
    BY <1>4, <2>1, <2>2, <2>4 DEF TrackingSound, ChunksApart
  <2> QED
    BY <2>3, <2>4 DEF ChunksApart
\* The header and the block are written into the new chunk, the others lie elsewhere.
<1>7. \A p \in DOMAIN outstanding :
        /\ p # ptr /\ p - 1 \notin written /\ p - 1 # ptr - 1
        /\ p - 1 \in DOMAIN offsets /\ offsets'[p - 1] = offsets[p - 1]
        /\ p - 1 \in DOMAIN offsets'
        /\ outstanding'[p] = outstanding[p]
        /\ ptr + size <= p \/ p + outstanding[p].size <= ptr
  <2> SUFFICES ASSUME NEW p \in DOMAIN outstanding
               PROVE  /\ p # ptr /\ p - 1 \notin written /\ p - 1 # ptr - 1
                      /\ p - 1 \in DOMAIN offsets /\ offsets'[p - 1] = offsets[p - 1]
                      /\ p - 1 \in DOMAIN offsets'
                      /\ outstanding'[p] = outstanding[p]
                      /\ ptr + size <= p \/ p + outstanding[p].size <= ptr
    OBVIOUS
  <2> DEFINE o == Original(p)
             n == outstanding[p].size
             c == chunks[o]
  <2>1. /\ p \in Nat /\ n \in Nat \ {0} /\ o \in DOMAIN chunks /\ o \in Nat
        /\ c \in Nat /\ o + Header <= p /\ p + n <= o + c
    BY ChunkOfBlock
  <2>2. base + newsize <= o \/ o + c <= base
    BY <1>4, <2>1
  <2>3. p - 1 \in DOMAIN offsets
    BY DEF TrackingSound, HeadersIntact
  <2> HIDE DEF o, n, c
  <2>4. p - 1 > base + newsize - 1 \/ p - 1 < base
    BY <1>1, <1>2, <2>1, <2>2
  <2>5. p # ptr /\ p - 1 # ptr - 1
    BY <1>1, <1>2, <2>1, <2>4
  <2>6. Word < newsize
    BY <1>1, <1>2
  <2>7. p - 1 \notin written
    BY <1>1, <1>2, <2>1, <2>4, <2>6 DEF written
  <2>8. ptr + size <= p \/ p + n <= ptr
    BY <1>1, <1>2, <2>1, <2>2
  <2> QED
    BY <1>3, <2>3, <2>5, <2>7, <2>8 DEF n
<1>8. /\ DOMAIN outstanding' = DOMAIN outstanding \union {ptr} /\ ptr \notin DOMAIN outstanding
      /\ outstanding'[ptr] = Block(ptr, size, alignment)
  BY <1>3, <1>7
<1>9. ptr - 1 \in DOMAIN offsets' /\ offsets'[ptr - 1] = ptr - base
  <2>1. ptr - 1 \notin written
    BY <1>1, <1>2 DEF written
  <2> QED
    BY <1>2, <1>3, <2>1
<1>10. ptr - offsets'[ptr - 1] = base
  BY <1>2, <1>9
<1>11. \A p \in DOMAIN outstanding :
         /\ Original(p) = p - offsets[p - 1]
         /\ p - offsets'[p - 1] = Original(p)
         /\ Original(p) \in DOMAIN chunks /\ Original(p) # base
         /\ Original(p) + Header <= p
         /\ p + outstanding[p].size <= Original(p) + chunks[Original(p)]
  BY <1>5, <1>7 DEF Original, TrackingSound, HeadersIntact
<1>12. \A p, q \in DOMAIN outstanding' : p - offsets'[p - 1] = q - offsets'[q - 1] => p = q
  BY <1>8, <1>10, <1>11 DEF TrackingSound, BlocksAligned
<1>13. BlocksAligned'
  <2>1. outstanding' = [p \in DOMAIN outstanding' |-> outstanding'[p]]
    BY <1>3
  <2>2. ASSUME NEW p \in DOMAIN outstanding'
        PROVE  /\ p \in Nat
               /\ outstanding'[p] \in [at : {p}, size : Nat \ {0}, alignment : Nat \ {0}]
               /\ p % outstanding'[p].alignment = 0
    <3>1. CASE p = ptr
      BY <1>1, <1>2, <1>8, <3>1 DEF Block
    <3>2. CASE p \in DOMAIN outstanding
      BY <1>7, <3>2 DEF TrackingSound, BlocksAligned
    <3> QED
      BY <1>8, <3>1, <3>2
  <2> QED
    BY <1>12, <2>1, <2>2 DEF BlocksAligned, Original
<1>14. HeadersIntact'
  <2>1. ASSUME NEW p \in DOMAIN outstanding'
        PROVE  /\ p - 1 \in DOMAIN offsets'
               /\ p - offsets'[p - 1] \in DOMAIN chunks'
               /\ (p - offsets'[p - 1]) + Header <= p
               /\ p + outstanding'[p].size <= (p - offsets'[p - 1]) + chunks'[p - offsets'[p - 1]]
    <3>1. CASE p = ptr
      <4>1. base \in DOMAIN chunks' /\ chunks'[base] = newsize /\ outstanding'[ptr].size = size
        BY <1>3, <1>8 DEF Block
      <4> QED
        BY <1>2, <1>9, <1>10, <3>1, <4>1
    <3>2. CASE p \in DOMAIN outstanding
      <4>1. Original(p) \in DOMAIN chunks' /\ chunks'[Original(p)] = chunks[Original(p)]
        BY <1>3, <1>11, <3>2
      <4> QED
        BY <1>7, <1>11, <3>2, <4>1
    <3> QED
      BY <1>8, <3>1, <3>2
  <2>2. DOMAIN chunks' = {p - offsets'[p - 1] : p \in DOMAIN outstanding'}
    <3>1. DOMAIN chunks = {Original(p) : p \in DOMAIN outstanding}
      BY DEF TrackingSound, HeadersIntact
    <3>2. DOMAIN chunks' = DOMAIN chunks \union {base}
      BY <1>3
    <3> QED
      BY <1>8, <1>10, <1>11, <3>1, <3>2
  <2> QED
    BY <2>1, <2>2 DEF HeadersIntact, Original
<1>15. ptr # 0 /\ ptr + size - 1 <= MaxAddress
  BY <1>1, <1>2, <1>4
<1> QED
  BY <1>2, <1>6, <1>7, <1>8, <1>13, <1>14, <1>15 DEF TrackingSound, ptr

\* What deallocate takes is gone, and the rest stays as it is.
LEMMA Deallocated ==
  ASSUME TrackingSound, NEW ptrs, Deallocate(ptrs)
  PROVE  /\ ptrs \subseteq DOMAIN outstanding
         /\ DOMAIN outstanding' = DOMAIN outstanding \ ptrs
         /\ \A p \in DOMAIN outstanding' : outstanding'[p] = outstanding[p]
         /\ TrackingSound'
<1> DEFINE gone == {Original(p) : p \in ptrs}
<1>1. /\ ptrs \subseteq DOMAIN outstanding
      /\ chunks' = [a \in DOMAIN chunks \ gone |-> chunks[a]]
      /\ outstanding' = [p \in DOMAIN outstanding \ ptrs |-> outstanding[p]]
      /\ offsets' = [a \in DOMAIN offsets \ {p - 1 : p \in ptrs} |-> offsets[a]]
  BY DEF Deallocate, Restrict
<1>2. /\ DOMAIN chunks' = DOMAIN chunks \ gone
      /\ \A a \in DOMAIN chunks' : chunks'[a] = chunks[a]
      /\ DOMAIN outstanding' = DOMAIN outstanding \ ptrs
      /\ \A p \in DOMAIN outstanding' : outstanding'[p] = outstanding[p]
  BY <1>1
<1>3. \A p \in DOMAIN outstanding' :
        /\ p \in DOMAIN outstanding
        /\ p - 1 \in DOMAIN offsets' /\ offsets'[p - 1] = offsets[p - 1]
  <2> SUFFICES ASSUME NEW p \in DOMAIN outstanding'
               PROVE  /\ p \in DOMAIN outstanding
                      /\ p - 1 \in DOMAIN offsets' /\ offsets'[p - 1] = offsets[p - 1]
    OBVIOUS
  <2>1. p \in DOMAIN outstanding /\ p \notin ptrs
    BY <1>2
  <2>2. p - 1 \in DOMAIN offsets /\ p \in Nat
    BY <2>1 DEF TrackingSound, HeadersIntact, BlocksAligned
  <2>3. \A q \in ptrs : q \in Nat /\ q # p
    BY <1>1, <2>1 DEF TrackingSound, BlocksAligned
  <2>4. p - 1 \notin {q - 1 : q \in ptrs}
    BY <2>2, <2>3
  <2> QED
    BY <1>1, <2>1, <2>2, <2>4
<1>4. \A p \in DOMAIN outstanding' :
        /\ p - offsets'[p - 1] = Original(p)
        /\ Original(p) \in DOMAIN chunks'
  <2> SUFFICES ASSUME NEW p \in DOMAIN outstanding'
               PROVE  p - offsets'[p - 1] = Original(p) /\ Original(p) \in DOMAIN chunks'
    OBVIOUS
  <2>1. p \in DOMAIN outstanding /\ p \notin ptrs
    BY <1>2
  <2>2. Original(p) \in DOMAIN chunks
    BY <2>1 DEF TrackingSound, HeadersIntact
  <2>3. \A q \in ptrs : Original(q) # Original(p)
    BY <1>1, <2>1 DEF TrackingSound, BlocksAligned
  <2>4. Original(p) \notin gone
    BY <2>3
  <2> QED
    BY <1>2, <1>3, <2>2, <2>4 DEF Original
<1>5. ChunksApart'
  BY <1>2 DEF TrackingSound, ChunksApart
<1> HIDE DEF gone
<1>6. BlocksAligned'
  <2>1. outstanding' = [p \in DOMAIN outstanding' |-> outstanding'[p]]
    BY <1>1
  <2>2. \A p, q \in DOMAIN outstanding' : p - offsets'[p - 1] = q - offsets'[q - 1] => p = q
    BY <1>3, <1>4 DEF TrackingSound, BlocksAligned
  <2> QED
    BY <1>2, <1>3, <2>1, <2>2 DEF TrackingSound, BlocksAligned, Original
<1>7. HeadersIntact'
  <2>1. ASSUME NEW p \in DOMAIN outstanding'
        PROVE  /\ p - 1 \in DOMAIN offsets'
               /\ p - offsets'[p - 1] \in DOMAIN chunks'
               /\ (p - offsets'[p - 1]) + Header <= p
               /\ p + outstanding'[p].size <= (p - offsets'[p - 1]) + chunks'[p - offsets'[p - 1]]
    <3>1. /\ Original(p) + Header <= p
          /\ p + outstanding[p].size <= Original(p) + chunks[Original(p)]
      BY <1>3 DEF TrackingSound, HeadersIntact
    <3> QED
      BY <1>2, <1>3, <1>4, <3>1
  <2>2. DOMAIN chunks' = {p - offsets'[p - 1] : p \in DOMAIN outstanding'}
    <3>1. DOMAIN chunks = {Original(p) : p \in DOMAIN outstanding}
      BY DEF TrackingSound, HeadersIntact
    <3>2. DOMAIN chunks' \subseteq {Original(p) : p \in DOMAIN outstanding'}
      BY <1>2, <3>1 DEF gone
    <3>3. {p - offsets'[p - 1] : p \in DOMAIN outstanding'}
            = {Original(p) : p \in DOMAIN outstanding'}
      BY <1>4
    <3>4. {Original(p) : p \in DOMAIN outstanding'} \subseteq DOMAIN chunks'
      BY <1>4
    <3> QED
      BY <3>2, <3>3, <3>4
  <2> QED
    BY <2>1, <2>2 DEF HeadersIntact, Original
<1> QED
  BY <1>1, <1>2, <1>5, <1>6, <1>7 DEF TrackingSound

-----------------------------------------------------------------------------
(* What the compiler asks of the tracking allocator.                        *)

\* What is aligned as a pointer can be, and what the slabs and the pool ask for is
\* something.
LEMMA Requests ==
  /\ Word \in Nat \ {0} /\ CanAlign(Word)
  /\ SlabSize \in Nat \ {0} /\ PoolSlab \in Nat \ {0}
  /\ \A size \in NodeSizes : size \in Nat \ {0} /\ size % Word = 0 /\ NodeSize(size) = size
  /\ BufferSizes \subseteq Nat \ {0} /\ TypeSizes \subseteq Nat \ {0}
  /\ \A request \in ProgramRequests :
       request.size \in Nat /\ request.alignment \in Nat /\ CanAlign(request.alignment)
<1>1. Word \in Nat /\ Word >= 2 /\ Header = 2 * Word /\ Header + Word <= ByteSize
  BY MemoryAssumption DEF Header
<1>2. CanAlign(Word)
  <2>1. ~ Word <= Word \div 2
    BY <1>1
  <2> QED
    BY <1>1, <2>1 DEF CanAlign
<1>3. SlabSize \in Nat \ {0}
  BY <1>1, SlabAssumption
<1>4. PoolSlab \in Nat \ {0}
  BY <1>1, PoolAssumption
<1>5. ASSUME NEW size \in NodeSizes
      PROVE  size \in Nat \ {0} /\ size % Word = 0 /\ NodeSize(size) = size
  <2>1. size \in Nat /\ size > 0 /\ size % Word = 0
    BY SizesAssumption DEF CanBeNode
  <2>2. ~ size < Word
    BY <1>1, <2>1
  <2> QED
    BY <2>1, <2>2 DEF NodeSize
<1> QED
  BY <1>1, <1>2, <1>3, <1>4, <1>5, SizesAssumption

\* Each action asks for a block, gives some back, or does neither.
LEMMA OneCall ==
  ASSUME Next
  PROVE  \/ \E size \in Nat \ {0}, alignment \in Nat, base \in Bases :
              CanAlign(alignment) /\ Allocate(size, alignment, base)
         \/ \E ptrs : Deallocate(ptrs)
         \/ UNCHANGED tracking
<1> USE Requests
<1>1. ASSUME NEW size \in NodeSizes, ConstructNode(size)
      PROVE  \/ \E base \in Bases : \/ Allocate(SlabSize, Word, base)
                                    \/ Allocate(size, Word, base)
             \/ UNCHANGED tracking
  BY <1>1 DEF ConstructNode, SlabAllocate, BumpNode, NewSlabNode, LargeNode
<1>2. ASSUME CreateObject
      PROVE  (\E base \in Bases : Allocate(PoolSlab, Word, base)) \/ UNCHANGED tracking
  BY <1>2 DEF CreateObject, PoolAllocate, PoolGrow
<1>3. ASSUME NEW item \in items, DestructObject(item) PROVE UNCHANGED tracking
  BY <1>3 DEF DestructObject, PoolDeallocate
<1>4. ASSUME NEW size \in BufferSizes, AllocateBuffer(size)
      PROVE  \E base \in Bases : Allocate(size, Word, base)
  BY <1>4 DEF AllocateBuffer
<1>5. ASSUME NEW size \in TypeSizes, CreateType(size)
      PROVE  \E base \in Bases : Allocate(size, Word, base)
  BY <1>5 DEF CreateType
<1>6. ASSUME NEW request \in ProgramRequests, RtMalloc(request)
      PROVE  /\ request.size \in Nat \ {0}
             /\ \E base \in Bases : Allocate(request.size, request.alignment, base)
  BY <1>6 DEF RtMalloc
<1>7. ASSUME \/ \E ptr \in program : RtFree(ptr)
             \/ DestroyAst \/ DestroyFactory \/ DestroyTypes
      PROVE  \E ptrs : Deallocate(ptrs)
  BY <1>7 DEF RtFree, DestroyAst, FreeSlabs, DestroyFactory, DestroyTypes
<1>8. ASSUME DestructAst \/ DestroyAllocator PROVE UNCHANGED tracking
  BY <1>8 DEF DestructAst, DestructNode, DestroyAllocator
<1> QED
  BY <1>1, <1>2, <1>3, <1>4, <1>5, <1>6, <1>7, <1>8 DEF Next

\* TrackingSound holds whoever asks.
LEMMA TrackingStep ==
  ASSUME TrackingSound, [Next]_vars
  PROVE  TrackingSound'
<1>1. ASSUME UNCHANGED tracking PROVE TrackingSound'
  BY <1>1 DEF tracking, TrackingSound, ChunksApart, BlocksAligned, HeadersIntact, Original
<1>2. CASE Next
  BY <1>1, <1>2, OneCall, Allocated, Deallocated
<1>3. CASE UNCHANGED vars
  BY <1>1, <1>3 DEF vars
<1> QED
  BY <1>2, <1>3

LEMMA TrackingInvariant == Spec => []TrackingSound
<1>1. Init => TrackingSound
  BY DEF Init, TrackingInit, TrackingSound, ChunksApart, BlocksAligned, HeadersIntact
<1>2. TrackingSound /\ [Next]_vars => TrackingSound'
  BY TrackingStep
<1> QED
  BY <1>1, <1>2, PTL DEF Spec

\* allocator.cpp's get_original_ptr finds malloc's chunk of every outstanding block, in
\* spite of all that the blocks' owners write: HeadersIntact.
THEOREM HeadersStayIntact == Spec => []HeadersIntact
<1>1. TrackingSound => HeadersIntact
  BY DEF TrackingSound
<1> QED
  BY <1>1, TrackingInvariant, PTL

-----------------------------------------------------------------------------
(* Lists of what is listed once.                                            *)

\* One more at the end.
LEMMA PushedLast ==
  ASSUME NEW S, NEW s \in Seq(S), NEW e \in S
  PROVE  /\ Append(s, e) \in Seq(S) /\ Append(s, e) # << >> /\ Last(Append(s, e)) = e
         /\ Range(Append(s, e)) = Range(s) \union {e}
         /\ IsInjective(s) /\ e \notin Range(s) => IsInjective(Append(s, e))
<1> DEFINE t == Append(s, e)
<1>1. /\ t \in Seq(S) /\ t # << >> /\ Len(t) = Len(s) + 1
      /\ \A i \in 1 .. Len(s) : t[i] = s[i]
      /\ t[Len(s) + 1] = e
  BY AppendProperties
<1>2. Len(s) \in Nat /\ DOMAIN s = 1 .. Len(s) /\ DOMAIN t = 1 .. Len(t)
  BY <1>1, LenProperties
<1> HIDE DEF t
<1>3. \A i \in DOMAIN t : i = Len(s) + 1 \/ i \in DOMAIN s
  BY <1>1, <1>2
<1>4. \A i \in DOMAIN s : i \in DOMAIN t /\ t[i] = s[i]
  BY <1>1, <1>2
<1>5. Len(s) + 1 \in DOMAIN t
  BY <1>1, <1>2
<1>6. Range(t) = Range(s) \union {e}
  BY <1>1, <1>3, <1>4, <1>5 DEF Range
<1>7. ASSUME IsInjective(s), e \notin Range(s) PROVE IsInjective(t)
  BY <1>1, <1>3, <1>4, <1>7 DEF IsInjective, Range
<1>8. Last(t) = e
  BY <1>1 DEF Last
<1> QED
  BY <1>1, <1>6, <1>7, <1>8 DEF t

\* One more before the last.
LEMMA PushedBeforeLast ==
  ASSUME NEW S, NEW s \in Seq(S), s # << >>, NEW e \in S
  PROVE  LET t == Front(s) \o <<e, Last(s)>> IN
         /\ t \in Seq(S) /\ t # << >> /\ Last(t) = Last(s)
         /\ Range(t) = Range(s) \union {e}
         /\ IsInjective(s) /\ e \notin Range(s) => IsInjective(t)
<1> DEFINE u == <<e, Last(s)>>
           f == Front(s)
           t == f \o u
           n == Len(s)
<1>1. /\ f \in Seq(S) /\ Len(f) = n - 1
      /\ \A i \in 1 .. n - 1 : f[i] = s[i]
      /\ Last(s) \in S /\ Last(s) = s[n]
  BY FrontFacts
<1>2. n \in Nat \ {0} /\ DOMAIN s = 1 .. n
  BY EmptySeq, LenProperties
<1>3. u \in Seq(S) /\ Len(u) = 2 /\ u[1] = e /\ u[2] = Last(s)
  BY <1>1
<1> HIDE DEF u, f
<1>4. /\ t \in Seq(S) /\ Len(t) = Len(f) + Len(u)
      /\ \A i \in 1 .. Len(f) + Len(u) : t[i] = IF i <= Len(f) THEN f[i] ELSE u[i - Len(f)]
  BY <1>1, <1>3, ConcatProperties
<1> HIDE DEF t, n
<1>5. PICK m \in Nat : m = Len(f) /\ n = m + 1
  BY <1>1, <1>2
<1>6. /\ Len(t) = m + 2 /\ DOMAIN t = 1 .. m + 2 /\ DOMAIN s = 1 .. m + 1
      /\ \A i \in 1 .. m + 2 : t[i] = IF i <= m THEN f[i] ELSE u[i - m]
  <2>1. Len(t) = m + 2
    BY <1>3, <1>4, <1>5
  <2>2. DOMAIN t = 1 .. m + 2
    BY <1>4, <2>1, LenProperties
  <2>3. m + 2 = Len(f) + Len(u)
    BY <1>3, <1>5
  <2> QED
    BY <1>2, <1>4, <1>5, <2>1, <2>2, <2>3
<1>7. \A i \in 1 .. m : t[i] = s[i]
  BY <1>1, <1>5, <1>6
<1>8. t[m + 1] = e
  <2>1. t[m + 1] = u[m + 1 - m]
    BY <1>6
  <2>2. m + 1 - m = 1
    OBVIOUS
  <2> QED
    BY <1>3, <2>1, <2>2
<1>9. t[m + 2] = s[m + 1]
  <2>1. t[m + 2] = u[m + 2 - m]
    BY <1>6
  <2>2. m + 2 - m = 2
    OBVIOUS
  <2> QED
    BY <1>1, <1>3, <1>5, <2>1, <2>2
<1>10. /\ \A i \in DOMAIN t : i = m + 1 \/ i = m + 2 \/ i \in 1 .. m
       /\ \A i \in DOMAIN s : i = m + 1 \/ i \in 1 .. m
       /\ m + 1 \in DOMAIN t /\ m + 2 \in DOMAIN t /\ m + 1 \in DOMAIN s
       /\ 1 .. m \subseteq DOMAIN s /\ 1 .. m \subseteq DOMAIN t /\ m + 1 \notin 1 .. m
  BY <1>6
<1>11. Range(t) = Range(s) \union {e}
  BY <1>7, <1>8, <1>9, <1>10 DEF Range
<1>12. ASSUME IsInjective(s), e \notin Range(s) PROVE IsInjective(t)
  BY <1>7, <1>8, <1>9, <1>10, <1>12 DEF IsInjective, Range
<1>13. Last(t) = Last(s)
  BY <1>1, <1>5, <1>6, <1>9 DEF Last
<1>14. t # << >>
  BY <1>6, EmptySeq
<1> QED
  BY <1>4, <1>11, <1>12, <1>13, <1>14 DEF t, u, f

\* The first is taken.
LEMMA TookFirst ==
  ASSUME NEW S, NEW s \in Seq(S), s # << >>
  PROVE  /\ Head(s) \in Range(s) /\ Tail(s) \in Seq(S)
         /\ Range(Tail(s)) \subseteq Range(s)
         /\ Range(s) = Range(Tail(s)) \union {Head(s)}
         /\ IsInjective(s) => IsInjective(Tail(s)) /\ Head(s) \notin Range(Tail(s))
<1> DEFINE t == Tail(s)
           n == Len(s)
<1>1. /\ t \in Seq(S) /\ Len(t) = n - 1 /\ \A i \in 1 .. Len(t) : t[i] = s[i + 1]
  BY HeadTailProperties
<1>2. n \in Nat \ {0} /\ DOMAIN s = 1 .. n /\ DOMAIN t = 1 .. Len(t)
  BY <1>1, EmptySeq, LenProperties
<1>3. Head(s) = s[1]
  OBVIOUS
<1> HIDE DEF t, n
<1>4. /\ 1 \in DOMAIN s
      /\ \A i \in DOMAIN t : i + 1 \in DOMAIN s /\ t[i] = s[i + 1] /\ i + 1 # 1
      /\ \A i, j \in DOMAIN t : i + 1 = j + 1 => i = j
      /\ \A i \in DOMAIN s : i = 1 \/ (i - 1 \in DOMAIN t /\ t[i - 1] = s[i])
  BY <1>1, <1>2
<1>5. Range(s) = Range(t) \union {s[1]}
  BY <1>4 DEF Range
<1>6. ASSUME IsInjective(s) PROVE IsInjective(t) /\ s[1] \notin Range(t)
  BY <1>4, <1>6 DEF IsInjective, Range
<1> QED
  BY <1>1, <1>3, <1>5, <1>6 DEF t

-----------------------------------------------------------------------------
(* Every block has one owner.                                               *)

\* Nothing is destroyed while the compiler runs.
LEMMA RunningInOrder ==
  ASSUME stage' = "running"
  PROVE  DestroyedInOrder'
BY DEF DestroyedInOrder

\* The open slab is one of the slabs.
LEMMA OpenSlab ==
  ASSUME OwnersSound, freesize > 0
  PROVE  allocations # << >> /\ Last(allocations) \in SlabsOfNodes
<1>1. allocations \in Seq(Nat) /\ allocations # << >>
  BY DEF OwnersSound, NodeSlabsSound
<1>2. Len(allocations) \in DOMAIN allocations
  BY <1>1, EmptySeq, LenProperties
<1> QED
  BY <1>1, <1>2 DEF Last, SlabsOfNodes, Range

\* What the slabs of either kind are follows from the blocks they are, which are kept.
LEMMA SlabsKept ==
  ASSUME OwnersSound,
         \A p \in SlabsOfNodes \union SlabsOfObjects : outstanding'[p] = outstanding[p]
  PROVE  /\ UNCHANGED <<allocations, freesize>> => NodeSlabsSound'
         /\ UNCHANGED slab_list => ObjectSlabsSound'
<1>1. ASSUME UNCHANGED <<allocations, freesize>> PROVE NodeSlabsSound'
  <2>1. freesize > 0 => Last(allocations) \in SlabsOfNodes
    BY OpenSlab
  <2> QED
    BY <1>1, <2>1 DEF OwnersSound, NodeSlabsSound
<1>2. ASSUME UNCHANGED slab_list PROVE ObjectSlabsSound'
  BY <1>2 DEF OwnersSound, ObjectSlabsSound, SlabsOfObjects
<1> QED
  BY <1>1, <1>2

LEMMA ConstructNodeOwners ==
  ASSUME OwnersSound, NEW size \in NodeSizes, ConstructNode(size)
  PROVE  OwnersApart' /\ DestroyedInOrder' /\ NodeSlabsSound' /\ ObjectSlabsSound'
<1>1. /\ stage' = "running" /\ UNCHANGED <<free_list, slab_list, items, buffers, types, program>>
      /\ SlabAllocate(size)
  BY Requests DEF ConstructNode, Running, pool, client
<1>2. size \in Nat \ {0} /\ size % Word = 0 /\ NodeSize(size) = size /\ SafeSize(size, Word) = size
      /\ Word \in Nat \ {0} /\ CanAlign(Word) /\ SlabSize \in Nat \ {0} /\ SlabSize % Word = 0
  BY Requests, SlabAssumption DEF SafeSize
<1>3. /\ allocations \in Seq(Nat) /\ IsInjective(allocations)
      /\ freesize \in 0 .. SlabSize /\ freesize % Word = 0
  BY DEF OwnersSound, NodeSlabsSound
<1>4. DestroyedInOrder'
  BY <1>1, RunningInOrder
<1>5. CASE BumpNode(size, Word)
  <2>1. /\ size < freesize /\ freesize' = freesize - size
        /\ UNCHANGED <<chunks, outstanding, offsets, allocations>>
    BY <1>2, <1>5 DEF BumpNode, Cut, tracking
  <2>2. freesize' \in 0 .. SlabSize /\ freesize' > 0 /\ freesize > 0
    BY <1>2, <1>3, <2>1
  <2>3. freesize' % Word = 0
    <3>1. /\ freesize \in Nat /\ size \in Nat /\ Word \in Nat /\ Word > 0
          /\ freesize % Word = 0 /\ size % Word = 0 /\ freesize >= size
      BY <1>2, <1>3, <2>1
    <3>2. (freesize - size) % Word = 0
      BY ONLY <3>1, SumOfMultiples
    <3> QED
      BY <2>1, <3>2
  <2>4. OwnersApart'
    BY <1>1, <2>1 DEF OwnersSound, OwnersApart, SlabsOfNodes, SlabsOfObjects, Singles
  <2>5. ObjectSlabsSound'
    BY <1>1, <2>1, SlabsKept
  <2>6. NodeSlabsSound'
    BY <2>1, <2>2, <2>3 DEF OwnersSound, NodeSlabsSound
  <2> QED
    BY <1>4, <2>4, <2>5, <2>6
<1>6. CASE \E base \in Bases : NewSlabNode(size, Word, base)
  <2>1. PICK base \in Bases : NewSlabNode(size, Word, base)
    BY <1>6
  <2> DEFINE ptr == Ptr(base, Word)
  <2>2. /\ size < SlabSize /\ freesize' = SlabSize - size
        /\ allocations' = Append(allocations, ptr)
        /\ Allocate(SlabSize, Word, base)
    BY <1>2, <2>1 DEF NewSlabNode, Cut
  <2>3. /\ ptr \in Nat \ {0} /\ ptr \notin DOMAIN outstanding
        /\ DOMAIN outstanding' = DOMAIN outstanding \union {ptr}
        /\ outstanding'[ptr] = Block(ptr, SlabSize, Word)
        /\ \A p \in DOMAIN outstanding : outstanding'[p] = outstanding[p]
    BY <1>2, <2>2, Allocated DEF OwnersSound
  <2> HIDE DEF ptr
  <2>4. freesize' \in 0 .. SlabSize
    BY <1>2, <2>2
  <2>5. freesize' % Word = 0
    <3>1. /\ SlabSize \in Nat /\ size \in Nat /\ Word \in Nat /\ Word > 0
          /\ SlabSize % Word = 0 /\ size % Word = 0 /\ SlabSize >= size
      BY <1>2, <2>2
    <3>2. (SlabSize - size) % Word = 0
      BY ONLY <3>1, SumOfMultiples
    <3> QED
      BY <2>2, <3>2
  <2>6. ptr \notin SlabsOfNodes
    BY <2>3 DEF OwnersSound, OwnersApart
  <2>7. /\ allocations' \in Seq(Nat) /\ allocations' # << >> /\ Last(allocations') = ptr
        /\ Range(allocations') = Range(allocations) \union {ptr}
        /\ IsInjective(allocations')
    BY <1>3, <2>2, <2>3, <2>6, PushedLast DEF SlabsOfNodes
  <2>8. NodeSlabsSound'
    <3>1. outstanding'[ptr].size = SlabSize /\ outstanding'[ptr].alignment = Word
      BY <2>3 DEF Block
    <3> QED
      BY <2>4, <2>5, <2>7, <3>1 DEF NodeSlabsSound
  <2>9. OwnersApart'
    BY <1>1, <2>3, <2>7 DEF OwnersSound, OwnersApart, SlabsOfNodes, SlabsOfObjects, Singles
  <2>10. ObjectSlabsSound'
    BY <1>1, <2>3, SlabsKept DEF OwnersSound, OwnersApart
  <2> QED
    BY <1>4, <2>8, <2>9, <2>10
<1>7. CASE \E base \in Bases : LargeNode(size, Word, base)
  <2>1. PICK base \in Bases : LargeNode(size, Word, base)
    BY <1>7
  <2> DEFINE ptr == Ptr(base, Word)
  <2>2. /\ freesize' = freesize
        /\ allocations' = IF freesize = 0 THEN Append(allocations, ptr)
                          ELSE Front(allocations) \o <<ptr, Last(allocations)>>
        /\ Allocate(size, Word, base)
    BY <2>1 DEF LargeNode
  <2>3. /\ ptr \in Nat \ {0} /\ ptr \notin DOMAIN outstanding
        /\ DOMAIN outstanding' = DOMAIN outstanding \union {ptr}
        /\ \A p \in DOMAIN outstanding : outstanding'[p] = outstanding[p]
    BY <1>2, <2>2, Allocated DEF OwnersSound
  <2> HIDE DEF ptr
  <2>4. ptr \notin SlabsOfNodes
    BY <2>3 DEF OwnersSound, OwnersApart
  <2>5. /\ allocations' \in Seq(Nat)
        /\ Range(allocations') = Range(allocations) \union {ptr}
        /\ IsInjective(allocations')
        /\ freesize > 0 => allocations' # << >> /\ Last(allocations') = Last(allocations)
    <3>1. CASE freesize = 0
      BY <1>3, <2>2, <2>3, <2>4, <3>1, PushedLast DEF SlabsOfNodes
    <3>2. CASE freesize # 0
      <4>1. allocations # << >>
        BY <1>2, <1>3, <3>2 DEF OwnersSound, NodeSlabsSound
      <4>2. allocations \in Seq(Nat) /\ ptr \in Nat
        BY <1>3, <2>3
      <4> DEFINE t == Front(allocations) \o <<ptr, Last(allocations)>>
      <4>3. /\ t \in Seq(Nat) /\ t # << >> /\ Last(t) = Last(allocations)
            /\ Range(t) = Range(allocations) \union {ptr}
            /\ IsInjective(allocations) /\ ptr \notin Range(allocations) => IsInjective(t)
        BY ONLY <4>1, <4>2, PushedBeforeLast
      <4>4. allocations' = t
        BY <2>2, <3>2
      <4> HIDE DEF t
      <4> QED
        BY <1>3, <2>4, <4>3, <4>4 DEF SlabsOfNodes
    <3> QED
      BY <3>1, <3>2
  <2>6. OwnersApart'
    BY <1>1, <2>3, <2>5 DEF OwnersSound, OwnersApart, SlabsOfNodes, SlabsOfObjects, Singles
  <2>7. ObjectSlabsSound'
    BY <1>1, <2>3, SlabsKept DEF OwnersSound, OwnersApart
  <2>8. NodeSlabsSound'
    <3>1. freesize > 0 => Last(allocations) \in DOMAIN outstanding
      BY OpenSlab DEF OwnersSound, OwnersApart
    <3> QED
      BY <2>2, <2>3, <2>5, <3>1 DEF OwnersSound, NodeSlabsSound
  <2> QED
    BY <1>4, <2>6, <2>7, <2>8
<1> QED
  BY <1>1, <1>2, <1>5, <1>6, <1>7 DEF SlabAllocate

LEMMA CreateObjectOwners ==
  ASSUME OwnersSound, CreateObject
  PROVE  OwnersApart' /\ DestroyedInOrder' /\ NodeSlabsSound' /\ ObjectSlabsSound'
<1>1. /\ stage' = "running" /\ UNCHANGED <<allocations, freesize, buffers, types, program>>
      /\ PoolAllocate \/ PoolGrow
  BY DEF CreateObject, Running, slabs, client
<1>2. DestroyedInOrder'
  BY <1>1, RunningInOrder
<1>3. CASE PoolAllocate
  <2>1. UNCHANGED <<outstanding, slab_list>>
    BY <1>3 DEF PoolAllocate, tracking
  <2>2. OwnersApart'
    BY <1>1, <2>1 DEF OwnersSound, OwnersApart, SlabsOfNodes, SlabsOfObjects, Singles
  <2> QED
    BY <1>1, <1>2, <2>1, <2>2, SlabsKept
<1>4. CASE PoolGrow
  <2>1. PICK base \in Bases : /\ Allocate(PoolSlab, Word, base)
                              /\ slab_list' = Append(slab_list, Ptr(base, Word))
    BY <1>4 DEF PoolGrow
  <2> DEFINE ptr == Ptr(base, Word)
  <2>2. Word \in Nat /\ CanAlign(Word) /\ PoolSlab \in Nat \ {0}
    BY Requests
  <2>3. /\ ptr \in Nat \ {0} /\ ptr \notin DOMAIN outstanding
        /\ DOMAIN outstanding' = DOMAIN outstanding \union {ptr}
        /\ outstanding'[ptr] = Block(ptr, PoolSlab, Word)
        /\ \A p \in DOMAIN outstanding : outstanding'[p] = outstanding[p]
    BY <2>1, <2>2, Allocated DEF OwnersSound
  <2>4. slab_list' = Append(slab_list, ptr)
    BY <2>1
  <2> HIDE DEF ptr
  <2>5. slab_list \in Seq(Nat) /\ IsInjective(slab_list) /\ ptr \notin Range(slab_list)
    BY <2>3 DEF OwnersSound, OwnersApart, ObjectSlabsSound, SlabsOfObjects
  <2>6. /\ slab_list' \in Seq(Nat) /\ IsInjective(slab_list')
        /\ Range(slab_list') = Range(slab_list) \union {ptr}
    BY <2>3, <2>4, <2>5, PushedLast
  <2>7. OwnersApart'
    BY <1>1, <2>3, <2>6 DEF OwnersSound, OwnersApart, SlabsOfNodes, SlabsOfObjects, Singles
  <2>8. ObjectSlabsSound'
    <3>1. outstanding'[ptr].size = PoolSlab /\ outstanding'[ptr].alignment = Word
      BY <2>3 DEF Block
    <3>2. \A slab \in SlabsOfObjects :
            outstanding'[slab].size = PoolSlab /\ outstanding'[slab].alignment = Word
      BY <2>3 DEF OwnersSound, OwnersApart, ObjectSlabsSound
    <3> QED
      BY <2>6, <3>1, <3>2 DEF ObjectSlabsSound, SlabsOfObjects
  <2>9. NodeSlabsSound'
    BY <1>1, <2>3, SlabsKept DEF OwnersSound, OwnersApart
  <2> QED
    BY <1>2, <2>7, <2>8, <2>9
<1> QED
  BY <1>1, <1>3, <1>4

\* A block that its owner asked for by itself: what is added to one of the sets.
LEMMA SingleOwners ==
  ASSUME OwnersSound, NEW size \in Nat \ {0}, NEW alignment \in Nat, CanAlign(alignment),
         NEW base \in Bases, Allocate(size, alignment, base), Running,
         UNCHANGED <<slabs, pool, stage>>,
         \/ buffers' = buffers \union {Ptr(base, alignment)} /\ UNCHANGED <<types, program>>
         \/ types' = types \union {Ptr(base, alignment)} /\ UNCHANGED <<buffers, program>>
         \/ program' = program \union {Ptr(base, alignment)} /\ UNCHANGED <<buffers, types>>
  PROVE  OwnersApart' /\ DestroyedInOrder' /\ NodeSlabsSound' /\ ObjectSlabsSound'
<1> DEFINE ptr == Ptr(base, alignment)
<1>1. /\ ptr \in Nat \ {0} /\ ptr \notin DOMAIN outstanding
      /\ DOMAIN outstanding' = DOMAIN outstanding \union {ptr}
      /\ \A p \in DOMAIN outstanding : outstanding'[p] = outstanding[p]
  BY Allocated DEF OwnersSound
<1>2. \/ buffers' = buffers \union {ptr} /\ UNCHANGED <<types, program>>
      \/ types' = types \union {ptr} /\ UNCHANGED <<buffers, program>>
      \/ program' = program \union {ptr} /\ UNCHANGED <<buffers, types>>
  OBVIOUS
<1>3. UNCHANGED <<allocations, freesize, slab_list>> /\ stage' = "running"
  BY DEF slabs, pool, Running
<1> HIDE DEF ptr
<1>4. DestroyedInOrder'
  BY <1>3, RunningInOrder
<1>5. NodeSlabsSound' /\ ObjectSlabsSound'
  BY <1>1, <1>3, SlabsKept DEF OwnersSound, OwnersApart
<1>6. IsFiniteSet(buffers') /\ IsFiniteSet(types') /\ IsFiniteSet(program')
  BY <1>2, FS_AddElement DEF OwnersSound, OwnersApart
<1>7. /\ DOMAIN outstanding' = (SlabsOfNodes \union SlabsOfObjects \union Singles)'
      /\ (SlabsOfNodes \intersect (SlabsOfObjects \union Singles))' = {}
      /\ (SlabsOfObjects \intersect Singles)' = {}
      /\ buffers' \intersect types' = {} /\ program' \intersect (buffers' \union types') = {}
  <2>1. Singles' = Singles \union {ptr} /\ SlabsOfNodes' = SlabsOfNodes
        /\ SlabsOfObjects' = SlabsOfObjects
    BY <1>2, <1>3 DEF Singles, SlabsOfNodes, SlabsOfObjects
  <2>2. ptr \notin SlabsOfNodes \union SlabsOfObjects \union Singles
    BY <1>1 DEF OwnersSound, OwnersApart
  <2>3. buffers' \intersect types' = {} /\ program' \intersect (buffers' \union types') = {}
    BY <1>2, <2>2 DEF OwnersSound, OwnersApart, Singles
  <2> QED
    BY <1>1, <2>1, <2>2, <2>3 DEF OwnersSound, OwnersApart
<1> QED
  BY <1>4, <1>5, <1>6, <1>7 DEF OwnersApart

\* What an owner gives back is all its, whether it is some or all of what it has.
LEMMA ReleasedOwners ==
  ASSUME OwnersSound, NEW ptrs, Deallocate(ptrs),
         \/ allocations' = allocations /\ freesize' = freesize
         \/ allocations' = << >> /\ freesize' = 0,
         slab_list' = slab_list \/ slab_list' = << >>,
         buffers' \subseteq buffers, types' \subseteq types, program' \subseteq program,
         SlabsOfNodes \ SlabsOfNodes' \subseteq ptrs, ptrs \intersect SlabsOfNodes' = {},
         SlabsOfObjects \ SlabsOfObjects' \subseteq ptrs, ptrs \intersect SlabsOfObjects' = {},
         Singles \ Singles' \subseteq ptrs, ptrs \intersect Singles' = {}
  PROVE  OwnersApart' /\ NodeSlabsSound' /\ ObjectSlabsSound'
<1>1. /\ DOMAIN outstanding' = DOMAIN outstanding \ ptrs
      /\ \A p \in DOMAIN outstanding' : outstanding'[p] = outstanding[p]
  BY Deallocated DEF OwnersSound
<1>2. Range(<< >>) = {}
  BY DEF Range
<1>3. /\ SlabsOfNodes' \subseteq SlabsOfNodes /\ SlabsOfObjects' \subseteq SlabsOfObjects
      /\ Singles' \subseteq Singles
  BY <1>2 DEF SlabsOfNodes, SlabsOfObjects, Singles
<1>4. DOMAIN outstanding' = SlabsOfNodes' \union SlabsOfObjects' \union Singles'
  BY <1>1, <1>3 DEF OwnersSound, OwnersApart
<1>5. IsFiniteSet(buffers') /\ IsFiniteSet(types') /\ IsFiniteSet(program')
  BY FS_Subset DEF OwnersSound, OwnersApart
<1>6. /\ SlabsOfNodes' \intersect (SlabsOfObjects' \union Singles') = {}
      /\ SlabsOfObjects' \intersect Singles' = {}
      /\ buffers' \intersect types' = {} /\ program' \intersect (buffers' \union types') = {}
  BY <1>3 DEF OwnersSound, OwnersApart
<1>7. OwnersApart'
  BY <1>4, <1>5, <1>6 DEF OwnersApart
<1>8. << >> \in Seq(Nat) /\ IsInjective(<< >>)
  BY EmptySeq DEF IsInjective
<1>9. NodeSlabsSound'
  <2>1. CASE allocations' = allocations /\ freesize' = freesize
    <3>1. freesize > 0 => Last(allocations) \in SlabsOfNodes
      BY OpenSlab
    <3>2. SlabsOfNodes' = SlabsOfNodes
      BY <2>1 DEF SlabsOfNodes
    <3>3. freesize > 0 => outstanding'[Last(allocations)] = outstanding[Last(allocations)]
      BY <1>1, <1>4, <3>1, <3>2
    <3> QED
      BY <2>1, <3>3 DEF OwnersSound, NodeSlabsSound
  <2>2. CASE allocations' = << >> /\ freesize' = 0
    <3>1. Word \in Nat \ {0} /\ SlabSize \in Nat
      BY Requests
    <3>2. 0 % Word = 0 /\ 0 \in 0 .. SlabSize /\ ~ 0 > 0
      BY <3>1
    <3> QED
      BY <1>8, <2>2, <3>2 DEF NodeSlabsSound
  <2> QED
    BY <2>1, <2>2
<1>10. ObjectSlabsSound'
  <2>1. CASE slab_list' = slab_list
    BY <1>1, <1>4, <2>1 DEF OwnersSound, ObjectSlabsSound, SlabsOfObjects
  <2>2. CASE slab_list' = << >>
    BY <1>2, <1>8, <2>2 DEF ObjectSlabsSound, SlabsOfObjects
  <2> QED
    BY <2>1, <2>2
<1> QED
  BY <1>7, <1>9, <1>10

\* Each action leaves every block with one owner.
LEMMA OwnersStep ==
  ASSUME OwnersSound, [Next]_vars
  PROVE  OwnersSound'
<1> SUFFICES OwnersApart' /\ DestroyedInOrder' /\ NodeSlabsSound' /\ ObjectSlabsSound'
  BY TrackingStep DEF OwnersSound
<1> USE Requests
<1>1. ASSUME NEW size \in NodeSizes, ConstructNode(size)
      PROVE  OwnersApart' /\ DestroyedInOrder' /\ NodeSlabsSound' /\ ObjectSlabsSound'
  BY <1>1, ConstructNodeOwners
<1>2. CASE CreateObject
  BY <1>2, CreateObjectOwners
<1>3. ASSUME NEW item \in items, DestructObject(item)
      PROVE  OwnersApart' /\ DestroyedInOrder' /\ NodeSlabsSound' /\ ObjectSlabsSound'
  <2>1. /\ stage' = "running"
        /\ UNCHANGED <<outstanding, slab_list, allocations, freesize, buffers, types, program>>
    BY <1>3 DEF DestructObject, Running, PoolDeallocate, tracking, slabs, client
  <2>2. OwnersApart'
    BY <2>1 DEF OwnersSound, OwnersApart, SlabsOfNodes, SlabsOfObjects, Singles
  <2> QED
    BY <2>1, <2>2, RunningInOrder, SlabsKept
<1>4. ASSUME NEW size \in BufferSizes, AllocateBuffer(size)
      PROVE  OwnersApart' /\ DestroyedInOrder' /\ NodeSlabsSound' /\ ObjectSlabsSound'
  <2>1. PICK base \in Bases : /\ Allocate(size, Word, base)
                              /\ buffers' = buffers \union {Ptr(base, Word)}
    BY <1>4 DEF AllocateBuffer
  <2>2. Running /\ UNCHANGED <<slabs, pool, stage>> /\ UNCHANGED <<types, program>>
    BY <1>4 DEF AllocateBuffer
  <2> QED
    BY <2>1, <2>2, SingleOwners
<1>5. ASSUME NEW size \in TypeSizes, CreateType(size)
      PROVE  OwnersApart' /\ DestroyedInOrder' /\ NodeSlabsSound' /\ ObjectSlabsSound'
  <2>1. PICK base \in Bases : /\ Allocate(size, Word, base)
                              /\ types' = types \union {Ptr(base, Word)}
    BY <1>5 DEF CreateType
  <2>2. Running /\ UNCHANGED <<slabs, pool, stage>> /\ UNCHANGED <<buffers, program>>
    BY <1>5 DEF CreateType
  <2> QED
    BY <2>1, <2>2, SingleOwners
<1>6. ASSUME NEW request \in ProgramRequests, RtMalloc(request)
      PROVE  OwnersApart' /\ DestroyedInOrder' /\ NodeSlabsSound' /\ ObjectSlabsSound'
  <2>1. PICK base \in Bases :
          /\ Allocate(request.size, request.alignment, base)
          /\ program' = program \union {Ptr(base, request.alignment)}
    BY <1>6 DEF RtMalloc
  <2>2. /\ Running /\ UNCHANGED <<slabs, pool, stage>> /\ UNCHANGED <<buffers, types>>
        /\ request.size > 0
    BY <1>6 DEF RtMalloc
  <2>3. request.size \in Nat \ {0} /\ request.alignment \in Nat /\ CanAlign(request.alignment)
    BY <2>2
  <2> QED
    BY <2>1, <2>2, <2>3, SingleOwners
<1>7. ASSUME NEW ptr \in program, RtFree(ptr)
      PROVE  OwnersApart' /\ DestroyedInOrder' /\ NodeSlabsSound' /\ ObjectSlabsSound'
  <2>1. /\ Deallocate({ptr}) /\ program' = program \ {ptr} /\ stage' = "running"
        /\ UNCHANGED <<allocations, freesize, slab_list, buffers, types>>
    BY <1>7 DEF RtFree, Running, slabs, pool
  <2>2. /\ SlabsOfNodes' = SlabsOfNodes /\ SlabsOfObjects' = SlabsOfObjects
        /\ Singles' = Singles \ {ptr} /\ ptr \notin SlabsOfNodes /\ ptr \notin SlabsOfObjects
    BY <2>1 DEF OwnersSound, OwnersApart, SlabsOfNodes, SlabsOfObjects, Singles
  <2>3. OwnersApart' /\ NodeSlabsSound' /\ ObjectSlabsSound'
    <3>1. /\ Deallocate({ptr})
          /\ \/ allocations' = allocations /\ freesize' = freesize
             \/ allocations' = << >> /\ freesize' = 0
          /\ slab_list' = slab_list \/ slab_list' = << >>
          /\ buffers' \subseteq buffers /\ types' \subseteq types /\ program' \subseteq program
          /\ SlabsOfNodes \ SlabsOfNodes' \subseteq {ptr} /\ {ptr} \intersect SlabsOfNodes' = {}
          /\ SlabsOfObjects \ SlabsOfObjects' \subseteq {ptr}
          /\ {ptr} \intersect SlabsOfObjects' = {}
          /\ Singles \ Singles' \subseteq {ptr} /\ {ptr} \intersect Singles' = {}
      BY <2>1, <2>2
    <3> QED
      BY ONLY OwnersSound, <3>1, ReleasedOwners
  <2> QED
    BY <2>1, <2>3, RunningInOrder
<1>8. CASE DestructAst
  <2>1. /\ stage \in {"running", "ast"} /\ stage' = "ast"
        /\ UNCHANGED <<outstanding, slab_list, allocations, freesize, buffers, types, program>>
    BY <1>8 DEF DestructAst, DestructNode, tracking, pool, client
  <2>2. OwnersApart'
    BY <2>1 DEF OwnersSound, OwnersApart, SlabsOfNodes, SlabsOfObjects, Singles
  <2>3. DestroyedInOrder'
    BY <2>1 DEF DestroyedInOrder
  <2> QED
    BY <2>1, <2>2, <2>3, SlabsKept
<1>9. CASE DestroyAst
  <2>1. /\ stage' = "factory" /\ Deallocate(SlabsOfNodes)
        /\ allocations' = << >> /\ freesize' = 0 /\ nodes' = {} /\ destruct_list' = << >>
        /\ UNCHANGED <<slab_list, buffers, types, program>>
    BY <1>9 DEF DestroyAst, FreeSlabs, pool, client, SlabsOfNodes
  <2>2. /\ SlabsOfNodes' = {} /\ SlabsOfObjects' = SlabsOfObjects /\ Singles' = Singles
    BY <2>1 DEF SlabsOfNodes, SlabsOfObjects, Singles, Range
  <2>3. OwnersApart' /\ NodeSlabsSound' /\ ObjectSlabsSound'
    BY <2>1, <2>2, ReleasedOwners DEF OwnersSound, OwnersApart
  <2>4. DestroyedInOrder'
    BY <2>1 DEF DestroyedInOrder
  <2> QED
    BY <2>3, <2>4
<1>10. CASE DestroyFactory
  <2>1. /\ stage = "factory" /\ stage' = "types" /\ Deallocate(SlabsOfObjects \union buffers)
        /\ slab_list' = << >> /\ free_list' = << >> /\ items' = {} /\ buffers' = {}
        /\ UNCHANGED <<allocations, freesize, destruct_list, nodes, types, program>>
    BY <1>10 DEF DestroyFactory, DestroyPool, slabs, SlabsOfObjects
  <2>2. /\ SlabsOfNodes' = SlabsOfNodes /\ SlabsOfObjects' = {}
        /\ Singles' = types \union program
    BY <2>1 DEF SlabsOfNodes, SlabsOfObjects, Singles, Range
  <2>3. OwnersApart' /\ NodeSlabsSound' /\ ObjectSlabsSound'
    <3>1. /\ Deallocate(SlabsOfObjects \union buffers)
          /\ \/ allocations' = allocations /\ freesize' = freesize
             \/ allocations' = << >> /\ freesize' = 0
          /\ slab_list' = slab_list \/ slab_list' = << >>
          /\ buffers' \subseteq buffers /\ types' \subseteq types /\ program' \subseteq program
          /\ SlabsOfNodes \ SlabsOfNodes' \subseteq SlabsOfObjects \union buffers
          /\ (SlabsOfObjects \union buffers) \intersect SlabsOfNodes' = {}
          /\ SlabsOfObjects \ SlabsOfObjects' \subseteq SlabsOfObjects \union buffers
          /\ (SlabsOfObjects \union buffers) \intersect SlabsOfObjects' = {}
          /\ Singles \ Singles' \subseteq SlabsOfObjects \union buffers
          /\ (SlabsOfObjects \union buffers) \intersect Singles' = {}
      BY <2>1, <2>2 DEF OwnersSound, OwnersApart, Singles
    <3> QED
      BY ONLY OwnersSound, <3>1, ReleasedOwners
  <2>4. DestroyedInOrder'
    BY <2>1 DEF OwnersSound, DestroyedInOrder
  <2> QED
    BY <2>3, <2>4
<1>11. CASE DestroyTypes
  <2>1. /\ stage = "types" /\ stage' = "allocator" /\ Deallocate(types) /\ types' = {}
        /\ UNCHANGED <<allocations, freesize, destruct_list, nodes, slab_list, free_list, items,
                       buffers, program>>
    BY <1>11 DEF DestroyTypes, slabs, pool
  <2>2. /\ SlabsOfNodes' = SlabsOfNodes /\ SlabsOfObjects' = SlabsOfObjects
        /\ Singles' = buffers \union program
    BY <2>1 DEF SlabsOfNodes, SlabsOfObjects, Singles
  <2>3. OwnersApart' /\ NodeSlabsSound' /\ ObjectSlabsSound'
    <3>1. /\ Deallocate(types)
          /\ \/ allocations' = allocations /\ freesize' = freesize
             \/ allocations' = << >> /\ freesize' = 0
          /\ slab_list' = slab_list \/ slab_list' = << >>
          /\ buffers' \subseteq buffers /\ types' \subseteq types /\ program' \subseteq program
          /\ SlabsOfNodes \ SlabsOfNodes' \subseteq types /\ types \intersect SlabsOfNodes' = {}
          /\ SlabsOfObjects \ SlabsOfObjects' \subseteq types
          /\ types \intersect SlabsOfObjects' = {}
          /\ Singles \ Singles' \subseteq types /\ types \intersect Singles' = {}
      BY <2>1, <2>2 DEF OwnersSound, OwnersApart, Singles
    <3> QED
      BY ONLY OwnersSound, <3>1, ReleasedOwners
  <2>4. DestroyedInOrder'
    BY <2>1 DEF OwnersSound, DestroyedInOrder
  <2> QED
    BY <2>3, <2>4
<1>12. CASE DestroyAllocator
  <2>1. /\ stage = "allocator" /\ stage' = IF outstanding = << >> THEN "closed" ELSE "leaked"
        /\ UNCHANGED <<outstanding, allocations, freesize, destruct_list, nodes, slab_list,
                       free_list, items, buffers, types, program>>
    BY <1>12 DEF DestroyAllocator, tracking, slabs, pool, client
  <2>2. OwnersApart'
    BY <2>1 DEF OwnersSound, OwnersApart, SlabsOfNodes, SlabsOfObjects, Singles
  <2>3. DestroyedInOrder'
    BY <2>1 DEF OwnersSound, DestroyedInOrder
  <2> QED
    BY <2>1, <2>2, <2>3, SlabsKept
<1>13. CASE UNCHANGED vars
  <2>1. UNCHANGED <<outstanding, allocations, freesize, destruct_list, nodes, slab_list,
                    free_list, items, buffers, types, program, stage>>
    BY <1>13 DEF vars, tracking, slabs, pool, client
  <2>2. OwnersApart'
    BY <2>1 DEF OwnersSound, OwnersApart, SlabsOfNodes, SlabsOfObjects, Singles
  <2>3. DestroyedInOrder'
    BY <2>1 DEF OwnersSound, DestroyedInOrder
  <2> QED
    BY <2>1, <2>2, <2>3, SlabsKept
<1> QED
  BY <1>1, <1>2, <1>3, <1>4, <1>5, <1>6, <1>7, <1>8, <1>9, <1>10, <1>11, <1>12, <1>13 DEF Next

LEMMA OwnersInitially == Init => OwnersSound
<1> SUFFICES ASSUME Init PROVE OwnersSound
  OBVIOUS
<1>1. /\ chunks = << >> /\ outstanding = << >> /\ offsets = << >>
      /\ allocations = << >> /\ freesize = 0 /\ destruct_list = << >> /\ nodes = {}
      /\ free_list = << >> /\ slab_list = << >> /\ items = {}
      /\ buffers = {} /\ types = {} /\ program = {} /\ stage = "running"
  BY DEF Init, TrackingInit, SlabInit, PoolInit
<1>2. TrackingSound
  BY <1>1 DEF TrackingSound, ChunksApart, BlocksAligned, HeadersIntact
<1>3. Range(<< >>) = {} /\ << >> \in Seq(Nat) /\ IsInjective(<< >>) /\ DOMAIN << >> = {}
  BY EmptySeq DEF Range, IsInjective
<1>4. OwnersApart
  BY <1>1, <1>3, FS_EmptySet DEF OwnersApart, SlabsOfNodes, SlabsOfObjects, Singles
<1>5. DestroyedInOrder
  BY <1>1 DEF DestroyedInOrder
<1>6. NodeSlabsSound
  <2>1. Word \in Nat \ {0} /\ SlabSize \in Nat
    BY Requests
  <2>2. 0 % Word = 0 /\ 0 \in 0 .. SlabSize /\ ~ 0 > 0
    BY <2>1
  <2> QED
    BY <1>1, <1>3, <2>2 DEF NodeSlabsSound
<1>7. ObjectSlabsSound
  BY <1>1, <1>3 DEF ObjectSlabsSound, SlabsOfObjects
<1> QED
  BY <1>2, <1>4, <1>5, <1>6, <1>7 DEF OwnersSound

LEMMA OwnersInvariant == Spec => []OwnersSound
<1>1. OwnersSound /\ [Next]_vars => OwnersSound'
  BY OwnersStep
<1> QED
  BY <1>1, OwnersInitially, PTL DEF Spec

\* ~compiler_impl: each member gives back all it took before the allocator looks, so that
\* what is outstanding then is the program's: OnlyProgramsLeak.
THEOREM OnlyProgramsEverLeak == Spec => []OnlyProgramsLeak
<1>1. OwnersSound => OnlyProgramsLeak
  <2> SUFFICES ASSUME OwnersSound, stage = "leaked", program = {} PROVE FALSE
    BY DEF OnlyProgramsLeak
  <2>1. /\ allocations = << >> /\ slab_list = << >> /\ buffers = {} /\ types = {}
        /\ outstanding # << >>
    BY DEF OwnersSound, DestroyedInOrder
  <2>2. DOMAIN outstanding = {}
    BY <2>1 DEF OwnersSound, OwnersApart, SlabsOfNodes, SlabsOfObjects, Singles, Range
  <2>3. outstanding = [p \in DOMAIN outstanding |-> outstanding[p]]
    BY DEF OwnersSound, TrackingSound, BlocksAligned
  <2>4. outstanding = << >>
    BY <2>2, <2>3
  <2> QED
    BY <2>1, <2>4
<1> QED
  BY <1>1, OwnersInvariant, PTL

-----------------------------------------------------------------------------
(* The types of the variables, and how many blocks there are.               *)

\* There are as many elements in a list of what is listed once as it is long.
LEMMA RangeCounts ==
  ASSUME NEW S, NEW s \in Seq(S), IsInjective(s)
  PROVE  IsFiniteSet(Range(s)) /\ Cardinality(Range(s)) = Len(s) /\ Len(s) \in Nat
<1>1. Len(s) \in Nat /\ DOMAIN s = 1 .. Len(s) /\ s = [i \in 1 .. Len(s) |-> s[i]]
  BY LenProperties
<1>2. s \in [1 .. Len(s) -> Range(s)]
  BY <1>1 DEF Range
<1>3. \A e \in Range(s) : \E i \in 1 .. Len(s) : s[i] = e
  BY <1>1 DEF Range
<1>4. s \in Bijection(1 .. Len(s), Range(s))
  BY <1>2, <1>3 DEF Bijection, Injection, Surjection
<1>5. ExistsBijection(1 .. Len(s), Range(s))
  BY <1>4 DEF ExistsBijection
<1>6. IsFiniteSet(Range(s))
  BY <1>1, <1>5, FS_NatBijection
<1> QED
  BY <1>1, <1>5, <1>6, FS_CountingElements

LEMMA DisjointCounts ==
  ASSUME NEW S, NEW T, IsFiniteSet(S), IsFiniteSet(T), S \intersect T = {}
  PROVE  /\ IsFiniteSet(S \union T)
         /\ Cardinality(S \union T) = Cardinality(S) + Cardinality(T)
         /\ Cardinality(S) \in Nat /\ Cardinality(T) \in Nat
<1>1. /\ IsFiniteSet(S \union T)
      /\ Cardinality(S \union T) = Cardinality(S) + Cardinality(T) - Cardinality(S \cap T)
  BY FS_Union
<1>2. Cardinality(S \cap T) = 0
  BY FS_EmptySet
<1>3. Cardinality(S) \in Nat /\ Cardinality(T) \in Nat
  BY FS_CardinalityType
<1> QED
  BY <1>1, <1>2, <1>3

LEMMA OwnersCounted ==
  ASSUME OwnersSound
  PROVE  TypeOK
<1> DEFINE N == Range(allocations)
           O == Range(slab_list)
<1>1. IsFiniteSet(N) /\ Cardinality(N) = Len(allocations)
  BY RangeCounts DEF OwnersSound, NodeSlabsSound
<1>2. IsFiniteSet(O) /\ Cardinality(O) = Len(slab_list)
  BY RangeCounts DEF OwnersSound, ObjectSlabsSound
<1>3. /\ DOMAIN outstanding = N \union O \union buffers \union types \union program
      /\ N \intersect O = {} /\ (N \union O) \intersect buffers = {}
      /\ (N \union O \union buffers) \intersect types = {}
      /\ (N \union O \union buffers \union types) \intersect program = {}
      /\ IsFiniteSet(buffers) /\ IsFiniteSet(types) /\ IsFiniteSet(program)
  BY DEF OwnersSound, OwnersApart, SlabsOfNodes, SlabsOfObjects, Singles
<1> HIDE DEF N, O
<1>4. /\ IsFiniteSet(N \union O)
      /\ Cardinality(N \union O) = Cardinality(N) + Cardinality(O)
      /\ Cardinality(N) \in Nat /\ Cardinality(O) \in Nat
  BY <1>1, <1>2, <1>3, DisjointCounts
<1>5. /\ IsFiniteSet(N \union O \union buffers)
      /\ Cardinality(N \union O \union buffers) = Cardinality(N \union O) + Cardinality(buffers)
      /\ Cardinality(buffers) \in Nat
  BY <1>3, <1>4, DisjointCounts
<1>6. /\ IsFiniteSet(N \union O \union buffers \union types)
      /\ Cardinality(N \union O \union buffers \union types)
           = Cardinality(N \union O \union buffers) + Cardinality(types)
      /\ Cardinality(types) \in Nat
  BY <1>3, <1>5, DisjointCounts
<1>7. /\ Cardinality(N \union O \union buffers \union types \union program)
           = Cardinality(N \union O \union buffers \union types) + Cardinality(program)
      /\ Cardinality(program) \in Nat
  BY <1>3, <1>6, DisjointCounts
<1>8. Cardinality(DOMAIN outstanding)
        = Len(allocations) + Len(slab_list)
            + Cardinality(buffers) + Cardinality(types) + Cardinality(program)
  BY <1>1, <1>2, <1>3, <1>4, <1>5, <1>6, <1>7
<1>9. DOMAIN outstanding = UNION {N, O, buffers, types, program}
  BY <1>3
<1> QED
  BY <1>8, <1>9 DEF TypeOK, N, O, OwnersSound, NodeSlabsSound, ObjectSlabsSound, DestroyedInOrder

\* CompilerMemory's type invariant: each block is on one owner's list, once.
THEOREM TypeCorrect == Spec => []TypeOK
<1>1. OwnersSound => TypeOK
  BY OwnersCounted
<1> QED
  BY <1>1, OwnersInvariant, PTL

-----------------------------------------------------------------------------
(* The nodes of the syntax tree.                                            *)

\* A slab is a block, aligned as a pointer, and no other block reaches into it.
LEMMA SlabIsBlock ==
  ASSUME OwnersSound, NEW slab \in SlabsOfNodes \union SlabsOfObjects
  PROVE  /\ slab \in DOMAIN outstanding /\ slab \in Nat \ {0}
         /\ outstanding[slab].size \in Nat \ {0}
         /\ outstanding[slab].alignment \in Nat \ {0} /\ slab % outstanding[slab].alignment = 0
<1>1. slab \in DOMAIN outstanding
  BY DEF OwnersSound, OwnersApart
<1> QED
  BY <1>1, ChunkOfBlock DEF OwnersSound

\* What leaves the slabs and the nodes alone keeps them sound.
LEMMA NodesKept ==
  ASSUME OwnersSound, NodesSound, UNCHANGED <<allocations, freesize, nodes>>,
         \A slab \in SlabsOfNodes :
           slab \in DOMAIN outstanding' /\ outstanding'[slab] = outstanding[slab],
         destruct_list' \in Seq(nodes), IsInjective(destruct_list')
  PROVE  NodesSound'
<1>1. SlabsOfNodes' = SlabsOfNodes
  BY DEF SlabsOfNodes
<1>2. OpenSlabIsLast'
  BY OpenSlab DEF NodesSound, OpenSlabIsLast
<1>3. \A node \in nodes' : \E slab \in SlabsOfNodes' : LiesIn(node, slab)'
  BY <1>1 DEF NodesSound, LiesIn
<1> QED
  BY <1>2, <1>3 DEF NodesSound

\* A node that is new and apart from the others, in a slab.
LEMMA NewNode ==
  ASSUME OwnersSound, NodesSound,
         NEW block \in [at : Nat, size : Nat \ {0}, alignment : {Word}], Construct(block),
         block.at % Word = 0,
         \A node \in nodes : Apart(block, node),
         \A slab \in SlabsOfNodes :
           slab \in SlabsOfNodes' /\ outstanding'[slab] = outstanding[slab],
         NEW home \in SlabsOfNodes', LiesIn(block, home)',
         OpenSlabIsLast'
  PROVE  NodesSound'
<1>1. /\ nodes' = nodes \union {block}
      /\ destruct_list' = IF block.size \in DestructedSizes THEN Append(destruct_list, block)
                          ELSE destruct_list
  BY DEF Construct
<1>2. ~ Apart(block, block)
  BY DEF Apart
<1>3. block \notin nodes
  BY <1>2
<1>4. \A node \in nodes : Apart(node, block)
  BY DEF Apart
<1>5. \A m, n \in nodes' : m # n => Apart(m, n)
  BY <1>1, <1>4 DEF NodesSound
<1>6. \A node \in nodes' : \E slab \in SlabsOfNodes' : LiesIn(node, slab)'
  <2>1. ASSUME NEW node \in nodes PROVE \E slab \in SlabsOfNodes' : LiesIn(node, slab)'
    <3>1. PICK slab \in SlabsOfNodes : LiesIn(node, slab)
      BY DEF NodesSound
    <3>2. LiesIn(node, slab)'
      BY <3>1 DEF LiesIn
    <3> QED
      BY <3>1, <3>2
  <2> QED
    BY <1>1, <2>1
<1>7. destruct_list \in Seq(nodes') /\ block \in nodes' /\ IsInjective(destruct_list)
      /\ block \notin Range(destruct_list)
  <2>1. destruct_list \in Seq(nodes) /\ nodes \subseteq nodes' /\ IsInjective(destruct_list)
    BY <1>1 DEF NodesSound
  <2>2. Range(destruct_list) \in SUBSET nodes
    BY <2>1, RangeOfSeq
  <2> QED
    BY <1>1, <1>3, <2>1, <2>2, SeqMonotonic
<1>8. destruct_list' \in Seq(nodes') /\ IsInjective(destruct_list')
  BY <1>1, <1>7, PushedLast
<1>9. nodes' \subseteq [at : Nat, size : Nat \ {0}, alignment : {Word}]
  BY <1>1 DEF NodesSound
<1>10. \A node \in nodes' : node.at % Word = 0
  BY <1>1 DEF NodesSound
<1> QED
  BY <1>5, <1>6, <1>8, <1>9, <1>10 DEF NodesSound

\* A node is cut off where the last one ended, on a multiple of a pointer.
LEMMA CutAt ==
  ASSUME NEW slab \in Nat, slab % Word = 0, NEW free \in 0 .. SlabSize, free % Word = 0
  PROVE  LET at == slab + SlabSize - free IN
         at \in Nat /\ at >= slab /\ at % Word = 0 /\ AlignNumber(at, Word) = at
<1> DEFINE rest == SlabSize - free
<1>1. Word \in Nat /\ Word > 0 /\ SlabSize \in Nat /\ SlabSize % Word = 0 /\ free \in Nat
      /\ SlabSize >= free
  BY Requests, SlabAssumption
<1>2. rest % Word = 0
  BY ONLY <1>1, SumOfMultiples, free % Word = 0
<1>3. rest \in Nat
  BY <1>1
<1> HIDE DEF rest
<1>4. (slab + rest) % Word = 0
  BY ONLY <1>1, <1>2, <1>3, SumOfMultiples, slab \in Nat, slab % Word = 0
<1>5. slab + SlabSize - free = slab + rest
  BY <1>1 DEF rest
<1> QED
  BY <1>3, <1>4, <1>5 DEF AlignNumber

LEMMA BumpNodeNodes ==
  ASSUME OwnersSound, OwnersSound', NodesSound, NEW size \in NodeSizes, BumpNode(size, Word)
  PROVE  NodesSound'
<1>1. size \in Nat \ {0} /\ size % Word = 0 /\ SafeSize(size, Word) = size /\ Word \in Nat \ {0}
      /\ SlabSize \in Nat \ {0}
  BY Requests DEF SafeSize
<1>2. freesize \in 0 .. SlabSize /\ freesize > 0 /\ freesize % Word = 0 /\ size < freesize
  BY <1>1 DEF BumpNode, OwnersSound, NodeSlabsSound
<1>3. PICK free \in 0 .. SlabSize : free = freesize
  BY <1>2
<1>4. PICK slab \in SlabsOfNodes : slab = Last(allocations)
  BY <1>2, OpenSlab
<1> DEFINE at == slab + SlabSize - free
           block == Block(at, size, Word)
<1>5. /\ freesize' = free - size
      /\ Construct(Block(AlignNumber(at, Word), size, Word))
      /\ UNCHANGED <<outstanding, allocations>>
  BY <1>1, <1>3, <1>4 DEF BumpNode, Cut, tracking
<1>6. /\ slab \in Nat \ {0} /\ slab \in DOMAIN outstanding /\ outstanding[slab].size = SlabSize
      /\ slab % Word = 0
  <2>1. outstanding[slab].size = SlabSize /\ outstanding[slab].alignment = Word
    BY <1>2, <1>4 DEF OwnersSound, NodeSlabsSound
  <2> QED
    BY <2>1, SlabIsBlock
<1>7. \A node \in nodes : node.at + node.size <= at \/ node.at >= slab + SlabSize
  BY <1>2, <1>3, <1>4 DEF NodesSound, OpenSlabIsLast
<1>8. SlabsOfNodes' = SlabsOfNodes /\ Last(allocations') = slab
  BY <1>4, <1>5 DEF SlabsOfNodes
<1>9. at \in Nat /\ at >= slab /\ at % Word = 0 /\ AlignNumber(at, Word) = at
  BY <1>2, <1>3, <1>6, CutAt
<1>10. /\ at + size = slab + SlabSize - freesize' /\ at + size <= slab + SlabSize
       /\ freesize' > 0
  BY <1>1, <1>2, <1>3, <1>5, <1>6
<1>11. Construct(block)
  BY <1>5, <1>9
<1> HIDE DEF at
<1>12. /\ block \in [at : Nat, size : Nat \ {0}, alignment : {Word}]
       /\ block.at = at /\ block.size = size
  BY <1>1, <1>9 DEF Block
<1> HIDE DEF block
<1>13. \A node \in nodes : node.at \in Nat /\ node.size \in Nat
  BY DEF NodesSound
<1>14. \A node \in nodes : Apart(block, node)
  BY <1>1, <1>6, <1>7, <1>9, <1>10, <1>12, <1>13 DEF Apart
<1>15. LiesIn(block, slab)'
  BY <1>5, <1>6, <1>9, <1>10, <1>12 DEF LiesIn
<1>16. OpenSlabIsLast'
  <2>1. \A node \in nodes :
          node.at + node.size <= slab + SlabSize - freesize' \/ node.at >= slab + SlabSize
    BY <1>1, <1>6, <1>7, <1>9, <1>10, <1>13
  <2>2. block.at + block.size <= slab + SlabSize - freesize'
    BY <1>1, <1>6, <1>9, <1>10, <1>12
  <2>3. nodes' = nodes \union {block}
    BY <1>11 DEF Construct
  <2> QED
    BY <1>5, <1>6, <1>8, <2>1, <2>2, <2>3 DEF OpenSlabIsLast
<1>17. block.at % Word = 0
  BY <1>9, <1>12
<1>18. \A other \in SlabsOfNodes :
         other \in SlabsOfNodes' /\ outstanding'[other] = outstanding[other]
  BY <1>5, <1>8
<1>19. slab \in SlabsOfNodes'
  BY <1>8
<1> QED
  BY <1>11, <1>12, <1>14, <1>15, <1>16, <1>17, <1>18, <1>19, NewNode

\* What malloc has just given is apart from the nodes there are.
LEMMA ApartFromNodes ==
  ASSUME OwnersSound, NodesSound, NEW ptr \in Nat, NEW size \in Nat,
         \A p \in DOMAIN outstanding : ptr + size <= p \/ p + outstanding[p].size <= ptr
  PROVE  \A node \in nodes : ptr + size <= node.at \/ node.at + node.size <= ptr
<1> SUFFICES ASSUME NEW node \in nodes
             PROVE  ptr + size <= node.at \/ node.at + node.size <= ptr
  OBVIOUS
<1>1. PICK slab \in SlabsOfNodes : LiesIn(node, slab)
  BY DEF NodesSound
<1>2. slab \in DOMAIN outstanding /\ slab \in Nat /\ outstanding[slab].size \in Nat
  BY SlabIsBlock
<1>3. slab <= node.at /\ node.at + node.size <= slab + outstanding[slab].size
  BY <1>1 DEF LiesIn
<1>4. node.at \in Nat /\ node.size \in Nat
  BY DEF NodesSound
<1>5. ptr + size <= slab \/ slab + outstanding[slab].size <= ptr
  BY <1>2
<1> QED
  BY <1>2, <1>3, <1>4, <1>5

LEMMA NewSlabNodeNodes ==
  ASSUME OwnersSound, OwnersSound', NodesSound, NEW size \in NodeSizes, NEW base \in Bases,
         NewSlabNode(size, Word, base)
  PROVE  NodesSound'
<1> DEFINE ptr == Ptr(base, Word)
           block == Block(ptr, size, Word)
<1>1. size \in Nat \ {0} /\ SafeSize(size, Word) = size /\ Word \in Nat \ {0} /\ CanAlign(Word)
      /\ SlabSize \in Nat \ {0} /\ SlabSize % Word = 0
  BY Requests, SlabAssumption DEF SafeSize
<1>2. /\ size < SlabSize /\ freesize' = SlabSize - size
      /\ Construct(Block(AlignNumber(ptr + SlabSize - SlabSize, Word), size, Word))
      /\ allocations' = Append(allocations, ptr)
      /\ Allocate(SlabSize, Word, base)
  BY <1>1 DEF NewSlabNode, Cut
<1>3. /\ ptr \in Nat \ {0} /\ ptr % Word = 0
      /\ DOMAIN outstanding' = DOMAIN outstanding \union {ptr}
      /\ outstanding'[ptr] = Block(ptr, SlabSize, Word)
      /\ \A p \in DOMAIN outstanding : outstanding'[p] = outstanding[p]
      /\ \A p \in DOMAIN outstanding : ptr + SlabSize <= p \/ p + outstanding[p].size <= ptr
  <2>1. /\ TrackingSound /\ SlabSize \in Nat \ {0} /\ Word \in Nat /\ CanAlign(Word)
        /\ Allocate(SlabSize, Word, base) /\ base \in Bases
    BY <1>1, <1>2 DEF OwnersSound
  <2> QED
    BY ONLY <2>1, Allocated
<1> HIDE DEF ptr
<1>4. allocations \in Seq(Nat)
  BY DEF OwnersSound, NodeSlabsSound
<1>5. Last(allocations') = ptr /\ SlabsOfNodes' = SlabsOfNodes \union {ptr}
  BY <1>2, <1>3, <1>4, PushedLast DEF SlabsOfNodes
<1>6. SlabSize \in 0 .. SlabSize
  BY <1>1
<1>7. AlignNumber(ptr + SlabSize - SlabSize, Word) = ptr
  <2>1. ptr + SlabSize - SlabSize = ptr
    BY <1>1, <1>3
  <2> QED
    BY <1>3, <2>1 DEF AlignNumber
<1>8. Construct(block)
  BY <1>2, <1>7
<1>9. /\ block \in [at : Nat, size : Nat \ {0}, alignment : {Word}]
      /\ block.at = ptr /\ block.size = size
  BY <1>1, <1>3 DEF Block
<1> HIDE DEF block
<1>10. \A node \in nodes : node.at \in Nat /\ node.size \in Nat
  BY DEF NodesSound
<1>11. \A node \in nodes : ptr + SlabSize <= node.at \/ node.at + node.size <= ptr
  BY <1>1, <1>3, ApartFromNodes
<1>12. \A node \in nodes : Apart(block, node)
  BY <1>1, <1>2, <1>3, <1>9, <1>10, <1>11 DEF Apart
<1>13. outstanding'[ptr].size = SlabSize
  BY <1>3 DEF Block
<1>14. LiesIn(block, ptr)'
  BY <1>1, <1>2, <1>3, <1>9, <1>13 DEF LiesIn
<1>15. OpenSlabIsLast'
  <2>1. ptr + SlabSize - freesize' = ptr + size
    BY <1>1, <1>2, <1>3
  <2>2. nodes' = nodes \union {block}
    BY <1>8 DEF Construct
  <2>3. \A node \in nodes : node.at + node.size <= ptr + size \/ node.at >= ptr + SlabSize
    BY <1>1, <1>3, <1>10, <1>11
  <2>4. block.at + block.size <= ptr + size
    BY <1>1, <1>3, <1>9
  <2>5. \A node \in nodes' :
          node.at + node.size <= ptr + SlabSize - freesize' \/ node.at >= ptr + SlabSize
    BY <2>1, <2>2, <2>3, <2>4
  <2> QED
    BY <1>3, <1>5, <1>13, <2>5 DEF OpenSlabIsLast
<1>16. block.at % Word = 0
  BY <1>3, <1>9
<1>17. \A other \in SlabsOfNodes :
         other \in SlabsOfNodes' /\ outstanding'[other] = outstanding[other]
  BY <1>3, <1>5, SlabIsBlock
<1>18. ptr \in SlabsOfNodes'
  BY <1>5
<1> QED
  BY <1>8, <1>9, <1>12, <1>14, <1>15, <1>16, <1>17, <1>18, NewNode

LEMMA LargeNodeNodes ==
  ASSUME OwnersSound, OwnersSound', NodesSound, NEW size \in NodeSizes, NEW base \in Bases,
         LargeNode(size, Word, base)
  PROVE  NodesSound'
<1> DEFINE ptr == Ptr(base, Word)
           block == Block(ptr, size, Word)
<1>1. size \in Nat \ {0} /\ Word \in Nat \ {0} /\ CanAlign(Word) /\ SlabSize \in Nat \ {0}
  BY Requests
<1>2. /\ freesize' = freesize
      /\ Construct(block)
      /\ allocations' = IF freesize = 0 THEN Append(allocations, ptr)
                        ELSE Front(allocations) \o <<ptr, Last(allocations)>>
      /\ Allocate(size, Word, base)
  BY DEF LargeNode
<1>3. /\ ptr \in Nat \ {0} /\ ptr % Word = 0
      /\ DOMAIN outstanding' = DOMAIN outstanding \union {ptr}
      /\ outstanding'[ptr] = Block(ptr, size, Word)
      /\ \A p \in DOMAIN outstanding : outstanding'[p] = outstanding[p]
      /\ \A p \in DOMAIN outstanding : ptr + size <= p \/ p + outstanding[p].size <= ptr
  BY <1>1, <1>2, Allocated DEF OwnersSound
<1> HIDE DEF ptr
<1>4. allocations \in Seq(Nat) /\ freesize \in 0 .. SlabSize
  BY DEF OwnersSound, NodeSlabsSound
<1>5. /\ SlabsOfNodes' = SlabsOfNodes \union {ptr}
      /\ freesize > 0 => Last(allocations') = Last(allocations)
  <2>1. CASE freesize = 0
    BY <1>2, <1>3, <1>4, <2>1, PushedLast DEF SlabsOfNodes
  <2>2. CASE freesize # 0
    <3>1. allocations # << >> /\ allocations \in Seq(Nat) /\ ptr \in Nat
      BY <1>1, <1>3, <1>4, <2>2, OpenSlab
    <3> DEFINE t == Front(allocations) \o <<ptr, Last(allocations)>>
    <3>2. Last(t) = Last(allocations) /\ Range(t) = Range(allocations) \union {ptr}
      BY ONLY <3>1, PushedBeforeLast
    <3>3. allocations' = t
      BY <1>2, <2>2
    <3> HIDE DEF t
    <3> QED
      BY <3>2, <3>3 DEF SlabsOfNodes
  <2> QED
    BY <2>1, <2>2
<1>6. /\ block \in [at : Nat, size : Nat \ {0}, alignment : {Word}]
      /\ block.at = ptr /\ block.size = size /\ outstanding'[ptr].size = size
  BY <1>1, <1>3 DEF Block
<1> HIDE DEF block
<1>7. \A node \in nodes : node.at \in Nat /\ node.size \in Nat
  BY DEF NodesSound
<1>8. \A node \in nodes : ptr + size <= node.at \/ node.at + node.size <= ptr
  BY <1>1, <1>3, ApartFromNodes
<1>9. \A node \in nodes : Apart(block, node)
  BY <1>6, <1>8 DEF Apart
<1>10. LiesIn(block, ptr)'
  BY <1>1, <1>3, <1>6 DEF LiesIn
<1>11. OpenSlabIsLast'
  <2> SUFFICES ASSUME freesize > 0 PROVE OpenSlabIsLast'
    BY <1>2 DEF OpenSlabIsLast
  <2> DEFINE slab == Last(allocations)
  <2>1. slab \in SlabsOfNodes /\ outstanding[slab].size = SlabSize
    BY OpenSlab DEF OwnersSound, NodeSlabsSound
  <2>2. Last(allocations') = slab
    BY <1>5
  <2>3. \A node \in nodes :
          node.at + node.size <= slab + SlabSize - freesize \/ node.at >= slab + SlabSize
    BY DEF NodesSound, OpenSlabIsLast
  <2> HIDE DEF slab
  <2>4. slab \in Nat /\ slab \in DOMAIN outstanding
    BY <2>1, SlabIsBlock
  <2>5. ptr + size <= slab \/ slab + SlabSize <= ptr
    BY <1>3, <2>1, <2>4
  <2>6. block.at + block.size <= slab + SlabSize - freesize \/ block.at >= slab + SlabSize
    BY <1>1, <1>3, <1>4, <1>6, <2>4, <2>5
  <2>7. nodes' = nodes \union {block}
    BY <1>2 DEF Construct
  <2>8. slab \in DOMAIN outstanding' /\ outstanding'[slab].size = SlabSize
    BY <1>3, <2>1, <2>4
  <2> QED
    BY <1>2, <2>2, <2>3, <2>6, <2>7, <2>8 DEF OpenSlabIsLast
<1>12. block.at % Word = 0
  BY <1>3, <1>6
<1>13. \A other \in SlabsOfNodes :
         other \in SlabsOfNodes' /\ outstanding'[other] = outstanding[other]
  BY <1>3, <1>5, SlabIsBlock
<1>14. ptr \in SlabsOfNodes'
  BY <1>5
<1> QED
  BY <1>2, <1>6, <1>9, <1>10, <1>11, <1>12, <1>13, <1>14, NewNode

\* A block that stays outstanding stays as it is.
LEMMA BlocksKept ==
  ASSUME TrackingSound, [Next]_vars
  PROVE  \A p \in DOMAIN outstanding : p \in DOMAIN outstanding' => outstanding'[p] = outstanding[p]
<1>1. CASE Next
  BY <1>1, OneCall, Allocated, Deallocated DEF tracking
<1>2. CASE UNCHANGED vars
  BY <1>2 DEF vars, tracking
<1> QED
  BY <1>1, <1>2

\* Each action leaves the nodes apart, in their slabs, and on the list of destructors once.
LEMMA NodesStep ==
  ASSUME OwnersSound, NodesSound, [Next]_vars
  PROVE  NodesSound'
<1>1. OwnersSound'
  BY OwnersStep
<1>2. SlabsOfNodes \subseteq DOMAIN outstanding /\ SlabsOfNodes' \subseteq DOMAIN outstanding'
  BY <1>1 DEF OwnersSound, OwnersApart
<1>3. ASSUME UNCHANGED allocations
      PROVE  \A slab \in SlabsOfNodes :
               slab \in DOMAIN outstanding' /\ outstanding'[slab] = outstanding[slab]
  <2>1. SlabsOfNodes' = SlabsOfNodes
    BY <1>3 DEF SlabsOfNodes
  <2> QED
    BY <1>2, <2>1, BlocksKept DEF OwnersSound
<1>4. destruct_list \in Seq(nodes) /\ IsInjective(destruct_list)
  BY DEF NodesSound
<1>5. ASSUME UNCHANGED slabs PROVE NodesSound'
  <2>1. UNCHANGED <<allocations, freesize, nodes>> /\ destruct_list' = destruct_list
    BY <1>5 DEF slabs
  <2> QED
    BY <1>3, <1>4, <2>1, NodesKept
<1>6. ASSUME NEW size \in NodeSizes, ConstructNode(size) PROVE NodesSound'
  <2>1. NodeSize(size) = size
    BY Requests
  <2>2. \/ BumpNode(size, Word)
        \/ \E base \in Bases : NewSlabNode(size, Word, base) \/ LargeNode(size, Word, base)
    BY <1>6, <2>1 DEF ConstructNode, SlabAllocate
  <2> QED
    BY <1>1, <2>2, BumpNodeNodes, NewSlabNodeNodes, LargeNodeNodes
<1>7. CASE DestructAst
  <2>1. /\ destruct_list # << >> /\ destruct_list' = Tail(destruct_list)
        /\ UNCHANGED <<allocations, freesize, nodes>>
    BY <1>7 DEF DestructAst, DestructNode
  <2>2. destruct_list' \in Seq(nodes) /\ IsInjective(destruct_list')
    BY <1>4, <2>1, TookFirst
  <2> QED
    BY <1>3, <2>1, <2>2, NodesKept
<1>8. CASE DestroyAst
  <2>1. freesize' = 0 /\ nodes' = {} /\ destruct_list' = << >>
    BY <1>8 DEF DestroyAst, FreeSlabs
  <2>2. << >> \in Seq({}) /\ IsInjective(<< >>)
    BY EmptySeq DEF IsInjective
  <2> QED
    BY <2>1, <2>2 DEF NodesSound, OpenSlabIsLast
<1>9. CASE UNCHANGED vars
  BY <1>5, <1>9 DEF vars
<1>10. CASE CreateObject \/ \E item \in items : DestructObject(item)
  BY <1>5, <1>10 DEF CreateObject, DestructObject
<1>11. CASE \/ \E size \in BufferSizes : AllocateBuffer(size)
            \/ \E size \in TypeSizes : CreateType(size)
            \/ \E request \in ProgramRequests : RtMalloc(request)
            \/ \E ptr \in program : RtFree(ptr)
  BY <1>5, <1>11 DEF AllocateBuffer, CreateType, RtMalloc, RtFree
<1>12. CASE DestroyFactory \/ DestroyTypes \/ DestroyAllocator
  BY <1>5, <1>12 DEF DestroyFactory, DestroyTypes, DestroyAllocator
<1> QED
  BY <1>6, <1>7, <1>8, <1>9, <1>10, <1>11, <1>12 DEF Next

LEMMA NodesInvariant == Spec => [](OwnersSound /\ NodesSound)
<1>1. Init => NodesSound
  <2>1. << >> \in Seq({}) /\ IsInjective(<< >>)
    BY EmptySeq DEF IsInjective
  <2> QED
    BY <2>1 DEF Init, SlabInit, NodesSound, OpenSlabIsLast
<1>2. OwnersSound /\ NodesSound /\ [Next]_vars => (OwnersSound /\ NodesSound)'
  BY OwnersStep, NodesStep
<1> QED
  BY <1>1, <1>2, OwnersInitially, PTL DEF Spec

\* slab_allocator.h:90, the "invariant that the last open slab is at the end":
\* OpenSlabIsLast.
THEOREM OpenSlabStaysLast == Spec => []OpenSlabIsLast
<1>1. NodesSound => OpenSlabIsLast
  BY DEF NodesSound
<1> QED
  BY <1>1, NodesInvariant, PTL

\* ~slab_allocator runs each destructor on a node whose memory is still there:
\* DestructorsFindNodes.
THEOREM DestructorsAlwaysFindNodes == Spec => []DestructorsFindNodes
<1>1. OwnersSound /\ NodesSound => DestructorsFindNodes
  <2> SUFFICES ASSUME OwnersSound, NodesSound PROVE DestructorsFindNodes
    OBVIOUS
  <2>1. IsInjective(destruct_list) /\ Range(destruct_list) \subseteq nodes
    BY RangeOfSeq DEF NodesSound
  <2>2. \A node \in nodes : \E slab \in Range(allocations) :
          /\ slab \in DOMAIN outstanding
          /\ slab <= node.at /\ node.at + node.size <= slab + outstanding[slab].size
    BY DEF NodesSound, LiesIn, OwnersSound, OwnersApart, SlabsOfNodes
  <2> QED
    BY <2>1, <2>2 DEF DestructorsFindNodes
<1> QED
  BY <1>1, NodesInvariant, PTL

-----------------------------------------------------------------------------
(* The objects of the pool.                                                 *)

\* The places of the objects in a slab.
Places(slab) == {slab + (k - 1) * ActualItemSize : k \in 1 .. PoolSlab \div ActualItemSize}

LEMMA ItemFits ==
  /\ ActualItemSize \in Nat \ {0} /\ ActualItemSize % Word = 0 /\ ItemSize <= ActualItemSize
  /\ ItemSize \in Nat \ {0}
  /\ PoolSlab \div ActualItemSize \in Nat \ {0}
<1> DEFINE size == IF ItemSize < Word THEN Word ELSE ItemSize
<1>1. /\ Word \in Nat \ {0} /\ ItemSize \in Nat \ {0} /\ PoolSlab \in Nat
      /\ ItemSize + Word <= PoolSlab
  BY Requests, PoolAssumption
<1>2. size \in Nat \ {0} /\ ItemSize <= size
  BY <1>1
<1>3. size = Word \/ size + Word - 1 <= PoolSlab
  BY <1>1
<1>4. ActualItemSize = AlignNumber(size, Word)
  BY DEF ActualItemSize
<1> HIDE DEF size
<1>5. /\ ActualItemSize \in Nat /\ ActualItemSize >= size /\ ActualItemSize <= size + Word - 1
      /\ ActualItemSize % Word = 0
      /\ size % Word = 0 => ActualItemSize = size
  <2>1. size \in Nat /\ Word \in Nat /\ Word > 0
    BY <1>1, <1>2
  <2> QED
    BY ONLY <1>4, <2>1, Aligned
<1>6. ActualItemSize <= PoolSlab
  <2>1. CASE size = Word
    <3>1. Word % Word = 0
      <4>1. (Word * 1) % Word = 0 /\ Word * 1 = Word
        BY <1>1, Multiples
      <4> QED
        BY <4>1
    <3> QED
      BY <1>1, <1>5, <2>1, <3>1
  <2>2. CASE size + Word - 1 <= PoolSlab
    BY <1>1, <1>2, <1>5, <2>2
  <2> QED
    BY <1>3, <2>1, <2>2
<1>7. PICK n \in Nat \ {0} : n = ActualItemSize /\ n <= PoolSlab
  BY <1>1, <1>2, <1>5, <1>6
<1>8. PoolSlab \div n \in Nat \ {0}
  <2>1. /\ PoolSlab = n * (PoolSlab \div n) + (PoolSlab % n) /\ PoolSlab \div n \in Nat
        /\ (PoolSlab % n) \in 0 .. n - 1
    BY <1>1, <1>7, Multiples
  <2>2. PoolSlab \div n # 0
    BY <1>1, <1>7, <2>1
  <2> QED
    BY <2>1, <2>2
<1> QED
  BY <1>1, <1>2, <1>5, <1>7, <1>8

\* Each object lies in its slab, on a multiple of a pointer, apart from the others.
LEMMA PlaceFacts ==
  ASSUME NEW slab \in Nat, slab % Word = 0, NEW at \in Places(slab)
  PROVE  /\ at \in Nat /\ at % Word = 0 /\ slab <= at /\ at + ItemSize <= slab + PoolSlab
         /\ \A other \in Places(slab) :
              other # at => at + ItemSize <= other \/ other + ItemSize <= at
<1>1. PICK w \in Nat \ {0} : w = ActualItemSize /\ w % Word = 0 /\ ItemSize <= w
  BY ItemFits
<1>2. PICK n \in Nat : n = PoolSlab \div w
  BY <1>1, ItemFits
<1>3. PoolSlab \in Nat /\ ItemSize \in Nat /\ Word \in Nat /\ Word > 0
  BY Requests, PoolAssumption
<1>4. PICK k \in 1 .. n : at = slab + (k - 1) * w
  BY <1>1, <1>2 DEF Places
<1>5. (k - 1) * w \in Nat /\ (k - 1) * w + w <= PoolSlab
  BY <1>1, <1>2, <1>3, PieceInside
<1>6. at % Word = 0
  <2>1. ((k - 1) * w) % w = 0
    <3>1. k - 1 \in Nat /\ (k - 1) * w = w * (k - 1)
      BY <1>1, <1>2, <1>4
    <3> QED
      BY <1>1, <3>1, Multiples
  <2> DEFINE a == (k - 1) * w
  <2>2. a \in Nat /\ w \in Nat /\ Word \in Nat /\ Word > 0 /\ w > 0 /\ w % Word = 0 /\ a % w = 0
    BY <1>1, <1>3, <1>5, <2>1
  <2> HIDE DEF a
  <2>3. a % Word = 0
    BY ONLY <2>2, MultipleOfMultiple
  <2>4. (slab + a) % Word = 0
    BY ONLY <2>2, <2>3, slab \in Nat, slab % Word = 0, SumOfMultiples
  <2> QED
    BY <1>4, <2>4 DEF a
<1>7. ASSUME NEW other \in Places(slab), other # at
      PROVE  at + ItemSize <= other \/ other + ItemSize <= at
  <2>1. PICK j \in 1 .. n : other = slab + (j - 1) * w
    BY <1>1, <1>2 DEF Places
  <2>2. (j - 1) * w \in Nat
    BY <1>1, <1>2, <1>3, PieceInside
  <2>3. j # k /\ j \in Nat /\ k \in Nat
    BY <1>2, <1>4, <1>7, <2>1
  <2>4. CASE j < k
    <3>1. (j - 1) * w + w <= (k - 1) * w
      BY <1>1, <2>3, <2>4, PiecesApart
    <3> QED
      BY <1>1, <1>3, <1>4, <1>5, <2>1, <2>2, <3>1
  <2>5. CASE k < j
    <3>1. (k - 1) * w + w <= (j - 1) * w
      BY <1>1, <2>3, <2>5, PiecesApart
    <3> QED
      BY <1>1, <1>3, <1>4, <1>5, <2>1, <2>2, <3>1
  <2> QED
    BY <2>3, <2>4, <2>5
<1> QED
  BY <1>1, <1>3, <1>4, <1>5, <1>6, <1>7

\* A slab puts each of its places on the list once.
LEMMA EntriesFacts ==
  ASSUME NEW slab \in Nat, slab % Word = 0
  PROVE  /\ Entries(slab) \in Seq(Nat) /\ Entries(slab) # << >>
         /\ IsInjective(Entries(slab)) /\ Range(Entries(slab)) = Places(slab)
<1>1. PICK n \in Nat \ {0} : n = PoolSlab \div ActualItemSize
  BY ItemFits
<1> DEFINE f == [k \in 1 .. n |-> slab + (k - 1) * ActualItemSize]
           r == Entries(slab)
<1>2. ASSUME NEW k \in 1 .. n PROVE f[k] \in Nat /\ f[k] \in Places(slab)
  <2>1. f[k] \in Places(slab)
    BY <1>1 DEF Places
  <2> QED
    BY <2>1, PlaceFacts
<1>3. f \in [1 .. n -> Nat]
  BY <1>2
<1>4. f \in Seq(Nat)
  <2> HIDE DEF f
  <2>1. f \in UNION {[1 .. m -> Nat] : m \in Nat}
    BY <1>1, <1>3
  <2> QED
    BY <2>1, SeqDef
<1>5. Len(f) = n
  <2>1. Len(f) \in Nat /\ DOMAIN f = 1 .. Len(f) /\ DOMAIN f = 1 .. n
    BY <1>4, LenProperties
  <2> HIDE DEF f
  <2> QED
    BY <1>1, <2>1
<1>6. ASSUME NEW j \in 1 .. n, NEW k \in 1 .. n, f[j] = f[k] PROVE j = k
  <2>1. ActualItemSize \in Nat \ {0}
    BY ItemFits
  <2>2. PICK w \in Nat \ {0} : w = ActualItemSize
    BY <2>1
  <2>3. (j - 1) * w \in Nat /\ (k - 1) * w \in Nat
    <3>1. j - 1 \in Nat /\ k - 1 \in Nat
      BY <1>1
    <3> QED
      BY <2>2, <3>1
  <2>4. (j - 1) * w = (k - 1) * w
    BY <1>6, <2>2, <2>3
  <2>5. j \in Nat /\ k \in Nat
    BY <1>1
  <2>6. CASE j < k
    <3>1. (j - 1) * w + w <= (k - 1) * w
      BY <2>2, <2>5, <2>6, PiecesApart
    <3> QED
      BY <2>2, <2>3, <2>4, <3>1
  <2>7. CASE k < j
    <3>1. (k - 1) * w + w <= (j - 1) * w
      BY <2>2, <2>5, <2>7, PiecesApart
    <3> QED
      BY <2>2, <2>3, <2>4, <3>1
  <2> QED
    BY <2>5, <2>6, <2>7
<1>7. Places(slab) = {f[k] : k \in 1 .. n}
  BY <1>1 DEF Places
<1>8. r = [i \in 1 .. n |-> f[(n - i) + 1]]
  <2>1. r = Reverse(f)
    BY <1>1 DEF Entries
  <2> HIDE DEF f
  <2> QED
    BY <1>5, <2>1 DEF Reverse
<1> HIDE DEF f, r
<1>9. \A i \in 1 .. n : (n - i) + 1 \in 1 .. n /\ r[i] = f[(n - i) + 1] /\ r[i] \in Nat
  BY <1>1, <1>2, <1>8
<1>10. r \in [1 .. n -> Nat]
  BY <1>8, <1>9
<1>11. r \in Seq(Nat) /\ DOMAIN r = 1 .. n
  BY <1>1, <1>10, SeqDef
<1>12. r # << >>
  BY <1>1, <1>11
<1>13. \A i, j \in 1 .. n : (n - i) + 1 = (n - j) + 1 => i = j
  BY <1>1
<1>14. IsInjective(r)
  <2>1. ASSUME NEW i \in 1 .. n, NEW j \in 1 .. n, r[i] = r[j] PROVE i = j
    <3>1. f[(n - i) + 1] = f[(n - j) + 1]
      BY <1>9, <2>1
    <3>2. (n - i) + 1 \in 1 .. n /\ (n - j) + 1 \in 1 .. n
      BY <1>9
    <3>3. (n - i) + 1 = (n - j) + 1
      BY <1>6, <3>1, <3>2
    <3> QED
      BY <1>13, <3>3
  <2> QED
    BY <1>11, <2>1 DEF IsInjective
<1>15. Range(r) = Places(slab)
  <2>1. \A k \in 1 .. n : (n - ((n - k) + 1)) + 1 = k
    BY <1>1
  <2>2. \A k \in 1 .. n : \E i \in 1 .. n : r[i] = f[k]
    BY <1>9, <2>1
  <2>3. \A i \in 1 .. n : \E k \in 1 .. n : r[i] = f[k]
    BY <1>9
  <2>4. Range(r) = {r[i] : i \in 1 .. n}
    BY <1>11 DEF Range
  <2> HIDE DEF Places
  <2> QED
    BY ONLY <1>7, <2>2, <2>3, <2>4
<1> QED
  BY <1>11, <1>12, <1>14, <1>15 DEF r

\* One more at the front.
LEMMA PushedFirst ==
  ASSUME NEW S, NEW s \in Seq(S), NEW e \in S
  PROVE  /\ <<e>> \o s \in Seq(S)
         /\ Range(<<e>> \o s) = Range(s) \union {e}
         /\ IsInjective(s) /\ e \notin Range(s) => IsInjective(<<e>> \o s)
<1> DEFINE u == <<e>>
           t == u \o s
           n == Len(s)
<1>1. n \in Nat /\ DOMAIN s = 1 .. n
  BY LenProperties
<1>2. u \in Seq(S) /\ Len(u) = 1 /\ u[1] = e
  OBVIOUS
<1> HIDE DEF u, n
<1>3. /\ t \in Seq(S) /\ Len(t) = Len(u) + Len(s)
      /\ \A i \in 1 .. Len(u) + Len(s) : t[i] = IF i <= Len(u) THEN u[i] ELSE s[i - Len(u)]
  BY <1>2, ConcatProperties
<1> HIDE DEF t
<1>4. Len(t) = 1 + n /\ \A i \in 1 .. 1 + n : t[i] = IF i <= 1 THEN u[i] ELSE s[i - 1]
  BY <1>2, <1>3 DEF n
<1>5. DOMAIN t = 1 .. 1 + n
  BY <1>3, <1>4, LenProperties
<1>6. /\ 1 \in DOMAIN t /\ t[1] = e
      /\ \A i \in DOMAIN t : i = 1 \/ (i - 1 \in DOMAIN s /\ t[i] = s[i - 1])
      /\ \A i \in DOMAIN s : i + 1 \in DOMAIN t /\ t[i + 1] = s[i]
      /\ \A i, j \in DOMAIN t : i - 1 = j - 1 => i = j
  <2>1. 1 \in DOMAIN t /\ t[1] = e
    BY <1>1, <1>2, <1>4, <1>5
  <2>2. ASSUME NEW i \in DOMAIN t PROVE i = 1 \/ (i - 1 \in DOMAIN s /\ t[i] = s[i - 1])
    BY <1>1, <1>4, <1>5
  <2>3. ASSUME NEW i \in DOMAIN s PROVE i + 1 \in DOMAIN t /\ t[i + 1] = s[i]
    <3>1. i + 1 \in DOMAIN t /\ i + 1 - 1 = i /\ ~ i + 1 <= 1
      BY <1>1, <1>5
    <3> QED
      BY <1>4, <1>5, <3>1
  <2>4. \A i, j \in DOMAIN t : i - 1 = j - 1 => i = j
    BY <1>1, <1>5
  <2> QED
    BY <2>1, <2>2, <2>3, <2>4
<1>7. Range(t) = Range(s) \union {e}
  BY <1>6 DEF Range
<1>8. ASSUME IsInjective(s), e \notin Range(s) PROVE IsInjective(t)
  BY <1>6, <1>8 DEF IsInjective, Range
<1> QED
  BY <1>3, <1>7, <1>8 DEF t, u

\* Where the objects in use are, and where all objects are.
Addresses == {item.at : item \in items}
AllPlaces == UNION {Places(slab) : slab \in SlabsOfObjects}

ItemsSound == \A item \in items : item.at \in Nat /\ item = Item(item.at)

LEMMA ObjectsAre ==
  ObjectsSound <=> /\ free_list \in Seq(Nat) /\ IsInjective(free_list) /\ ItemsSound
                   /\ Range(free_list) \intersect Addresses = {}
                   /\ Range(free_list) \union Addresses = AllPlaces
BY DEF ObjectsSound, FreeListIsSound, ItemsSound, Addresses, AllPlaces, Places, SlabsOfObjects

\* The first of a list of free objects is taken from it.
LEMMA Taken ==
  ASSUME NEW list \in Seq(Nat), list # << >>, IsInjective(list), Take(list), ItemsSound,
         Range(list) \intersect Addresses = {}
  PROVE  /\ free_list' \in Seq(Nat) /\ IsInjective(free_list')
         /\ \A item \in items' : item.at \in Nat /\ item = Item(item.at)
         /\ Range(free_list') \intersect {item.at : item \in items'} = {}
         /\ Range(free_list') \union {item.at : item \in items'} = Range(list) \union Addresses
<1>1. free_list' = Tail(list) /\ items' = items \union {Item(Head(list))}
  BY DEF Take
<1>2. PICK first \in Nat : first = Head(list)
  BY HeadTailProperties
<1>3. /\ first \in Range(list) /\ free_list' \in Seq(Nat) /\ IsInjective(free_list')
      /\ Range(list) = Range(free_list') \union {first} /\ first \notin Range(free_list')
  BY <1>1, <1>2, TookFirst
<1>4. Item(first).at = first
  BY DEF Item, Block
<1>5. items' = items \union {Item(first)}
  BY <1>1, <1>2
<1>6. {item.at : item \in items'} = Addresses \union {first}
  BY <1>4, <1>5 DEF Addresses
<1>7. \A item \in items' : item.at \in Nat /\ item = Item(item.at)
  BY <1>2, <1>4, <1>5 DEF ItemsSound
<1> QED
  BY <1>3, <1>6, <1>7

\* An object is in a slab of the pool.
LEMMA PlaceInSlab ==
  ASSUME OwnersSound, NEW slab \in SlabsOfObjects
  PROVE  /\ slab \in DOMAIN outstanding /\ slab \in Nat /\ slab % Word = 0
         /\ outstanding[slab].size = PoolSlab
         /\ \A at \in Places(slab) : /\ at \in Nat /\ slab <= at
                                     /\ at + ItemSize <= slab + PoolSlab
<1>1. /\ slab \in DOMAIN outstanding /\ slab \in Nat
      /\ slab % outstanding[slab].alignment = 0
  BY SlabIsBlock
<1>2. outstanding[slab].size = PoolSlab /\ outstanding[slab].alignment = Word
  BY DEF OwnersSound, ObjectSlabsSound
<1>3. slab % Word = 0
  BY <1>1, <1>2
<1> QED
  BY <1>1, <1>2, <1>3, PlaceFacts

LEMMA PoolGrowObjects ==
  ASSUME OwnersSound, ObjectsSound, PoolGrow
  PROVE  ObjectsSound'
<1>1. free_list = << >>
  BY DEF PoolGrow
<1>2. PICK base \in Bases : /\ Allocate(PoolSlab, Word, base)
                            /\ slab_list' = Append(slab_list, Ptr(base, Word))
                            /\ Take(Entries(Ptr(base, Word)))
  BY DEF PoolGrow
<1>3. PICK ptr : ptr = Ptr(base, Word)
  OBVIOUS
<1>4. /\ ptr \in Nat /\ ptr % Word = 0
      /\ \A p \in DOMAIN outstanding : ptr + PoolSlab <= p \/ p + outstanding[p].size <= ptr
  BY <1>2, <1>3, Requests, Allocated DEF OwnersSound
<1>5. /\ Entries(ptr) \in Seq(Nat) /\ Entries(ptr) # << >> /\ IsInjective(Entries(ptr))
      /\ Range(Entries(ptr)) = Places(ptr)
  BY <1>4, EntriesFacts
<1>6. PoolSlab \in Nat /\ ItemSize \in Nat \ {0}
  BY Requests, ItemFits
<1>7. \A at \in Places(ptr) : at \in Nat /\ ptr <= at /\ at + ItemSize <= ptr + PoolSlab
  BY <1>4, PlaceFacts
<1>8. Range(free_list) = {}
  BY <1>1 DEF Range
<1>9. Addresses = AllPlaces /\ ItemsSound
  BY <1>8, ObjectsAre
<1>10. Places(ptr) \intersect Addresses = {}
  <2> SUFFICES ASSUME NEW at \in Places(ptr), at \in Addresses PROVE FALSE
    OBVIOUS
  <2>1. PICK slab \in SlabsOfObjects : at \in Places(slab)
    BY <1>9 DEF AllPlaces
  <2>2. /\ slab \in DOMAIN outstanding /\ slab \in Nat /\ outstanding[slab].size = PoolSlab
        /\ slab <= at /\ at + ItemSize <= slab + PoolSlab
    BY <2>1, PlaceInSlab
  <2>3. ptr + PoolSlab <= slab \/ slab + PoolSlab <= ptr
    BY <1>4, <2>2
  <2> QED
    BY <1>4, <1>6, <1>7, <2>2, <2>3
<1>11. Take(Entries(ptr))
  BY <1>2, <1>3
<1>12. /\ free_list' \in Seq(Nat) /\ IsInjective(free_list')
       /\ \A item \in items' : item.at \in Nat /\ item = Item(item.at)
       /\ Range(free_list') \intersect {item.at : item \in items'} = {}
       /\ Range(free_list') \union {item.at : item \in items'} = Places(ptr) \union AllPlaces
  BY <1>5, <1>9, <1>10, <1>11, Taken
<1>13. Range(slab_list') = Range(slab_list) \union {ptr}
  BY <1>2, <1>3, <1>4, PushedLast DEF OwnersSound, ObjectSlabsSound
<1>14. UNION {Places(slab) : slab \in Range(slab_list')} = Places(ptr) \union AllPlaces
  BY <1>13 DEF AllPlaces, SlabsOfObjects
<1> QED
  BY <1>12, <1>14 DEF ObjectsSound, FreeListIsSound, Places

\* Each action leaves every object either free, on the list once, or in use.
LEMMA ObjectsStep ==
  ASSUME OwnersSound, ObjectsSound, [Next]_vars
  PROVE  ObjectsSound'
<1>1. ASSUME UNCHANGED pool PROVE ObjectsSound'
  BY <1>1 DEF pool, ObjectsSound, FreeListIsSound
<1>2. CASE CreateObject
  <2>1. CASE PoolAllocate
    <3>1. free_list # << >> /\ Take(free_list) /\ slab_list' = slab_list
      BY <2>1 DEF PoolAllocate
    <3>2. /\ free_list \in Seq(Nat) /\ IsInjective(free_list) /\ ItemsSound
          /\ Range(free_list) \intersect Addresses = {}
          /\ Range(free_list) \union Addresses = AllPlaces
      BY ObjectsAre
    <3>3. /\ free_list' \in Seq(Nat) /\ IsInjective(free_list')
          /\ \A item \in items' : item.at \in Nat /\ item = Item(item.at)
          /\ Range(free_list') \intersect {item.at : item \in items'} = {}
          /\ Range(free_list') \union {item.at : item \in items'} = AllPlaces
      BY <3>1, <3>2, Taken
    <3>4. UNION {Places(slab) : slab \in Range(slab_list')} = AllPlaces
      BY <3>1 DEF AllPlaces, SlabsOfObjects
    <3> QED
      BY <3>3, <3>4 DEF ObjectsSound, FreeListIsSound, Places
  <2> QED
    BY <1>2, <2>1, PoolGrowObjects DEF CreateObject
<1>3. ASSUME NEW item \in items, DestructObject(item) PROVE ObjectsSound'
  <2>1. /\ free_list' = <<item.at>> \o free_list /\ items' = items \ {item}
        /\ slab_list' = slab_list
    BY <1>3 DEF DestructObject, PoolDeallocate
  <2>2. /\ free_list \in Seq(Nat) /\ IsInjective(free_list) /\ ItemsSound
        /\ Range(free_list) \intersect Addresses = {}
        /\ Range(free_list) \union Addresses = AllPlaces
    BY ObjectsAre
  <2>3. PICK at \in Nat : at = item.at
    BY <2>2 DEF ItemsSound
  <2>4. at \in Addresses /\ at \notin Range(free_list)
    BY <2>2, <2>3 DEF Addresses
  <2>5. /\ free_list' \in Seq(Nat) /\ IsInjective(free_list')
        /\ Range(free_list') = Range(free_list) \union {at}
    BY <2>1, <2>2, <2>3, <2>4, PushedFirst
  <2>6. \A other \in items : other.at = at => other = item
    BY <2>2, <2>3 DEF ItemsSound
  <2>7. {other.at : other \in items'} = Addresses \ {at}
    BY <2>1, <2>3, <2>6 DEF Addresses
  <2>8. UNION {Places(slab) : slab \in Range(slab_list')} = AllPlaces
    BY <2>1 DEF AllPlaces, SlabsOfObjects
  <2>9. \A other \in items' : other.at \in Nat /\ other = Item(other.at)
    BY <2>1, <2>2 DEF ItemsSound
  <2>10. /\ Range(free_list') \intersect {other.at : other \in items'} = {}
         /\ Range(free_list') \union {other.at : other \in items'} = AllPlaces
    BY <2>2, <2>4, <2>5, <2>7
  <2> QED
    BY <2>5, <2>8, <2>9, <2>10 DEF ObjectsSound, FreeListIsSound, Places
<1>4. CASE DestroyFactory
  <2>1. free_list' = << >> /\ items' = {} /\ slab_list' = << >>
    BY <1>4 DEF DestroyFactory, DestroyPool
  <2>2. << >> \in Seq(Nat) /\ IsInjective(<< >>) /\ Range(<< >>) = {}
    BY EmptySeq DEF IsInjective, Range
  <2> QED
    BY <2>1, <2>2 DEF ObjectsSound, FreeListIsSound
<1>5. CASE UNCHANGED vars
  BY <1>1, <1>5 DEF vars
<1>6. CASE \/ \E size \in NodeSizes : ConstructNode(size)
           \/ \E size \in BufferSizes : AllocateBuffer(size)
           \/ \E size \in TypeSizes : CreateType(size)
           \/ \E request \in ProgramRequests : RtMalloc(request)
           \/ \E ptr \in program : RtFree(ptr)
  BY <1>1, <1>6 DEF ConstructNode, AllocateBuffer, CreateType, RtMalloc, RtFree
<1>7. CASE DestructAst \/ DestroyAst \/ DestroyTypes \/ DestroyAllocator
  BY <1>1, <1>7 DEF DestructAst, DestroyAst, DestroyTypes, DestroyAllocator
<1> QED
  BY <1>2, <1>3, <1>4, <1>5, <1>6, <1>7 DEF Next

\* The memory of a compiler is sound at every moment of its life: IInv.
THEOREM MemoryInvariance == Spec => []IInv
<1>1. Init => ObjectsSound
  <2>1. << >> \in Seq(Nat) /\ IsInjective(<< >>) /\ Range(<< >>) = {}
    BY EmptySeq DEF IsInjective, Range
  <2> QED
    BY <2>1 DEF Init, PoolInit, ObjectsSound, FreeListIsSound
<1>2. OwnersSound /\ ObjectsSound /\ [Next]_vars => ObjectsSound'
  BY ObjectsStep
<1>3. IInv <=> OwnersSound /\ NodesSound /\ ObjectsSound
  BY DEF IInv
<1> QED
  BY <1>1, <1>2, <1>3, NodesInvariant, PTL DEF Spec

\* pool.h: an object is either in use or on the free list, and there once:
\* FreeListIsSound.
THEOREM FreeListStaysSound == Spec => []FreeListIsSound
<1>1. IInv => FreeListIsSound
  BY DEF IInv, ObjectsSound
<1> QED
  BY <1>1, MemoryInvariance, PTL

-----------------------------------------------------------------------------
(* The contract: a block that is handed out is its owner's alone.           *)

SinglesInUse == {outstanding[ptr] : ptr \in Singles}

\* The blocks in use are blocks of memory, and apart.
LiveSound ==
  /\ \A a \in InUse : /\ a.at \in Nat \ {0} /\ a.size \in Nat \ {0}
                      /\ a.at % a.alignment = 0 /\ a.at + a.size - 1 <= MaxAddress
  /\ \A a, b \in InUse : a # b => Apart(a, b)

\* A block in use that lies in the outstanding block at home.
LiesAt(a, home) ==
  /\ home \in DOMAIN outstanding /\ LiesIn(a, home)
  /\ a.at \in Nat /\ a.size \in Nat \ {0} /\ a.at % a.alignment = 0

LEMMA InBlocksApart ==
  ASSUME OwnersSound, NEW a, NEW b, NEW p, NEW q, LiesAt(a, p), LiesAt(b, q), p # q
  PROVE  Apart(a, b)
<1>1. /\ p \in Nat /\ q \in Nat
      /\ outstanding[p].size \in Nat /\ outstanding[q].size \in Nat
      /\ p + outstanding[p].size <= q - Header \/ q + outstanding[q].size <= p - Header
  BY ChunkOfBlock, BlocksApart DEF OwnersSound, LiesAt
<1>2. Header \in Nat
  BY MemoryAssumption DEF Header
<1>3. /\ p <= a.at /\ a.at + a.size <= p + outstanding[p].size
      /\ q <= b.at /\ b.at + b.size <= q + outstanding[q].size
      /\ a.at \in Nat /\ a.size \in Nat /\ b.at \in Nat /\ b.size \in Nat
  BY DEF LiesAt, LiesIn
<1> QED
  BY <1>1, <1>2, <1>3 DEF Apart

\* Where each of them lies.
LEMMA Homes ==
  ASSUME IInv
  PROVE  /\ \A a \in nodes : \E p \in SlabsOfNodes : LiesAt(a, p)
         /\ \A a \in items : \E p \in SlabsOfObjects : LiesAt(a, p) /\ a.at \in Places(p)
         /\ \A p \in Singles : LiesAt(outstanding[p], p)
<1>1. OwnersSound /\ NodesSound /\ ObjectsSound
  BY DEF IInv
<1>2. ASSUME NEW a \in nodes PROVE \E p \in SlabsOfNodes : LiesAt(a, p)
  <2>1. PICK p \in SlabsOfNodes : LiesIn(a, p)
    BY <1>1 DEF NodesSound
  <2>2. p \in DOMAIN outstanding
    BY <1>1, SlabIsBlock
  <2>3. a \in [at : Nat, size : Nat \ {0}, alignment : {Word}] /\ a.at % Word = 0
    BY <1>1 DEF NodesSound
  <2> QED
    BY <2>1, <2>2, <2>3 DEF LiesAt
<1>3. ASSUME NEW a \in items PROVE \E p \in SlabsOfObjects : LiesAt(a, p) /\ a.at \in Places(p)
  <2>1. a.at \in Nat /\ a = Item(a.at) /\ a.at \in AllPlaces
    BY <1>1, ObjectsAre DEF ItemsSound, Addresses
  <2>2. PICK p \in SlabsOfObjects : a.at \in Places(p)
    BY <2>1 DEF AllPlaces
  <2>3. /\ p \in DOMAIN outstanding /\ p \in Nat /\ p % Word = 0
        /\ outstanding[p].size = PoolSlab
        /\ p <= a.at /\ a.at + ItemSize <= p + PoolSlab
    BY <1>1, <2>2, PlaceInSlab
  <2>4. a.at % Word = 0
    BY <2>2, <2>3, PlaceFacts
  <2>5. a.size = ItemSize /\ a.alignment = Word /\ ItemSize \in Nat \ {0}
    <3>1. PICK at : at = a.at
      OBVIOUS
    <3>2. a = Block(at, ItemSize, Word)
      BY <2>1, <3>1 DEF Item
    <3> QED
      BY <3>2, ItemFits DEF Block
  <2> QED
    BY <2>1, <2>2, <2>3, <2>4, <2>5 DEF LiesAt, LiesIn
<1>4. ASSUME NEW p \in Singles PROVE LiesAt(outstanding[p], p)
  <2>1. p \in DOMAIN outstanding
    BY <1>1 DEF OwnersSound, OwnersApart
  <2>2. /\ p \in Nat /\ outstanding[p].size \in Nat \ {0} /\ outstanding[p].at = p
        /\ p % outstanding[p].alignment = 0
    BY <1>1, <2>1, ChunkOfBlock DEF OwnersSound
  <2> QED
    BY <2>1, <2>2 DEF LiesAt, LiesIn
<1> QED
  BY <1>2, <1>3, <1>4

LEMMA InUseSound ==
  ASSUME IInv
  PROVE  LiveSound
<1>1. OwnersSound /\ NodesSound /\ ObjectsSound
  BY DEF IInv
<1>2. InUse = nodes \union items \union SinglesInUse
  BY DEF InUse, SinglesInUse, Singles
<1>3. \A a \in InUse : \E p \in DOMAIN outstanding : LiesAt(a, p)
  BY <1>2, Homes DEF LiesAt, SinglesInUse
<1>4. ASSUME NEW a \in InUse
      PROVE  /\ a.at \in Nat \ {0} /\ a.size \in Nat \ {0}
             /\ a.at % a.alignment = 0 /\ a.at + a.size - 1 <= MaxAddress
  <2>1. PICK p \in DOMAIN outstanding : LiesAt(a, p)
    BY <1>3
  <2>2. /\ p \in Nat \ {0} /\ outstanding[p].size \in Nat /\ Original(p) \in Nat
        /\ chunks[Original(p)] \in Nat
        /\ p + outstanding[p].size <= Original(p) + chunks[Original(p)]
        /\ Original(p) + chunks[Original(p)] - 1 <= MaxAddress
    BY <1>1, ChunkOfBlock DEF OwnersSound
  <2>3. /\ p <= a.at /\ a.at + a.size <= p + outstanding[p].size
        /\ a.at \in Nat /\ a.size \in Nat \ {0} /\ a.at % a.alignment = 0
    BY <2>1 DEF LiesAt, LiesIn
  <2>4. MaxAddress \in Nat
    BY MemoryAssumption
  <2> QED
    BY <2>2, <2>3, <2>4
<1>5. ASSUME NEW a \in nodes, NEW b \in nodes, a # b PROVE Apart(a, b)
  BY <1>1, <1>5 DEF NodesSound
<1>6. ASSUME NEW a \in nodes, NEW b \in items \union SinglesInUse
      PROVE  Apart(a, b) /\ Apart(b, a)
  <2>1. PICK p \in SlabsOfNodes : LiesAt(a, p)
    BY Homes
  <2>2. PICK q \in SlabsOfObjects \union Singles : LiesAt(b, q)
    BY Homes DEF SinglesInUse
  <2>3. p # q
    BY <1>1, <2>1, <2>2 DEF OwnersSound, OwnersApart
  <2> QED
    BY <1>1, <2>1, <2>2, <2>3, InBlocksApart
<1>7. ASSUME NEW a \in items, NEW b \in SinglesInUse
      PROVE  Apart(a, b) /\ Apart(b, a)
  <2>1. PICK p \in SlabsOfObjects : LiesAt(a, p)
    BY Homes
  <2>2. PICK q \in Singles : LiesAt(b, q)
    BY Homes DEF SinglesInUse
  <2>3. p # q
    BY <1>1, <2>1, <2>2 DEF OwnersSound, OwnersApart
  <2> QED
    BY <1>1, <2>1, <2>2, <2>3, InBlocksApart
<1>8. ASSUME NEW a \in items, NEW b \in items, a # b PROVE Apart(a, b)
  <2>1. PICK p \in SlabsOfObjects : LiesAt(a, p) /\ a.at \in Places(p)
    BY Homes
  <2>2. PICK q \in SlabsOfObjects : LiesAt(b, q) /\ b.at \in Places(q)
    BY Homes
  <2>3. CASE p # q
    BY <1>1, <2>1, <2>2, <2>3, InBlocksApart
  <2>4. CASE p = q
    <3>1. ItemsSound
      BY <1>1, ObjectsAre
    <3>2. a.at # b.at /\ a = Item(a.at) /\ b = Item(b.at)
      BY <1>8, <3>1 DEF ItemsSound
    <3>3. a.size = ItemSize /\ b.size = ItemSize
      <4>1. \A at : Item(at).size = ItemSize
        BY DEF Item, Block
      <4> QED
        BY <3>2, <4>1
    <3>4. p \in Nat /\ p % Word = 0
      BY <1>1, PlaceInSlab
    <3>5. a.at + ItemSize <= b.at \/ b.at + ItemSize <= a.at
      BY <2>1, <2>2, <2>4, <3>2, <3>4, PlaceFacts
    <3> QED
      BY <3>3, <3>5 DEF Apart
  <2> QED
    BY <2>3, <2>4
<1>9. ASSUME NEW a \in SinglesInUse, NEW b \in SinglesInUse, a # b PROVE Apart(a, b)
  <2>1. PICK p \in Singles : a = outstanding[p]
    BY DEF SinglesInUse
  <2>2. PICK q \in Singles : b = outstanding[q]
    BY DEF SinglesInUse
  <2>3. LiesAt(a, p) /\ LiesAt(b, q) /\ p # q
    BY <1>9, <2>1, <2>2, Homes
  <2> QED
    BY <1>1, <2>3, InBlocksApart
<1>10. \A a, b \in InUse : a # b => Apart(a, b)
  BY <1>2, <1>5, <1>6, <1>7, <1>8, <1>9
<1> QED
  BY <1>4, <1>10 DEF LiveSound

\* One block more is in use, or none.
OneMore(old, new) == new \subseteq old \/ \E block \in new : new = old \union {block}

LEMMA Singly ==
  ASSUME OwnersSound, [Next]_vars
  PROVE  /\ InUse = nodes \union items \union SinglesInUse
         /\ InUse' = nodes' \union items' \union SinglesInUse'
         /\ Singles' = Singles => SinglesInUse' = SinglesInUse
         /\ Singles' \subseteq Singles => SinglesInUse' \subseteq SinglesInUse
         /\ \A ptr : Singles' = Singles \union {ptr} =>
              SinglesInUse' = SinglesInUse \union {outstanding'[ptr]}
<1>1. OwnersSound'
  BY OwnersStep
<1>2. Singles \subseteq DOMAIN outstanding /\ Singles' \subseteq DOMAIN outstanding'
  BY <1>1 DEF OwnersSound, OwnersApart
<1>3. \A p \in Singles : p \in Singles' => outstanding'[p] = outstanding[p]
  BY <1>2, BlocksKept DEF OwnersSound
<1> QED
  BY <1>3 DEF InUse, SinglesInUse, Singles

LEMMA LiveStep ==
  ASSUME OwnersSound, [Next]_vars
  PROVE  OneMore(InUse, InUse')
<1>1. ASSUME nodes' \subseteq nodes, items' \subseteq items, Singles' \subseteq Singles
      PROVE  OneMore(InUse, InUse')
  BY <1>1, Singly DEF OneMore
<1>2. ASSUME NEW size \in NodeSizes, ConstructNode(size) PROVE OneMore(InUse, InUse')
  <2>1. UNCHANGED <<items, buffers, types, program>>
    BY <1>2 DEF ConstructNode, pool, client
  <2>2. PICK block : nodes' = nodes \union {block}
    BY <1>2 DEF ConstructNode, SlabAllocate, BumpNode, NewSlabNode, LargeNode, Cut, Construct
  <2>3. Singles' = Singles
    BY <2>1 DEF Singles
  <2> QED
    BY <2>1, <2>2, <2>3, Singly DEF OneMore
<1>3. CASE CreateObject
  <2>1. UNCHANGED <<nodes, buffers, types, program>>
    BY <1>3 DEF CreateObject, slabs, client
  <2>2. PICK item : items' = items \union {item}
    BY <1>3 DEF CreateObject, PoolAllocate, PoolGrow, Take
  <2>3. Singles' = Singles
    BY <2>1 DEF Singles
  <2> QED
    BY <2>1, <2>2, <2>3, Singly DEF OneMore
<1>4. ASSUME NEW ptr, nodes' = nodes, items' = items, Singles' = Singles \union {ptr}
      PROVE  OneMore(InUse, InUse')
  <2>1. SinglesInUse' = SinglesInUse \union {outstanding'[ptr]}
    BY <1>4, Singly
  <2>2. PICK block : block = outstanding'[ptr]
    OBVIOUS
  <2>3. InUse' = InUse \union {block} /\ block \in InUse'
    BY <1>4, <2>1, <2>2, Singly
  <2> QED
    BY <2>3 DEF OneMore
<1>5. CASE \E size \in BufferSizes : AllocateBuffer(size)
  <2>1. PICK ptr : buffers' = buffers \union {ptr}
    BY <1>5 DEF AllocateBuffer
  <2>2. UNCHANGED <<nodes, items, types, program>>
    BY <1>5 DEF AllocateBuffer, slabs, pool
  <2> QED
    BY <1>4, <2>1, <2>2 DEF Singles
<1>6. CASE \E size \in TypeSizes : CreateType(size)
  <2>1. PICK ptr : types' = types \union {ptr}
    BY <1>6 DEF CreateType
  <2>2. UNCHANGED <<nodes, items, buffers, program>>
    BY <1>6 DEF CreateType, slabs, pool
  <2> QED
    BY <1>4, <2>1, <2>2 DEF Singles
<1>7. CASE \E request \in ProgramRequests : RtMalloc(request)
  <2>1. PICK ptr : program' = program \union {ptr}
    BY <1>7 DEF RtMalloc
  <2>2. UNCHANGED <<nodes, items, buffers, types>>
    BY <1>7 DEF RtMalloc, slabs, pool
  <2> QED
    BY <1>4, <2>1, <2>2 DEF Singles
<1>8. CASE \/ \E item \in items : DestructObject(item)
           \/ \E ptr \in program : RtFree(ptr)
  <2>1. /\ nodes' = nodes /\ items' \subseteq items
        /\ UNCHANGED <<buffers, types>> /\ program' \subseteq program
    BY <1>8 DEF DestructObject, PoolDeallocate, RtFree, slabs, pool, client
  <2> QED
    BY <1>1, <2>1 DEF Singles
<1>9. CASE DestructAst \/ DestroyAst
  <2>1. nodes' \subseteq nodes /\ UNCHANGED <<items, buffers, types, program>>
    BY <1>9 DEF DestructAst, DestructNode, DestroyAst, FreeSlabs, pool, client
  <2> QED
    BY <1>1, <2>1 DEF Singles
<1>10. CASE DestroyFactory
  <2>1. items' = {} /\ buffers' = {} /\ UNCHANGED <<nodes, types, program>>
    BY <1>10 DEF DestroyFactory, DestroyPool, slabs
  <2> QED
    BY <1>1, <2>1 DEF Singles
<1>11. CASE DestroyTypes
  <2>1. types' = {} /\ UNCHANGED <<nodes, items, buffers, program>>
    BY <1>11 DEF DestroyTypes, slabs, pool
  <2> QED
    BY <1>1, <2>1 DEF Singles
<1>12. CASE DestroyAllocator \/ UNCHANGED vars
  <2>1. UNCHANGED <<nodes, items, buffers, types, program>>
    BY <1>12 DEF DestroyAllocator, vars, slabs, pool, client
  <2> QED
    BY <1>1, <2>1 DEF Singles
<1> QED
  BY <1>2, <1>3, <1>5, <1>6, <1>7, <1>8, <1>9, <1>10, <1>11, <1>12 DEF Next

\* What comes into use is handed out as the contract has it.
LEMMA HandedOut ==
  ASSUME LiveSound', OneMore(InUse, InUse')
  PROVE  [Contract!Next]_InUse
<1>1. CASE InUse' \subseteq InUse
  BY <1>1 DEF Contract!Next, Contract!Release
<1>2. CASE \E block \in InUse' : InUse' = InUse \union {block}
  <2>1. PICK block \in InUse' : InUse' = InUse \union {block}
    BY <1>2
  <2>2. CASE block \in InUse
    BY <1>1, <2>1, <2>2
  <2>3. CASE block \notin InUse
    <3>1. /\ block.at \in Nat \ {0} /\ block.size \in Nat \ {0}
          /\ block.at % block.alignment = 0 /\ block.at + block.size - 1 <= MaxAddress
      BY <2>1 DEF LiveSound
    <3>2. ASSUME NEW other \in InUse
          PROVE  Contract!Bytes(block) \intersect Contract!Bytes(other) = {}
      <4>1. other \in InUse' /\ other # block
        BY <2>1, <2>3
      <4>2. /\ Apart(block, other)
            /\ other.at \in Nat /\ other.size \in Nat
        BY <4>1 DEF LiveSound
      <4> QED
        BY <3>1, <4>2 DEF Apart, Contract!Bytes
    <3>3. block \in InUse' \ InUse
      BY <2>1, <2>3
    <3>4. Contract!Hand(block)
      BY <2>1, <3>1, <3>2 DEF Contract!Hand
    <3> QED
      BY <3>3, <3>4 DEF Contract!Next
  <2> QED
    BY <2>2, <2>3
<1> QED
  BY <1>1, <1>2 DEF OneMore

\* Whichever of the allocators a block comes from, it is its user's alone until it is given
\* back: the detailed memory implements AllocatorContract (KeepsContract).
THEOREM MemoryKeepsContract == Spec => KeepsContract
<1>1. Init => Contract!Init
  <2> SUFFICES ASSUME Init PROVE InUse = {}
    BY DEF Contract!Init
  <2> QED
    BY DEF Init, SlabInit, PoolInit, InUse
<1>2. IInv => LiveSound
  BY InUseSound
<1>3. IInv /\ LiveSound' /\ [Next]_vars => [Contract!Next]_InUse
  BY LiveStep, HandedOut DEF IInv
<1> QED
  BY <1>1, <1>2, <1>3, MemoryInvariance, PTL DEF Spec, KeepsContract, Contract!Spec
=============================================================================
