---------------------------- MODULE BufferProofs ----------------------------
(***************************************************************************)
(* Proofs about Buffer for every size of the vector, of the spare bytes in *)
(* front and of the second array of readFd(), and for any data.            *)
(***************************************************************************)
EXTENDS Buffer, SequenceTheorems, TLAPS

Memory(n) == [0..(n - 1) -> Bytes]

\* k bytes from address a on lie within n.
Inside(n, a, k) == a + k <= n

\* A stretch of memory is a string of that length.
LEMMA BytesAtIsSeq ==
  ASSUME NEW n \in Nat, NEW mem \in Memory(n), NEW a \in Nat, NEW k \in Nat,
         Inside(n, a, k)
  PROVE  /\ BytesAt(mem, a, k) \in Seq(Bytes)
         /\ Len(BytesAt(mem, a, k)) = k
         /\ \A i \in 1..k : BytesAt(mem, a, k)[i] = mem[a + i - 1]
<1>1. \A i \in 1..k : a + i - 1 \in 0..(n - 1)
  BY DEF Inside
<1>2. \A i \in 1..k : mem[a + i - 1] \in Bytes
  BY <1>1 DEF Memory
<1>3. BytesAt(mem, a, k) \in Seq(Bytes) /\ Len(BytesAt(mem, a, k)) = k
  BY <1>2, IsASeq DEF BytesAt
<1> QED BY <1>3 DEF BytesAt

\* std::copy() within the vector keeps it a vector of that size.
LEMMA CopyToMemory ==
  ASSUME NEW n \in Nat, NEW mem \in Memory(n), NEW a \in Nat, NEW data \in Seq(Bytes),
         Inside(n, a, Len(data))
  PROVE  /\ CopyTo(mem, a, data) \in Memory(n)
         /\ \A i \in 0..(n - 1) : CopyTo(mem, a, data)[i] =
              IF i \in a..(a + Len(data) - 1) THEN data[i - a + 1] ELSE mem[i]
<1>1. DOMAIN mem = 0..(n - 1) /\ Len(data) \in Nat
  BY LenProperties DEF Memory
<1>2. ASSUME NEW i \in a..(a + Len(data) - 1) PROVE data[i - a + 1] \in Bytes
  <2>1. i - a + 1 \in 1..Len(data)
    BY <1>1
  <2> QED BY <2>1, ElementOfSeq
<1> QED BY <1>1, <1>2 DEF CopyTo, Memory

\* The l bytes from r on end where d bytes are written, at w; together they
\* are k bytes and lie within n.
Behind(n, r, l, w, d, k) == w = r + l /\ k = l + d /\ w + d <= n

\* Writing data behind the l bytes from r on appends it to them.
LEMMA CopyBehind ==
  ASSUME NEW n \in Nat, NEW mem \in Memory(n), NEW r \in Nat, NEW l \in Nat,
         NEW data \in Seq(Bytes), NEW w \in Nat, NEW k \in Nat,
         Behind(n, r, l, w, Len(data), k)
  PROVE  BytesAt(CopyTo(mem, w, data), r, k) = BytesAt(mem, r, l) \o data
<1>1. Inside(n, w, Len(data)) /\ Inside(n, r, k) /\ Inside(n, r, l)
  BY LenProperties DEF Behind, Inside
<1>4. PICK m \in Memory(n) :
        /\ m = CopyTo(mem, w, data)
        /\ \A i \in 0..(n - 1) : m[i] = IF i \in w..(w + Len(data) - 1) THEN data[i - w + 1] ELSE mem[i]
  <2>1. /\ CopyTo(mem, w, data) \in Memory(n)
        /\ \A i \in 0..(n - 1) : CopyTo(mem, w, data)[i] =
             IF i \in w..(w + Len(data) - 1) THEN data[i - w + 1] ELSE mem[i]
    BY <1>1, CopyToMemory
  <2> QED BY <2>1, Zenon
<1>5. PICK new \in Seq(Bytes) :
        /\ new = BytesAt(m, r, k) /\ Len(new) = k
        /\ \A i \in 1..k : new[i] = m[r + i - 1]
  BY <1>1, BytesAtIsSeq
<1>6. PICK old \in Seq(Bytes) :
        /\ old = BytesAt(mem, r, l) /\ Len(old) = l
        /\ \A i \in 1..l : old[i] = mem[r + i - 1]
  BY <1>1, BytesAtIsSeq
<1>7. /\ old \o data \in Seq(Bytes) /\ Len(old \o data) = k
      /\ \A i \in 1..k : (old \o data)[i] = IF i <= l THEN old[i] ELSE data[i - l]
  <2>1. /\ old \o data \in Seq(Bytes) /\ Len(old \o data) = Len(old) + Len(data)
        /\ \A i \in 1..(Len(old) + Len(data)) :
             (old \o data)[i] = IF i <= Len(old) THEN old[i] ELSE data[i - Len(old)]
    BY ConcatProperties, Zenon
  <2>2. Len(old) = l /\ Len(old) + Len(data) = k
    BY <1>6 DEF Behind
  <2> QED BY <2>1, <2>2, Zenon
<1>8. ASSUME NEW i \in 1..k PROVE new[i] = (old \o data)[i]
  <2>1. PICK a \in 0..(n - 1) : a = r + i - 1
    BY <1>1 DEF Inside
  <2>d. Len(data) \in Nat
    BY LenProperties
  <2>2. new[i] = IF a \in w..(w + Len(data) - 1) THEN data[a - w + 1] ELSE mem[a]
    BY <1>4, <1>5, <2>1
  <2>3. CASE i <= l
    <3>1. a \notin w..(w + Len(data) - 1) /\ i \in 1..l
      BY <2>1, <2>3 DEF Behind
    <3> QED BY <1>6, <1>7, <2>1, <2>2, <2>3, <3>1
  <2>4. CASE ~(i <= l)
    <3>1. a \in w..(w + Len(data) - 1) /\ a - w + 1 = i - l
      BY <2>d, <2>1, <2>4 DEF Behind
    <3> QED BY <1>7, <2>2, <2>4, <3>1
  <2> QED BY <2>3, <2>4
<1>9. new = old \o data
  BY <1>5, <1>7, <1>8, SeqEqual
<1> QED BY <1>4, <1>5, <1>6, <1>9

\* Moving the readable bytes to the front keeps them as they are, also when
\* the two places overlap.
LEMMA MoveToFront ==
  ASSUME NEW n \in Nat, NEW mem \in Memory(n), NEW r \in Nat, NEW l \in Nat, r + l <= n,
         NEW k \in Nat, k + l <= n
  PROVE  /\ CopyTo(mem, k, BytesAt(mem, r, l)) \in Memory(n)
         /\ BytesAt(CopyTo(mem, k, BytesAt(mem, r, l)), k, l) = BytesAt(mem, r, l)
<1>1. PICK s \in Seq(Bytes) :
        s = BytesAt(mem, r, l) /\ Len(s) = l /\ \A i \in 1..l : s[i] = mem[r + i - 1]
  <2>1. Inside(n, r, l)
    BY DEF Inside
  <2> QED BY <2>1, BytesAtIsSeq
<1>2. PICK moved \in Memory(n) :
        /\ moved = CopyTo(mem, k, s)
        /\ \A i \in 0..(n - 1) : moved[i] =
             IF i \in k..(k + Len(s) - 1) THEN s[i - k + 1] ELSE mem[i]
  <2>1. Inside(n, k, Len(s))
    BY <1>1 DEF Inside
  <2>2. /\ CopyTo(mem, k, s) \in Memory(n)
        /\ \A i \in 0..(n - 1) : CopyTo(mem, k, s)[i] =
             IF i \in k..(k + Len(s) - 1) THEN s[i - k + 1] ELSE mem[i]
    BY <2>1, CopyToMemory
  <2> QED BY <2>2, Zenon
<1>3. ASSUME NEW i \in 1..l PROVE moved[k + i - 1] = mem[r + i - 1]
  <2>1. PICK a \in 0..(n - 1) : a = k + i - 1
    OBVIOUS
  <2>2. a \in k..(k + Len(s) - 1) /\ a - k + 1 = i
    BY <1>1, <2>1
  <2> QED BY <1>1, <1>2, <2>1, <2>2
<1>4. BytesAt(moved, k, l) = BytesAt(mem, r, l)
  BY <1>3 DEF BytesAt
<1> QED BY <1>1, <1>2, <1>4

\* resize() to a larger size keeps what was there.
LEMMA ResizeKeeps ==
  ASSUME NEW n \in Nat, NEW mem \in Memory(n), NEW m \in Nat, n <= m,
         NEW r \in Nat, NEW l \in Nat, r + l <= n
  PROVE  /\ Resized(mem, m) \in Memory(m)
         /\ BytesAt(Resized(mem, m), r, l) = BytesAt(mem, r, l)
<1>1. DOMAIN mem = 0..(n - 1)
  BY DEF Memory
<1>2. Resized(mem, m) \in Memory(m)
  BY <1>1, BytesAssumption DEF Resized, Memory
<1>3. \A i \in 1..l : Resized(mem, m)[r + i - 1] = mem[r + i - 1]
  BY <1>1 DEF Resized
<1>4. BytesAt(Resized(mem, m), r, l) = BytesAt(mem, r, l)
  BY <1>3 DEF BytesAt
<1> QED BY <1>2, <1>4

-----------------------------------------------------------------------------
\* The indices, as the size_t arithmetic of Buffer.h needs them.
Indices(n, r, w) ==
  n \in Nat /\ r \in Nat /\ w \in Nat /\ kChreapPrepend <= r /\ r <= w /\ w <= n

\* append() in each of its three ways: the indices stay in order and the
\* readable bytes are the old ones followed by the data.
LEMMA AppendedContent ==
  ASSUME NEW mem \in Memory(size), NEW w, NEW data \in Seq(Bytes),
         Indices(size, readerIndex, w), Appended(mem, w, data)
  PROVE  /\ Indices(size', readerIndex', wirteIndex') /\ buffer' \in Memory(size')
         /\ Readable' = BytesAt(mem, readerIndex, w - readerIndex) \o data
<1>1. w \in Nat /\ readerIndex \in Nat /\ size \in Nat /\ readerIndex <= w /\ w <= size
      /\ kChreapPrepend <= readerIndex /\ kChreapPrepend \in Nat
  BY SizesAssumption DEF Indices
<1>2. PICK d \in Nat : d = Len(data)
  BY LenProperties
<1>3. PICK l \in Nat : l = w - readerIndex
  BY <1>1
<1>4. readerIndex + l = w
  BY <1>1, <1>3
<1>k. PICK k \in Nat : k = l + d
  OBVIOUS
<1>5. CASE AppendInPlace(mem, w, data)
  <2>1. w + d <= size
    BY <1>1, <1>2, <1>5 DEF AppendInPlace, Fits
  <2>2. /\ buffer' = CopyTo(mem, w, data) /\ wirteIndex' = w + d
        /\ size' = size /\ readerIndex' = readerIndex
    BY <1>2, <1>5 DEF AppendInPlace
  <2>3. buffer' \in Memory(size')
    <3>1. Inside(size, w, Len(data))
      BY <1>2, <2>1 DEF Inside
    <3> QED BY <1>1, <2>2, <3>1, CopyToMemory
  <2>4. Readable' = BytesAt(buffer', readerIndex, k)
    BY <1>1, <1>3, <1>k, <2>2 DEF Readable, readableBytes
  <2>5. BytesAt(CopyTo(mem, w, data), readerIndex, k) = BytesAt(mem, readerIndex, l) \o data
    <3>1. Behind(size, readerIndex, l, w, Len(data), k)
      BY <1>2, <1>4, <1>k, <2>1 DEF Behind
    <3> QED BY <1>1, <3>1, CopyBehind
  <2>6. Readable' = BytesAt(mem, readerIndex, l) \o data
    BY <2>2, <2>4, <2>5
  <2>7. Indices(size', readerIndex', wirteIndex')
    BY <1>1, <2>1, <2>2 DEF Indices
  <2> QED BY <1>3, <2>3, <2>6, <2>7
<1>6. CASE AppendCompacted(mem, w, data)
  <2>1. kChreapPrepend + l + d <= size /\ kChreapPrepend + l <= size
    BY <1>1, <1>2, <1>3, <1>6 DEF AppendCompacted, Compacts, prependableBytes
  <2>2. PICK moved \in Memory(size) :
          /\ moved = CopyTo(mem, kChreapPrepend, BytesAt(mem, readerIndex, l))
          /\ BytesAt(moved, kChreapPrepend, l) = BytesAt(mem, readerIndex, l)
    BY <1>1, <1>4, <2>1, MoveToFront
  <2>3. /\ buffer' = CopyTo(moved, kChreapPrepend + l, data)
        /\ readerIndex' = kChreapPrepend
        /\ wirteIndex' = kChreapPrepend + l + d /\ size' = size
    BY <1>2, <1>3, <1>6, <2>2 DEF AppendCompacted
  <2>v. PICK v \in Nat : v = kChreapPrepend + l
    BY <1>1
  <2>4. buffer' \in Memory(size')
    <3>1. Inside(size, v, Len(data))
      BY <1>2, <2>1, <2>v DEF Inside
    <3> QED BY <1>1, <2>3, <2>v, <3>1, CopyToMemory
  <2>5. Readable' = BytesAt(buffer', kChreapPrepend, k)
    BY <1>1, <1>k, <2>3 DEF Readable, readableBytes
  <2>6. BytesAt(CopyTo(moved, v, data), kChreapPrepend, k)
          = BytesAt(moved, kChreapPrepend, l) \o data
    <3>1. Behind(size, kChreapPrepend, l, v, Len(data), k)
      BY <1>2, <1>k, <2>1, <2>v DEF Behind
    <3> QED BY <1>1, <3>1, CopyBehind
  <2>7. Readable' = BytesAt(mem, readerIndex, l) \o data
    BY <2>2, <2>3, <2>5, <2>6, <2>v
  <2>8. Indices(size', readerIndex', wirteIndex')
    BY <1>1, <2>1, <2>3 DEF Indices
  <2> QED BY <1>3, <2>4, <2>7, <2>8
<1>7. CASE AppendGrown(mem, w, data)
  <2>1. PICK m \in Nat : m = w + d
    BY <1>1
  <2>2. size <= m /\ readerIndex + l + d <= m
    BY <1>1, <1>2, <1>4, <1>7, <2>1 DEF AppendGrown, Fits
  <2>3. PICK longer \in Memory(m) :
          /\ longer = Resized(mem, m)
          /\ BytesAt(longer, readerIndex, l) = BytesAt(mem, readerIndex, l)
    BY <1>1, <1>4, <2>2, ResizeKeeps
  <2>4. /\ buffer' = CopyTo(longer, w, data) /\ readerIndex' = readerIndex
        /\ wirteIndex' = w + d /\ size' = m
    BY <1>2, <1>7, <2>1, <2>3 DEF AppendGrown
  <2>5. buffer' \in Memory(size')
    <3>1. Inside(m, w, Len(data))
      BY <1>1, <1>2, <2>1 DEF Inside
    <3> QED BY <1>1, <2>4, <3>1, CopyToMemory
  <2>6. Readable' = BytesAt(buffer', readerIndex, k)
    BY <1>1, <1>3, <1>k, <2>4 DEF Readable, readableBytes
  <2>7. BytesAt(CopyTo(longer, w, data), readerIndex, k)
          = BytesAt(longer, readerIndex, l) \o data
    <3>1. Behind(m, readerIndex, l, w, Len(data), k)
      BY <1>1, <1>2, <1>4, <1>k, <2>1 DEF Behind
    <3> QED BY <1>1, <3>1, CopyBehind
  <2>8. Readable' = BytesAt(mem, readerIndex, l) \o data
    BY <2>3, <2>4, <2>6, <2>7
  <2>9. Indices(size', readerIndex', wirteIndex')
    BY <1>1, <2>1, <2>2, <2>4 DEF Indices
  <2> QED BY <1>3, <2>5, <2>8, <2>9
<1> QED BY <1>5, <1>6, <1>7 DEF Appended

\* readFd() that filled the vector and the second array: what went to the
\* one and what went to the other come out as they were received.
LEMMA ReadFdExtraContent ==
  ASSUME TypeOK, NEW data \in Seq(Bytes), readFdExtra(data)
  PROVE  /\ Indices(size', readerIndex', wirteIndex') /\ buffer' \in Memory(size')
         /\ Readable' = Readable \o data
<1>1. /\ size \in Nat /\ readerIndex \in Nat /\ wirteIndex \in Nat
      /\ readerIndex <= wirteIndex /\ wirteIndex <= size
      /\ kChreapPrepend <= readerIndex
      /\ buffer \in Memory(size)
  BY DEF TypeOK, Memory
<1>2. PICK d \in Nat : d = Len(data)
  BY LenProperties
<1>3. PICK n1 \in Nat : n1 = writeableBytes
  BY <1>1 DEF writeableBytes
<1>4. n1 < d /\ Appended(CopyTo(buffer, wirteIndex, SubSeq(data, 1, n1)), size,
                         SubSeq(data, n1 + 1, Len(data)))
  BY <1>2, <1>3 DEF readFdExtra
<1>5. \A i \in 1..d : data[i] \in Bytes
  BY <1>2, ElementOfSeq
<1>6. PICK head \in Seq(Bytes) : head = SubSeq(data, 1, n1) /\ Len(head) = n1
  <2>1. \A i \in 1..n1 : data[i] \in Bytes
    BY <1>4, <1>5
  <2>2. SubSeq(data, 1, n1) \in Seq(Bytes) /\ Len(SubSeq(data, 1, n1)) = n1
    BY <2>1, SubSeqProperties
  <2> QED BY <2>2
<1>7. PICK tail \in Seq(Bytes) : tail = SubSeq(data, n1 + 1, Len(data))
  <2>1. \A i \in (n1 + 1)..d : data[i] \in Bytes
    BY <1>4, <1>5
  <2>2. SubSeq(data, n1 + 1, d) \in Seq(Bytes)
    BY <2>1, SubSeqProperties
  <2> QED BY <1>2, <2>2
<1>8. head \o tail = data
  <2>1. 1 \in 1..(Len(data) + 1) /\ n1 \in (1 - 1)..Len(data) /\ Len(data) \in n1..Len(data)
    BY <1>2, <1>4
  <2>2. SubSeq(data, 1, n1) \o SubSeq(data, n1 + 1, Len(data)) = SubSeq(data, 1, Len(data))
    BY <2>1, ConcatAdjacentSubSeq
  <2> QED BY <1>6, <1>7, <2>2, SubSeqFull
<1>9. PICK l \in Nat : l = wirteIndex - readerIndex
  BY <1>1
<1>10. PICK k \in Nat : k = size - readerIndex
  BY <1>1
<1>11. PICK filled \in Memory(size) :
         /\ filled = CopyTo(buffer, wirteIndex, head)
         /\ BytesAt(filled, readerIndex, k) = BytesAt(buffer, readerIndex, l) \o head
  <2>1. Behind(size, readerIndex, l, wirteIndex, Len(head), k)
    BY <1>1, <1>3, <1>6, <1>9, <1>10 DEF Behind, writeableBytes
  <2>2. Inside(size, wirteIndex, Len(head))
    BY <1>1, <1>3, <1>6 DEF writeableBytes, Inside
  <2>3. CopyTo(buffer, wirteIndex, head) \in Memory(size)
    BY <1>1, <2>2, CopyToMemory
  <2>4. BytesAt(CopyTo(buffer, wirteIndex, head), readerIndex, k)
          = BytesAt(buffer, readerIndex, l) \o head
    BY <1>1, <2>1, CopyBehind
  <2> QED BY <2>3, <2>4
<1>12. Indices(size, readerIndex, size)
  BY <1>1 DEF Indices
<1>13. Appended(filled, size, tail)
  BY <1>4, <1>6, <1>7, <1>11
<1>14. /\ Indices(size', readerIndex', wirteIndex') /\ buffer' \in Memory(size')
       /\ Readable' = BytesAt(filled, readerIndex, size - readerIndex) \o tail
  BY <1>1, <1>12, <1>13, AppendedContent
<1>15. Readable \in Seq(Bytes) /\ Readable = BytesAt(buffer, readerIndex, l)
  <2>1. Readable = BytesAt(buffer, readerIndex, l)
    BY <1>9 DEF Readable, readableBytes
  <2>2. Inside(size, readerIndex, l)
    BY <1>1, <1>9 DEF Inside
  <2> QED BY <1>1, <2>1, <2>2, BytesAtIsSeq
<1>16. Readable' = (Readable \o head) \o tail
  BY <1>10, <1>11, <1>14, <1>15
<1>17. (Readable \o head) \o tail = Readable \o (head \o tail)
  BY <1>15, ConcatAssociative
<1> QED BY <1>8, <1>14, <1>16, <1>17

\* Among the k bytes from r on, the l bytes at address v.
Part(n, r, k, l, v) ==
  /\ n \in Nat /\ r \in Nat /\ k \in Nat /\ l \in Nat /\ v \in Nat
  /\ r + k <= n /\ r <= v /\ v + l <= r + k

\* A stretch of a stretch of memory.
LEMMA SubSeqOfBytesAt ==
  ASSUME NEW n, NEW mem \in Memory(n), NEW r, NEW k, NEW l, NEW v, Part(n, r, k, l, v)
  PROVE  SubSeq(BytesAt(mem, r, k), v - r + 1, v - r + l) = BytesAt(mem, v, l)
<1>a. PICK from \in Nat, to \in Nat : from = v - r + 1 /\ to = v - r + l
  BY DEF Part
<1>0. /\ n \in Nat /\ r \in Nat /\ k \in Nat /\ l \in Nat
      /\ v \in Nat /\ Inside(n, r, k) /\ Inside(n, v, l)
  BY DEF Part, Inside
<1>1. PICK s \in Seq(Bytes) :
        s = BytesAt(mem, r, k) /\ Len(s) = k /\ \A i \in 1..k : s[i] = mem[r + i - 1]
  BY <1>0, BytesAtIsSeq
<1>2. \A i \in 1..k : s[i] \in Bytes
  BY <1>1, ElementOfSeq
<1>3. \A i \in from..to : s[i] \in Bytes
  BY <1>2, <1>a DEF Part
<1>4. PICK t \in Seq(Bytes) :
        t = SubSeq(s, from, to) /\ Len(t) = l /\ \A i \in 1..l : t[i] = s[from + i - 1]
  <2>1. /\ SubSeq(s, from, to) \in Seq(Bytes)
        /\ Len(SubSeq(s, from, to)) = IF from <= to THEN to - from + 1 ELSE 0
        /\ \A i \in 1..(to - from + 1) : SubSeq(s, from, to)[i] = s[from + i - 1]
    <3>1. from \in Int /\ to \in Int
      BY <1>0
    <3> QED BY <1>3, <3>1, SubSeqProperties, SMT
  <2>2. to - from + 1 = l /\ l = IF from <= to THEN to - from + 1 ELSE 0
    BY <1>a DEF Part
  <2> QED BY <2>1, <2>2
<1>5. PICK u \in Seq(Bytes) :
        u = BytesAt(mem, v, l) /\ Len(u) = l /\ \A i \in 1..l : u[i] = mem[v + i - 1]
  <2>1. /\ BytesAt(mem, v, l) \in Seq(Bytes)
        /\ Len(BytesAt(mem, v, l)) = l
        /\ \A i \in 1..l : BytesAt(mem, v, l)[i] = mem[v + i - 1]
    BY <1>0, BytesAtIsSeq
  <2> QED BY <2>1, Zenon
<1>6. ASSUME NEW i \in 1..l PROVE t[i] = u[i]
  <2>1. PICK j \in 1..k : j = from + i - 1
    BY <1>a DEF Part
  <2>2. t[i] = mem[r + j - 1]
    BY <1>1, <1>4, <2>1
  <2>3. r + j - 1 = v + i - 1
    BY <1>a, <2>1 DEF Part
  <2> QED BY <1>5, <2>2, <2>3
<1>7. t = u
  BY <1>4, <1>5, <1>6, SeqEqual
<1> QED BY <1>a, <1>1, <1>4, <1>5, <1>7

\* The first len bytes, as the string retrieveAsstring() returns and
\* writeFd() gives to the socket.
LEMMA FirstBytes ==
  ASSUME TypeOK, NEW len \in 0..readableBytes
  PROVE  /\ BytesAt(buffer, readerIndex, len) \in Seq(Bytes)
         /\ BytesAt(buffer, readerIndex, len) = SubSeq(Readable, 1, len)
         /\ len \in 0..Len(Readable)
<1>1. /\ size \in Nat /\ readerIndex \in Nat /\ wirteIndex \in Nat
      /\ readerIndex <= wirteIndex /\ wirteIndex <= size
      /\ buffer \in Memory(size)
  BY DEF TypeOK, Memory
<1>2. PICK k \in Nat : k = readableBytes
  BY <1>1 DEF readableBytes
<1>3. len \in Nat /\ len <= k /\ len \in 0..k
  BY <1>2
<1>4. Inside(size, readerIndex, k) /\ Inside(size, readerIndex, len)
  BY <1>1, <1>2, <1>3 DEF readableBytes, Inside
<1>5. Readable = BytesAt(buffer, readerIndex, k) /\ Len(Readable) = k
  BY <1>1, <1>2, <1>4, BytesAtIsSeq DEF Readable
<1>6. BytesAt(buffer, readerIndex, len) \in Seq(Bytes)
  BY <1>1, <1>3, <1>4, BytesAtIsSeq
<1>7. Part(size, readerIndex, k, len, readerIndex) /\ buffer \in Memory(size)
  BY <1>1, <1>3, <1>4 DEF Part, Inside
<1>8. SubSeq(BytesAt(buffer, readerIndex, k), readerIndex - readerIndex + 1,
             readerIndex - readerIndex + len) = BytesAt(buffer, readerIndex, len)
  BY <1>7, SubSeqOfBytesAt
<1>9. readerIndex - readerIndex + 1 = 1 /\ readerIndex - readerIndex + len = len
  BY <1>1, <1>3
<1> QED BY <1>3, <1>5, <1>6, <1>8, <1>9

\* The bytes behind the first len.
LEMMA OtherBytes ==
  ASSUME TypeOK, NEW len \in 0..readableBytes
  PROVE  BytesAt(buffer, readerIndex + len, readableBytes - len)
           = SubSeq(Readable, len + 1, Len(Readable))
<1>1. /\ size \in Nat /\ readerIndex \in Nat /\ wirteIndex \in Nat
      /\ readerIndex <= wirteIndex /\ wirteIndex <= size
      /\ buffer \in Memory(size)
  BY DEF TypeOK, Memory
<1>2. PICK k \in Nat : k = readableBytes
  BY <1>1 DEF readableBytes
<1>3. len \in Nat /\ len <= k
  BY <1>2
<1>4. Inside(size, readerIndex, k)
  BY <1>1, <1>2 DEF readableBytes, Inside
<1>5. Readable = BytesAt(buffer, readerIndex, k) /\ Len(Readable) = k
  BY <1>1, <1>2, <1>4, BytesAtIsSeq DEF Readable
<1>6. PICK l \in Nat, v \in Nat : l = k - len /\ v = readerIndex + len
  BY <1>1, <1>3
<1>7. Part(size, readerIndex, k, l, v) /\ buffer \in Memory(size)
  BY <1>1, <1>3, <1>4, <1>6 DEF Part, Inside
<1>8. SubSeq(BytesAt(buffer, readerIndex, k), v - readerIndex + 1, v - readerIndex + l)
        = BytesAt(buffer, v, l)
  BY <1>7, SubSeqOfBytesAt
<1>9. v - readerIndex + 1 = len + 1 /\ v - readerIndex + l = k
  BY <1>1, <1>3, <1>6
<1> QED BY <1>2, <1>5, <1>6, <1>8, <1>9

\* retrieve() and retrieveAll() take the first len bytes away and leave the
\* others.
LEMMA RetrieveContent ==
  ASSUME TypeOK, NEW len \in 0..readableBytes, Retrieved(len), UNCHANGED <<size, buffer>>
  PROVE  /\ Indices(size', readerIndex', wirteIndex') /\ buffer' \in Memory(size')
         /\ Readable' = SubSeq(Readable, len + 1, Len(Readable))
<1>1. /\ size \in Nat /\ readerIndex \in Nat /\ wirteIndex \in Nat
      /\ readerIndex <= wirteIndex /\ wirteIndex <= size
      /\ kChreapPrepend <= readerIndex /\ kChreapPrepend \in Nat
      /\ buffer \in Memory(size)
  BY SizesAssumption DEF TypeOK, Memory
<1>2. PICK k \in Nat : k = readableBytes
  BY <1>1 DEF readableBytes
<1>3. /\ len \in Nat /\ len <= k /\ readerIndex + k <= size /\ readerIndex + len <= size
      /\ wirteIndex = readerIndex + k
  BY <1>1, <1>2 DEF readableBytes
<1>4. Readable = BytesAt(buffer, readerIndex, k) /\ Len(Readable) = k
  <2>1. Inside(size, readerIndex, k)
    BY <1>3 DEF Inside
  <2> QED BY <1>1, <1>2, <2>1, BytesAtIsSeq DEF Readable
<1>5. size' = size /\ buffer' = buffer
  OBVIOUS
<1>8. /\ Indices(size', readerIndex', wirteIndex')
      /\ Readable' = SubSeq(Readable, len + 1, Len(Readable))
  <2>1. CASE len < k
    <3>1. readerIndex' = readerIndex + len /\ wirteIndex' = wirteIndex
      BY <1>2, <2>1 DEF Retrieved
    <3>2. Readable' = BytesAt(buffer, readerIndex + len, readableBytes - len)
      <4>1. wirteIndex - (readerIndex + len) = readableBytes - len
        BY <1>1, <1>3 DEF readableBytes
      <4> QED BY <1>5, <3>1, <4>1 DEF Readable, readableBytes
    <3>5. Indices(size', readerIndex', wirteIndex')
      BY <1>1, <1>3, <1>5, <3>1 DEF Indices
    <3> QED BY <3>2, <3>5, OtherBytes
  <2>2. CASE ~(len < k)
    <3>1. readerIndex' = kChreapPrepend /\ wirteIndex' = kChreapPrepend
      BY <1>2, <2>2 DEF Retrieved
    <3>2. Readable' = BytesAt(buffer', kChreapPrepend, 0)
      BY <1>1, <3>1 DEF Readable, readableBytes
    <3>3. BytesAt(buffer', kChreapPrepend, 0) \in Seq(Bytes)
          /\ Len(BytesAt(buffer', kChreapPrepend, 0)) = 0
      <4>1. Inside(size, kChreapPrepend, 0) /\ 0 \in Nat
        BY <1>1 DEF Inside
      <4> QED BY <1>1, <1>5, <4>1, BytesAtIsSeq
    <3>4. Readable' = <<>>
      BY <3>2, <3>3, EmptySeq
    <3>5. SubSeq(Readable, len + 1, Len(Readable)) = <<>>
      <4>1. Len(Readable) < len + 1 /\ Len(Readable) \in Int /\ len + 1 \in Int
        BY <1>3, <1>4, <2>2
      <4> QED BY <4>1, SubSeqEmpty
    <3>6. Indices(size', readerIndex', wirteIndex')
      BY <1>1, <1>5, <3>1 DEF Indices
    <3> QED BY <3>4, <3>5, <3>6
  <2> QED BY <2>1, <2>2
<1> QED BY <1>1, <1>5, <1>8

-----------------------------------------------------------------------------
\* What one call does to the object: data is put in, or bytes are taken out.
LEMMA StepContent ==
  ASSUME TypeOK, Next
  PROVE  /\ TypeOK'
         /\ \/ \E data \in Chunks : Readable' = Readable \o data /\ out' = <<>>
            \/ \E len \in 0..Len(Readable) :
                 \/ out' = SubSeq(Readable, 1, len) /\ Readable' = Readable
                 \/ /\ out' \in {<<>>, SubSeq(Readable, 1, len)}
                    /\ Readable' = SubSeq(Readable, len + 1, Len(Readable))
<1>1. buffer \in Memory(size) /\ Indices(size, readerIndex, wirteIndex)
  BY DEF TypeOK, Memory, Indices
<1>2. <<>> \in Seq(Bytes)
  BY EmptySeq
<1>3. ASSUME Indices(size', readerIndex', wirteIndex'), buffer' \in Memory(size'),
             out' \in Seq(Bytes)
      PROVE  TypeOK'
  BY <1>3 DEF TypeOK, Indices, Memory
<1>4. ASSUME NEW data \in Chunks, Appended(buffer, wirteIndex, data), out' = <<>>
      PROVE  TypeOK' /\ Readable' = Readable \o data
  <2>1. data \in Seq(Bytes)
    BY BytesAssumption
  <2>2. /\ Indices(size', readerIndex', wirteIndex') /\ buffer' \in Memory(size')
        /\ Readable' = BytesAt(buffer, readerIndex, wirteIndex - readerIndex) \o data
    BY <1>1, <1>4, <2>1, AppendedContent
  <2> QED BY <1>2, <1>3, <1>4, <2>2 DEF Readable, readableBytes
<1>5. ASSUME NEW data \in Chunks, append(data)
      PROVE  TypeOK' /\ Readable' = Readable \o data /\ out' = <<>>
  BY <1>4, <1>5 DEF append
<1>6. ASSUME NEW data \in Chunks, readFdInPlace(data)
      PROVE  TypeOK' /\ Readable' = Readable \o data /\ out' = <<>>
  <2>1. Fits(wirteIndex, Len(data))
    <3>1. Len(data) \in Nat
      BY BytesAssumption, LenProperties
    <3> QED BY <1>1, <1>6, <3>1 DEF readFdInPlace, writeableBytes, Fits, Indices
  <2>2. Appended(buffer, wirteIndex, data) /\ out' = <<>>
    BY <1>6, <2>1 DEF readFdInPlace, Appended, AppendInPlace
  <2> QED BY <1>4, <2>2
<1>7. ASSUME NEW data \in Chunks, readFdExtra(data)
      PROVE  TypeOK' /\ Readable' = Readable \o data /\ out' = <<>>
  <2>1. data \in Seq(Bytes)
    BY BytesAssumption
  <2>2. out' = <<>>
    BY <1>7 DEF readFdExtra
  <2> QED BY <1>2, <1>3, <1>7, <2>1, <2>2, ReadFdExtraContent
<1>8. ASSUME NEW len \in 0..readableBytes, retrieve(len)
      PROVE  TypeOK' /\ out' = <<>> /\ Readable' = SubSeq(Readable, len + 1, Len(Readable))
  <2>1. Retrieved(len) /\ UNCHANGED <<size, buffer>> /\ out' = <<>>
    BY <1>8 DEF retrieve
  <2> QED BY <1>2, <1>3, <2>1, RetrieveContent
<1>9. ASSUME NEW len \in 0..readableBytes, writeFd(len)
      PROVE  TypeOK' /\ out' = SubSeq(Readable, 1, len) /\ Readable' = Readable
  <2>1. /\ out' = BytesAt(buffer, readerIndex, len)
        /\ UNCHANGED <<size, buffer, readerIndex, wirteIndex>>
    BY <1>9 DEF writeFd
  <2>2. out' \in Seq(Bytes) /\ out' = SubSeq(Readable, 1, len)
    BY <2>1, FirstBytes
  <2>3. Readable' = Readable
    BY <2>1 DEF Readable, readableBytes
  <2> QED BY <1>1, <1>3, <2>1, <2>2, <2>3
<1>10. ASSUME NEW len \in 0..readableBytes, retrieveAsstring(len)
       PROVE  /\ TypeOK' /\ out' = SubSeq(Readable, 1, len)
              /\ Readable' = SubSeq(Readable, len + 1, Len(Readable))
  <2>1. /\ Retrieved(len) /\ UNCHANGED <<size, buffer>>
        /\ out' = BytesAt(buffer, readerIndex, len)
    BY <1>10 DEF retrieveAsstring
  <2>2. out' \in Seq(Bytes) /\ out' = SubSeq(Readable, 1, len)
    BY <2>1, FirstBytes
  <2> QED BY <1>3, <2>1, <2>2, RetrieveContent
<1>11. ASSUME NEW data \in Chunks, append(data) \/ readFdInPlace(data) \/ readFdExtra(data)
       PROVE  TypeOK' /\ \E d \in Chunks : Readable' = Readable \o d /\ out' = <<>>
  BY <1>5, <1>6, <1>7, <1>11
<1>12. ASSUME NEW len \in 0..readableBytes,
              retrieve(len) \/ writeFd(len) \/ retrieveAsstring(len)
       PROVE  /\ TypeOK'
              /\ \E n \in 0..Len(Readable) :
                   \/ out' = SubSeq(Readable, 1, n) /\ Readable' = Readable
                   \/ /\ out' \in {<<>>, SubSeq(Readable, 1, n)}
                      /\ Readable' = SubSeq(Readable, n + 1, Len(Readable))
  BY <1>8, <1>9, <1>10, <1>12, FirstBytes
<1> QED BY <1>11, <1>12 DEF Next

\* A new Buffer is empty.
LEMMA InitContent ==
  ASSUME Init
  PROVE  TypeOK /\ Readable = <<>>
<1>1. TypeOK
  BY SizesAssumption, BytesAssumption, EmptySeq DEF Init, TypeOK
<1>2. Readable = BytesAt(buffer, readerIndex, 0)
  BY SizesAssumption DEF Init, Readable, readableBytes
<1>3. BytesAt(buffer, readerIndex, 0) \in Seq(Bytes) /\ Len(BytesAt(buffer, readerIndex, 0)) = 0
  <2>1. /\ buffer \in Memory(size) /\ Inside(size, readerIndex, 0) /\ 0 \in Nat
        /\ readerIndex \in Nat /\ size \in Nat
    BY <1>1 DEF TypeOK, Memory, Inside
  <2> QED BY <2>1, BytesAtIsSeq
<1> QED BY <1>1, <1>2, <1>3, EmptySeq

\* A stuttering step changes nothing a reader sees.
LEMMA StutterContent ==
  ASSUME UNCHANGED vars
  PROVE  /\ readerIndex' = readerIndex /\ wirteIndex' = wirteIndex /\ size' = size
         /\ Readable' = Readable /\ out' = out /\ (TypeOK => TypeOK')
BY DEF vars, Readable, readableBytes, TypeOK

\* Buffer.h, Buffer.cc: no call ever leaves the indices out of order or
\* outside the vector, so none of the size_t differences wraps.
THEOREM BufferTypeCorrect == Spec => []TypeOK
<1>1. Init => TypeOK
  BY InitContent
<1>2. TypeOK /\ [Next]_vars => TypeOK'
  BY StepContent, StutterContent
<1> QED BY <1>1, <1>2, PTL DEF Spec

\* Buffer.h 35-103, Buffer.cc 7-36: for every vector size and any data the
\* object is a queue of bytes.
THEOREM ImplementsByteQueue == Spec => AbstractBytes
<1>1. Init => Abstract!Init
  BY InitContent DEF Init, Abstract!Init
<1>2. TypeOK /\ [Next]_vars => [Abstract!Next]_(Abstract!vars)
  <2> SUFFICES ASSUME TypeOK, [Next]_vars PROVE [Abstract!Next]_(Abstract!vars)
    OBVIOUS
  <2>1. CASE Next
    <3>1. ASSUME NEW data \in Chunks, Readable' = Readable \o data, out' = <<>>
          PROVE  Abstract!Next
      BY <3>1 DEF Abstract!Next, Abstract!Put
    <3>2. ASSUME NEW len \in 0..Len(Readable),
                 out' = SubSeq(Readable, 1, len), Readable' = Readable
          PROVE  Abstract!Next
      BY <3>2 DEF Abstract!Next, Abstract!Peek
    <3>3. ASSUME NEW len \in 0..Len(Readable),
                 out' \in {<<>>, SubSeq(Readable, 1, len)},
                 Readable' = SubSeq(Readable, len + 1, Len(Readable))
          PROVE  Abstract!Next
      BY <3>3 DEF Abstract!Next, Abstract!Drop, Abstract!Take
    <3> QED BY <2>1, <3>1, <3>2, <3>3, StepContent
  <2>2. CASE UNCHANGED vars
    BY <2>2, StutterContent DEF Abstract!vars
  <2> QED BY <2>1, <2>2
<1> QED BY <1>1, <1>2, BufferTypeCorrect, PTL DEF Spec, AbstractBytes, Abstract!Spec

\* append() on a write index w asks for memory only when the readable bytes
\* and the data do not fit behind the spare bytes in front.
LEMMA AppendedGrows ==
  ASSUME NEW mem, NEW w, NEW data \in Seq(Bytes),
         Indices(size, readerIndex, w), Appended(mem, w, data), size' # size
  PROVE  size' > size /\ kChreapPrepend + (wirteIndex' - readerIndex') > size
<1>1. AppendGrown(mem, w, data)
  BY DEF Appended, AppendInPlace, AppendCompacted
<1>2. Len(data) \in Nat
  BY LenProperties
<1> QED BY <1>1, <1>2, SizesAssumption
        DEF AppendGrown, Fits, Compacts, prependableBytes, Indices

\* Buffer.h 90-103: memory is asked for only when reclaiming the bytes already
\* consumed would not make enough room.
THEOREM BufferGrowsOnlyWhenFull == Spec => GrowsOnlyWhenFull
<1> DEFINE Grows == size' # size =>
             size' > size /\ kChreapPrepend + (wirteIndex' - readerIndex') > size
<1>1. TypeOK /\ [Next]_vars => [Grows]_vars
  <2> SUFFICES ASSUME TypeOK, [Next]_vars, size' # size
      PROVE  size' > size /\ kChreapPrepend + (wirteIndex' - readerIndex') > size
    OBVIOUS
  <2>1. Next
    BY DEF vars
  <2>2. Indices(size, readerIndex, wirteIndex) /\ Indices(size, readerIndex, size)
    BY DEF TypeOK, Indices
  <2>3. ASSUME NEW data \in Chunks, append(data)
        PROVE  size' > size /\ kChreapPrepend + (wirteIndex' - readerIndex') > size
    <3>1. data \in Seq(Bytes)
      BY BytesAssumption
    <3> QED BY <2>2, <2>3, <3>1, AppendedGrows DEF append
  <2>4. ASSUME NEW data \in Chunks, readFdExtra(data)
        PROVE  size' > size /\ kChreapPrepend + (wirteIndex' - readerIndex') > size
    <3>1. PICK tail, filled : Appended(filled, size, tail)
                              /\ tail = SubSeq(data, writeableBytes + 1, Len(data))
      BY <2>4 DEF readFdExtra
    <3>2. tail \in Seq(Bytes)
      <4>1. data \in Seq(Bytes) /\ Len(data) \in Int /\ writeableBytes + 1 \in Nat
        BY <2>2, BytesAssumption, LenProperties DEF Indices, writeableBytes
      <4>2. writeableBytes + 1 \in Int /\ writeableBytes + 1 > 0
        BY <2>2 DEF Indices, writeableBytes
      <4>3. \A i \in (writeableBytes + 1)..Len(data) : data[i] \in Bytes
        <5>1. \A i \in 1..Len(data) : data[i] \in Bytes
          BY <4>1, ElementOfSeq
        <5> QED BY <4>1, <4>2, <5>1
      <4> QED BY <3>1, <4>1, <4>2, <4>3, SubSeqProperties
    <3> QED BY <2>2, <3>1, <3>2, AppendedGrows
  <2>5. ASSUME NEW data \in Chunks, readFdInPlace(data) PROVE FALSE
    BY <2>5 DEF readFdInPlace
  <2>6. ASSUME NEW len \in 0..readableBytes,
               retrieve(len) \/ writeFd(len) \/ retrieveAsstring(len)
        PROVE  FALSE
    BY <2>6 DEF retrieve, writeFd, retrieveAsstring
  <2> QED BY <2>1, <2>3, <2>4, <2>5, <2>6 DEF Next
<1> QED BY <1>1, BufferTypeCorrect, PTL DEF Spec, GrowsOnlyWhenFull
=============================================================================
