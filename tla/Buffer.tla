------------------------------- MODULE Buffer -------------------------------
(***************************************************************************)
(* Buffer.h, Buffer.cc: a vector of bytes with a read and a write index.   *)
(* Readable bytes lie between the two; in front of them are bytes already  *)
(* consumed and kChreapPrepend spare ones, behind them is room to write.   *)
(* append() may move the readable bytes to the front or make the vector    *)
(* longer, readFd() reads past the end of the vector into a second array.  *)
(*                                                                         *)
(* Memory is a function on addresses 0..size-1, and bytes behind the write *)
(* index keep what was there before, as they do in the program.            *)
(***************************************************************************)
EXTENDS Integers, Sequences

CONSTANTS Bytes,            \* values of a byte
          Zero,             \* the byte vector::resize() fills with
          kChreapPrepend,
          kInitialSize,
          ExtraSize,        \* sizeof extrabuf
          Chunks,           \* bound: the data append() and readv() deliver
          MaxSize           \* bound: the vector grows up to here

ASSUME SizesAssumption ==
  /\ kChreapPrepend \in Nat /\ kInitialSize \in Nat /\ ExtraSize \in Nat
ASSUME BytesAssumption == Zero \in Bytes /\ Chunks \subseteq Seq(Bytes)
ASSUME MaxSizeAssumption == MaxSize \in Nat

VARIABLES
  size,           \* buffer_.size()
  buffer,         \* buffer_, a function on 0..size-1
  readerIndex,    \* readerIndex_
  wirteIndex,     \* wirteIndex_
  out             \* what the last call handed to the application or the socket

vars == <<size, buffer, readerIndex, wirteIndex, out>>

\* Types, and the order of the indices that every size_t subtraction of
\* Buffer.h relies on: a wrapped difference would be a huge length.
TypeOK ==
  /\ size \in Nat
  /\ buffer \in [0..(size - 1) -> Bytes]
  /\ readerIndex \in Nat /\ wirteIndex \in Nat
  /\ kChreapPrepend <= readerIndex
  /\ readerIndex <= wirteIndex
  /\ wirteIndex <= size
  /\ out \in Seq(Bytes)

Init ==
  /\ size = kChreapPrepend + kInitialSize
  /\ buffer = [i \in 0..(kChreapPrepend + kInitialSize - 1) |-> Zero]
  /\ readerIndex = kChreapPrepend
  /\ wirteIndex = kChreapPrepend
  /\ out = <<>>

readableBytes == wirteIndex - readerIndex
writeableBytes == size - wirteIndex
prependableBytes == readerIndex

\* n bytes of memory mem from address a, as a string.
BytesAt(mem, a, n) == [i \in 1..n |-> mem[a + i - 1]]

\* What the object holds: peek() and readableBytes() of it.
Readable == BytesAt(buffer, readerIndex, readableBytes)

\* std::copy(data, data + Len(data), begin() + a).
CopyTo(mem, a, data) ==
  [i \in DOMAIN mem |-> IF i \in a..(a + Len(data) - 1) THEN data[i - a + 1] ELSE mem[i]]

\* vector::resize(n).
Resized(mem, n) == [i \in 0..(n - 1) |-> IF i \in DOMAIN mem THEN mem[i] ELSE Zero]

-----------------------------------------------------------------------------
(* append() and what it calls, on a vector mem whose write index is w. *)

\* ensureWriteableBytes(): there is room already ...
Fits(w, len) == size - w >= len

\* Fault: the test of makeSpace() forgets the kChreapPrepend spare bytes.
CompactsTooEarly(w, len) == size - w + prependableBytes >= len

\* ... or makeSpace() finds it in front of the readable bytes.
Compacts(w, len) == size - w + prependableBytes >= len + kChreapPrepend

\* append(data) with the write index at w: in place, ...
AppendInPlace(mem, w, data) ==
  /\ Fits(w, Len(data))
  /\ buffer' = CopyTo(mem, w, data)
  /\ wirteIndex' = w + Len(data)
  /\ UNCHANGED <<size, readerIndex>>

\* Fault: the readable bytes move and wirteIndex_ does not follow them.
AppendStaleIndex(mem, w, data) ==
  /\ ~Fits(w, Len(data)) /\ Compacts(w, Len(data))
  /\ LET moved == CopyTo(mem, kChreapPrepend, BytesAt(mem, readerIndex, w - readerIndex))
     IN  buffer' = CopyTo(moved, kChreapPrepend + (w - readerIndex), data)
  /\ readerIndex' = kChreapPrepend
  /\ wirteIndex' = w
  /\ UNCHANGED size

\* ... after moving the readable bytes to the front, ...
AppendCompacted(mem, w, data) ==
  /\ ~Fits(w, Len(data)) /\ Compacts(w, Len(data))
  /\ LET moved == CopyTo(mem, kChreapPrepend, BytesAt(mem, readerIndex, w - readerIndex))
     IN  buffer' = CopyTo(moved, kChreapPrepend + (w - readerIndex), data)
  /\ readerIndex' = kChreapPrepend
  /\ wirteIndex' = kChreapPrepend + (w - readerIndex) + Len(data)
  /\ UNCHANGED size

\* Fault: makeSpace() always makes the vector longer.
AppendGrownAlways(mem, w, data) ==
  /\ ~Fits(w, Len(data))
  /\ size' = w + Len(data)
  /\ buffer' = CopyTo(Resized(mem, w + Len(data)), w, data)
  /\ wirteIndex' = w + Len(data)
  /\ UNCHANGED readerIndex

\* ... or after making the vector longer.
AppendGrown(mem, w, data) ==
  /\ ~Fits(w, Len(data)) /\ ~Compacts(w, Len(data))
  /\ size' = w + Len(data)
  /\ buffer' = CopyTo(Resized(mem, w + Len(data)), w, data)
  /\ wirteIndex' = w + Len(data)
  /\ UNCHANGED readerIndex

Appended(mem, w, data) ==
  \/ AppendInPlace(mem, w, data)
  \/ AppendCompacted(mem, w, data)
  \/ AppendGrown(mem, w, data)

-----------------------------------------------------------------------------
(* Operations *)

append(data) ==
  /\ Appended(buffer, wirteIndex, data)
  /\ size' <= MaxSize
  /\ out' = <<>>

\* readFd(), n <= writeable: readv() filled only the vector.
readFdInPlace(data) ==
  /\ Len(data) <= writeableBytes
  /\ buffer' = CopyTo(buffer, wirteIndex, data)
  /\ wirteIndex' = wirteIndex + Len(data)
  /\ out' = <<>>
  /\ UNCHANGED <<size, readerIndex>>

\* readFd(), n > writeable: the rest went to extrabuf, which is offered only
\* if the room in the vector is smaller than extrabuf.
readFdExtra(data) ==
  LET n1 == writeableBytes
      filled == CopyTo(buffer, wirteIndex, SubSeq(data, 1, n1))
  IN  /\ n1 < ExtraSize
      /\ Len(data) > n1 /\ Len(data) <= n1 + ExtraSize
      /\ Appended(filled, size, SubSeq(data, n1 + 1, Len(data)))
      /\ size' <= MaxSize
      /\ out' = <<>>

\* Fault: retrieve() of everything by moving readerIndex_ only to the last byte.
RetrievedShort(len) ==
  IF len < readableBytes
  THEN readerIndex' = readerIndex + len /\ UNCHANGED wirteIndex
  ELSE readerIndex' = kChreapPrepend /\ wirteIndex' = kChreapPrepend + 1

\* retrieve(): some of the bytes, or retrieveAll().
Retrieved(len) ==
  IF len < readableBytes
  THEN readerIndex' = readerIndex + len /\ UNCHANGED wirteIndex
  ELSE readerIndex' = kChreapPrepend /\ wirteIndex' = kChreapPrepend

retrieve(len) ==
  /\ Retrieved(len)
  /\ out' = <<>>
  /\ UNCHANGED <<size, buffer>>

\* writeFd(): the socket takes len of the readable bytes.
writeFd(len) ==
  /\ out' = BytesAt(buffer, readerIndex, len)
  /\ UNCHANGED <<size, buffer, readerIndex, wirteIndex>>

retrieveAsstring(len) ==
  /\ out' = BytesAt(buffer, readerIndex, len)
  /\ Retrieved(len)
  /\ UNCHANGED <<size, buffer>>

Next ==
  \/ \E data \in Chunks : append(data) \/ readFdInPlace(data) \/ readFdExtra(data)
  \/ \E len \in 0..readableBytes : retrieve(len) \/ writeFd(len) \/ retrieveAsstring(len)

Spec == Init /\ [][Next]_vars

-----------------------------------------------------------------------------
(* Properties *)

Abstract == INSTANCE ByteQueue WITH queue <- Readable

\* Buffer.h 35-103 and Buffer.cc 7-36: through compaction, growth and the
\* second array of readFd(), a Buffer is a queue of bytes: none is lost,
\* doubled, changed or overtaken.
AbstractBytes == Abstract!Spec

\* Buffer.h 90-103: the vector is made longer only when the unread bytes and
\* the new ones really do not fit, so consumed bytes are always reclaimed
\* before memory is asked for.
GrowsOnlyWhenFull ==
  [][size' # size =>
       size' > size /\ kChreapPrepend + (wirteIndex' - readerIndex') > size]_vars
=============================================================================
