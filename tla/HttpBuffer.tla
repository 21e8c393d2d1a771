----------------------------- MODULE HttpBuffer -----------------------------
(***************************************************************************)
(* The byte buffer of the two HTTP reactors: struct Buffer of              *)
(* old/ReactorHttp_c/Buffer.c and class Buffer of                          *)
(* old/ReactorHttp_cpp/Buffer.cpp.  Both keep one block of memory and two  *)
(* offsets into it; the bytes between readPos and writePos are unread.     *)
(* The algorithms agree but for three places, and those are separate       *)
(* operators here: the second vector of readv(), and what send() returning *)
(* -1 does to readPos.  The system calls are arguments: `in` is what       *)
(* readv() delivers, `count` is what send() returns.                       *)
(***************************************************************************)
EXTENDS Integers, Sequences, FiniteSetsExt

NUL == 0
CR  == 13
LF  == 10

(* A block of n bytes just cleared by memset() or bzero().                 *)
Cleared(n) == [i \in 1..n |-> NUL]

(* n bytes of the block from offset pos on; a byte outside the block is    *)
(* whatever the heap holds there, taken to be NUL.                         *)
BytesFrom(data, pos, n) ==
  IF pos >= 0 /\ pos + n <= Len(data)
    THEN SubSeq(data, pos + 1, pos + n)
    ELSE [i \in 1..n |-> IF pos + i \in DOMAIN data THEN data[pos + i] ELSE NUL]

(* memcpy() of s to offset pos of the block; what falls outside of the     *)
(* block is lost to the heap.                                              *)
CopyAt(data, pos, s) ==
  SubSeq(SubSeq(data, 1, pos) \o s \o SubSeq(data, pos + Len(s) + 1, Len(data)),
         1, Len(data))

-----------------------------------------------------------------------------
(* initBuffer(): an empty buffer over `size` cleared bytes.                *)
initBuffer(size) ==
  [data |-> Cleared(size), readPos |-> 0, writePos |-> 0]

bufferWriteAbleSize(b) == Len(b.data) - b.writePos

bufferReadAbleSize(b) == b.writePos - b.readPos

(* The bytes a reader would find.                                          *)
Unread(b) == BytesFrom(b.data, b.readPos, bufferReadAbleSize(b))

(* Fault: the room in front of readPos is counted but nothing is moved.    *)
extendRoomBuffer_NoMove(b, size) ==
  IF b.readPos + bufferWriteAbleSize(b) >= size
    THEN b
    ELSE [b EXCEPT !.data = @ \o Cleared(size)]

(* extendRoomBuffer(): enough room behind writePos, or enough once the     *)
(* unread bytes are moved to the front, or a larger block.  The move is a  *)
(* memcpy() whose ranges may overlap; every memcpy() the build uses copies *)
(* a block towards lower addresses correctly, so the move is exact.        *)
extendRoomBuffer(b, size) ==
  IF bufferWriteAbleSize(b) >= size
    THEN b
    ELSE IF b.readPos + bufferWriteAbleSize(b) >= size
      THEN [data     |-> CopyAt(b.data, 0, Unread(b)),
            readPos  |-> 0,
            writePos |-> bufferReadAbleSize(b)]
      ELSE [b EXCEPT !.data = @ \o Cleared(size)]

(* appendDataBuffer(): a size that is not positive is refused.             *)
appendDataBuffer(b, s) ==
  IF Len(s) <= 0
    THEN b
    ELSE LET room == extendRoomBuffer(b, Len(s))
         IN  [room EXCEPT !.data = CopyAt(@, room.writePos, s),
                          !.writePos = @ + Len(s)]

(* Buffer::extendRoom() and Buffer::appendString(): the same two           *)
(* algorithms in the C++ class.                                            *)
extendRoom(b, size) == extendRoomBuffer(b, size)

appendString(b, s) ==
  IF Len(s) <= 0
    THEN b
    ELSE LET room == extendRoom(b, Len(s))
         IN  [room EXCEPT !.data = CopyAt(@, room.writePos, s),
                          !.writePos = @ + Len(s)]

(* socketReadBuffer(): readv() fills the room behind writePos and then the *)
(* temporary block, whose part is appended.                                *)
socketReadBuffer(b, in) ==
  LET writeable == bufferWriteAbleSize(b)
      inPlace   == [b EXCEPT
                      !.data = CopyAt(@, b.writePos, SubSeq(in, 1, Min({Len(in), writeable})))]
  IN  IF Len(in) <= writeable
        THEN [inPlace EXCEPT !.writePos = @ + Len(in)]
        ELSE appendDataBuffer([inPlace EXCEPT !.writePos = Len(b.data)],
                              SubSeq(in, writeable + 1, Len(in)))

(* Buffer::socketRead(): the second vector points at the room behind       *)
(* writePos again, not at tmpbuf.  What does not fit is written over what  *)
(* did (and past the block when it is longer than the room), and the bytes *)
(* appended are those tmpbuf happened to hold, `junk`.                     *)
socketRead(b, in, junk) ==
  LET writeable == bufferWriteAbleSize(b)
      first     == CopyAt(b.data, b.writePos, SubSeq(in, 1, Min({Len(in), writeable})))
      excess    == SubSeq(in, writeable + 1, Len(in))
  IN  IF Len(in) <= writeable
        THEN [b EXCEPT !.data = first, !.writePos = @ + Len(in)]
        ELSE appendString([b EXCEPT !.data = CopyAt(first, b.writePos, excess),
                                    !.writePos = Len(b.data)],
                          junk)

(* memmem(): the offset of the first occurrence of the pair <<x, y>> in    *)
(* bytes, or -1.                                                           *)
FindPair(bytes, x, y) ==
  LET at == {i \in 1..Len(bytes) - 1 : bytes[i] = x /\ bytes[i + 1] = y}
  IN  IF at = {} THEN -1 ELSE Min(at) - 1

(* findCRLFBuffer() and Buffer::findCRLF(): the length of the first line   *)
(* of the unread bytes, -1 when none is complete.                          *)
findCRLFBuffer(b) == FindPair(Unread(b), CR, LF)

findCRLF(b) == FindPair(Unread(b), CR, LF)

(* Fault: the bytes that were sent stay in the buffer.                     *)
sendDataBuffer_NotAdvanced(b, count) == b

(* sendDataBuffer(): every count but zero moves readPos, -1 too.           *)
sendDataBuffer(b, count) ==
  IF bufferReadAbleSize(b) > 0 /\ count # 0 THEN [b EXCEPT !.readPos = @ + count] ELSE b

(* Buffer::sendData(): only a positive count does.                         *)
sendData(b, count) ==
  IF bufferReadAbleSize(b) > 0 /\ count > 0 THEN [b EXCEPT !.readPos = @ + count] ELSE b
=============================================================================
