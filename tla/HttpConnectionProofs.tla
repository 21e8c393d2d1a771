------------------------ MODULE HttpConnectionProofs ------------------------
(***************************************************************************)
(* An HTTP connection, in both programs, for any requests, file systems    *)
(* and sizes.                                                              *)
(*                                                                         *)
(* OffsetsAlwaysInBlock: the offsets of the buffers never leave the block. *)
(* The lemmas say it of each operation of Buffer.c and Buffer.cpp and of   *)
(* each step of the parser; HttpInv adds what those calls are given.       *)
(*                                                                         *)
(* ParsedAlwaysAsSent: the parser understands a request as it was meant.   *)
(* ParseInv says what has been parsed and that the unread bytes begin with *)
(* the next line; the lemmas say what memmem() finds in such bytes and     *)
(* what a buffer holds behind a read or an append.                         *)
(*                                                                         *)
(* ResponseAlwaysInOrder: the client of a GET receives the beginning of a  *)
(* correct response.  FileIsNamed and TypeIsFound say that the decoders    *)
(* and getFileType() find the file and its type, SendInv says how much of  *)
(* which response has gone out where the sender is.                        *)
(***************************************************************************)
EXTENDS HttpConnection, SequenceTheorems, FiniteSetTheorems, WellFoundedInduction, TLAPS

(* A buffer whose offsets are in order and in the block.                   *)
Good == {b \in [data : Seq(Nat), readPos : Nat, writePos : Nat] :
           b.readPos <= b.writePos /\ b.writePos <= Len(b.data)}

-----------------------------------------------------------------------------
(* Numbers and sequences.                                                  *)

\* The lowest of some numbers is one of them and not above any.
LEMMA MinIsMember ==
  ASSUME NEW S, S \subseteq Nat, S # {}
  PROVE  Min(S) \in S /\ \A y \in S : Min(S) <= y
<1> DEFINE Below == OpToRel(<, Nat)
<1>1. IsWellFoundedOn(Below, Nat)
  BY NatLessThanWellFounded
<1>2. \A x, y \in Nat : y < x => <<y, x>> \in Below
  BY DEF OpToRel
<1> HIDE DEF Below
<1>3. PICK x \in S : \A y \in S : ~ (<<y, x>> \in Below)
  BY <1>1, WFMin
<1>4. ASSUME NEW y \in S PROVE x <= y
  <2>1. x \in Nat /\ y \in Nat
    OBVIOUS
  <2>2. ~ (y < x)
    BY <1>2, <1>3, <2>1, Zenon
  <2> QED BY <2>1, <2>2
<1> QED BY <1>4, Zenon DEF Min

\* The lower of two numbers.
LEMMA MinOfTwo ==
  ASSUME NEW a \in Nat, NEW b \in Nat
  PROVE  Min({a, b}) = IF a <= b THEN a ELSE b
<1>1. \E x \in {a, b} : \A y \in {a, b} : x <= y
  <2>1. CASE a <= b
    BY <2>1
  <2>2. CASE b <= a
    BY <2>2
  <2> QED BY <2>1, <2>2
<1>2. Min({a, b}) \in {a, b} /\ \A y \in {a, b} : Min({a, b}) <= y
  BY <1>1, Zenon DEF Min
<1> QED BY <1>2

\* A number or zero, whichever is higher.
LEMMA MaxOfTwo ==
  ASSUME NEW a \in Nat
  PROVE  Max({a, 0}) = a
<1>1. a \in {a, 0} /\ \A y \in {a, 0} : a >= y
  OBVIOUS
<1>2. \E x \in {a, 0} : \A y \in {a, 0} : x >= y
  BY <1>1
<1>3. Max({a, 0}) \in {a, 0} /\ \A y \in {a, 0} : Max({a, 0}) >= y
  BY <1>2, Zenon DEF Max
<1> QED BY <1>3

\* A piece of a sequence.
LEMMA Piece ==
  ASSUME NEW s \in Seq(Nat), NEW a \in Nat \ {0}, NEW b \in Nat, b <= Len(s)
  PROVE  /\ SubSeq(s, a, b) \in Seq(Nat)
         /\ Len(SubSeq(s, a, b)) = IF a <= b THEN b - a + 1 ELSE 0
<1>1. Len(s) \in Nat /\ \A k \in 1..Len(s) : s[k] \in Nat
  BY LenProperties, ElementOfSeq
<1>2. \A k \in a..b : s[k] \in Nat
  BY <1>1
<1> QED BY <1>1, <1>2, SubSeqProperties

\* Two sequences behind each other.
LEMMA Joined ==
  ASSUME NEW s \in Seq(Nat), NEW t \in Seq(Nat)
  PROVE  s \o t \in Seq(Nat) /\ Len(s \o t) = Len(s) + Len(t) /\ Len(s) \in Nat /\ Len(t) \in Nat
BY ConcatProperties, LenProperties

\* A block that memset() cleared.
LEMMA ClearedIsBlock ==
  ASSUME NEW n \in Nat
  PROVE  Cleared(n) \in Seq(Nat) /\ Len(Cleared(n)) = n
BY DEF Cleared, NUL

\* memcpy() inside of a block keeps its length.
LEMMA CopyKeepsLength ==
  ASSUME NEW d \in Seq(Nat), NEW pos \in Nat, pos <= Len(d), NEW s \in Seq(Nat)
  PROVE  CopyAt(d, pos, s) \in Seq(Nat) /\ Len(CopyAt(d, pos, s)) = Len(d)
<1> DEFINE front == SubSeq(d, 1, pos)
           rest  == SubSeq(d, pos + Len(s) + 1, Len(d))
<1>1. Len(d) \in Nat /\ Len(s) \in Nat
  BY LenProperties
<1>2. front \in Seq(Nat) /\ Len(front) = pos
  BY <1>1, Piece
<1>3. rest \in Seq(Nat) /\ Len(rest) = IF pos + Len(s) + 1 <= Len(d) THEN Len(d) - pos - Len(s) ELSE 0
  <2>1. pos + Len(s) + 1 \in Nat \ {0}
    BY <1>1
  <2> QED BY <1>1, <2>1, Piece
<1> HIDE DEF front, rest
<1>4. front \o s \in Seq(Nat) /\ Len(front \o s) = pos + Len(s)
  BY <1>2, Joined
<1>5. front \o s \o rest \in Seq(Nat) /\ Len(front \o s \o rest) = pos + Len(s) + Len(rest)
  BY <1>3, <1>4, Joined
<1>6. Len(d) <= Len(front \o s \o rest)
  <2>1. Len(rest) \in Nat
    BY <1>3, LenProperties
  <2>2. ASSUME NEW n \in Nat, NEW m \in Nat, NEW r \in Nat,
               r = IF pos + m + 1 <= n THEN n - pos - m ELSE 0
        PROVE  n <= pos + m + r
    <3>1. CASE pos + m + 1 <= n
      BY <2>2, <3>1
    <3>2. CASE ~ (pos + m + 1 <= n)
      BY <2>2, <3>2
    <3> QED BY <3>1, <3>2
  <2>3. Len(d) <= pos + Len(s) + Len(rest)
    BY <1>1, <1>3, <2>1, <2>2
  <2> QED BY <1>5, <2>3
<1>7. CopyAt(d, pos, s) = SubSeq(front \o s \o rest, 1, Len(d))
  BY DEF CopyAt, front, rest
<1>8. PICK t \in Seq(Nat) : t = front \o s \o rest
  BY <1>5
<1>9. SubSeq(t, 1, Len(d)) \in Seq(Nat) /\ Len(SubSeq(t, 1, Len(d))) = Len(d)
  <2>1. Len(d) <= Len(t)
    BY <1>6, <1>8
  <2> QED BY <1>1, <2>1, Piece
<1> QED BY <1>7, <1>8, <1>9

-----------------------------------------------------------------------------
(* The operations of the buffer.                                           *)

\* A buffer is good when its fields are.
LEMMA GoodParts ==
  ASSUME NEW b
  PROVE  b \in Good <=>
           /\ b \in [data : Seq(Nat), readPos : Nat, writePos : Nat]
           /\ b.readPos <= b.writePos /\ b.writePos <= Len(b.data)
BY Zenon DEF Good

\* What a good buffer says of its fields.
LEMMA GoodFields ==
  ASSUME NEW b \in Good
  PROVE  /\ b.data \in Seq(Nat) /\ b.readPos \in Nat /\ b.writePos \in Nat
         /\ Len(b.data) \in Nat
         /\ b.readPos <= b.writePos /\ b.writePos <= Len(b.data)
         /\ b.readPos <= Len(b.data)
         /\ b \in [data : Seq(Nat), readPos : Nat, writePos : Nat]
<1>1. /\ b \in [data : Seq(Nat), readPos : Nat, writePos : Nat]
      /\ b.readPos <= b.writePos /\ b.writePos <= Len(b.data)
  BY GoodParts
<1>2. b.data \in Seq(Nat) /\ b.readPos \in Nat /\ b.writePos \in Nat
  BY <1>1
<1>3. Len(b.data) \in Nat
  BY <1>2, LenProperties
<1> QED BY <1>1, <1>2, <1>3

\* A buffer from its three fields.
LEMMA MakeGood ==
  ASSUME NEW d \in Seq(Nat), NEW r \in Nat, NEW w \in Nat, r <= w, w <= Len(d)
  PROVE  [data |-> d, readPos |-> r, writePos |-> w] \in Good
BY DEF Good

\* The same offsets over another block.
LEMMA WithData ==
  ASSUME NEW b \in Good, NEW d \in Seq(Nat), NEW w \in Nat, b.readPos <= w, w <= Len(d)
  PROVE  [b EXCEPT !.data = d, !.writePos = w] \in Good
<1>1. b \in [data : Seq(Nat), readPos : Nat, writePos : Nat]
  BY GoodFields
<1> DEFINE c == [b EXCEPT !.data = d, !.writePos = w]
<1>2. c \in [data : Seq(Nat), readPos : Nat, writePos : Nat]
  BY <1>1
<1>3. c.data = d /\ c.writePos = w /\ c.readPos = b.readPos
  BY <1>1
<1> HIDE DEF c
<1>4. c \in Good
  BY <1>2, <1>3, GoodParts
<1> QED BY <1>4 DEF c

\* The read position moves, the rest stays.
LEMMA WithReadPos ==
  ASSUME NEW b \in Good, NEW r \in Nat, r <= b.writePos
  PROVE  [b EXCEPT !.readPos = r] \in Good
<1>1. b \in [data : Seq(Nat), readPos : Nat, writePos : Nat] /\ b.writePos <= Len(b.data)
  BY GoodFields
<1> DEFINE c == [b EXCEPT !.readPos = r]
<1>2. c \in [data : Seq(Nat), readPos : Nat, writePos : Nat]
  BY <1>1
<1>3. c.data = b.data /\ c.writePos = b.writePos /\ c.readPos = r
  BY <1>1
<1> HIDE DEF c
<1>4. c \in Good
  BY <1>1, <1>2, <1>3, GoodParts
<1> QED BY <1>4 DEF c

\* initBuffer().
LEMMA NewIsGood ==
  ASSUME NEW n \in Nat
  PROVE  initBuffer(n) \in Good
<1>1. PICK d \in Seq(Nat) : d = Cleared(n) /\ Len(d) = n
  BY ClearedIsBlock
<1>2. [data |-> d, readPos |-> 0, writePos |-> 0] \in Good
  <2>1. 0 \in Nat /\ 0 <= 0 /\ 0 <= Len(d)
    BY <1>1
  <2> QED BY <2>1, MakeGood
<1> QED BY <1>1, <1>2 DEF initBuffer

\* The unread bytes are as many as the offsets say.
LEMMA UnreadBytes ==
  ASSUME NEW b \in Good
  PROVE  /\ bufferReadAbleSize(b) \in Nat
         /\ Unread(b) \in Seq(Nat)
         /\ Len(Unread(b)) = bufferReadAbleSize(b)
<1> DEFINE n == bufferReadAbleSize(b)
<1>1. n \in Nat /\ b.readPos + n = b.writePos
  BY GoodFields DEF bufferReadAbleSize
<1> HIDE DEF n
<1>2. b.readPos >= 0 /\ b.readPos + n <= Len(b.data)
  BY <1>1, GoodFields
<1>3. Unread(b) = SubSeq(b.data, b.readPos + 1, b.readPos + n)
  BY <1>2 DEF Unread, BytesFrom, n
<1>4. /\ SubSeq(b.data, b.readPos + 1, b.readPos + n) \in Seq(Nat)
      /\ Len(SubSeq(b.data, b.readPos + 1, b.readPos + n)) = n
  <2>1. PICK d \in Seq(Nat), p \in Nat : d = b.data /\ p = b.readPos
    BY GoodFields
  <2>2. PICK lo \in Nat \ {0}, hi \in Nat : lo = p + 1 /\ hi = p + n
    BY <1>1
  <2>3. hi <= Len(d)
    BY <1>2, <2>1, <2>2
  <2>4. SubSeq(d, lo, hi) \in Seq(Nat) /\ Len(SubSeq(d, lo, hi)) = IF lo <= hi THEN hi - lo + 1 ELSE 0
    BY <2>3, Piece
  <2>5. (IF lo <= hi THEN hi - lo + 1 ELSE 0) = n
    BY <1>1, <2>2
  <2> QED BY <2>1, <2>2, <2>4, <2>5
<1> QED BY <1>1, <1>3, <1>4 DEF n

\* extendRoomBuffer() makes the room it is asked for.
LEMMA RoomIsMade ==
  ASSUME NEW b \in Good, NEW size \in Nat
  PROVE  /\ extendRoomBuffer(b, size) \in Good
         /\ extendRoomBuffer(b, size).writePos + size <= Len(extendRoomBuffer(b, size).data)
<1>1. CASE bufferWriteAbleSize(b) >= size
  <2>1. extendRoomBuffer(b, size) = b
    BY <1>1 DEF extendRoomBuffer
  <2>2. b.writePos + size <= Len(b.data)
    BY <1>1, GoodFields DEF bufferWriteAbleSize
  <2> QED BY <2>1, <2>2
<1>2. CASE ~ (bufferWriteAbleSize(b) >= size) /\ b.readPos + bufferWriteAbleSize(b) >= size
  <2> DEFINE n == bufferReadAbleSize(b)
             d == CopyAt(b.data, 0, Unread(b))
  <2>1. extendRoomBuffer(b, size) = [data |-> d, readPos |-> 0, writePos |-> n]
    BY <1>2 DEF extendRoomBuffer
  <2>2. n \in Nat /\ n + size <= Len(b.data) /\ n <= Len(b.data)
    BY <1>2, GoodFields DEF bufferReadAbleSize, bufferWriteAbleSize
  <2>3. d \in Seq(Nat) /\ Len(d) = Len(b.data)
    BY CopyKeepsLength, GoodFields, UnreadBytes
  <2> HIDE DEF n, d
  <2>4. [data |-> d, readPos |-> 0, writePos |-> n] \in Good
    <3>1. 0 \in Nat /\ 0 <= n /\ n <= Len(d)
      BY <2>2, <2>3
    <3> QED BY <2>2, <2>3, <3>1, MakeGood
  <2> QED BY <2>1, <2>2, <2>3, <2>4
<1>3. CASE ~ (bufferWriteAbleSize(b) >= size) /\ ~ (b.readPos + bufferWriteAbleSize(b) >= size)
  <2> DEFINE d == b.data \o Cleared(size)
             c == [b EXCEPT !.data = d]
  <2>1. extendRoomBuffer(b, size) = c
    BY <1>3 DEF extendRoomBuffer
  <2>2. d \in Seq(Nat) /\ Len(d) = Len(b.data) + size
    BY ClearedIsBlock, Joined, GoodFields
  <2> HIDE DEF d
  <2>3. b \in [data : Seq(Nat), readPos : Nat, writePos : Nat]
    BY GoodFields
  <2>4. c \in [data : Seq(Nat), readPos : Nat, writePos : Nat]
    BY <2>2, <2>3
  <2>5. c.data = d /\ c.readPos = b.readPos /\ c.writePos = b.writePos
    BY <2>3
  <2> HIDE DEF c
  <2>6. b.writePos + size <= Len(d) /\ b.writePos <= Len(d)
    BY <2>2, GoodFields
  <2>7. c \in Good
    BY <2>4, <2>5, <2>6, GoodFields, GoodParts
  <2> QED BY <2>1, <2>5, <2>6, <2>7
<1> QED BY <1>1, <1>2, <1>3

\* appendDataBuffer() and Buffer::appendString().
LEMMA AppendKeepsGood ==
  ASSUME NEW b \in Good, NEW s \in Seq(Nat)
  PROVE  appendDataBuffer(b, s) \in Good /\ appendString(b, s) \in Good
<1>1. Len(s) \in Nat
  BY LenProperties
<1>2. CASE Len(s) <= 0
  BY <1>2 DEF appendDataBuffer, appendString
<1>3. CASE ~ (Len(s) <= 0)
  <2>1. PICK c \in Good : c = extendRoomBuffer(b, Len(s)) /\ c.writePos + Len(s) <= Len(c.data)
    BY <1>1, RoomIsMade
  <2> DEFINE d == CopyAt(c.data, c.writePos, s)
  <2>2. d \in Seq(Nat) /\ Len(d) = Len(c.data)
    BY CopyKeepsLength, GoodFields
  <2>3. c.writePos + Len(s) \in Nat /\ c.readPos <= c.writePos + Len(s)
    BY <1>1, GoodFields
  <2>4. appendDataBuffer(b, s) = [c EXCEPT !.data = d, !.writePos = c.writePos + Len(s)]
    BY <1>3, <2>1 DEF appendDataBuffer
  <2>5. appendString(b, s) = [c EXCEPT !.data = d, !.writePos = c.writePos + Len(s)]
    BY <1>3, <2>1 DEF appendString, extendRoom
  <2> HIDE DEF d
  <2>6. PICK w \in Nat : w = c.writePos + Len(s)
    BY <2>3
  <2>7. [c EXCEPT !.data = d, !.writePos = w] \in Good
    BY <2>1, <2>2, <2>3, <2>6, WithData
  <2> QED BY <2>4, <2>5, <2>6, <2>7
<1> QED BY <1>2, <1>3

\* sendDataBuffer() and Buffer::sendData() of what is there.
LEMMA SendKeepsGood ==
  ASSUME NEW b \in Good
  PROVE  /\ \A count \in 1..bufferReadAbleSize(b) :
              sendDataBuffer(b, count) \in Good /\ sendData(b, count) \in Good
         /\ sendData(b, -1) = b
<1>1. ASSUME NEW count \in 1..bufferReadAbleSize(b)
      PROVE  sendDataBuffer(b, count) \in Good /\ sendData(b, count) \in Good
  <2>1. b.readPos + count \in Nat /\ b.readPos + count <= b.writePos
    BY GoodFields DEF bufferReadAbleSize
  <2>2. bufferReadAbleSize(b) > 0 /\ count > 0 /\ count # 0
    BY UnreadBytes
  <2>3. sendDataBuffer(b, count) = [b EXCEPT !.readPos = b.readPos + count]
    BY <2>2 DEF sendDataBuffer
  <2>4. sendData(b, count) = [b EXCEPT !.readPos = b.readPos + count]
    BY <2>2 DEF sendData
  <2> QED BY <2>1, <2>3, <2>4, WithReadPos
<1>2. sendData(b, -1) = b
  BY DEF sendData
<1> QED BY <1>1, <1>2

-----------------------------------------------------------------------------
(* What readv() brings.                                                    *)

\* The bytes readv() put in place, as many as there is room for.
LEMMA InPlace ==
  ASSUME NEW b \in Good, NEW in \in Seq(Nat)
  PROVE  LET n == Min({Len(in), bufferWriteAbleSize(b)})
         IN  /\ CopyAt(b.data, b.writePos, SubSeq(in, 1, n)) \in Seq(Nat)
             /\ Len(CopyAt(b.data, b.writePos, SubSeq(in, 1, n))) = Len(b.data)
<1> DEFINE n == Min({Len(in), bufferWriteAbleSize(b)})
<1>1. Len(in) \in Nat /\ bufferWriteAbleSize(b) \in Nat
  BY GoodFields, LenProperties DEF bufferWriteAbleSize
<1>2. n \in Nat /\ n <= Len(in)
  BY <1>1, MinOfTwo
<1> HIDE DEF n
<1>3. SubSeq(in, 1, n) \in Seq(Nat)
  BY <1>2, Piece
<1>4. /\ CopyAt(b.data, b.writePos, SubSeq(in, 1, n)) \in Seq(Nat)
      /\ Len(CopyAt(b.data, b.writePos, SubSeq(in, 1, n))) = Len(b.data)
  BY <1>3, GoodFields, CopyKeepsLength
<1> QED BY <1>4 DEF n

\* The bytes behind them.
LEMMA Behind ==
  ASSUME NEW b \in Good, NEW in \in Seq(Nat)
  PROVE  SubSeq(in, bufferWriteAbleSize(b) + 1, Len(in)) \in Seq(Nat)
<1>1. bufferWriteAbleSize(b) + 1 \in Nat \ {0} /\ Len(in) \in Nat
  BY GoodFields, LenProperties DEF bufferWriteAbleSize
<1> QED BY <1>1, Piece

\* socketReadBuffer().
LEMMA ReadKeepsGood ==
  ASSUME NEW b \in Good, NEW in \in Seq(Nat)
  PROVE  socketReadBuffer(b, in) \in Good
<1> DEFINE d == CopyAt(b.data, b.writePos, SubSeq(in, 1, Min({Len(in), bufferWriteAbleSize(b)})))
           c == [b EXCEPT !.data = d]
<1>1. d \in Seq(Nat) /\ Len(d) = Len(b.data)
  BY InPlace
<1>2. b \in [data : Seq(Nat), readPos : Nat, writePos : Nat] /\ Len(in) \in Nat
  BY GoodFields, LenProperties
<1>3. CASE Len(in) <= bufferWriteAbleSize(b)
  <2>1. socketReadBuffer(b, in) = [c EXCEPT !.writePos = c.writePos + Len(in)]
    BY <1>3 DEF socketReadBuffer
  <2> HIDE DEF d
  <2>2. [c EXCEPT !.writePos = c.writePos + Len(in)]
          = [b EXCEPT !.data = d, !.writePos = b.writePos + Len(in)]
    BY <1>2
  <2>3. PICK w \in Nat : w = b.writePos + Len(in)
    BY <1>2, GoodFields
  <2>4. b.readPos <= w /\ w <= Len(d)
    BY <1>1, <1>2, <1>3, <2>3, GoodFields DEF bufferWriteAbleSize
  <2> QED BY <1>1, <2>1, <2>2, <2>3, <2>4, WithData, ZenonT(40)
<1>4. CASE ~ (Len(in) <= bufferWriteAbleSize(b))
  <2> DEFINE e == [c EXCEPT !.writePos = Len(b.data)]
             s == SubSeq(in, bufferWriteAbleSize(b) + 1, Len(in))
  <2>1. socketReadBuffer(b, in) = appendDataBuffer(e, s)
    BY <1>4 DEF socketReadBuffer
  <2> HIDE DEF d
  <2>2. e = [b EXCEPT !.data = d, !.writePos = Len(b.data)]
    BY <1>2
  <2>3. PICK w \in Nat : w = Len(b.data)
    BY GoodFields
  <2>4. b.readPos <= w /\ w <= Len(d)
    BY <1>1, <2>3, GoodFields
  <2>5. e \in Good
    BY <1>1, <2>2, <2>3, <2>4, WithData
  <2> HIDE DEF e
  <2> QED BY <2>1, <2>5, Behind, AppendKeepsGood
<1> QED BY <1>3, <1>4

\* Buffer::socketRead(), whatever tmpbuf held.
LEMMA ReadCppKeepsGood ==
  ASSUME NEW b \in Good, NEW in \in Seq(Nat), NEW junk,
         Len(in) <= bufferWriteAbleSize(b) \/ junk \in Seq(Nat)
  PROVE  socketRead(b, in, junk) \in Good
<1> DEFINE d == CopyAt(b.data, b.writePos, SubSeq(in, 1, Min({Len(in), bufferWriteAbleSize(b)})))
           s == SubSeq(in, bufferWriteAbleSize(b) + 1, Len(in))
<1>1. d \in Seq(Nat) /\ Len(d) = Len(b.data)
  BY InPlace
<1>2. s \in Seq(Nat)
  BY Behind
<1>3. Len(in) \in Nat
  BY LenProperties
<1>4. CASE Len(in) <= bufferWriteAbleSize(b)
  <2>1. socketRead(b, in, junk) = [b EXCEPT !.data = d, !.writePos = b.writePos + Len(in)]
    BY <1>4 DEF socketRead
  <2> HIDE DEF d
  <2>3. PICK w \in Nat : w = b.writePos + Len(in)
    BY <1>3, GoodFields
  <2>4. b.readPos <= w /\ w <= Len(d)
    BY <1>1, <1>3, <1>4, <2>3, GoodFields DEF bufferWriteAbleSize
  <2> QED BY <1>1, <2>1, <2>3, <2>4, WithData, ZenonT(40)
<1>5. CASE ~ (Len(in) <= bufferWriteAbleSize(b))
  <2> DEFINE over == CopyAt(d, b.writePos, s)
             e == [b EXCEPT !.data = over, !.writePos = Len(b.data)]
  <2>1. socketRead(b, in, junk) = appendString(e, junk)
    BY <1>5 DEF socketRead
  <2> HIDE DEF d, s
  <2>2. over \in Seq(Nat) /\ Len(over) = Len(b.data)
    BY <1>1, <1>2, GoodFields, CopyKeepsLength
  <2> HIDE DEF over
  <2>3. PICK w \in Nat : w = Len(b.data)
    BY GoodFields
  <2>4. b.readPos <= w /\ w <= Len(over)
    BY <2>2, <2>3, GoodFields
  <2>5. e \in Good
    BY <2>2, <2>3, <2>4, WithData
  <2> HIDE DEF e
  <2> QED BY <1>5, <2>1, <2>5, AppendKeepsGood
<1> QED BY <1>4, <1>5

-----------------------------------------------------------------------------
(* The parser.                                                             *)

\* memmem() finds the pair inside of the bytes.
LEMMA PairIsInside ==
  ASSUME NEW s \in Seq(Nat), NEW x, NEW y
  PROVE  FindPair(s, x, y) = -1 \/ (FindPair(s, x, y) \in Nat /\ FindPair(s, x, y) + 2 <= Len(s))
<1> DEFINE at == {i \in 1..Len(s) - 1 : s[i] = x /\ s[i + 1] = y}
<1>1. Len(s) \in Nat
  BY LenProperties
<1>2. at \subseteq Nat /\ at \subseteq 1..Len(s) - 1
  BY <1>1
<1>3. FindPair(s, x, y) = IF at = {} THEN -1 ELSE Min(at) - 1
  BY DEF FindPair
<1> HIDE DEF at
<1>4. at # {} => Min(at) \in 1..Len(s) - 1
  BY <1>2, MinIsMember
<1> QED BY <1>1, <1>3, <1>4

\* The line that is found lies in the unread bytes with its two end bytes.
LEMMA LineIsUnread ==
  ASSUME NEW b \in Good
  PROVE  /\ findCRLFBuffer(b) = findCRLF(b)
         /\ findCRLF(b) = -1 \/
              (findCRLF(b) \in Nat /\ b.readPos + findCRLF(b) + 2 <= b.writePos)
<1>1. findCRLF(b) = -1 \/ (findCRLF(b) \in Nat /\ findCRLF(b) + 2 <= bufferReadAbleSize(b))
  BY UnreadBytes, PairIsInside DEF findCRLF
<1>2. findCRLFBuffer(b) = findCRLF(b)
  BY DEF findCRLF, findCRLFBuffer
<1>3. ASSUME NEW n \in Nat, n + 2 <= bufferReadAbleSize(b)
      PROVE  b.readPos + n + 2 <= b.writePos
  BY <1>3, GoodFields DEF bufferReadAbleSize
<1> QED BY <1>1, <1>2, <1>3

\* The read position moves over bytes that are there.
LEMMA SkipKeepsGood ==
  ASSUME NEW b \in Good, NEW n \in Nat, b.readPos + n <= b.writePos
  PROVE  Skip(b, n) \in Good
<1>1. PICK r \in Nat : r = b.readPos + n
  BY GoodFields
<1>2. [b EXCEPT !.readPos = r] \in Good
  BY <1>1, WithReadPos
<1> QED BY <1>1, <1>2 DEF Skip

\* The buffer a step leaves behind.
LEMMA BufferOfOutcome == \A f, r, b : Outcome(f, r, b).buf = b
BY DEF Outcome

\* The request line: the buffer of every outcome is good.
LEMMA LineStepKeepsGood ==
  ASSUME NEW b \in Good, NEW r,
         NEW o \in parseHttpRequestLine(r, b) \cup parseRequestLine(r, b)
  PROVE  o.buf \in Good
<1> DEFINE n == findCRLF(b)
<1>1. CASE o.buf = b
  BY <1>1
<1>2. CASE n # -1 /\ o \in AcceptLine(r, b, n)
  <2>1. n \in Nat /\ b.readPos + n + 2 <= b.writePos
    BY <1>2, LineIsUnread
  <2>2. o.buf = b \/ o.buf = [b EXCEPT !.readPos = b.readPos + n + 2]
    <3> DEFINE words == splitRequestLine(BytesFrom(b.data, b.readPos, n))
    <3>1. CASE words = {}
      BY <1>2, <3>1 DEF AcceptLine, Outcome
    <3>2. CASE words # {}
      <4>1. \E w \in words :
              o = Outcome("true",
                          [r EXCEPT !.curState = "ParseReqHeader", !.method = w.method,
                                    !.url = w.url, !.version = w.version],
                          [b EXCEPT !.readPos = b.readPos + n + 2])
        BY <1>2, <3>2, Zenon DEF AcceptLine
      <4>2. \E f, q : o = Outcome(f, q, [b EXCEPT !.readPos = b.readPos + n + 2])
        BY <4>1, Zenon
      <4> DEFINE moved == [b EXCEPT !.readPos = b.readPos + n + 2]
      <4>3. PICK f, q : o = Outcome(f, q, moved)
        BY <4>2
      <4> HIDE DEF moved
      <4>4. o.buf = moved
        BY <4>3, BufferOfOutcome
      <4> QED BY <4>4 DEF moved
    <3> QED BY <3>1, <3>2
  <2> HIDE DEF n
  <2>3. PICK q \in Nat : q = b.readPos + n + 2
    BY <2>1, GoodFields
  <2>4. [b EXCEPT !.readPos = q] \in Good
    BY <2>1, <2>3, WithReadPos
  <2> QED BY <2>2, <2>3, <2>4
<1>3. o.buf = b \/ (n # -1 /\ o \in AcceptLine(r, b, n))
  <2>1. findCRLFBuffer(b) = n
    BY LineIsUnread
  <2>2. ASSUME o \in parseHttpRequestLine(r, b)
        PROVE  o.buf = b \/ (n # -1 /\ o \in AcceptLine(r, b, n))
    BY <2>1, <2>2 DEF parseHttpRequestLine, Outcome
  <2>3. ASSUME o \in parseRequestLine(r, b)
        PROVE  o.buf = b \/ (n # -1 /\ o \in AcceptLine(r, b, n))
    BY <2>3 DEF parseRequestLine, Outcome
  <2> QED BY <2>2, <2>3
<1> QED BY <1>1, <1>2, <1>3

\* The header lines, likewise.
LEMMA HeaderStepKeepsGood ==
  ASSUME NEW b \in Good, NEW r,
         NEW o \in parseHttpRequestHeader(r, b) \cup parseRequestHeader(r, b)
  PROVE  o.buf \in Good
<1> DEFINE n == findCRLF(b)
<1>1. findCRLFBuffer(b) = n
  BY LineIsUnread
<1>2. o.buf = b \/ (n # -1 /\ o.buf \in {Skip(b, n + 2), Skip(b, 2)})
  <2>1. ASSUME o \in parseHttpRequestHeader(r, b)
        PROVE  o.buf = b \/ (n # -1 /\ o.buf \in {Skip(b, n + 2), Skip(b, 2)})
    BY <1>1, <2>1 DEF parseHttpRequestHeader, Outcome
  <2>2. ASSUME o \in parseRequestHeader(r, b)
        PROVE  o.buf = b \/ (n # -1 /\ o.buf \in {Skip(b, n + 2), Skip(b, 2)})
    BY <2>2 DEF parseRequestHeader, Outcome
  <2> QED BY <2>1, <2>2
<1>3. ASSUME n # -1 PROVE Skip(b, n + 2) \in Good /\ Skip(b, 2) \in Good
  <2>1. n \in Nat /\ b.readPos + n + 2 <= b.writePos
    BY <1>3, LineIsUnread
  <2> HIDE DEF n
  <2>2. n + 2 \in Nat /\ b.readPos + (n + 2) <= b.writePos /\ b.readPos + 2 <= b.writePos
    BY <2>1, GoodFields
  <2> QED BY <2>2, SkipKeepsGood
<1> QED BY <1>2, <1>3

-----------------------------------------------------------------------------
(* The responses.                                                          *)

\* getFileType() gives a type of the table or the plain one.
LEMMA FileTypeIsNat ==
  ASSUME NEW name
  PROVE  getFileType(name) \in Nat
<1> DEFINE suffix == SubSeq(name, Max({i \in DOMAIN name : name[i] = DOT}), Len(name))
<1>1. getFileType(name) = TextPlain \/
        (suffix \in DOMAIN MimeTypes /\ getFileType(name) = MimeTypes[suffix])
  BY Zenon DEF getFileType
<1> HIDE DEF suffix
<1>2. suffix \in DOMAIN MimeTypes => MimeTypes[suffix] \in Nat
  BY MimeTypesAssumption
<1> QED BY <1>1, <1>2 DEF TextPlain

(* A response that can be written into a buffer.                           *)
Printable(p) == p.status \in Nat /\ p.headers \in Seq(Nat)

\* Of a number and numbers it can.
LEMMA ResponseIsPrintable ==
  ASSUME NEW s \in Nat, NEW h \in Seq(Nat), NEW f, NEW g
  PROVE  Printable(Response(s, h, f, g))
BY DEF Printable, Response

\* processHttpRequest() in both programs.
LEMMA ProcessIsPrintable ==
  ASSUME NEW r, NEW p, Printable(p), NEW fs, \A f \in DOMAIN fs : fs[f].content \in Seq(Nat)
  PROVE  Printable(processHttpRequest(r, p, fs)) /\ Printable(processHttpRequestCpp(r, p, fs))
<1>1. ASSUME NEW f PROVE Printable(Response(404, <<TextHtml>>, f, "sendFile"))
  <2>1. 404 \in Nat /\ <<TextHtml>> \in Seq(Nat)
    BY DEF TextHtml
  <2> QED BY <2>1, ResponseIsPrintable, ZenonT(40)
<1>2. ASSUME NEW f PROVE Printable(Response(200, <<TextHtml>>, f, "sendDir"))
  <2>1. 200 \in Nat /\ <<TextHtml>> \in Seq(Nat)
    BY DEF TextHtml
  <2> QED BY <2>1, ResponseIsPrintable
<1>3. ASSUME NEW f \in DOMAIN fs
      PROVE  /\ Printable(Response(200, <<getFileType(f), Len(fs[f].content)>>, f, "sendFile"))
             /\ Printable(Response(200, <<Len(fs[f].content), getFileType(f)>>, f, "sendFile"))
  <2>1. PICK n \in Nat, t \in Nat : n = Len(fs[f].content) /\ t = getFileType(f)
    BY FileTypeIsNat, LenProperties
  <2>2. 200 \in Nat /\ <<n, t>> \in Seq(Nat) /\ <<t, n>> \in Seq(Nat)
    OBVIOUS
  <2> QED BY <2>1, <2>2, ResponseIsPrintable
<1>4. Printable(processHttpRequest(r, p, fs))
  BY <1>1, <1>2, <1>3, Zenon DEF processHttpRequest
<1>5. Printable(processHttpRequestCpp(r, p, fs))
  BY <1>1, <1>2, <1>3, Zenon DEF processHttpRequestCpp
<1> QED BY <1>4, <1>5

\* The head of such a response.
LEMMA HeadIsBytes ==
  ASSUME NEW p, Printable(p)
  PROVE  Head_(p) \in Seq(Nat)
<1>1. PICK s \in Nat, h \in Seq(Nat) : s = p.status /\ h = p.headers
  BY DEF Printable
<1>2. <<s>> \in Seq(Nat) /\ <<EmptyLine>> \in Seq(Nat)
  BY DEF EmptyLine
<1>3. <<s>> \o h \in Seq(Nat)
  BY <1>2, Joined
<1>4. <<s>> \o h \o <<EmptyLine>> \in Seq(Nat)
  BY <1>2, <1>3, Joined
<1> QED BY <1>1, <1>4 DEF Head_

-----------------------------------------------------------------------------
(* The invariant: the buffers, and what is given to their operations.  The *)
(* write buffer of the C program is left out once the connection is reset: *)
(* then send() gives -1 and sendDataBuffer() moves readPos back.           *)
BufInv ==
  /\ readBuf \in Good
  /\ impl = "cpp" \/ peer # "reset" => writeBuf \in Good

InputInv ==
  /\ impl \in {"c", "cpp"}
  /\ request \in Requests /\ files \in FileSystems
  /\ arrived \in 0..Len(request.sent) /\ taken \in Nat

OutputInv ==
  /\ Printable(resp)
  /\ pc \in {"sendFile", "sendDir"} => row \in Nat \ {0}

HttpInv == BufInv /\ InputInv /\ OutputInv

\* The file system of the moment is a part of the one given.
LEMMA DiskFiles ==
  ASSUME files \in FileSystems
  PROVE  \A f \in DOMAIN Disk : Disk[f].content \in Seq(Nat)
<1> DEFINE D == DOMAIN files \ (IF gone THEN {request.path} ELSE {})
<1>1. D \subseteq DOMAIN files
  BY Zenon
<1>2. Disk = [p \in D |-> files[p]]
  BY DEF Disk
<1> HIDE DEF D
<1>3. DOMAIN Disk = D /\ \A f \in D : Disk[f] = files[f]
  BY <1>2
<1> QED BY <1>1, <1>3, FilesAssumption

\* The content that is sent is a sequence of chunks or rows.
LEMMA ContentIsBytes ==
  ASSUME files \in FileSystems
  PROVE  Content \in Seq(Nat)
<1>1. Served => resp.fileName \in DOMAIN files
  BY DEF Served, Disk
<1>2. Served => files[resp.fileName].content \in Seq(Nat)
  BY <1>1, FilesAssumption
<1>3. <<>> \in Seq(Nat)
  OBVIOUS
<1> QED BY <1>2, <1>3 DEF Content

\* A chunk or row of it.
LEMMA RowIsByte ==
  ASSUME files \in FileSystems, row \in Nat \ {0}, row <= Len(Content)
  PROVE  Content[row] \in Nat /\ Content[1] \in Nat
<1>1. PICK s \in Seq(Nat) : s = Content
  BY ContentIsBytes
<1>2. Len(s) \in Nat /\ \A k \in 1..Len(s) : s[k] \in Nat
  BY LenProperties, ElementOfSeq
<1>3. row \in 1..Len(s) /\ 1 \in 1..Len(s)
  BY <1>1, <1>2
<1> QED BY <1>1, <1>2, <1>3

\* What readv() can deliver is a sequence of bytes.
LEMMA IncomingIsBytes ==
  ASSUME HttpInv
  PROVE  Incoming \in Seq(Nat)
<1> DEFINE w == taken + bufferWriteAbleSize(readBuf) + TmpSize
           n == Min({arrived, w})
<1>1. request.sent \in Seq(Nat) /\ arrived \in Nat /\ arrived <= Len(request.sent) /\ taken \in Nat
  <2>1. request.sent \in Seq(Nat)
    BY RequestsAssumption DEF HttpInv, InputInv
  <2>2. Len(request.sent) \in Nat
    BY <2>1, LenProperties
  <2> QED BY <2>1, <2>2 DEF HttpInv, InputInv
<1>2. w \in Nat
  BY <1>1, GoodFields, SizesAssumption DEF HttpInv, BufInv, bufferWriteAbleSize
<1> HIDE DEF w
<1>3. n \in Nat /\ n <= arrived
  BY <1>1, <1>2, MinOfTwo
<1> HIDE DEF n
<1>4. PICK s \in Seq(Nat), t \in Nat \ {0} : s = request.sent /\ t = taken + 1
  BY <1>1
<1>5. n <= Len(s)
  <2>1. Len(s) \in Nat
    BY LenProperties
  <2> QED BY <1>1, <1>3, <1>4, <2>1
<1>6. SubSeq(s, t, n) \in Seq(Nat)
  BY <1>3, <1>5, Piece
<1> QED BY <1>4, <1>6 DEF Incoming, n, w

-----------------------------------------------------------------------------
(* The steps.                                                              *)

\* What an append and the send() behind it leave of the write buffer.
LEMMA SendStepKeepsGood ==
  ASSUME HttpInv, NEW items \in Seq(Nat), AppendAndSend(items), impl' = impl
  PROVE  impl' = "cpp" \/ peer' # "reset" => writeBuf' \in Good
<1> SUFFICES ASSUME impl = "cpp" \/ peer' # "reset"
             PROVE  writeBuf' \in Good
  OBVIOUS
<1> DEFINE b == Append_(writeBuf, items)
           n == bufferReadAbleSize(b)
<1>1. peer # "reset" \/ impl = "cpp"
  <2>1. CASE peer = "reset"
    <3>1. peer' = peer
      BY <2>1, Zenon DEF AppendAndSend
    <3> QED BY <2>1, <3>1
  <2> QED BY <2>1
<1>2. b \in Good
  <2>1. writeBuf \in Good
    BY <1>1 DEF HttpInv, BufInv
  <2> QED BY <2>1, AppendKeepsGood DEF Append_
<1>3. \/ \E count \in 1..n : writeBuf' = AfterSend(b, count)
      \/ peer = "reset" /\ writeBuf' = AfterSend(b, -1)
  BY Zenon DEF AppendAndSend
<1> HIDE DEF b
<1>4. CASE \E count \in 1..n : writeBuf' = AfterSend(b, count)
  BY <1>2, <1>4, SendKeepsGood DEF AfterSend
<1>5. CASE peer = "reset" /\ writeBuf' = AfterSend(b, -1)
  <2>1. impl = "cpp"
    BY <1>1, <1>5
  <2>2. AfterSend(b, -1) = b
    BY <1>2, <2>1, SendKeepsGood DEF AfterSend
  <2> QED BY <1>2, <1>5, <2>2
<1> QED BY <1>3, <1>4, <1>5

\* A step of either parser, on the buffer it read.
LEMMA ParseStepKeepsGood ==
  ASSUME HttpInv, parseHttpRequest_c \/ parseHttpRequest_cpp
  PROVE  readBuf' \in Good
<1>1. readBuf \in Good
  BY DEF HttpInv, BufInv
<1>2. \E o : /\ \/ o \in parseHttpRequestLine(req, readBuf) \cup parseRequestLine(req, readBuf)
                \/ o \in parseHttpRequestHeader(req, readBuf) \cup parseRequestHeader(req, readBuf)
             /\ readBuf' = o.buf
  <2>1. CASE parseHttpRequest_c
    BY <2>1 DEF parseHttpRequest_c
  <2>2. CASE parseHttpRequest_cpp
    BY <2>2 DEF parseHttpRequest_cpp
  <2> QED BY <2>1, <2>2
<1> QED BY <1>1, <1>2, LineStepKeepsGood, HeaderStepKeepsGood

\* A step that leaves what HttpInv speaks of as it was, but for pc.
LEMMA QuietStep ==
  ASSUME HttpInv, UNCHANGED <<impl, request, files, taken, readBuf, writeBuf, resp>>,
         arrived' \in 0..Len(request.sent),
         peer = "reset" => peer' = "reset",
         pc' \in {"sendFile", "sendDir"} => row' \in Nat \ {0}
  PROVE  HttpInv'
<1>1. BufInv'
  BY DEF HttpInv, BufInv
<1>2. InputInv'
  BY DEF HttpInv, InputInv
<1>3. OutputInv'
  BY DEF HttpInv, OutputInv, Printable
<1> QED BY <1>1, <1>2, <1>3 DEF HttpInv

\* A step of the server in a read or in the parser.
LEMMA ReadStep ==
  ASSUME HttpInv, UNCHANGED <<impl, request, files, arrived, peer, resp, row>>,
         readBuf' \in Good, taken' \in Nat,
         impl = "cpp" \/ peer # "reset" => writeBuf' \in Good,
         pc' \notin {"sendFile", "sendDir"}
  PROVE  HttpInv'
<1>1. BufInv'
  BY DEF HttpInv, BufInv
<1>2. InputInv'
  BY DEF HttpInv, InputInv
<1>3. OutputInv'
  BY DEF HttpInv, OutputInv, Printable
<1> QED BY <1>1, <1>2, <1>3 DEF HttpInv

\* A step that appends to the write buffer and sends.
LEMMA WriteStep ==
  ASSUME HttpInv, NEW items \in Seq(Nat), AppendAndSend(items),
         UNCHANGED <<impl, request, files, arrived, taken, readBuf>>,
         Printable(resp'),
         pc' \in {"sendFile", "sendDir"} => row' \in Nat \ {0}
  PROVE  HttpInv'
<1>1. BufInv'
  <2>1. impl' = "cpp" \/ peer' # "reset" => writeBuf' \in Good
    BY SendStepKeepsGood
  <2> QED BY <2>1 DEF HttpInv, BufInv
<1>2. InputInv'
  BY DEF HttpInv, InputInv
<1>3. OutputInv'
  BY DEF OutputInv, Printable
<1> QED BY <1>1, <1>2, <1>3 DEF HttpInv

\* A new connection.
LEMMA InitHttp == Init => HttpInv
<1> SUFFICES ASSUME Init PROVE HttpInv
  OBVIOUS
<1>1. BufInv
  BY SizesAssumption, NewIsGood DEF Init, initTcpConnection, BufInv
<1>2. InputInv
  <2>1. request.sent \in Seq(Nat)
    BY RequestsAssumption DEF Init
  <2>2. 0 \in 0..Len(request.sent) /\ 0 \in Nat
    BY <2>1, LenProperties
  <2> QED BY <2>2 DEF Init, InputInv
<1>3. OutputInv
  <2>1. resp = initHttpResponse /\ pc = "idle"
    BY DEF Init, initTcpConnection
  <2>2. initHttpResponse.status = 0 /\ initHttpResponse.headers = <<>>
    BY DEF initHttpResponse
  <2> QED BY <2>1, <2>2 DEF OutputInv, Printable
<1> QED BY <1>1, <1>2, <1>3 DEF HttpInv

\* The client and the file system.
LEMMA EnvironmentHttp ==
  ASSUME HttpInv, Arrive \/ Leave("eof") \/ Leave("reset") \/ Stall \/ Unlink
  PROVE  HttpInv'
<1>1. UNCHANGED <<impl, request, files, taken, readBuf, writeBuf, resp, pc, row>>
  BY DEF Arrive, Leave, Stall, Unlink, env
<1>2. arrived' \in 0..Len(request.sent)
  <2>1. request.sent \in Seq(Nat) /\ arrived \in 0..Len(request.sent)
    BY RequestsAssumption DEF HttpInv, InputInv
  <2>2. Len(request.sent) \in Nat
    BY <2>1, LenProperties
  <2>3. CASE Arrive
    <3>1. PICK n \in arrived + 1..Len(request.sent) : arrived' = n
      BY <2>3 DEF Arrive
    <3> QED BY <2>1, <2>2, <3>1
  <2>4. CASE Leave("eof") \/ Leave("reset") \/ Stall \/ Unlink
    BY <2>1, <2>4 DEF Leave, Stall, Unlink
  <2> QED BY <2>3, <2>4
<1>3. peer = "reset" => peer' = "reset"
  BY DEF Arrive, Leave, Stall, Unlink
<1>4. pc' \in {"sendFile", "sendDir"} => row' \in Nat \ {0}
  BY <1>1 DEF HttpInv, OutputInv
<1> QED BY <1>1, <1>2, <1>3, <1>4, QuietStep

\* processRead() of both programs.
LEMMA ReadHttp ==
  ASSUME HttpInv, processRead_c \/ processRead_cpp
  PROVE  HttpInv'
<1>1. UNCHANGED <<impl, request, files, arrived, peer, resp, row, writeBuf>>
  BY DEF processRead_c, processRead_cpp, env
<1>2. pc' \notin {"sendFile", "sendDir"}
  <2>1. CASE processRead_c
    BY <2>1 DEF processRead_c
  <2>2. CASE processRead_cpp
    BY <2>2 DEF processRead_cpp
  <2> QED BY <2>1, <2>2
<1>3. /\ readBuf \in Good /\ taken \in Nat
      /\ impl = "cpp" \/ peer # "reset" => writeBuf \in Good
  BY DEF HttpInv, BufInv, InputInv
<1>4. PICK in \in Seq(Nat) : in = Incoming
  BY IncomingIsBytes
<1>5. Len(in) \in Nat
  BY LenProperties
<1>6. CASE UNCHANGED <<readBuf, taken>>
  BY <1>1, <1>2, <1>3, <1>6, ReadStep
<1>7. CASE readBuf' = socketReadBuffer(readBuf, in) /\ taken' = taken + Len(in)
  <2>1. readBuf' \in Good /\ taken' \in Nat
    BY <1>3, <1>5, <1>7, ReadKeepsGood
  <2> QED BY <1>1, <1>2, <1>3, <2>1, ReadStep
<1>8. ASSUME NEW junk \in [1..Max({Len(in) - bufferWriteAbleSize(readBuf), 0}) -> JunkBytes],
             readBuf' = socketRead(readBuf, in, junk), taken' = taken + Len(in)
      PROVE  HttpInv'
  <2> DEFINE m == bufferWriteAbleSize(readBuf)
  <2>1. Len(in) <= m \/ junk \in Seq(Nat)
    <3>1. m \in Nat
      BY <1>3, GoodFields DEF bufferWriteAbleSize
    <3> HIDE DEF m
    <3>2. ASSUME ~ (Len(in) <= m) PROVE junk \in Seq(Nat)
      <4>1. PICK k \in Nat : k = Len(in) - m
        BY <1>5, <3>1, <3>2
      <4>2. Max({k, 0}) = k
        BY MaxOfTwo
      <4>3. junk \in [1..k -> JunkBytes]
        BY <1>8, <4>1, <4>2 DEF m
      <4>4. junk \in [1..k -> Nat]
        BY <4>3, SizesAssumption
      <4> QED BY <4>4
    <3> QED BY <3>2
  <2>2. readBuf' \in Good /\ taken' \in Nat
    BY <1>3, <1>5, <1>8, <2>1, ReadCppKeepsGood
  <2> QED BY <1>1, <1>2, <1>3, <2>2, ReadStep
<1>9. \/ UNCHANGED <<readBuf, taken>>
      \/ readBuf' = socketReadBuffer(readBuf, in) /\ taken' = taken + Len(in)
      \/ \E junk \in [1..Max({Len(in) - bufferWriteAbleSize(readBuf), 0}) -> JunkBytes] :
           readBuf' = socketRead(readBuf, in, junk) /\ taken' = taken + Len(in)
  <2>1. CASE processRead_c
    BY <1>4, <2>1 DEF processRead_c
  <2>2. CASE processRead_cpp
    BY <1>4, <2>2 DEF processRead_cpp
  <2> QED BY <2>1, <2>2
<1> QED BY <1>6, <1>7, <1>8, <1>9

\* The parsers; the C++ one may append the 400.
LEMMA ParseHttp ==
  ASSUME HttpInv, parseHttpRequest_c \/ parseHttpRequest_cpp
  PROVE  HttpInv'
<1>1. UNCHANGED <<impl, request, files, arrived, taken, peer, resp, row>>
  BY DEF parseHttpRequest_c, parseHttpRequest_cpp, env
<1>2. pc' \notin {"sendFile", "sendDir"}
  <2>1. CASE parseHttpRequest_c
    BY <2>1 DEF parseHttpRequest_c
  <2>2. CASE parseHttpRequest_cpp
    BY <2>2 DEF parseHttpRequest_cpp
  <2> QED BY <2>1, <2>2
<1>3. readBuf' \in Good
  BY ParseStepKeepsGood
<1>4. writeBuf' = writeBuf \/ writeBuf' = appendString(writeBuf, <<BadRequest>>)
  BY DEF parseHttpRequest_c, parseHttpRequest_cpp
<1>5. impl = "cpp" \/ peer # "reset" => writeBuf' \in Good
  <2>1. <<BadRequest>> \in Seq(Nat)
    BY DEF BadRequest
  <2>2. impl = "cpp" \/ peer # "reset" => writeBuf \in Good
    BY DEF HttpInv, BufInv
  <2> QED BY <1>4, <2>1, <2>2, AppendKeepsGood
<1>6. taken' \in Nat
  BY <1>1 DEF HttpInv, InputInv
<1> QED BY <1>1, <1>2, <1>3, <1>5, <1>6, ReadStep

\* The head of the response.
LEMMA PrepareHttp ==
  ASSUME HttpInv, prepareMsgHttpResponse \/ prepareMsg
  PROVE  HttpInv'
<1>1. UNCHANGED <<impl, request, files, arrived, taken, readBuf, row>>
  BY DEF prepareMsgHttpResponse, prepareMsg, env
<1>2. pc' \notin {"sendFile", "sendDir"}
  BY DEF prepareMsgHttpResponse, prepareMsg
<1>3. Printable(resp')
  <2>1. Printable(resp) /\ \A f \in DOMAIN Disk : Disk[f].content \in Seq(Nat)
    BY DiskFiles DEF HttpInv, OutputInv, InputInv
  <2>2. \/ resp' = processHttpRequest(req, resp, Disk)
        \/ resp' = processHttpRequestCpp(req, resp, Disk)
    BY DEF prepareMsgHttpResponse, prepareMsg
  <2> QED BY <2>1, <2>2, ProcessIsPrintable
<1>4. CASE AppendAndSend(Head_(resp'))
  <2>1. PICK items \in Seq(Nat) : items = Head_(resp')
    BY <1>3, HeadIsBytes
  <2>2. AppendAndSend(items)
    BY <1>4, <2>1
  <2> QED BY <1>1, <1>2, <1>3, <2>2, WriteStep
<1>5. CASE UNCHANGED <<peer, writeBuf>>
  <2>1. BufInv'
    BY <1>1, <1>5 DEF HttpInv, BufInv
  <2>2. InputInv'
    BY <1>1 DEF HttpInv, InputInv
  <2>3. OutputInv'
    BY <1>2, <1>3 DEF OutputInv, Printable
  <2> QED BY <2>1, <2>2, <2>3 DEF HttpInv
<1>6. AppendAndSend(Head_(resp')) \/ UNCHANGED <<peer, writeBuf>>
  BY DEF prepareMsgHttpResponse, prepareMsg
<1> QED BY <1>4, <1>5, <1>6

\* sendFile() and sendDir() begin at the first chunk or row.
LEMMA OpenHttp ==
  ASSUME HttpInv, sendFile_open \/ sendDir_open
  PROVE  HttpInv'
<1>1. /\ UNCHANGED <<impl, request, files, arrived, taken, peer, readBuf, writeBuf, resp>>
      /\ row' = 1
  BY DEF sendFile_open, sendDir_open, env
<1>2. arrived' \in 0..Len(request.sent)
  BY <1>1 DEF HttpInv, InputInv
<1> QED BY <1>1, <1>2, QuietStep

\* Their loops: a chunk, a row, the title with the first, the end of the page.
LEMMA LoopHttp ==
  ASSUME HttpInv, sendFile_loop \/ sendDir_loop
  PROVE  HttpInv'
<1>1. UNCHANGED <<impl, request, files, arrived, taken, readBuf, resp>>
  BY DEF sendFile_loop, sendDir_loop, env
<1>2. pc \in {"sendFile", "sendDir"} /\ row \in Nat \ {0}
  BY DEF sendFile_loop, sendDir_loop, HttpInv, OutputInv
<1>3. row' \in Nat \ {0}
  <2>1. row' = row \/ row' = row + 1
    BY DEF sendFile_loop, sendDir_loop
  <2> QED BY <1>2, <2>1
<1>4. Printable(resp')
  BY <1>1 DEF HttpInv, OutputInv
<1>5. files \in FileSystems
  BY DEF HttpInv, InputInv
<1>6. ASSUME NEW items \in Seq(Nat), AppendAndSend(items) PROVE HttpInv'
  BY <1>1, <1>3, <1>4, <1>6, WriteStep
<1>7. CASE UNCHANGED <<peer, writeBuf>>
  <2>1. arrived' \in 0..Len(request.sent)
    BY <1>1 DEF HttpInv, InputInv
  <2> QED BY <1>1, <1>3, <1>7, <2>1, QuietStep
<1>8. CASE row <= Len(Content) /\ AppendAndSend(<<Content[row]>>)
  <2>1. PICK items \in Seq(Nat) : items = <<Content[row]>>
    <3>1. PICK c \in Nat : c = Content[row]
      BY <1>2, <1>5, <1>8, RowIsByte
    <3>2. <<c>> \in Seq(Nat)
      OBVIOUS
    <3> QED BY <3>1, <3>2
  <2> QED BY <1>6, <1>8, <2>1
<1>9. CASE /\ row <= Len(Content)
           /\ AppendAndSend(IF row = 1 THEN <<DirHead, Content[1]>> ELSE <<Content[row]>>)
  <2>1. PICK items \in Seq(Nat) :
          items = IF row = 1 THEN <<DirHead, Content[1]>> ELSE <<Content[row]>>
    <3>1. PICK c \in Nat, e \in Nat : c = Content[row] /\ e = Content[1]
      BY <1>2, <1>5, <1>9, RowIsByte
    <3>2. <<c>> \in Seq(Nat) /\ <<DirHead, e>> \in Seq(Nat)
      BY DEF DirHead
    <3> QED BY <3>1, <3>2
  <2> QED BY <1>6, <1>9, <2>1
<1>10. CASE AppendAndSend(<<DirTail>>)
  <2>1. <<DirTail>> \in Seq(Nat)
    BY DEF DirTail
  <2> QED BY <1>6, <1>10, <2>1
<1>11. \/ UNCHANGED <<peer, writeBuf>>
       \/ row <= Len(Content) /\ AppendAndSend(<<Content[row]>>)
       \/ /\ row <= Len(Content)
          /\ AppendAndSend(IF row = 1 THEN <<DirHead, Content[1]>> ELSE <<Content[row]>>)
       \/ AppendAndSend(<<DirTail>>)
  BY DEF sendFile_loop, sendDir_loop
<1> QED BY <1>7, <1>8, <1>9, <1>10, <1>11

\* The DELETE.
LEMMA DestroyHttp ==
  ASSUME HttpInv, detroyTcpConnection \/ destroy
  PROVE  HttpInv'
<1>1. UNCHANGED <<impl, request, files, arrived, taken, peer, readBuf, writeBuf, resp, row>>
  BY DEF detroyTcpConnection, destroy, env
<1>2. pc' \notin {"sendFile", "sendDir"}
  BY DEF detroyTcpConnection, destroy
<1>3. arrived' \in 0..Len(request.sent)
  BY <1>1 DEF HttpInv, InputInv
<1> QED BY <1>1, <1>2, <1>3, QuietStep

\* Every step keeps the invariant.
LEMMA NextHttp == HttpInv /\ [Next]_vars => HttpInv'
<1> SUFFICES ASSUME HttpInv, [Next]_vars PROVE HttpInv'
  OBVIOUS
<1>1. CASE UNCHANGED vars
  BY <1>1 DEF vars, HttpInv, BufInv, InputInv, OutputInv, Printable
<1>2. CASE Arrive \/ Leave("eof") \/ Leave("reset") \/ Stall \/ Unlink
  BY <1>2, EnvironmentHttp
<1>3. CASE Server
  <2>1. CASE processRead_c \/ processRead_cpp
    BY <2>1, ReadHttp
  <2>2. CASE parseHttpRequest_c \/ parseHttpRequest_cpp
    BY <2>2, ParseHttp
  <2>3. CASE prepareMsgHttpResponse \/ prepareMsg
    BY <2>3, PrepareHttp
  <2>4. CASE sendFile_open \/ sendDir_open
    BY <2>4, OpenHttp
  <2>5. CASE sendFile_loop \/ sendDir_loop
    BY <2>5, LoopHttp
  <2>6. CASE detroyTcpConnection \/ destroy
    BY <2>6, DestroyHttp
  <2> QED BY <1>3, <2>1, <2>2, <2>3, <2>4, <2>5, <2>6 DEF Server
<1> QED BY <1>1, <1>2, <1>3 DEF Next

\* The invariant gives the property.
LEMMA HttpInvInBlock == HttpInv => OffsetsInBlock
<1>1. \A b \in Good : InBlock(b)
  BY GoodFields DEF InBlock
<1> QED BY <1>1 DEF HttpInv, BufInv, OffsetsInBlock

(* Whatever the client sends and however it is cut, whatever the files     *)
(* hold and however large the block is, readPos and writePos of both       *)
(* buffers stay in order and inside of the block, through every read,      *)
(* parser step, append and send of TcpConnection.c and TcpConnection.cpp;  *)
(* only the C program's write buffer is excepted, and only once the        *)
(* connection has been reset.                                              *)
THEOREM OffsetsAlwaysInBlock == Spec => []OffsetsInBlock
<1>1. Init => HttpInv
  BY InitHttp
<1>2. HttpInv /\ [Next]_vars => HttpInv'
  BY NextHttp
<1>3. HttpInv => OffsetsInBlock
  BY HttpInvInBlock
<1> QED BY <1>1, <1>2, <1>3, PTL DEF Spec

-----------------------------------------------------------------------------
(* Pieces of sequences, and the bytes of a buffer.                         *)

\* The bytes between two offsets of a sequence.
LEMMA Between ==
  ASSUME NEW S, NEW s \in Seq(S), NEW a \in Nat, NEW b \in Nat, a <= b, b <= Len(s)
  PROVE  /\ SubSeq(s, a + 1, b) \in Seq(S)
         /\ Len(SubSeq(s, a + 1, b)) = b - a
         /\ \A i \in 1..b - a : SubSeq(s, a + 1, b)[i] = s[a + i]
<1>1. Len(s) \in Nat /\ \A k \in 1..Len(s) : s[k] \in S
  BY LenProperties, ElementOfSeq
<1>2. \A k \in a + 1..b : s[k] \in S
  BY <1>1
<1>3. a + 1 \in Int /\ b \in Int
  OBVIOUS
<1>4. /\ SubSeq(s, a + 1, b) \in Seq(S)
      /\ Len(SubSeq(s, a + 1, b)) = IF a + 1 <= b THEN b - (a + 1) + 1 ELSE 0
      /\ \A i \in 1..b - (a + 1) + 1 : SubSeq(s, a + 1, b)[i] = s[(a + 1) + i - 1]
  BY ONLY <1>2, <1>3, SubSeqProperties
<1> HIDE <1>2
<1>5. (IF a + 1 <= b THEN b - (a + 1) + 1 ELSE 0) = b - a
  OBVIOUS
<1>6. \A i \in 1..b - a : i \in 1..b - (a + 1) + 1 /\ (a + 1) + i - 1 = a + i
  OBVIOUS
<1> QED BY <1>4, <1>5, <1>6

\* The first bytes of a sequence.
LEMMA FirstOnes ==
  ASSUME NEW S, NEW s \in Seq(S), NEW n \in Nat, n <= Len(s)
  PROVE  /\ SubSeq(s, 1, n) \in Seq(S) /\ Len(SubSeq(s, 1, n)) = n
         /\ \A i \in 1..n : SubSeq(s, 1, n)[i] = s[i]
<1>1. PICK a \in Nat : a = 0
  OBVIOUS
<1>2. /\ SubSeq(s, a + 1, n) \in Seq(S) /\ Len(SubSeq(s, a + 1, n)) = n - a
      /\ \A i \in 1..n - a : SubSeq(s, a + 1, n)[i] = s[a + i]
  <2>1. a <= n
    BY <1>1
  <2> QED BY <2>1, Between
<1>3. a + 1 = 1 /\ n - a = n /\ \A i \in 1..n : a + i = i
  BY <1>1
<1> QED BY <1>2, <1>3

\* A piece of a piece.
LEMMA PieceOfPiece ==
  ASSUME NEW S, NEW s \in Seq(S), NEW a \in Nat, NEW b \in Nat, a <= b, b <= Len(s),
         NEW c \in Nat, NEW d \in Nat, c <= d, d <= b - a
  PROVE  SubSeq(SubSeq(s, a + 1, b), c + 1, d) = SubSeq(s, a + c + 1, a + d)
<1>1. Len(s) \in Nat
  BY LenProperties
<1>2. PICK e \in Nat, g \in Nat : e = a + c /\ g = a + d
  OBVIOUS
<1>3. e <= g /\ g <= Len(s) /\ g - e = d - c
  BY <1>1, <1>2
<1> DEFINE t == SubSeq(s, a + 1, b)
           u == SubSeq(t, c + 1, d)
           v == SubSeq(s, e + 1, g)
<1>4. t \in Seq(S) /\ Len(t) = b - a /\ \A i \in 1..b - a : t[i] = s[a + i]
  BY Between
<1> HIDE DEF t
<1>5. u \in Seq(S) /\ Len(u) = d - c /\ \A i \in 1..d - c : u[i] = t[c + i]
  BY <1>4, Between
<1>6. v \in Seq(S) /\ Len(v) = d - c /\ \A i \in 1..d - c : v[i] = s[e + i]
  BY <1>3, Between
<1> HIDE DEF u, v
<1>7. ASSUME NEW i \in 1..d - c PROVE u[i] = v[i]
  <2>1. c + i \in 1..b - a /\ a + (c + i) = e + i
    BY <1>2
  <2>2. t[c + i] = s[a + (c + i)]
    BY <1>4, <2>1
  <2> QED BY <1>5, <1>6, <2>1, <2>2
<1>8. u = v
  BY <1>5, <1>6, <1>7, SeqEqual
<1> QED BY <1>2, <1>8 DEF t, u, v

\* Two adjacent pieces.
LEMMA PiecesJoin ==
  ASSUME NEW S, NEW s \in Seq(S), NEW a \in Nat, NEW b \in Nat, NEW c \in Nat,
         a <= b, b <= c, c <= Len(s)
  PROVE  SubSeq(s, a + 1, b) \o SubSeq(s, b + 1, c) = SubSeq(s, a + 1, c)
<1>1. Len(s) \in Nat
  BY LenProperties
<1>2. PICK m \in 1..Len(s) + 1 : m = a + 1
  BY <1>1
<1>3. b \in m - 1..Len(s) /\ c \in b..Len(s)
  BY <1>1, <1>2
<1>4. SubSeq(s, m, b) \o SubSeq(s, b + 1, c) = SubSeq(s, m, c)
  BY <1>3, ConcatAdjacentSubSeq
<1> QED BY <1>2, <1>4

\* The first pieces of a sequence.
LEMMA FrontAndNext ==
  ASSUME NEW S, NEW s \in Seq(S), NEW b \in Nat, NEW c \in Nat, b <= c, c <= Len(s)
  PROVE  SubSeq(s, 1, b) \o SubSeq(s, b + 1, c) = SubSeq(s, 1, c)
<1>1. PICK a \in Nat : a = 0
  OBVIOUS
<1>2. a <= b /\ a + 1 = 1
  BY <1>1
<1>3. SubSeq(s, a + 1, b) \o SubSeq(s, b + 1, c) = SubSeq(s, a + 1, c)
  BY <1>2, PiecesJoin
<1> QED BY <1>2, <1>3

\* The front and the end of two sequences behind each other.
LEMMA FrontOfTwo ==
  ASSUME NEW S, NEW s \in Seq(S), NEW t \in Seq(S), NEW n \in Nat, n <= Len(s)
  PROVE  SubSeq(s \o t, 1, n) = SubSeq(s, 1, n)
<1>1. Len(s) \in Nat /\ Len(t) \in Nat
  BY LenProperties
<1> DEFINE u == s \o t
           v == SubSeq(u, 1, n)
           w == SubSeq(s, 1, n)
<1>2. /\ u \in Seq(S) /\ Len(u) = Len(s) + Len(t)
      /\ \A i \in 1..Len(s) + Len(t) : u[i] = IF i <= Len(s) THEN s[i] ELSE t[i - Len(s)]
  BY ConcatProperties
<1> HIDE DEF u
<1>3. n <= Len(u)
  BY <1>1, <1>2
<1>4. v \in Seq(S) /\ Len(v) = n /\ \A i \in 1..n : v[i] = u[i]
  BY <1>2, <1>3, FirstOnes
<1>5. w \in Seq(S) /\ Len(w) = n /\ \A i \in 1..n : w[i] = s[i]
  BY FirstOnes
<1> HIDE DEF v, w
<1>6. \A i \in 1..n : v[i] = w[i]
  BY <1>1, <1>2, <1>4, <1>5
<1>7. v = w
  BY <1>4, <1>5, <1>6, SeqEqual
<1> QED BY <1>7 DEF v, w, u

\* The second of them.
LEMMA EndOfTwo ==
  ASSUME NEW S, NEW s \in Seq(S), NEW t \in Seq(S)
  PROVE  SubSeq(s \o t, Len(s) + 1, Len(s) + Len(t)) = t
<1>1. PICK a \in Nat, n \in Nat, b \in Nat : a = Len(s) /\ n = Len(t) /\ b = a + n
  BY LenProperties
<1> DEFINE u == s \o t
           v == SubSeq(u, a + 1, b)
<1>2. /\ u \in Seq(S) /\ Len(u) = b
      /\ \A i \in 1..b : u[i] = IF i <= a THEN s[i] ELSE t[i - a]
  BY <1>1, ConcatProperties
<1> HIDE DEF u
<1>3. v \in Seq(S) /\ Len(v) = b - a /\ \A i \in 1..b - a : v[i] = u[a + i]
  BY <1>1, <1>2, Between
<1> HIDE DEF v
<1>4. b - a = n
  BY <1>1
<1>5. ASSUME NEW i \in 1..n PROVE v[i] = t[i]
  <2>1. a + i \in 1..b /\ ~ (a + i <= a) /\ a + i - a = i
    BY <1>1
  <2>2. u[a + i] = t[i]
    BY <1>2, <2>1
  <2> QED BY <1>3, <1>4, <2>2
<1>6. v = t
  BY <1>1, <1>3, <1>4, <1>5, SeqEqual
<1> QED BY <1>1, <1>6 DEF u, v

\* Two sequences that agree on their first elements agree on pieces of them.
LEMMA SameFront ==
  ASSUME NEW S, NEW s \in Seq(S), NEW t \in Seq(S), NEW n \in Nat, n <= Len(s), n <= Len(t),
         SubSeq(s, 1, n) = SubSeq(t, 1, n),
         NEW a \in Nat, NEW b \in Nat, a <= b, b <= n
  PROVE  SubSeq(s, a + 1, b) = SubSeq(t, a + 1, b)
<1>1. PICK z \in Nat : z = 0
  OBVIOUS
<1>2. z <= n /\ b <= n - z /\ z + 1 = 1 /\ z + a + 1 = a + 1 /\ z + b = b
  BY <1>1
<1>3. SubSeq(SubSeq(s, z + 1, n), a + 1, b) = SubSeq(s, z + a + 1, z + b)
  BY <1>2, PieceOfPiece
<1>4. SubSeq(SubSeq(t, z + 1, n), a + 1, b) = SubSeq(t, z + a + 1, z + b)
  BY <1>2, PieceOfPiece
<1> QED BY <1>2, <1>3, <1>4

\* The unread bytes are those between the offsets.
LEMMA UnreadIsPiece ==
  ASSUME NEW b \in Good
  PROVE  Unread(b) = SubSeq(b.data, b.readPos + 1, b.writePos)
<1> DEFINE n == bufferReadAbleSize(b)
<1>1. b.readPos + n = b.writePos
  BY GoodFields DEF bufferReadAbleSize
<1> HIDE DEF n
<1>2. b.readPos >= 0 /\ b.readPos + n <= Len(b.data)
  BY <1>1, GoodFields
<1>3. Unread(b) = SubSeq(b.data, b.readPos + 1, b.readPos + n)
  BY <1>2 DEF Unread, BytesFrom, n
<1> QED BY <1>1, <1>3

\* Bytes that are looked at in the buffer are a piece of the unread ones.
LEMMA BytesInside ==
  ASSUME NEW b \in Good, NEW off \in Nat, NEW n \in Nat, off + n <= bufferReadAbleSize(b)
  PROVE  BytesFrom(b.data, b.readPos + off, n) = SubSeq(Unread(b), off + 1, off + n)
<1> DEFINE d == b.data  r == b.readPos  w == b.writePos
<1>1. d \in Seq(Nat) /\ r \in Nat /\ w \in Nat /\ Len(d) \in Nat /\ r <= w /\ w <= Len(d)
  BY GoodFields
<1>2. Unread(b) = SubSeq(d, r + 1, w)
  BY UnreadIsPiece
<1>3. off + n <= w - r
  BY DEF bufferReadAbleSize
<1>4. BytesFrom(d, r + off, n) = SubSeq(d, r + off + 1, r + off + n)
  <2>1. r + off >= 0 /\ r + off + n <= Len(d)
    BY <1>1, <1>3
  <2> HIDE DEF d, r, w
  <2> QED BY <2>1 DEF BytesFrom
<1> HIDE DEF d, r, w
<1>5. PICK e \in Nat : e = off + n
  OBVIOUS
<1>6. off <= e /\ e <= w - r /\ r + off + n = r + e
  BY <1>1, <1>3, <1>5
<1>7. SubSeq(SubSeq(d, r + 1, w), off + 1, e) = SubSeq(d, r + off + 1, r + e)
  BY <1>1, <1>6, PieceOfPiece
<1> QED BY <1>2, <1>4, <1>5, <1>6, <1>7 DEF d, r

\* The read position moves over the first of them.
LEMMA UnreadBehind ==
  ASSUME NEW b \in Good, NEW n \in Nat, n <= bufferReadAbleSize(b)
  PROVE  /\ [b EXCEPT !.readPos = b.readPos + n] \in Good
         /\ Unread([b EXCEPT !.readPos = b.readPos + n])
              = SubSeq(Unread(b), n + 1, bufferReadAbleSize(b))
         /\ bufferReadAbleSize([b EXCEPT !.readPos = b.readPos + n])
              = bufferReadAbleSize(b) - n
<1>1. /\ b.data \in Seq(Nat) /\ b.readPos \in Nat /\ b.writePos \in Nat
      /\ b.readPos <= b.writePos /\ b.writePos <= Len(b.data)
      /\ b \in [data : Seq(Nat), readPos : Nat, writePos : Nat]
  BY GoodFields
<1>2. PICK r \in Nat : r = b.readPos + n /\ r <= b.writePos
  BY <1>1 DEF bufferReadAbleSize
<1> DEFINE c == [b EXCEPT !.readPos = r]
<1>3. c \in Good
  BY <1>2, WithReadPos
<1>4. c.data = b.data /\ c.writePos = b.writePos /\ c.readPos = r
  BY <1>1
<1> HIDE DEF c
<1>5. Unread(c) = SubSeq(b.data, r + 1, b.writePos)
  BY <1>3, <1>4, UnreadIsPiece
<1>6. PICK d \in Seq(Nat), p \in Nat, w \in Nat : d = b.data /\ p = b.readPos /\ w = b.writePos
  BY <1>1
<1>7. PICK m \in Nat : m = w - p /\ m = bufferReadAbleSize(b)
  BY <1>1, <1>6 DEF bufferReadAbleSize
<1>8. SubSeq(SubSeq(d, p + 1, w), n + 1, m) = SubSeq(d, p + n + 1, p + m)
  <2>1. n <= m /\ m <= w - p /\ p <= w /\ w <= Len(d)
    BY <1>1, <1>6, <1>7
  <2> QED BY <2>1, PieceOfPiece
<1>9. p + n = r /\ p + m = w
  BY <1>2, <1>6, <1>7
<1>10. Unread(b) = SubSeq(d, p + 1, w)
  BY <1>6, UnreadIsPiece
<1>11. Unread(c) = SubSeq(Unread(b), n + 1, m)
  BY <1>5, <1>6, <1>8, <1>9, <1>10
<1>12. bufferReadAbleSize(c) = m - n
  <2>1. c.writePos = w /\ c.readPos = r
    BY <1>4, <1>6
  <2>2. w - r = m - n
    BY <1>9
  <2> QED BY <2>1, <2>2 DEF bufferReadAbleSize
<1> QED BY <1>2, <1>3, <1>7, <1>11, <1>12 DEF c

\* What memcpy() leaves in the block.
LEMMA CopiedBytes ==
  ASSUME NEW d \in Seq(Nat), NEW pos \in Nat, NEW s \in Seq(Nat), pos + Len(s) <= Len(d)
  PROVE  /\ CopyAt(d, pos, s) \in Seq(Nat) /\ Len(CopyAt(d, pos, s)) = Len(d)
         /\ SubSeq(CopyAt(d, pos, s), 1, pos) = SubSeq(d, 1, pos)
         /\ SubSeq(CopyAt(d, pos, s), pos + 1, pos + Len(s)) = s
<1>1. PICK n \in Nat, m \in Nat, e \in Nat : n = Len(d) /\ m = Len(s) /\ e = pos + m /\ e <= n
  BY LenProperties
<1>2. pos <= n
  BY <1>1
<1> DEFINE front == SubSeq(d, 1, pos)
           rest  == SubSeq(d, e + 1, n)
           u     == front \o s
<1>3. front \in Seq(Nat) /\ Len(front) = pos
  BY <1>1, <1>2, FirstOnes
<1>4. rest \in Seq(Nat) /\ Len(rest) = n - e
  BY <1>1, Between
<1>5. CopyAt(d, pos, s) = SubSeq(u \o rest, 1, n)
  BY <1>1 DEF CopyAt
<1> HIDE DEF front, rest
<1>6. u \in Seq(Nat) /\ Len(u) = e
  BY <1>1, <1>3, Joined
<1>7. SubSeq(u, 1, pos) = front /\ SubSeq(u, pos + 1, e) = s
  <2>1. SubSeq(u, 1, pos) = SubSeq(front, 1, pos)
    BY <1>3, FrontOfTwo
  <2>2. SubSeq(front, 1, pos) = front
    BY <1>3, SubSeqFull
  <2>3. SubSeq(u, pos + 1, e) = s
    BY <1>1, <1>3, EndOfTwo
  <2> QED BY <2>1, <2>2, <2>3
<1> HIDE DEF u
<1> DEFINE v == u \o rest
<1>8. v \in Seq(Nat) /\ Len(v) = n
  BY <1>1, <1>4, <1>6, Joined
<1>9. SubSeq(v, 1, n) = v
  BY <1>8, SubSeqFull
<1>10. SubSeq(v, 1, e) = u
  <2>1. SubSeq(v, 1, e) = SubSeq(u, 1, e)
    BY <1>4, <1>6, FrontOfTwo
  <2>2. SubSeq(u, 1, e) = u
    BY <1>6, SubSeqFull
  <2> QED BY <2>1, <2>2
<1>11. SubSeq(v, 1, pos) = front
  <2>1. SubSeq(v, 1, pos) = SubSeq(u, 1, pos)
    <3>1. pos <= Len(u)
      BY <1>1, <1>6
    <3> QED BY <1>4, <1>6, <3>1, FrontOfTwo
  <2> QED BY <1>7, <2>1
<1> HIDE DEF v
<1>12. SubSeq(v, pos + 1, e) = s
  <2>1. PICK z \in Nat : z = 0
    OBVIOUS
  <2>2. z <= e /\ e <= Len(v) /\ pos <= e /\ e <= e - z /\ z + 1 = 1 /\ z + pos + 1 = pos + 1 /\ z + e = e
    BY <1>1, <1>8, <2>1
  <2>3. SubSeq(SubSeq(v, z + 1, e), pos + 1, e) = SubSeq(v, z + pos + 1, z + e)
    BY <1>8, <2>2, PieceOfPiece
  <2> QED BY <1>7, <1>10, <2>2, <2>3
<1>13. CopyAt(d, pos, s) = v
  BY <1>5, <1>9 DEF v
<1> QED BY <1>1, <1>8, <1>11, <1>12, <1>13 DEF front

\* Bytes written behind writePos, where there is room, follow the unread ones.
LEMMA WrittenBehind ==
  ASSUME NEW b \in Good, NEW s \in Seq(Nat), b.writePos + Len(s) <= Len(b.data)
  PROVE  LET c == [b EXCEPT !.data = CopyAt(b.data, b.writePos, s),
                            !.writePos = b.writePos + Len(s)]
         IN  /\ c \in Good /\ Unread(c) = Unread(b) \o s
             /\ bufferReadAbleSize(c) = bufferReadAbleSize(b) + Len(s)
<1>1. /\ b.data \in Seq(Nat) /\ b.readPos \in Nat /\ b.writePos \in Nat
      /\ b.readPos <= b.writePos /\ b.writePos <= Len(b.data)
      /\ b \in [data : Seq(Nat), readPos : Nat, writePos : Nat]
  BY GoodFields
<1>2. PICK p \in Nat, w \in Nat, e \in Nat : p = b.readPos /\ w = b.writePos /\ e = w + Len(s)
  BY <1>1, LenProperties
<1> DEFINE d == CopyAt(b.data, w, s)
           c == [b EXCEPT !.data = d, !.writePos = e]
<1>3. d \in Seq(Nat) /\ Len(d) = Len(b.data) /\ SubSeq(d, 1, w) = SubSeq(b.data, 1, w)
      /\ SubSeq(d, w + 1, e) = s
  BY <1>1, <1>2, CopiedBytes, ZenonT(40)
<1> HIDE DEF d
<1>4. p <= w /\ w <= e /\ e <= Len(d) /\ Len(s) \in Nat
  BY <1>1, <1>2, <1>3, LenProperties
<1>5. c \in Good
  <2>1. b.readPos <= e
    BY <1>2, <1>4
  <2> QED BY <1>3, <1>4, <2>1, WithData
<1>6. c.data = d /\ c.writePos = e /\ c.readPos = p
  BY <1>1, <1>2
<1> HIDE DEF c
<1>7. Unread(c) = SubSeq(d, p + 1, e)
  BY <1>5, <1>6, UnreadIsPiece
<1>8. SubSeq(d, p + 1, w) = SubSeq(b.data, p + 1, w)
  <2>1. Len(d) \in Nat /\ Len(b.data) = Len(d)
    BY <1>3, LenProperties
  <2>2. w <= Len(d) /\ w <= Len(b.data) /\ w <= w
    BY <1>4, <2>1
  <2> QED BY <1>1, <1>3, <1>4, <2>2, SameFront
<1>9. SubSeq(d, p + 1, w) \o SubSeq(d, w + 1, e) = SubSeq(d, p + 1, e)
  BY <1>3, <1>4, PiecesJoin
<1>10. Unread(b) = SubSeq(b.data, p + 1, w)
  BY <1>2, UnreadIsPiece
<1>11. bufferReadAbleSize(c) = bufferReadAbleSize(b) + Len(s)
  BY <1>2, <1>4, <1>6 DEF bufferReadAbleSize
<1> QED BY <1>2, <1>3, <1>5, <1>7, <1>8, <1>9, <1>10, <1>11 DEF c, d

\* Three sequences behind each other.
LEMMA Associative == \A s, t, u \in Seq(Nat) : (s \o t) \o u = s \o (t \o u)
BY ConcatAssociative, SMTT(40)

\* extendRoomBuffer() keeps the unread bytes.
LEMMA RoomKeepsBytes ==
  ASSUME NEW b \in Good, NEW size \in Nat
  PROVE  /\ Unread(extendRoomBuffer(b, size)) = Unread(b)
         /\ bufferReadAbleSize(extendRoomBuffer(b, size)) = bufferReadAbleSize(b)
<1> DEFINE c == extendRoomBuffer(b, size)
<1>1. c \in Good
  BY RoomIsMade
<1>2. /\ b.data \in Seq(Nat) /\ b.readPos \in Nat /\ b.writePos \in Nat
      /\ b.readPos <= b.writePos /\ b.writePos <= Len(b.data)
      /\ b \in [data : Seq(Nat), readPos : Nat, writePos : Nat]
  BY GoodFields
<1>3. CASE c = b
  BY <1>3
<1>4. CASE c = [data |-> CopyAt(b.data, 0, Unread(b)), readPos |-> 0,
                writePos |-> bufferReadAbleSize(b)]
  <2>1. PICK n \in Nat, u \in Seq(Nat), z \in Nat :
          n = bufferReadAbleSize(b) /\ u = Unread(b) /\ Len(u) = n /\ z = 0
    BY UnreadBytes
  <2>2. z + Len(u) <= Len(b.data) /\ z + 1 = 1 /\ z + Len(u) = n
    BY <1>2, <2>1 DEF bufferReadAbleSize
  <2>3. SubSeq(CopyAt(b.data, z, u), z + 1, z + Len(u)) = u
    BY <1>2, <2>2, CopiedBytes
  <2>4. c.data = CopyAt(b.data, z, u) /\ c.readPos = z /\ c.writePos = n
    BY <1>4, <2>1
  <2> HIDE DEF c
  <2>5. Unread(c) = SubSeq(c.data, z + 1, n)
    BY <1>1, <2>4, UnreadIsPiece
  <2>6. bufferReadAbleSize(c) = n
    BY <2>1, <2>4 DEF bufferReadAbleSize
  <2>7. SubSeq(CopyAt(b.data, z, u), z + 1, n) = u
    BY <2>2, <2>3
  <2> QED BY <2>1, <2>4, <2>5, <2>6, <2>7 DEF c
<1>5. CASE c = [b EXCEPT !.data = b.data \o Cleared(size)]
  <2>1. PICK d \in Seq(Nat), f \in Seq(Nat), p \in Nat, w \in Nat :
          d = b.data /\ f = b.data \o Cleared(size) /\ p = b.readPos /\ w = b.writePos
    BY <1>2, ClearedIsBlock, Joined
  <2>2. p <= w /\ w <= Len(d) /\ Len(d) \in Nat
    BY <1>2, <2>1, LenProperties
  <2>3. w <= Len(f) /\ SubSeq(f, 1, w) = SubSeq(d, 1, w)
    <3>1. Len(f) = Len(d) + size
      <4>1. PICK k \in Seq(Nat) : k = Cleared(size) /\ Len(k) = size
        BY ClearedIsBlock
      <4>2. Len(d \o k) = Len(d) + Len(k)
        BY Joined
      <4> QED BY <2>1, <4>1, <4>2
    <3>2. SubSeq(f, 1, w) = SubSeq(d, 1, w)
      BY <2>1, <2>2, ClearedIsBlock, FrontOfTwo, ZenonT(40)
    <3> QED BY <2>2, <3>1, <3>2
  <2>4. SubSeq(f, p + 1, w) = SubSeq(d, p + 1, w)
    <3>1. w <= w
      OBVIOUS
    <3> QED BY <2>2, <2>3, <3>1, SameFront
  <2>5. c.data = f /\ c.readPos = p /\ c.writePos = w
    BY <1>2, <1>5, <2>1
  <2> HIDE DEF c
  <2>6. Unread(c) = SubSeq(f, p + 1, w)
    BY <1>1, <2>5, UnreadIsPiece
  <2>7. Unread(b) = SubSeq(d, p + 1, w)
    BY <2>1, UnreadIsPiece
  <2>8. bufferReadAbleSize(c) = bufferReadAbleSize(b)
    BY <2>1, <2>5 DEF bufferReadAbleSize
  <2> QED BY <2>4, <2>6, <2>7, <2>8 DEF c
<1>6. \/ c = b
      \/ c = [data |-> CopyAt(b.data, 0, Unread(b)), readPos |-> 0,
              writePos |-> bufferReadAbleSize(b)]
      \/ c = [b EXCEPT !.data = b.data \o Cleared(size)]
  BY Zenon DEF extendRoomBuffer
<1> QED BY <1>3, <1>4, <1>5, <1>6

\* appendDataBuffer() and Buffer::appendString() put the bytes behind the unread ones.
LEMMA AppendedBytes ==
  ASSUME NEW b \in Good, NEW s \in Seq(Nat)
  PROVE  /\ appendString(b, s) = appendDataBuffer(b, s)
         /\ appendDataBuffer(b, s) \in Good
         /\ Unread(appendDataBuffer(b, s)) = Unread(b) \o s
         /\ bufferReadAbleSize(appendDataBuffer(b, s)) = bufferReadAbleSize(b) + Len(s)
<1>1. Len(s) \in Nat /\ bufferReadAbleSize(b) \in Nat
  BY LenProperties, UnreadBytes
<1>2. appendString(b, s) = appendDataBuffer(b, s)
  BY DEF appendString, appendDataBuffer, extendRoom
<1>3. CASE Len(s) <= 0
  <2>1. s = <<>> /\ Len(s) = 0
    BY <1>1, <1>3, EmptySeq
  <2>2. Unread(b) \o s = Unread(b)
    BY <2>1, UnreadBytes, ConcatEmptySeq
  <2>3. appendDataBuffer(b, s) = b
    BY <1>3 DEF appendDataBuffer
  <2> QED BY <1>1, <1>2, <2>1, <2>2, <2>3
<1>4. CASE ~ (Len(s) <= 0)
  <2> DEFINE c == extendRoomBuffer(b, Len(s))
  <2>1. c \in Good /\ c.writePos + Len(s) <= Len(c.data)
    BY <1>1, RoomIsMade
  <2>2. Unread(c) = Unread(b) /\ bufferReadAbleSize(c) = bufferReadAbleSize(b)
    BY <1>1, RoomKeepsBytes
  <2>3. appendDataBuffer(b, s) = [c EXCEPT !.data = CopyAt(c.data, c.writePos, s),
                                           !.writePos = c.writePos + Len(s)]
    BY <1>4 DEF appendDataBuffer
  <2> HIDE DEF c
  <2>4. /\ appendDataBuffer(b, s) \in Good
        /\ Unread(appendDataBuffer(b, s)) = Unread(c) \o s
        /\ bufferReadAbleSize(appendDataBuffer(b, s)) = bufferReadAbleSize(c) + Len(s)
    BY <2>1, <2>3, WrittenBehind
  <2> QED BY <1>2, <2>2, <2>4
<1> QED BY <1>3, <1>4

\* socketReadBuffer(), and Buffer::socketRead() of what fits, likewise.
LEMMA ReadBytes ==
  ASSUME NEW b \in Good, NEW in \in Seq(Nat)
  PROVE  /\ Unread(socketReadBuffer(b, in)) = Unread(b) \o in
         /\ Len(in) <= bufferWriteAbleSize(b) =>
              \A junk : Unread(socketRead(b, in, junk)) = Unread(b) \o in
<1> DEFINE w == bufferWriteAbleSize(b)
           n == Min({Len(in), w})
           s == SubSeq(in, 1, n)
           d == CopyAt(b.data, b.writePos, s)
           c == [b EXCEPT !.data = d]
<1>1. b \in [data : Seq(Nat), readPos : Nat, writePos : Nat] /\ Len(in) \in Nat
  BY GoodFields, LenProperties
<1>2. w \in Nat /\ b.writePos + w = Len(b.data)
  BY GoodFields DEF bufferWriteAbleSize
<1>3. n \in Nat /\ n = IF Len(in) <= w THEN Len(in) ELSE w
  BY <1>1, <1>2, MinOfTwo
<1>4. s \in Seq(Nat) /\ Len(s) = n
  <2>1. n <= Len(in)
    BY <1>1, <1>2, <1>3
  <2> HIDE DEF n
  <2> QED BY <1>3, <2>1, FirstOnes
<1>5. b.writePos + Len(s) <= Len(b.data)
  <2>1. n <= w
    BY <1>1, <1>2, <1>3
  <2>2. Len(s) = n
    BY <1>4
  <2> HIDE DEF s, n, w
  <2> QED BY <1>2, <1>3, <2>1, <2>2, GoodFields
<1> DEFINE e == [b EXCEPT !.data = d, !.writePos = b.writePos + Len(s)]
<1>6. e \in Good /\ Unread(e) = Unread(b) \o s
  <2> HIDE DEF s
  <2> QED BY <1>4, <1>5, WrittenBehind
<1>7. CASE Len(in) <= w
  <2>1. s = in
    BY <1>3, <1>7, SubSeqFull
  <2>2. socketReadBuffer(b, in) = [c EXCEPT !.writePos = c.writePos + Len(in)]
    BY <1>7 DEF socketReadBuffer
  <2>3. \A junk : socketRead(b, in, junk) = [b EXCEPT !.data = d, !.writePos = b.writePos + Len(in)]
    BY <1>7 DEF socketRead
  <2> HIDE DEF d, s
  <2>4. [c EXCEPT !.writePos = c.writePos + Len(in)] = e
    BY <1>1, <2>1
  <2> HIDE DEF c
  <2> QED BY <1>6, <2>1, <2>2, <2>3, <2>4
<1>8. CASE ~ (Len(in) <= w)
  <2> DEFINE t == SubSeq(in, w + 1, Len(in))
             f == [c EXCEPT !.writePos = Len(b.data)]
  <2>1. socketReadBuffer(b, in) = appendDataBuffer(f, t)
    BY <1>8 DEF socketReadBuffer
  <2>2. n = w /\ b.writePos + Len(s) = Len(b.data)
    BY <1>2, <1>3, <1>4, <1>8
  <2>3. t \in Seq(Nat) /\ s \o t = in
    <3>1. w <= Len(in) /\ Len(in) <= Len(in)
      BY <1>1, <1>2, <1>8
    <3>2. t \in Seq(Nat)
      BY <1>1, <1>2, <3>1, Between
    <3>3. SubSeq(in, 1, w) \o SubSeq(in, w + 1, Len(in)) = SubSeq(in, 1, Len(in))
      <4> HIDE DEF w
      <4> QED BY <1>1, <1>2, <3>1, FrontAndNext
    <3>4. SubSeq(in, 1, Len(in)) = in
      BY SubSeqFull
    <3> QED BY <2>2, <3>2, <3>3, <3>4
  <2> HIDE DEF t, d, s
  <2>4. f = e
    BY <1>1, <2>2
  <2> HIDE DEF e, f
  <2>5. Unread(appendDataBuffer(e, t)) = Unread(b) \o s \o t
    BY <1>6, <2>3, AppendedBytes
  <2>6. Unread(b) \o s \o t = Unread(b) \o (s \o t)
    <3>1. Unread(b) \in Seq(Nat) /\ s \in Seq(Nat) /\ t \in Seq(Nat)
      BY <1>4, <2>3, UnreadBytes DEF s
    <3> QED BY <3>1, Associative, Zenon
  <2> QED BY <1>8, <2>1, <2>3, <2>4, <2>5, <2>6
<1> QED BY <1>7, <1>8

\* A new buffer holds nothing and has room for all of it.
LEMMA NewIsEmpty ==
  ASSUME NEW n \in Nat
  PROVE  /\ initBuffer(n) \in Good
         /\ Unread(initBuffer(n)) = <<>> /\ bufferReadAbleSize(initBuffer(n)) = 0
         /\ bufferWriteAbleSize(initBuffer(n)) = n
<1> DEFINE b == initBuffer(n)
<1>1. b \in Good
  BY NewIsGood
<1>2. b.readPos = 0 /\ b.writePos = 0 /\ b.data = Cleared(n)
  BY DEF initBuffer
<1> HIDE DEF b
<1>3. bufferReadAbleSize(b) = 0
  BY <1>2 DEF bufferReadAbleSize
<1>4. Unread(b) = <<>>
  BY <1>1, <1>3, UnreadBytes, EmptySeq
<1>5. bufferWriteAbleSize(b) = n
  BY <1>2, ClearedIsBlock DEF bufferWriteAbleSize
<1> QED BY <1>1, <1>3, <1>4, <1>5 DEF b

-----------------------------------------------------------------------------
(* What memmem() finds, and the lines of a request.                        *)

(* The pair <<x, y>> at place i.                                           *)
PairAt(s, i, x, y) == s[i] = x /\ s[i + 1] = y

\* memmem() of a pair whose first occurrence is known.
LEMMA PairFound ==
  ASSUME NEW s \in Seq(Nat), NEW n \in Nat, NEW x, NEW y, n + 2 <= Len(s),
         PairAt(s, n + 1, x, y), \A i \in 1..n : ~ PairAt(s, i, x, y)
  PROVE  FindPair(s, x, y) = n
<1> DEFINE at == {i \in 1..Len(s) - 1 : PairAt(s, i, x, y)}
<1>1. Len(s) \in Nat
  BY LenProperties
<1>2. n + 1 \in at
  <2>1. n + 1 \in 1..Len(s) - 1 /\ (n + 1) + 1 = n + 2
    BY <1>1
  <2> QED BY <2>1
<1>3. at \subseteq Nat
  BY <1>1
<1>4. FindPair(s, x, y) = Min(at) - 1
  BY <1>2 DEF FindPair, PairAt
<1>5. \A i \in at : i \in Nat /\ ~ (i \in 1..n) /\ i >= 1
  BY <1>1
<1> HIDE DEF at
<1>6. Min(at) \in at /\ Min(at) <= n + 1
  BY <1>2, <1>3, MinIsMember
<1>7. Min(at) = n + 1
  BY <1>5, <1>6
<1> QED BY <1>4, <1>7

\* The first line of some bytes.
LEMMA LineFound ==
  ASSUME NEW u \in Seq(Nat), NEW l \in Seq(Nat), ~ HasPair(l, CR, LF),
         Len(l) + 2 <= Len(u), SubSeq(u, 1, Len(l) + 2) = l \o <<CR, LF>>
  PROVE  FindPair(u, CR, LF) = Len(l) /\ SubSeq(u, 1, Len(l)) = l
<1>1. PICK n \in Nat : n = Len(l)
  BY LenProperties
<1>2. CR = 13 /\ LF = 10 /\ CR # LF
  BY DEF CR, LF
<1>3. <<CR, LF>> \in Seq(Nat) /\ Len(<<CR, LF>>) = 2 /\ <<CR, LF>>[1] = CR /\ <<CR, LF>>[2] = LF
  BY <1>2
<1> DEFINE e == <<CR, LF>>
           f == l \o e
<1> HIDE DEF e
<1>4. /\ f \in Seq(Nat) /\ Len(f) = n + 2
      /\ \A i \in 1..n + 2 : f[i] = IF i <= n THEN l[i] ELSE e[i - n]
  <2>1. e \in Seq(Nat)
    BY <1>3 DEF e
  <2>2. /\ f \in Seq(Nat) /\ Len(f) = Len(l) + Len(e)
        /\ \A i \in 1..Len(l) + Len(e) : f[i] = IF i <= Len(l) THEN l[i] ELSE e[i - Len(l)]
    BY <2>1, ConcatProperties
  <2>3. Len(e) = 2
    BY <1>3 DEF e
  <2> QED BY <1>1, <2>2, <2>3
<1>5. SubSeq(u, 1, n + 2) = f
  BY <1>1 DEF e
<1> HIDE DEF f
<1>6. PICK m \in Nat : m = n + 2 /\ m <= Len(u)
  BY <1>1
<1>7. \A i \in 1..m : SubSeq(u, 1, m)[i] = u[i]
  BY <1>6, FirstOnes
<1>8. \A i \in 1..n + 2 : u[i] = IF i <= n THEN l[i] ELSE e[i - n]
  BY <1>4, <1>5, <1>6, <1>7
<1>9. u[n + 1] = CR /\ u[n + 2] = LF
  <2>1. n + 1 \in 1..n + 2 /\ n + 2 \in 1..n + 2 /\ ~ (n + 1 <= n) /\ ~ (n + 2 <= n)
        /\ n + 1 - n = 1 /\ n + 2 - n = 2
    OBVIOUS
  <2>2. u[n + 1] = e[1] /\ u[n + 2] = e[2]
    BY <1>8, <2>1
  <2> QED BY <1>3, <2>2 DEF e
<1>10. ASSUME NEW i \in 1..n, u[i] = CR, u[i + 1] = LF PROVE FALSE
  <2>1. CASE i = n
    <3>1. u[n + 1] = LF
      BY <1>10, <2>1
    <3> QED BY <1>2, <1>9, <3>1
  <2>2. CASE i # n
    <3>1. i \in 1..n - 1 /\ i + 1 \in 1..n
      BY <2>2
    <3>2. i \in 1..n + 2 /\ i + 1 \in 1..n + 2 /\ i <= n /\ i + 1 <= n
      BY <3>1
    <3>3. l[i] = CR /\ l[i + 1] = LF
      BY <1>8, <1>10, <3>2
    <3> QED BY <1>1, <3>1, <3>3 DEF HasPair
  <2> QED BY <2>1, <2>2
<1>11. FindPair(u, CR, LF) = n
  <2>1. n + 2 <= Len(u)
    BY <1>6
  <2>2. \A i \in 1..n : ~ PairAt(u, i, CR, LF)
    BY <1>10 DEF PairAt
  <2>3. PairAt(u, n + 1, CR, LF)
    <3>1. (n + 1) + 1 = n + 2
      OBVIOUS
    <3> QED BY <1>9, <3>1 DEF PairAt
  <2> QED BY <2>1, <2>2, <2>3, PairFound
<1>12. SubSeq(u, 1, n) = l
  <2>1. n <= Len(u)
    BY <1>6
  <2>2. SubSeq(u, 1, n) \in Seq(Nat) /\ Len(SubSeq(u, 1, n)) = n
        /\ \A i \in 1..n : SubSeq(u, 1, n)[i] = u[i]
    BY <2>1, FirstOnes
  <2>3. \A i \in 1..n : u[i] = l[i]
    BY <1>8
  <2> QED BY <1>1, <2>2, <2>3, SeqEqual
<1> QED BY <1>1, <1>11, <1>12

\* A header line: where ": " is, the key in front of it, the value behind it.
LEMMA ColonFound ==
  ASSUME NEW key \in Seq(Nat), NEW value \in Seq(Nat), ~ HasPair(key, COLON, SP),
         NEW line, line = key \o <<COLON, SP>> \o value
  PROVE  /\ line \in Seq(Nat) /\ Len(line) = Len(key) + 2 + Len(value)
         /\ FindPair(line, COLON, SP) = Len(key)
         /\ SubSeq(line, 1, Len(key)) = key
         /\ SubSeq(line, Len(key) + 3, Len(line)) = value
<1>1. PICK n \in Nat, m \in Nat : n = Len(key) /\ m = Len(value)
  BY LenProperties
<1>2. COLON = 58 /\ SP = 32 /\ COLON # SP
  BY DEF COLON, SP
<1> DEFINE e == <<COLON, SP>>
           f == key \o e
<1>3. e \in Seq(Nat) /\ Len(e) = 2 /\ e[1] = COLON /\ e[2] = SP
  BY <1>2
<1> HIDE DEF e
<1>4. f \in Seq(Nat) /\ Len(f) = n + 2 /\ \A i \in 1..n + 2 : f[i] = IF i <= n THEN key[i] ELSE e[i - n]
  <2>1. /\ f \in Seq(Nat) /\ Len(f) = Len(key) + Len(e)
        /\ \A i \in 1..Len(key) + Len(e) : f[i] = IF i <= Len(key) THEN key[i] ELSE e[i - Len(key)]
    BY <1>3, ConcatProperties
  <2> QED BY <1>1, <1>3, <2>1
<1>5. line = f \o value
  BY DEF e
<1>6. SubSeq(f, 1, n) = key
  <2>1. SubSeq(f, 1, n) = SubSeq(key, 1, n)
    BY <1>1, <1>3, FrontOfTwo
  <2> QED BY <1>1, <2>1, SubSeqFull
<1> HIDE DEF f
<1>7. PICK k \in Nat, j \in Nat : k = n + 2 /\ j = k + m
  OBVIOUS
<1>8. line \in Seq(Nat) /\ Len(line) = j /\ \A i \in 1..k : line[i] = f[i]
  <2>1. /\ line \in Seq(Nat) /\ Len(line) = k + m
        /\ \A i \in 1..k + m : line[i] = IF i <= k THEN f[i] ELSE value[i - k]
    <3>1. /\ line \in Seq(Nat) /\ Len(line) = Len(f) + Len(value)
          /\ \A i \in 1..Len(f) + Len(value) :
               line[i] = IF i <= Len(f) THEN f[i] ELSE value[i - Len(f)]
      <4>1. f \in Seq(Nat)
        BY <1>4
      <4> QED BY <1>5, <4>1, ConcatProperties, ZenonT(40)
    <3> QED BY <1>1, <1>4, <1>7, <3>1
  <2>2. \A i \in 1..k : i \in 1..k + m /\ i <= k
    OBVIOUS
  <2> QED BY <1>7, <2>1, <2>2
<1>9. SubSeq(line, k + 1, j) = value
  BY <1>1, <1>4, <1>5, <1>7, EndOfTwo
<1>10. SubSeq(line, 1, n) = key
  <2>1. n <= Len(f)
    BY <1>4
  <2>2. SubSeq(line, 1, n) = SubSeq(f, 1, n)
    BY <1>4, <1>5, <2>1, FrontOfTwo
  <2> QED BY <1>6, <2>2
<1>11. line[n + 1] = COLON /\ line[n + 2] = SP
  <2>1. n + 1 \in 1..n + 2 /\ n + 2 \in 1..n + 2 /\ ~ (n + 1 <= n) /\ ~ (n + 2 <= n)
        /\ n + 1 - n = 1 /\ n + 2 - n = 2
    OBVIOUS
  <2>2. f[n + 1] = e[1] /\ f[n + 2] = e[2]
    BY <1>4, <2>1
  <2> QED BY <1>3, <1>7, <1>8, <2>1, <2>2
<1>12. ASSUME NEW i \in 1..n, line[i] = COLON, line[i + 1] = SP PROVE FALSE
  <2>1. CASE i = n
    <3>1. line[n + 1] = SP
      BY <1>12, <2>1
    <3> QED BY <1>2, <1>11, <3>1
  <2>2. CASE i # n
    <3>1. i \in 1..n - 1 /\ i + 1 \in 1..n
      BY <2>2
    <3>2. i \in 1..n + 2 /\ i + 1 \in 1..n + 2 /\ i <= n /\ i + 1 <= n
      BY <3>1
    <3>3. key[i] = COLON /\ key[i + 1] = SP
      BY <1>4, <1>7, <1>8, <1>12, <3>2
    <3> QED BY <1>1, <3>1, <3>3 DEF HasPair
  <2> QED BY <2>1, <2>2
<1>13. FindPair(line, COLON, SP) = n
  <2>1. n + 2 <= Len(line)
    BY <1>7, <1>8
  <2>2. \A i \in 1..n : ~ PairAt(line, i, COLON, SP)
    BY <1>12 DEF PairAt
  <2>3. PairAt(line, n + 1, COLON, SP)
    <3>1. (n + 1) + 1 = n + 2
      OBVIOUS
    <3> QED BY <1>11, <3>1 DEF PairAt
  <2> QED BY <1>8, <2>1, <2>2, <2>3, PairFound
<1>14. k + 1 = n + 3
  BY <1>7
<1> QED BY <1>1, <1>7, <1>8, <1>9, <1>10, <1>13, <1>14

\* The empty line has no colon.
LEMMA NoColon == \A x, y : FindPair(<<>>, x, y) = -1
<1>1. 1..Len(<<>>) - 1 = {}
  OBVIOUS
<1> QED BY <1>1 DEF FindPair

\* The first of two sequences behind each other, in the whole.
LEMMA InTheFirst ==
  ASSUME NEW S, NEW s \in Seq(S), NEW t \in Seq(S)
  PROVE  /\ \A i \in 1..Len(s) : (s \o t)[i] = s[i]
         /\ \A a, b \in Nat : a <= b /\ b <= Len(s) => SubSeq(s \o t, a + 1, b) = SubSeq(s, a + 1, b)
<1>1. Len(s) \in Nat /\ Len(t) \in Nat
  BY LenProperties
<1> DEFINE u == s \o t
<1>2. /\ u \in Seq(S) /\ Len(u) = Len(s) + Len(t)
      /\ \A i \in 1..Len(s) + Len(t) : u[i] = IF i <= Len(s) THEN s[i] ELSE t[i - Len(s)]
  BY ConcatProperties
<1>3. SubSeq(u, 1, Len(s)) = SubSeq(s, 1, Len(s))
  <2>1. Len(s) <= Len(s)
    BY <1>1
  <2> QED BY <1>1, <2>1, FrontOfTwo
<1> HIDE DEF u
<1>4. \A i \in 1..Len(s) : u[i] = s[i]
  <2>1. \A i \in 1..Len(s) : i \in 1..Len(s) + Len(t) /\ i <= Len(s)
    BY <1>1
  <2> QED BY <1>2, <2>1
<1>5. ASSUME NEW a \in Nat, NEW b \in Nat, a <= b, b <= Len(s)
      PROVE  SubSeq(u, a + 1, b) = SubSeq(s, a + 1, b)
  <2>1. PICK n \in Nat : n = Len(s) /\ n <= Len(u) /\ n <= Len(s)
    BY <1>1, <1>2
  <2> QED BY <1>2, <1>3, <1>5, <2>1, SameFront
<1> QED BY <1>4, <1>5 DEF u

\* The request line: its two first spaces, and the words around them.
LEMMA WordsFound ==
  ASSUME NEW m \in Seq(Nat \ {SP}), NEW r \in Seq(Nat \ {SP}), NEW v \in Seq(Nat),
         NEW line, line = m \o <<SP>> \o r \o <<SP>> \o v
  PROVE  /\ line \in Seq(Nat)
         /\ splitRequestLine(line) = {[method |-> m, url |-> r, version |-> v]}
<1> DEFINE sp == <<SP>>
           u1 == m \o sp
           u2 == u1 \o r
           u3 == u2 \o sp
<1>1. sp \in Seq(Nat) /\ Len(sp) = 1 /\ sp[1] = SP /\ SP \in Nat
  BY DEF SP
<1>2. line = u3 \o v
  OBVIOUS
<1> HIDE DEF sp
<1>3. m \in Seq(Nat) /\ r \in Seq(Nat)
  BY SeqMonotonic
<1>4. PICK x \in Nat, y \in Nat, z \in Nat : x = Len(m) /\ y = Len(r) /\ z = Len(v)
  BY <1>3, LenProperties
<1>5. PICK a \in Nat, b \in Nat, c \in Nat, n \in Nat :
        a = x + 1 /\ c = a + y /\ b = c + 1 /\ n = b + z
  OBVIOUS
<1>6. /\ \A i \in 1..x : m[i] # SP
      /\ \A i \in 1..y : r[i] # SP
  BY <1>4, ElementOfSeq
<1>7. u1 \in Seq(Nat) /\ Len(u1) = a /\ u1[a] = SP /\ \A i \in 1..x : u1[i] = m[i]
  <2>1. /\ u1 \in Seq(Nat) /\ Len(u1) = Len(m) + Len(sp)
        /\ \A i \in 1..Len(m) + Len(sp) : u1[i] = IF i <= Len(m) THEN m[i] ELSE sp[i - Len(m)]
    <3>1. sp \in Seq(Nat)
      BY <1>1
    <3> QED BY <1>3, <3>1, ConcatProperties
  <2> HIDE DEF u1
  <2>2. Len(m) + Len(sp) = a /\ a \in 1..a /\ ~ (a <= x) /\ a - x = 1
        /\ \A i \in 1..x : i \in 1..a /\ i <= x
    BY <1>1, <1>4, <1>5
  <2> QED BY <1>1, <1>4, <2>1, <2>2
<1>8. SubSeq(u1, 1, x) = m
  <2>1. SubSeq(u1, 1, x) = SubSeq(m, 1, x)
    <3>1. x <= Len(m) /\ sp \in Seq(Nat)
      BY <1>1, <1>4
    <3> QED BY <1>3, <3>1, FrontOfTwo
  <2> QED BY <1>3, <1>4, <2>1, SubSeqFull
<1> HIDE DEF u1
<1>9. /\ u2 \in Seq(Nat) /\ Len(u2) = c /\ SubSeq(u2, a + 1, c) = r
      /\ \A i \in 1..a : u2[i] = u1[i]
      /\ \A i, j \in Nat : i <= j /\ j <= a => SubSeq(u2, i + 1, j) = SubSeq(u1, i + 1, j)
      /\ \A i \in a + 1..c : u2[i] # SP
  <2>1. u2 \in Seq(Nat) /\ Len(u2) = Len(u1) + Len(r)
    BY <1>3, <1>7, Joined
  <2>2. SubSeq(u2, Len(u1) + 1, Len(u1) + Len(r)) = r
    BY <1>3, <1>7, EndOfTwo
  <2>3. /\ \A i \in 1..Len(u1) : u2[i] = u1[i]
        /\ \A i, j \in Nat : i <= j /\ j <= Len(u1) => SubSeq(u2, i + 1, j) = SubSeq(u1, i + 1, j)
    BY <1>3, <1>7, InTheFirst
  <2>4. \A i \in 1..Len(u1) + Len(r) : u2[i] = IF i <= Len(u1) THEN u1[i] ELSE r[i - Len(u1)]
    <3>1. u1 \in Seq(Nat)
      BY <1>7
    <3> QED BY <1>3, <3>1, ConcatProperties
  <2> HIDE DEF u2
  <2>5. ASSUME NEW i \in a + 1..c PROVE u2[i] # SP
    <3>1. i \in 1..Len(u1) + Len(r) /\ ~ (i <= Len(u1)) /\ i - Len(u1) \in 1..y
      BY <1>4, <1>5, <1>7
    <3>2. u2[i] = r[i - Len(u1)]
      BY <2>4, <3>1
    <3> QED BY <1>6, <3>1, <3>2
  <2> QED BY <1>4, <1>5, <1>7, <2>1, <2>2, <2>3, <2>5
<1> HIDE DEF u2
<1>10. /\ u3 \in Seq(Nat) /\ Len(u3) = b /\ u3[b] = SP
       /\ \A i \in 1..c : u3[i] = u2[i]
       /\ \A i, j \in Nat : i <= j /\ j <= c => SubSeq(u3, i + 1, j) = SubSeq(u2, i + 1, j)
  <2>1. u2 \in Seq(Nat) /\ sp \in Seq(Nat)
    BY <1>1, <1>9
  <2>2. u3 \in Seq(Nat) /\ Len(u3) = Len(u2) + Len(sp)
    BY <2>1, Joined
  <2>3. /\ \A i \in 1..Len(u2) : u3[i] = u2[i]
        /\ \A i, j \in Nat : i <= j /\ j <= Len(u2) => SubSeq(u3, i + 1, j) = SubSeq(u2, i + 1, j)
    BY <2>1, InTheFirst
  <2>4. \A i \in 1..Len(u2) + Len(sp) : u3[i] = IF i <= Len(u2) THEN u2[i] ELSE sp[i - Len(u2)]
    BY <2>1, ConcatProperties
  <2> HIDE DEF u3
  <2>5. b \in 1..Len(u2) + Len(sp) /\ ~ (b <= Len(u2)) /\ b - Len(u2) = 1
    BY <1>1, <1>5, <1>9
  <2>6. u3[b] = SP
    BY <1>1, <2>4, <2>5
  <2> QED BY <1>1, <1>5, <1>9, <2>2, <2>3, <2>6
<1> HIDE DEF u3
<1>11. /\ line \in Seq(Nat) /\ Len(line) = n /\ SubSeq(line, b + 1, n) = v
       /\ \A i \in 1..b : line[i] = u3[i]
       /\ \A i, j \in Nat : i <= j /\ j <= b => SubSeq(line, i + 1, j) = SubSeq(u3, i + 1, j)
  <2>1. u3 \in Seq(Nat)
    BY <1>10
  <2>2. line \in Seq(Nat) /\ Len(line) = Len(u3) + Len(v)
    BY <1>2, <2>1, Joined
  <2>3. SubSeq(line, Len(u3) + 1, Len(u3) + Len(v)) = v
    BY <1>2, <2>1, EndOfTwo
  <2>4. /\ \A i \in 1..Len(u3) : line[i] = u3[i]
        /\ \A i, j \in Nat : i <= j /\ j <= Len(u3) => SubSeq(line, i + 1, j) = SubSeq(u3, i + 1, j)
    <3>1. /\ \A i \in 1..Len(u3) : (u3 \o v)[i] = u3[i]
          /\ \A i, j \in Nat : i <= j /\ j <= Len(u3) =>
               SubSeq(u3 \o v, i + 1, j) = SubSeq(u3, i + 1, j)
      BY <2>1, InTheFirst
    <3> QED BY <1>2, <3>1, Zenon
  <2>5. Len(u3) = b /\ Len(v) = z /\ b + z = n
    BY <1>4, <1>5, <1>10
  <2>6. Len(line) = n /\ SubSeq(line, b + 1, n) = v
    BY <2>2, <2>3, <2>5
  <2> QED BY <2>2, <2>4, <2>5, <2>6
<1>12. SubSeq(line, 1, a - 1) = m
  <2>1. PICK o \in Nat : o = 0
    OBVIOUS
  <2>2. o <= x /\ x <= a /\ x <= b /\ x <= c /\ o + 1 = 1 /\ a - 1 = x
    BY <1>5, <2>1
  <2>3. SubSeq(line, o + 1, x) = SubSeq(u1, o + 1, x)
    <3>1. SubSeq(line, o + 1, x) = SubSeq(u3, o + 1, x)
      BY <1>11, <2>2
    <3>2. SubSeq(u3, o + 1, x) = SubSeq(u2, o + 1, x)
      BY <1>10, <2>2
    <3>3. SubSeq(u2, o + 1, x) = SubSeq(u1, o + 1, x)
      BY <1>9, <2>2
    <3> QED BY <3>1, <3>2, <3>3
  <2> QED BY <1>8, <2>2, <2>3
<1>13. SubSeq(line, a + 1, b - 1) = r
  <2>1. a <= c /\ c <= c /\ c <= b /\ b - 1 = c
    BY <1>5
  <2>2. SubSeq(line, a + 1, c) = SubSeq(u2, a + 1, c)
    <3>1. SubSeq(line, a + 1, c) = SubSeq(u3, a + 1, c)
      BY <1>11, <2>1
    <3>2. SubSeq(u3, a + 1, c) = SubSeq(u2, a + 1, c)
      BY <1>10, <2>1
    <3> QED BY <3>1, <3>2
  <2> QED BY <1>9, <2>1, <2>2
<1>14. /\ line[a] = SP /\ line[b] = SP
       /\ \A i \in 1..n : line[i] = SP => i = a \/ i >= b
  <2>1. a \in 1..a /\ a \in 1..c /\ a \in 1..b /\ b \in 1..b
    BY <1>5
  <2>2. line[a] = SP /\ line[b] = SP
    BY <1>7, <1>9, <1>10, <1>11, <2>1
  <2>3. ASSUME NEW i \in 1..x PROVE line[i] # SP
    <3>1. i \in 1..a /\ i \in 1..c /\ i \in 1..b
      BY <1>5
    <3>2. line[i] = u3[i] /\ u3[i] = u2[i]
      BY <1>10, <1>11, <3>1
    <3>3. u2[i] = u1[i] /\ u1[i] = m[i]
      BY <1>7, <1>9, <3>1
    <3> QED BY <1>6, <3>2, <3>3
  <2>4. ASSUME NEW i \in a + 1..c PROVE line[i] # SP
    <3>1. i \in 1..c /\ i \in 1..b
      BY <1>5
    <3> QED BY <1>9, <1>10, <1>11, <3>1, ZenonT(40)
  <2>5. \A i \in 1..n : i \in 1..x \/ i = a \/ i \in a + 1..c \/ i >= b
    BY <1>5
  <2> QED BY <2>2, <2>3, <2>4, <2>5
<1> DEFINE spaces == {i \in DOMAIN line : line[i] = SP}
           P == {q \in spaces \X spaces :
                   q[1] < q[2] /\ \A k \in spaces : k \in {q[1], q[2]} \/ k > q[2]}
           W(p) == [method  |-> SubSeq(line, 1, p[1] - 1),
                    url     |-> SubSeq(line, p[1] + 1, p[2] - 1),
                    version |-> SubSeq(line, p[2] + 1, Len(line))]
<1>15. /\ spaces \subseteq Nat /\ a \in spaces /\ b \in spaces
       /\ \A i \in spaces : i = a \/ i >= b
  <2>1. DOMAIN line = 1..n
    BY <1>11, LenProperties
  <2>2. a \in 1..n /\ b \in 1..n
    BY <1>5
  <2>3. \A i \in spaces : i \in 1..n /\ line[i] = SP
    BY <2>1
  <2>4. a \in spaces /\ b \in spaces
    BY <1>14, <2>1, <2>2
  <2> HIDE DEF spaces
  <2>5. spaces \subseteq Nat
    BY <2>3
  <2>6. \A i \in spaces : i = a \/ i >= b
    BY <1>14, <2>3
  <2> QED BY <2>4, <2>5, <2>6
<1>16. splitRequestLine(line) = {W(p) : p \in P}
  BY Zenon DEF splitRequestLine
<1> HIDE DEF spaces
<1>17. a < b
  BY <1>5
<1>18. P = {<<a, b>>}
  <2>1. <<a, b>> \in P
    <3>1. \A k \in spaces : k \in {a, b} \/ k > b
      BY <1>15
    <3> QED BY <1>15, <1>17, <3>1
  <2>2. ASSUME NEW q \in P PROVE q = <<a, b>>
    <3>1. PICK i \in spaces, j \in spaces : q = <<i, j>> /\ i < j
                                           /\ \A k \in spaces : k \in {i, j} \/ k > j
      OBVIOUS
    <3>2. i \in Nat /\ j \in Nat /\ (i = a \/ i >= b) /\ (j = a \/ j >= b)
      BY <1>15
    <3>3. (a \in {i, j} \/ a > j) /\ (b \in {i, j} \/ b > j)
      BY <1>15, <3>1
    <3>4. i = a /\ j = b
      BY <1>17, <3>1, <3>2, <3>3
    <3> QED BY <3>1, <3>4
  <2> QED BY <2>1, <2>2
<1> HIDE DEF P
<1>19. W(<<a, b>>) = [method |-> m, url |-> r, version |-> v]
  <2>1. <<a, b>>[1] = a /\ <<a, b>>[2] = b
    OBVIOUS
  <2> QED BY <1>11, <1>12, <1>13, <2>1
<1> HIDE DEF W
<1>20. {W(p) : p \in P} = {W(<<a, b>>)}
  BY <1>18
<1> QED BY <1>11, <1>16, <1>19, <1>20

(* The unread bytes begin with a complete line.                            *)
Begin(b, line) ==
  /\ b \in Good /\ line \in Seq(Nat) /\ ~ HasPair(line, CR, LF)
  /\ Len(line) + 2 <= bufferReadAbleSize(b)
  /\ SubSeq(Unread(b), 1, Len(line) + 2) = line \o <<CR, LF>>

(* What is left of them behind n bytes.                                    *)
Rest(b, n) == SubSeq(Unread(b), n + 1, bufferReadAbleSize(b))

(* The request line is stored.                                             *)
WithLine(q, m, r, v) ==
  [q EXCEPT !.curState = "ParseReqHeader", !.method = m, !.url = r, !.version = v]

(* They begin with this request line, or with this header.                 *)
BeginRequest(b, line, m, r, v) ==
  /\ Begin(b, line)
  /\ m \in Seq(Nat \ {SP}) /\ r \in Seq(Nat \ {SP}) /\ v \in Seq(Nat)
  /\ line = m \o <<SP>> \o r \o <<SP>> \o v

BeginHeader(b, line, key, value) ==
  /\ Begin(b, line)
  /\ key \in Seq(Nat) /\ value \in Seq(Nat) /\ ~ HasPair(key, COLON, SP)
  /\ line = key \o <<COLON, SP>> \o value

\* The line is found, and the bytes of it.
LEMMA LineIsThere ==
  ASSUME NEW b, NEW line, Begin(b, line)
  PROVE  /\ findCRLF(b) = Len(line) /\ findCRLFBuffer(b) = Len(line)
         /\ BytesFrom(b.data, b.readPos, Len(line)) = line
         /\ \A i, j \in Nat : i + j <= Len(line) =>
              BytesFrom(b.data, b.readPos + i, j) = SubSeq(line, i + 1, i + j)
<1> DEFINE u == Unread(b)
           n == Len(line)
           m == bufferReadAbleSize(b)
<1>1. /\ b \in Good /\ line \in Seq(Nat) /\ ~ HasPair(line, CR, LF)
      /\ n + 2 <= m /\ SubSeq(u, 1, n + 2) = line \o <<CR, LF>>
  BY DEF Begin
<1>2. u \in Seq(Nat) /\ Len(u) = m /\ m \in Nat /\ n \in Nat
  BY <1>1, UnreadBytes, LenProperties
<1>3. FindPair(u, CR, LF) = n /\ SubSeq(u, 1, n) = line
  <2>1. n + 2 <= Len(u)
    BY <1>1, <1>2
  <2> HIDE DEF u
  <2> QED BY <1>1, <1>2, <2>1, LineFound
<1>4. findCRLF(b) = n /\ findCRLFBuffer(b) = n
  BY <1>3 DEF findCRLF, findCRLFBuffer
<1>5. ASSUME NEW i \in Nat, NEW j \in Nat, i + j <= n
      PROVE  BytesFrom(b.data, b.readPos + i, j) = SubSeq(line, i + 1, i + j)
  <2>1. i + j <= m
    BY <1>1, <1>2, <1>5
  <2>2. BytesFrom(b.data, b.readPos + i, j) = SubSeq(u, i + 1, i + j)
    BY <1>1, <2>1, BytesInside
  <2>3. SubSeq(u, i + 1, i + j) = SubSeq(line, i + 1, i + j)
    <3> HIDE DEF u, n, m
    <3>1. PICK e \in Nat : e = i + j /\ i <= e /\ e <= n
      BY <1>5
    <3>2. n <= Len(u) /\ n <= Len(line)
      BY <1>1, <1>2 DEF n
    <3>3. SubSeq(u, 1, n) = SubSeq(line, 1, n)
      BY <1>1, <1>3, SubSeqFull DEF n
    <3>4. SubSeq(u, i + 1, e) = SubSeq(line, i + 1, e)
      BY <1>1, <1>2, <3>1, <3>2, <3>3, SameFront
    <3> QED BY <3>1, <3>4
  <2> QED BY <2>2, <2>3
<1>6. BytesFrom(b.data, b.readPos, n) = line
  <2>1. PICK z \in Nat : z = 0
    OBVIOUS
  <2>2. b.readPos + z = b.readPos /\ z + 1 = 1 /\ z + n = n /\ z + n <= n
    BY <1>1, <1>2, <2>1, GoodFields
  <2>3. BytesFrom(b.data, b.readPos + z, n) = SubSeq(line, z + 1, z + n)
    BY <1>2, <1>5, <2>2
  <2>4. SubSeq(line, 1, n) = line
    BY <1>1, SubSeqFull
  <2> HIDE DEF n
  <2> QED BY <2>2, <2>3, <2>4
<1> QED BY <1>4, <1>5, <1>6

\* Behind the line.
LEMMA BehindLine ==
  ASSUME NEW b, NEW line, Begin(b, line)
  PROVE  /\ Len(line) \in Nat
         /\ Unread([b EXCEPT !.readPos = @ + Len(line) + 2]) = Rest(b, Len(line) + 2)
         /\ Unread(Skip(b, Len(line) + 2)) = Rest(b, Len(line) + 2)
<1>1. b \in Good /\ line \in Seq(Nat) /\ Len(line) + 2 <= bufferReadAbleSize(b)
  BY DEF Begin
<1>2. PICK n \in Nat : n = Len(line) + 2
  BY <1>1, LenProperties
<1>3. Unread([b EXCEPT !.readPos = b.readPos + n]) = Rest(b, n)
  BY <1>1, <1>2, UnreadBehind DEF Rest
<1>4. b.readPos + n = b.readPos + Len(line) + 2 /\ Len(line) \in Nat
  BY <1>1, <1>2, LenProperties, GoodFields
<1>5. [b EXCEPT !.readPos = @ + Len(line) + 2] = [b EXCEPT !.readPos = b.readPos + n]
  BY <1>4
<1>6. Skip(b, Len(line) + 2) = [b EXCEPT !.readPos = b.readPos + n]
  BY <1>2 DEF Skip
<1> QED BY <1>2, <1>3, <1>4, <1>5, <1>6

\* The request line in both programs.
LEMMA RequestLineStep ==
  ASSUME NEW b, NEW line, NEW m, NEW r, NEW v, BeginRequest(b, line, m, r, v), NEW q,
         NEW o \in parseHttpRequestLine(q, b) \cup parseRequestLine(q, b)
  PROVE  /\ o.flag = "true"
         /\ o.req = WithLine(q, m, r, v)
         /\ Unread(o.buf) = Rest(b, Len(line) + 2)
<1> DEFINE n == Len(line)
           w == [method |-> m, url |-> r, version |-> v]
           moved == [b EXCEPT !.readPos = @ + n + 2]
           read == [q EXCEPT !.curState = "ParseReqHeader", !.method = m, !.url = r,
                             !.version = v]
<1>0. /\ Begin(b, line)
      /\ m \in Seq(Nat \ {SP}) /\ r \in Seq(Nat \ {SP}) /\ v \in Seq(Nat)
      /\ line = m \o <<SP>> \o r \o <<SP>> \o v
  BY DEF BeginRequest
<1>1. findCRLF(b) = n /\ findCRLFBuffer(b) = n /\ BytesFrom(b.data, b.readPos, n) = line
  BY <1>0, LineIsThere
<1>2. splitRequestLine(line) = {w} /\ n \in Nat /\ n # 0 /\ n # -1
  <2>1. splitRequestLine(line) = {w} /\ line \in Seq(Nat)
    BY <1>0, WordsFound
  <2>2. n \in Nat
    BY <2>1, LenProperties
  <2>3. n # 0
    <3>1. SUFFICES ASSUME n = 0 PROVE FALSE
      OBVIOUS
    <3>2. DOMAIN line = {}
      BY <2>1, <3>1, LenProperties
    <3>3. splitRequestLine(line) = {}
      BY <3>2 DEF splitRequestLine
    <3> QED BY <2>1, <3>3
  <2>4. n # -1
    <3> HIDE DEF n
    <3> QED BY <2>2
  <2> HIDE DEF n, w
  <2> QED BY <2>1, <2>2, <2>3, <2>4
<1>3. AcceptLine(q, b, n) = {Outcome("true", read, moved)}
  <2> HIDE DEF n, w
  <2>1. {w} # {}
    OBVIOUS
  <2>2. AcceptLine(q, b, n)
          = {Outcome("true",
                     [q EXCEPT !.curState = "ParseReqHeader", !.method = x.method,
                               !.url = x.url, !.version = x.version],
                     [b EXCEPT !.readPos = @ + n + 2]) : x \in {w}}
    BY <1>1, <1>2, <2>1, Zenon DEF AcceptLine
  <2>3. w.method = m /\ w.url = r /\ w.version = v
    BY DEF w
  <2>4. {Outcome("true",
                 [q EXCEPT !.curState = "ParseReqHeader", !.method = x.method,
                           !.url = x.url, !.version = x.version],
                 [b EXCEPT !.readPos = @ + n + 2]) : x \in {w}}
         = {Outcome("true",
                 [q EXCEPT !.curState = "ParseReqHeader", !.method = w.method,
                           !.url = w.url, !.version = w.version],
                 [b EXCEPT !.readPos = @ + n + 2])}
    OBVIOUS
  <2> QED BY <2>2, <2>3, <2>4
<1> HIDE DEF n
<1>4. o \in AcceptLine(q, b, n)
  <2>1. parseHttpRequestLine(q, b) = AcceptLine(q, b, n)
    BY <1>1, <1>2 DEF parseHttpRequestLine
  <2>2. parseRequestLine(q, b) = AcceptLine(q, b, n)
    BY <1>1, <1>2 DEF parseRequestLine
  <2> QED BY <2>1, <2>2
<1>5. Unread(moved) = Rest(b, n + 2)
  BY <1>0, BehindLine DEF n
<1> HIDE DEF moved, read
<1>6. o = Outcome("true", read, moved)
  BY <1>3, <1>4
<1> QED BY <1>5, <1>6 DEF Outcome, WithLine, read, n

\* A header line in both programs.
LEMMA HeaderLineStep ==
  ASSUME NEW b, NEW line, NEW key, NEW value, BeginHeader(b, line, key, value), NEW q
  PROVE  /\ \A o \in parseHttpRequestHeader(q, b) :
              /\ o.flag \in {"true", "crash"} /\ o.req = addHttpRequestHeader(q, key, value)
              /\ Unread(o.buf) = Rest(b, Len(line) + 2)
         /\ \A o \in parseRequestHeader(q, b) :
              /\ o.flag = "true" /\ o.req = addHeader(q, key, value)
              /\ Unread(o.buf) = Rest(b, Len(line) + 2)
<1> DEFINE n == Len(line)
           c == Len(key)
<1>0. /\ Begin(b, line)
      /\ key \in Seq(Nat) /\ value \in Seq(Nat) /\ ~ HasPair(key, COLON, SP)
      /\ line = key \o <<COLON, SP>> \o value
  BY DEF BeginHeader
<1>1. findCRLF(b) = n /\ findCRLFBuffer(b) = n /\ BytesFrom(b.data, b.readPos, n) = line
  BY <1>0, LineIsThere
<1>2. /\ FindPair(line, COLON, SP) = c /\ n = c + 2 + Len(value)
      /\ SubSeq(line, 1, c) = key /\ SubSeq(line, c + 3, n) = value
  <2>1. FindPair(line, COLON, SP) = Len(key)
    BY <1>0, ColonFound
  <2>2. Len(line) = Len(key) + 2 + Len(value)
    BY <1>0, ColonFound
  <2>3. SubSeq(line, 1, Len(key)) = key
    BY <1>0, ColonFound
  <2>4. SubSeq(line, Len(key) + 3, Len(line)) = value
    BY <1>0, ColonFound
  <2> QED BY <2>1, <2>2, <2>3, <2>4
<1>3. n \in Nat /\ c \in Nat /\ Len(value) \in Nat
  BY <1>0, LenProperties DEF Begin
<1>4. HeaderKey(b, c) = key /\ HeaderValue(b, c, n) = value
  <2>1. \A i, j \in Nat : i + j <= n =>
          BytesFrom(b.data, b.readPos + i, j) = SubSeq(line, i + 1, i + j)
    <3>1. Begin(b, line)
      BY DEF BeginHeader
    <3> QED BY <3>1, LineIsThere, Zenon
  <2>2. PICK z \in Nat : z = 0
    OBVIOUS
  <2>3. b.readPos \in Nat
    BY <1>0, GoodFields DEF Begin
  <2> HIDE DEF n, c
  <2>4. z + c <= n /\ z + 1 = 1 /\ z + c = c /\ b.readPos + z = b.readPos
    BY <1>2, <1>3, <2>2, <2>3
  <2>5. BytesFrom(b.data, b.readPos + z, c) = SubSeq(line, z + 1, z + c)
    BY <1>3, <2>1, <2>4
  <2>6. PICK i \in Nat, j \in Nat : i = c + 2 /\ j = n - c - 2
    <3>1. PICK k \in Nat : k = Len(value)
      BY <1>3
    <3>2. n - c - 2 = k /\ n - c - 2 \in Nat /\ c + 2 \in Nat
      <4>1. n = c + 2 + k
        BY <1>2, <3>1
      <4> QED BY <1>3, <4>1
    <3> QED BY <3>2
  <2>7. i + j <= n /\ i + 1 = c + 3 /\ i + j = n /\ b.readPos + c + 2 = b.readPos + i
    <3>1. PICK p \in Nat : p = b.readPos
      BY <2>3
    <3>2. i + j <= n /\ i + 1 = c + 3 /\ i + j = n /\ p + c + 2 = p + i
      BY <1>3, <2>6
    <3> QED BY <3>1, <3>2
  <2>8. BytesFrom(b.data, b.readPos + i, j) = SubSeq(line, i + 1, i + j)
    BY <2>1, <2>7
  <2>9. HeaderKey(b, c) = key
    BY <1>2, <2>4, <2>5 DEF HeaderKey
  <2>10. HeaderValue(b, c, n) = value
    BY <1>2, <2>6, <2>7, <2>8 DEF HeaderValue
  <2> QED BY <2>9, <2>10
<1>5. Unread(Skip(b, n + 2)) = Rest(b, n + 2)
  BY <1>0, BehindLine
<1>6. n # -1 /\ c # -1
  BY <1>3
<1> HIDE DEF n, c
<1> DEFINE skipped == Skip(b, n + 2)
           flags == IF Len(q.headers) < HeaderSize THEN {"true"} ELSE {"true", "crash"}
<1>7. parseHttpRequestHeader(q, b)
        = {Outcome(flag, addHttpRequestHeader(q, key, value), skipped) : flag \in flags}
  BY <1>1, <1>2, <1>4, <1>6 DEF parseHttpRequestHeader
<1>8. parseRequestHeader(q, b) = {Outcome("true", addHeader(q, key, value), skipped)}
  BY <1>1, <1>2, <1>4, <1>6 DEF parseRequestHeader
<1> HIDE DEF skipped
<1>9. ASSUME NEW o \in parseHttpRequestHeader(q, b)
      PROVE  /\ o.flag \in {"true", "crash"} /\ o.req = addHttpRequestHeader(q, key, value)
             /\ o.buf = skipped
  <2>1. PICK flag \in flags : o = Outcome(flag, addHttpRequestHeader(q, key, value), skipped)
    BY <1>7
  <2> QED BY <2>1 DEF Outcome
<1>10. ASSUME NEW o \in parseRequestHeader(q, b)
       PROVE  o.flag = "true" /\ o.req = addHeader(q, key, value) /\ o.buf = skipped
  BY <1>8 DEF Outcome
<1> QED BY <1>5, <1>9, <1>10 DEF skipped, n

\* The empty line in both programs.
LEMMA EmptyLineStep ==
  ASSUME NEW b, Begin(b, <<>>), NEW q,
         NEW o \in parseHttpRequestHeader(q, b) \cup parseRequestHeader(q, b)
  PROVE  /\ o.flag = "true" /\ o.req = [q EXCEPT !.curState = "ParseReqDone"]
         /\ Unread(o.buf) = Rest(b, 2)
<1> DEFINE e == <<>>
<1>1. Len(e) = 0 /\ 0 + 2 = 2 /\ 0 # -1
  OBVIOUS
<1>2. findCRLF(b) = 0 /\ findCRLFBuffer(b) = 0 /\ BytesFrom(b.data, b.readPos, 0) = e
  BY <1>1, LineIsThere
<1>3. FindPair(e, COLON, SP) = -1
  BY NoColon
<1>4. Unread(Skip(b, 2)) = Rest(b, 2)
  BY <1>1, BehindLine
<1> HIDE DEF e
<1> DEFINE out == Outcome("true", [q EXCEPT !.curState = "ParseReqDone"], Skip(b, 2))
<1>5. parseHttpRequestHeader(q, b) = {out}
  BY <1>1, <1>2, <1>3 DEF parseHttpRequestHeader
<1>6. parseRequestHeader(q, b) = {out}
  BY <1>1, <1>2, <1>3 DEF parseRequestHeader
<1>7. o = out
  BY <1>5, <1>6
<1> QED BY <1>4, <1>7 DEF Outcome

\* A set of numbers that has 0 and the successor of every number in it.
LEMMA FromZeroOn ==
  ASSUME NEW T, 0 \in T, \A n \in Nat : n \in T => n + 1 \in T
  PROVE  Nat \subseteq T
<1> DEFINE S == Nat \ T
<1>1. SUFFICES ASSUME S # {} PROVE FALSE
  OBVIOUS
<1>2. PICK k \in S : \A y \in S : k <= y
  <2>1. S \subseteq Nat
    OBVIOUS
  <2> HIDE DEF S
  <2> QED BY <1>1, <2>1, MinIsMember
<1>3. k \in Nat /\ k \notin T /\ k # 0
  BY <1>2
<1>4. k - 1 \in Nat /\ (k - 1) + 1 = k /\ ~ (k <= k - 1)
  BY <1>3
<1>5. k - 1 \in T
  BY <1>2, <1>4
<1> QED BY <1>3, <1>4, <1>5

\* Sums of the first numbers of a sequence of them, each with two more.
Sums(g, L, m) == g[0] = 0 /\ \A k \in 1..m : g[k] = g[k - 1] + L[k - 1] + 2

\* There are such sums.
LEMMA SumsExist ==
  ASSUME NEW L \in [Nat -> Nat], NEW m \in Nat
  PROVE  \E g \in [0..m -> Nat] : Sums(g, L, m)
<1> DEFINE T == {j \in Nat : \E g \in [0..j -> Nat] : Sums(g, L, j)}
<1>1. 0 \in T
  <2> DEFINE g == [j \in 0..0 |-> 0]
  <2>1. g \in [0..0 -> Nat] /\ Sums(g, L, 0)
    BY DEF Sums
  <2> QED BY <2>1
<1>2. ASSUME NEW n \in Nat, n \in T
      PROVE  n + 1 \in T
  <2>1. PICK g \in [0..n -> Nat] : Sums(g, L, n)
    BY <1>2
  <2> DEFINE last == g[n] + L[n] + 2
             f == [j \in 0..n + 1 |-> IF j = n + 1 THEN last ELSE g[j]]
  <2>2. n \in 0..n /\ g[n] \in Nat /\ L[n] \in Nat /\ last \in Nat
    <3>1. n \in 0..n
      OBVIOUS
    <3>2. g[n] \in Nat /\ L[n] \in Nat
      BY <3>1
    <3>3. last \in Nat
      <4> HIDE DEF last
      <4>1. PICK x \in Nat, y \in Nat : x = g[n] /\ y = L[n]
        BY <3>2
      <4>2. last = x + y + 2
        BY <4>1 DEF last
      <4> QED BY <4>2
    <3> HIDE DEF last
    <3> QED BY <3>1, <3>2, <3>3
  <2> HIDE DEF last
  <2>3. f \in [0..n + 1 -> Nat]
    BY <2>2
  <2>4. f[0] = 0
    BY <2>1 DEF Sums
  <2>5. ASSUME NEW k \in 1..n + 1
        PROVE  f[k] = f[k - 1] + L[k - 1] + 2
    <3>1. CASE k = n + 1
      <4>1. k - 1 = n /\ n \in 0..n + 1 /\ n # n + 1 /\ k \in 0..n + 1
        BY <3>1
      <4>2. f[k] = last /\ f[n] = g[n]
        BY <3>1, <4>1
      <4> QED BY <4>1, <4>2 DEF last
    <3>2. CASE k # n + 1
      <4>1. k \in 1..n /\ k - 1 \in 0..n + 1 /\ k - 1 # n + 1 /\ k \in 0..n + 1
        BY <3>2
      <4>2. f[k] = g[k] /\ f[k - 1] = g[k - 1]
        BY <3>2, <4>1
      <4> QED BY <2>1, <4>1, <4>2 DEF Sums
    <3> QED BY <3>1, <3>2
  <2>6. Sums(f, L, n + 1)
    <3> HIDE DEF f
    <3> QED BY <2>4, <2>5 DEF Sums
  <2>7. \E h \in [0..n + 1 -> Nat] : Sums(h, L, n + 1)
    <3> HIDE DEF f
    <3> QED BY <2>3, <2>6
  <2> HIDE DEF f
  <2>8. n + 1 \in Nat
    OBVIOUS
  <2> QED BY <2>7, <2>8, Zenon
<1> HIDE DEF T
<1>3. Nat \subseteq T
  BY <1>1, <1>2, FromZeroOn
<1> QED BY <1>3 DEF T

\* Sums are numbers and grow.
LEMMA SumsGrow ==
  ASSUME NEW L \in [Nat -> Nat], NEW m \in Nat, NEW g, Sums(g, L, m)
  PROVE  \A k \in 0..m : g[k] \in Nat /\ \A j \in 0..k : g[j] \in Nat /\ g[j] <= g[k]
<1> DEFINE T == {k \in Nat : k <= m => g[k] \in Nat /\ \A j \in 0..k : g[j] \in Nat /\ g[j] <= g[k]}
<1>1. 0 \in T
  BY DEF Sums
<1>2. ASSUME NEW n \in Nat, n \in T
      PROVE  n + 1 \in T
  <2>1. SUFFICES ASSUME n + 1 <= m
                 PROVE  g[n + 1] \in Nat /\ \A j \in 0..n + 1 : g[j] \in Nat /\ g[j] <= g[n + 1]
    OBVIOUS
  <2>2. g[n] \in Nat /\ \A j \in 0..n : g[j] \in Nat /\ g[j] <= g[n]
    BY <1>2, <2>1
  <2>3. L[n] \in Nat /\ n + 1 \in 1..m /\ (n + 1) - 1 = n
    BY <2>1
  <2>4. g[n + 1] = g[n] + L[n] + 2
    BY <2>3 DEF Sums
  <2>5. g[n + 1] \in Nat /\ g[n] <= g[n + 1]
    BY <2>2, <2>3, <2>4
  <2>6. ASSUME NEW j \in 0..n + 1
        PROVE  g[j] \in Nat /\ g[j] <= g[n + 1]
    <3>1. CASE j = n + 1
      BY <2>5, <3>1
    <3>2. CASE j # n + 1
      <4>1. j \in 0..n
        BY <3>2
      <4>2. g[j] \in Nat /\ g[j] <= g[n]
        BY <2>2, <4>1
      <4> QED BY <2>2, <2>5, <4>2
    <3> QED BY <3>1, <3>2
  <2> QED BY <2>5, <2>6
<1> HIDE DEF T
<1>3. Nat \subseteq T
  BY <1>1, <1>2, FromZeroOn
<1> QED BY <1>3 DEF T

(* The lengths of the lines of r.                                          *)
LineLens(r) == [k \in Nat |-> Len(Line(r, k))]

\* The parts of a request, one by one.
LEMMA RequestParts ==
  ASSUME NEW r, WellFormed(r)
  PROVE  /\ r.method \in Seq(Nat \ {SP}) /\ r.url \in Seq(Nat \ {SP})
         /\ r.version \in Seq(Nat) /\ r.body \in Seq(Nat)
         /\ r.headers \in Seq(Seq(Nat) \X Seq(Nat)) /\ Len(r.headers) \in Nat
<1>1. /\ r.method \in Seq(Nat \ {SP}) /\ r.url \in Seq(Nat \ {SP, NUL})
      /\ r.version \in Seq(Nat) /\ r.body \in Seq(Nat)
      /\ r.headers \in Seq(Seq(Nat) \X Seq(Nat))
  BY DEF WellFormed
<1>2. Nat \ {SP, NUL} \subseteq Nat \ {SP}
  OBVIOUS
<1>3. r.url \in Seq(Nat \ {SP})
  <2> DEFINE S == Nat \ {SP, NUL}
             T == Nat \ {SP}
  <2>1. r.url \in Seq(S) /\ \A x \in S : x \in T
    BY <1>1, <1>2
  <2> HIDE DEF S, T
  <2>2. Seq(S) \subseteq Seq(T)
    BY <2>1
  <2> QED BY <2>1, <2>2 DEF T
<1>4. Len(r.headers) \in Nat
  BY <1>1, LenProperties
<1> QED BY <1>1, <1>3, <1>4

\* A header of it: the key and the value.
LEMMA HeaderParts ==
  ASSUME NEW r, WellFormed(r), NEW k \in 1..Len(r.headers)
  PROVE  /\ r.headers[k] \in Seq(Nat) \X Seq(Nat)
         /\ r.headers[k] = <<r.headers[k][1], r.headers[k][2]>>
         /\ r.headers[k][1] \in Seq(Nat) /\ r.headers[k][2] \in Seq(Nat)
         /\ r.headers[k][1] # <<>> /\ r.headers[k][2] # <<>>
         /\ ~ HasPair(r.headers[k][1], COLON, SP)
         /\ Line(r, k) = r.headers[k][1] \o <<COLON, SP>> \o r.headers[k][2]
<1>1. r.headers[k] \in Seq(Nat) \X Seq(Nat)
  <2>1. r.headers \in Seq(Seq(Nat) \X Seq(Nat))
    BY RequestParts
  <2> QED BY <2>1, ElementOfSeq
<1>2. /\ r.headers[k][1] # <<>> /\ r.headers[k][2] # <<>>
      /\ ~ HasPair(r.headers[k][1], COLON, SP)
  BY DEF WellFormed
<1>3. Line(r, k) = r.headers[k][1] \o <<COLON, SP>> \o r.headers[k][2]
  <2>1. k # 0 /\ k <= Len(r.headers)
    BY RequestParts
  <2> QED BY <2>1 DEF Line
<1>4. /\ r.headers[k] = <<r.headers[k][1], r.headers[k][2]>>
      /\ r.headers[k][1] \in Seq(Nat) /\ r.headers[k][2] \in Seq(Nat)
  BY <1>1
<1> QED BY <1>1, <1>2, <1>3, <1>4

\* Every line of it is a sequence of bytes.
LEMMA LinesAreBytes ==
  ASSUME NEW r, WellFormed(r), NEW k \in Nat
  PROVE  Line(r, k) \in Seq(Nat) /\ Len(Line(r, k)) \in Nat
<1>1. Line(r, k) \in Seq(Nat)
  <2>1. CASE k = 0
    <3>1. Line(r, k) = r.method \o <<SP>> \o r.url \o <<SP>> \o r.version
      BY <2>1 DEF Line
    <3>2. r.method \o <<SP>> \o r.url \o <<SP>> \o r.version \in Seq(Nat)
      BY RequestParts, WordsFound
    <3> QED BY <3>1, <3>2
  <2>2. CASE k # 0 /\ k <= Len(r.headers)
    <3>1. k \in 1..Len(r.headers)
      BY <2>2, RequestParts
    <3>2. PICK key, value : key = r.headers[k][1] /\ value = r.headers[k][2]
      OBVIOUS
    <3>3. key \in Seq(Nat) /\ value \in Seq(Nat) /\ ~ HasPair(key, COLON, SP)
      BY <3>1, <3>2, HeaderParts
    <3>4. Line(r, k) = key \o <<COLON, SP>> \o value
      BY <3>1, <3>2, HeaderParts
    <3> QED BY <3>3, <3>4, ColonFound
  <2>3. CASE k # 0 /\ ~ (k <= Len(r.headers))
    BY <2>3 DEF Line
  <2> QED BY <2>1, <2>2, <2>3
<1> QED BY <1>1, LenProperties

\* Where the lines begin.
LEMMA LineAtIsSum ==
  ASSUME NEW r, WellFormed(r)
  PROVE  LineLens(r) \in [Nat -> Nat] /\ Sums(LineAt(r), LineLens(r), Len(r.headers) + 2)
<1> DEFINE n == Len(r.headers)
           L == LineLens(r)
<1>1. n \in Nat /\ n + 2 \in Nat
  BY RequestParts
<1>2. L \in [Nat -> Nat] /\ \A k \in Nat : L[k] = Len(Line(r, k))
  BY LinesAreBytes DEF LineLens
<1> HIDE DEF n, L
<1>3. PICK g \in [0..n + 2 -> Nat] : Sums(g, L, n + 2)
  BY <1>1, <1>2, SumsExist
<1> DEFINE F(f) == [k \in 0..n + 2 |-> IF k = 0 THEN 0 ELSE f[k - 1] + Len(Line(r, k - 1)) + 2]
<1>4. g = F(g)
  <2>1. ASSUME NEW k \in 0..n + 2
        PROVE  g[k] = IF k = 0 THEN 0 ELSE g[k - 1] + Len(Line(r, k - 1)) + 2
    <3>1. CASE k = 0
      BY <1>3, <3>1 DEF Sums
    <3>2. CASE k # 0
      <4>1. k \in 1..n + 2 /\ k - 1 \in Nat
        BY <1>1, <3>2
      <4> QED BY <1>2, <1>3, <3>2, <4>1 DEF Sums
    <3> QED BY <3>1, <3>2
  <2> QED BY <2>1
<1>5. LineAt(r) = CHOOSE f : f = F(f)
  BY DEF LineAt, n
<1>6. LineAt(r) = F(LineAt(r))
  <2> HIDE DEF F
  <2> QED BY <1>4, <1>5
<1> DEFINE A == LineAt(r)
<1> HIDE DEF A
<1>7. \A k \in 0..n + 2 : A[k] = IF k = 0 THEN 0 ELSE A[k - 1] + Len(Line(r, k - 1)) + 2
  <2>1. A = F(A)
    BY <1>6 DEF A
  <2> QED BY <2>1
<1>8. A[0] = 0
  <2>1. 0 \in 0..n + 2
    BY <1>1
  <2> QED BY <1>7, <2>1
<1>9. \A k \in 1..n + 2 : A[k] = A[k - 1] + L[k - 1] + 2
  <2>1. ASSUME NEW k \in 1..n + 2
        PROVE  A[k] = A[k - 1] + L[k - 1] + 2
    <3>1. k \in 0..n + 2 /\ k # 0 /\ k - 1 \in Nat
      BY <1>1
    <3> QED BY <1>2, <1>7, <3>1
  <2> QED BY <2>1
<1>10. Sums(A, L, n + 2)
  BY <1>8, <1>9 DEF Sums
<1> QED BY <1>2, <1>10 DEF n, L, A

\* Line k of what is sent: where it is, what it is, and that it is in front of the body.
LEMMA LineIsSent ==
  ASSUME NEW r, WellFormed(r), r.sent \in Seq(Nat), NEW k \in 0..Len(r.headers) + 1
  PROVE  /\ LineAt(r)[k] \in Nat /\ LineAt(r)[k + 1] \in Nat
         /\ Len(r.sent) \in Nat /\ Len(r.body) \in Nat
         /\ LineAt(r)[k + 1] = LineAt(r)[k] + Len(Line(r, k)) + 2
         /\ LineAt(r)[k + 1] <= Len(r.sent) - Len(r.body)
         /\ Len(r.sent) - Len(r.body) = LineAt(r)[Len(r.headers) + 2]
         /\ LineAt(r)[0] = 0
         /\ ~ HasPair(Line(r, k), CR, LF)
         /\ SubSeq(r.sent, LineAt(r)[k] + 1, LineAt(r)[k + 1]) = Line(r, k) \o <<CR, LF>>
         /\ SubSeq(r.sent, LineAt(r)[Len(r.headers) + 2] + 1, Len(r.sent)) = r.body
<1> DEFINE n == Len(r.headers)
           L == LineLens(r)
           A == LineAt(r)
<1>1. n \in Nat /\ n + 2 \in Nat /\ r.body \in Seq(Nat)
  BY RequestParts
<1>2. L \in [Nat -> Nat] /\ Sums(A, L, n + 2)
  BY LineAtIsSum
<1>3. L[k] = Len(Line(r, k))
  BY <1>1 DEF LineLens
<1>4. /\ ~ HasPair(Line(r, k), CR, LF)
      /\ SubSeq(r.sent, A[k] + 1, A[k + 1]) = Line(r, k) \o <<CR, LF>>
      /\ Len(r.sent) = A[n + 2] + Len(r.body)
      /\ SubSeq(r.sent, A[n + 2] + 1, Len(r.sent)) = r.body
  BY DEF WellFormed
<1>5. Len(r.sent) \in Nat /\ Len(r.body) \in Nat
  BY <1>1, LenProperties
<1> HIDE DEF n, L, A
<1>6. k \in 0..n + 1
  BY DEF n
<1>7. \A i \in 0..n + 2 : A[i] \in Nat /\ \A j \in 0..i : A[j] \in Nat /\ A[j] <= A[i]
  BY <1>1, <1>2, SumsGrow
<1>8. /\ n + 2 \in 0..n + 2 /\ k \in 0..n + 2 /\ k + 1 \in 0..n + 2 /\ k + 1 \in 1..n + 2
      /\ (k + 1) - 1 = k
  BY <1>1, <1>6
<1>9. A[k] \in Nat /\ A[k + 1] \in Nat /\ A[n + 2] \in Nat /\ A[k + 1] <= A[n + 2]
  BY <1>7, <1>8
<1>10. A[k + 1] = A[k] + L[k] + 2 /\ A[0] = 0
  BY <1>2, <1>8 DEF Sums
<1>11. Len(r.sent) - Len(r.body) = A[n + 2]
  BY <1>4, <1>5, <1>9, SMTT(40)
<1> QED BY <1>3, <1>4, <1>5, <1>9, <1>10, <1>11 DEF n, A

(* The keys of some headers.                                               *)
Keys(s) == {kv[1] : kv \in ToSet(s)}

\* A key is that of one of the headers.
LEMMA KeyIsThere ==
  ASSUME NEW S, NEW s \in Seq(S), NEW x
  PROVE  x \in Keys(s) <=> \E i \in 1..Len(s) : s[i][1] = x
<1>1. ToSet(s) = {s[i] : i \in 1..Len(s)}
  BY LenProperties DEF ToSet
<1> QED BY <1>1, Zenon DEF Keys

\* One header more.
LEMMA OneMore ==
  ASSUME NEW S, NEW s \in Seq(S), NEW x \in S
  PROVE  /\ Append(s, x) \in Seq(S)
         /\ ToSet(Append(s, x)) = ToSet(s) \cup {x}
         /\ Keys(Append(s, x)) = Keys(s) \cup {x[1]}
<1> DEFINE t == Append(s, x)
<1>1. /\ t \in Seq(S) /\ Len(t) = Len(s) + 1 /\ Len(s) \in Nat
      /\ \A i \in 1..Len(s) : t[i] = s[i]
      /\ t[Len(s) + 1] = x
  BY AppendProperties, LenProperties
<1>2. ToSet(s) = {s[i] : i \in 1..Len(s)} /\ ToSet(t) = {t[i] : i \in 1..Len(t)}
  <2>1. DOMAIN s = 1..Len(s) /\ DOMAIN t = 1..Len(t)
    BY <1>1, LenProperties
  <2> HIDE DEF t
  <2> QED BY <2>1 DEF ToSet
<1> HIDE DEF t
<1>3. ToSet(t) = ToSet(s) \cup {x}
  <2>1. ASSUME NEW y \in ToSet(t) PROVE y \in ToSet(s) \cup {x}
    <3>1. PICK i \in 1..Len(t) : y = t[i]
      BY <1>2
    <3>2. CASE i = Len(s) + 1
      BY <1>1, <3>1, <3>2
    <3>3. CASE i # Len(s) + 1
      <4>1. i \in 1..Len(s)
        BY <1>1, <3>3
      <4> QED BY <1>1, <1>2, <3>1, <4>1
    <3> QED BY <3>2, <3>3
  <2>2. ASSUME NEW y \in ToSet(s) \cup {x} PROVE y \in ToSet(t)
    <3>1. CASE y = x
      <4>1. Len(s) + 1 \in 1..Len(t)
        BY <1>1
      <4> QED BY <1>1, <1>2, <3>1, <4>1
    <3>2. CASE y \in ToSet(s)
      <4>1. PICK i \in 1..Len(s) : y = s[i]
        BY <1>2, <3>2
      <4>2. i \in 1..Len(t)
        BY <1>1
      <4> QED BY <1>1, <1>2, <4>1, <4>2
    <3> QED BY <3>1, <3>2
  <2> QED BY <2>1, <2>2
<1>4. Keys(t) = Keys(s) \cup {x[1]}
  BY <1>3 DEF Keys
<1> QED BY <1>1, <1>3, <1>4 DEF t

\* The first k of some headers, and the first k - 1.
LEMMA FirstHeaders ==
  ASSUME NEW S, NEW h \in Seq(S), NEW k \in 1..Len(h)
  PROVE  /\ SubSeq(h, 1, k - 1) \in Seq(S) /\ SubSeq(h, 1, k) \in Seq(S)
         /\ Len(SubSeq(h, 1, k - 1)) = k - 1 /\ Len(SubSeq(h, 1, k)) = k
         /\ \A i \in 1..k - 1 : SubSeq(h, 1, k - 1)[i] = h[i]
         /\ \A i \in 1..k : SubSeq(h, 1, k)[i] = h[i]
         /\ SubSeq(h, 1, k) = Append(SubSeq(h, 1, k - 1), h[k])
<1>1. Len(h) \in Nat
  BY LenProperties
<1>2. PICK m \in Nat : m = k - 1 /\ m <= Len(h) /\ k = m + 1
  BY <1>1
<1>3. k \in Nat /\ k <= Len(h) /\ k - 1 = m
  BY <1>1, <1>2
<1> DEFINE p == SubSeq(h, 1, m)
           q == SubSeq(h, 1, k)
<1>4. p \in Seq(S) /\ Len(p) = m /\ \A i \in 1..m : p[i] = h[i]
  BY <1>2, FirstOnes
<1>5. q \in Seq(S) /\ Len(q) = k /\ \A i \in 1..k : q[i] = h[i]
  BY <1>3, FirstOnes
<1>6. h[k] \in S
  BY ElementOfSeq
<1> HIDE DEF p, q
<1>7. q = Append(p, h[k])
  <2> DEFINE t == Append(p, h[k])
  <2>1. /\ t \in Seq(S) /\ Len(t) = Len(p) + 1
        /\ \A i \in 1..Len(p) : t[i] = p[i]
        /\ t[Len(p) + 1] = h[k]
    BY <1>4, <1>6, AppendProperties
  <2> HIDE DEF t
  <2>2. \A i \in 1..k : q[i] = t[i]
    <3>1. ASSUME NEW i \in 1..k PROVE q[i] = t[i]
      <4>1. CASE i = k
        BY <1>2, <1>4, <1>5, <2>1, <4>1
      <4>2. CASE i # k
        <5>1. i \in 1..m
          BY <1>2, <1>3, <4>2
        <5> QED BY <1>4, <1>5, <2>1, <5>1
      <4> QED BY <4>1, <4>2
    <3> QED BY <3>1
  <2>3. Len(q) = Len(t)
    BY <1>2, <1>4, <1>5, <2>1
  <2>4. q = t
    BY <1>5, <2>1, <2>2, <2>3, SeqEqual
  <2> QED BY <2>4 DEF t
<1> QED BY <1>3, <1>4, <1>5, <1>7 DEF p, q

\* The first header of each key among them.
LEMMA FirstOfEachGrows ==
  ASSUME NEW S, NEW h \in Seq(S), NEW k \in 1..Len(h)
  PROVE  LET p == SubSeq(h, 1, k - 1)
             q == SubSeq(h, 1, k)
         IN  /\ Keys(q) = Keys(p) \cup {h[k][1]}
             /\ FirstOfEachKey(q) = FirstOfEachKey(p)
                                      \cup (IF h[k][1] \in Keys(p) THEN {} ELSE {h[k]})
<1> DEFINE p == SubSeq(h, 1, k - 1)
           q == SubSeq(h, 1, k)
           fst(s) == {i \in DOMAIN s : \A j \in 1..i - 1 : s[j][1] # s[i][1]}
<1>1. /\ p \in Seq(S) /\ q \in Seq(S) /\ Len(p) = k - 1 /\ Len(q) = k
      /\ \A i \in 1..k - 1 : p[i] = h[i]
      /\ \A i \in 1..k : q[i] = h[i]
      /\ q = Append(p, h[k])
  BY FirstHeaders
<1>2. h[k] \in S
  BY ElementOfSeq
<1> HIDE DEF p, q
<1>3. Keys(q) = Keys(p) \cup {h[k][1]}
  BY <1>1, <1>2, OneMore
<1>4. DOMAIN p = 1..k - 1 /\ DOMAIN q = 1..k
  BY <1>1, LenProperties
<1>5. /\ FirstOfEachKey(p) = {p[i] : i \in fst(p)}
      /\ FirstOfEachKey(q) = {q[i] : i \in fst(q)}
  BY DEF FirstOfEachKey
<1> DEFINE new(i) == \A j \in 1..i - 1 : h[j][1] # h[i][1]
<1>6. fst(p) = {i \in 1..k - 1 : new(i)}
  <2>1. \A i \in 1..k - 1 : p[i] = h[i] /\ \A j \in 1..i - 1 : p[j] = h[j]
    BY <1>1
  <2> QED BY <1>4, <2>1
<1>7. fst(q) = {i \in 1..k : new(i)}
  <2>1. \A i \in 1..k : q[i] = h[i] /\ \A j \in 1..i - 1 : q[j] = h[j]
    BY <1>1
  <2> QED BY <1>4, <2>1
<1>8. h[k][1] \in Keys(p) <=> \E j \in 1..k - 1 : h[j][1] = h[k][1]
  <2>1. h[k][1] \in Keys(p) <=> \E j \in 1..Len(p) : p[j][1] = h[k][1]
    BY <1>1, KeyIsThere
  <2> QED BY <1>1, <2>1
<1>9. fst(q) = fst(p) \cup (IF h[k][1] \in Keys(p) THEN {} ELSE {k})
  <2>1. new(k) <=> ~ (h[k][1] \in Keys(p))
    BY <1>8
  <2>2. k \in Nat \ {0}
    BY LenProperties
  <2> HIDE DEF new, fst
  <2>3. CASE new(k)
    BY <1>6, <1>7, <2>1, <2>2, <2>3
  <2>4. CASE ~ new(k)
    BY <1>6, <1>7, <2>1, <2>2, <2>4
  <2> QED BY <2>3, <2>4
<1>10. \A i \in fst(p) : p[i] = h[i] /\ q[i] = h[i]
  BY <1>1, <1>6
<1>11. q[k] = h[k]
  BY <1>1
<1> HIDE DEF fst
<1>12. FirstOfEachKey(q) = FirstOfEachKey(p)
                             \cup (IF h[k][1] \in Keys(p) THEN {} ELSE {h[k]})
  BY <1>5, <1>9, <1>10, <1>11
<1> QED BY <1>3, <1>12 DEF p, q

-----------------------------------------------------------------------------
(* The parser reads the lines of the request one after the other.          *)

(* The request line and the first k - 1 headers are in req.                *)
Parsed(k) ==
  LET read == SubSeq(request.headers, 1, k - 1)
  IN  IF k = 0 THEN req = initHttpRequest
      ELSE /\ req.method = request.method /\ req.url = request.url
           /\ req.version = request.version
           /\ req.headers \in Seq(Seq(Nat) \X Seq(Nat))
           /\ IF impl = "c" THEN req.headers = read
              ELSE /\ ToSet(req.headers) = FirstOfEachKey(read)
                   /\ Keys(req.headers) = Keys(read)

(* What is not read yet begins with line k.                                *)
UnreadFrom(k) == Unread(readBuf) = SubSeq(request.sent, LineAt(request)[k] + 1, taken)

(* The parser is about to read line k.                                     *)
AtLine(k) ==
  /\ Parsed(k) /\ UnreadFrom(k)
  /\ req.curState = IF k = 0 THEN "ParseReqLine" ELSE "ParseReqHeader"

ParseInv ==
  /\ pc = "idle" => readBuf = initBuffer(Capacity) /\ req = initHttpRequest /\ taken = 0
  /\ taken <= Len(request.sent)
  /\ HeadRead /\ pc = "parse" => \E k \in 0..Len(request.headers) + 1 : AtLine(k)
  /\ HeadRead /\ pc = "respond" =>
       Parsed(Len(request.headers) + 1) /\ UnreadFrom(Len(request.headers) + 2)

\* A request whose head has been read.
LEMMA ReadRequest ==
  ASSUME HttpInv, HeadRead
  PROVE  /\ WellFormed(request) /\ request.sent \in Seq(Nat)
         /\ Len(request.headers) \in Nat /\ taken \in Nat /\ readBuf \in Good
         /\ impl \in {"c", "cpp"}
         /\ taken >= Len(request.sent) - Len(request.body)
BY RequestsAssumption, RequestParts DEF HttpInv, InputInv, BufInv, HeadRead

\* The line the parser is at is in the buffer, and what is behind it.
LEMMA LineIsReady ==
  ASSUME HttpInv, HeadRead, taken <= Len(request.sent),
         NEW k \in 0..Len(request.headers) + 1, UnreadFrom(k)
  PROVE  /\ Begin(readBuf, Line(request, k))
         /\ Rest(readBuf, Len(Line(request, k)) + 2)
              = SubSeq(request.sent, LineAt(request)[k + 1] + 1, taken)
<1>1. PICK s \in Seq(Nat) : s = request.sent
  BY ReadRequest
<1>2. k \in Nat
  BY ReadRequest
<1>3. PICK l \in Seq(Nat) : l = Line(request, k)
  BY <1>2, ReadRequest, LinesAreBytes
<1>4. PICK m \in Nat : m = Len(l) + 2
  BY LenProperties
<1>5. PICK a \in Nat, c \in Nat :
        /\ a = LineAt(request)[k] /\ c = LineAt(request)[k + 1]
        /\ c = a + m /\ c <= Len(s) - Len(request.body)
        /\ Len(s) \in Nat /\ Len(request.body) \in Nat
        /\ ~ HasPair(l, CR, LF)
        /\ SubSeq(s, a + 1, c) = l \o <<CR, LF>>
  <2>1. WellFormed(request) /\ request.sent \in Seq(Nat)
    BY ReadRequest
  <2>2. Len(l) \in Nat
    BY LenProperties
  <2> DEFINE A == LineAt(request)
  <2>3. /\ A[k] \in Nat /\ A[k + 1] \in Nat /\ Len(s) \in Nat /\ Len(request.body) \in Nat
        /\ A[k + 1] = A[k] + Len(l) + 2 /\ A[k + 1] <= Len(s) - Len(request.body)
        /\ ~ HasPair(l, CR, LF)
        /\ SubSeq(s, A[k] + 1, A[k + 1]) = l \o <<CR, LF>>
    BY <1>1, <1>3, <2>1, LineIsSent
  <2> HIDE DEF A
  <2>4. A[k + 1] = A[k] + m
    BY <1>4, <2>2, <2>3
  <2> QED BY <2>3, <2>4 DEF A
<1>6. taken \in Nat /\ taken >= Len(s) - Len(request.body) /\ taken <= Len(s)
  BY <1>1, ReadRequest
<1>7. PICK t \in Nat : t = taken /\ c <= t /\ t <= Len(s) /\ a <= t
  <2>1. PICK n \in Nat, e \in Nat : n = Len(s) /\ e = Len(request.body)
    BY <1>5
  <2>2. PICK t \in Nat : t = taken
    BY <1>6
  <2>3. c <= n - e /\ t >= n - e /\ t <= n /\ c = a + m
    BY <1>5, <1>6, <2>1, <2>2
  <2>4. c <= t /\ a <= t
    BY <2>3
  <2> QED BY <2>1, <2>2, <2>3, <2>4
<1> DEFINE u == Unread(readBuf)
<1>8. u = SubSeq(s, a + 1, t)
  BY <1>1, <1>5, <1>7 DEF UnreadFrom
<1>9. u \in Seq(Nat) /\ Len(u) = t - a
  BY <1>7, <1>8, Between
<1>10. readBuf \in Good /\ bufferReadAbleSize(readBuf) = t - a
  BY <1>9, ReadRequest, UnreadBytes
<1>11. PICK z \in Nat, d \in Nat : z = 0 /\ d = t - a /\ m <= d /\ z <= m /\ m <= m
  <2>1. c = a + m /\ c <= t /\ a <= t
    BY <1>5, <1>7
  <2>2. t - a \in Nat /\ m <= t - a
    BY <2>1
  <2> QED BY <2>2
<1>12. SubSeq(u, 1, m) = l \o <<CR, LF>>
  <2>1. SubSeq(SubSeq(s, a + 1, t), z + 1, m) = SubSeq(s, a + z + 1, a + m)
    BY <1>7, <1>11, PieceOfPiece
  <2>2. z + 1 = 1 /\ a + z + 1 = a + 1 /\ a + m = c
    BY <1>5, <1>11
  <2> QED BY <1>5, <1>8, <2>1, <2>2
<1>13. SubSeq(u, m + 1, d) = SubSeq(s, c + 1, t)
  <2>1. SubSeq(SubSeq(s, a + 1, t), m + 1, d) = SubSeq(s, a + m + 1, a + d)
    BY <1>7, <1>11, PieceOfPiece
  <2>2. a + m + 1 = c + 1 /\ a + d = t
    BY <1>5, <1>11
  <2> QED BY <1>8, <2>1, <2>2
<1> HIDE DEF u
<1>14. Begin(readBuf, l)
  BY <1>4, <1>5, <1>10, <1>11, <1>12 DEF Begin, u
<1>15. Rest(readBuf, m) = SubSeq(s, c + 1, t)
  BY <1>10, <1>11, <1>13 DEF Rest, u
<1> QED BY <1>1, <1>3, <1>4, <1>5, <1>7, <1>14, <1>15

\* A step of the parser takes the outcome of a step on the state it is in.
LEMMA ParserTakes ==
  ASSUME parseHttpRequest_c \/ parseHttpRequest_cpp, HttpInv
  PROVE  /\ UNCHANGED <<impl, request, taken>> /\ pc = "parse"
         /\ \E o : /\ o \in IF req.curState = "ParseReqLine"
                              THEN IF impl = "c" THEN parseHttpRequestLine(req, readBuf)
                                                 ELSE parseRequestLine(req, readBuf)
                              ELSE IF impl = "c" THEN parseHttpRequestHeader(req, readBuf)
                                                 ELSE parseRequestHeader(req, readBuf)
                   /\ req' = o.req /\ readBuf' = o.buf
                   /\ pc' \in {"crashed", "delete", "respond", "parse"}
                   /\ pc' = "respond" => o.req.curState = "ParseReqDone"
                   /\ pc' = "parse" => o.req.curState # "ParseReqDone"
                   /\ pc' = "delete" => o.flag = "false"
<1>1. CASE parseHttpRequest_c
  <2>1. impl = "c"
    BY <1>1 DEF parseHttpRequest_c
  <2> QED BY <1>1, <2>1 DEF parseHttpRequest_c, env
<1>2. CASE parseHttpRequest_cpp
  <2>1. impl = "cpp"
    BY <1>2 DEF parseHttpRequest_cpp
  <2> QED BY <1>2, <2>1 DEF parseHttpRequest_cpp, env
<1> QED BY <1>1, <1>2

\* Behind the request line the parser is at line 1, without headers.
LEMMA FirstLineParsed ==
  ASSUME HttpInv, HeadRead, taken <= Len(request.sent), AtLine(0),
         parseHttpRequest_c \/ parseHttpRequest_cpp
  PROVE  pc' \notin {"respond", "delete"} /\ (pc' = "parse" => AtLine(1)')
<1>1. /\ WellFormed(request) /\ Len(request.headers) \in Nat
      /\ 0 \in 0..Len(request.headers) + 1
  BY ReadRequest
<1>2. PICK m \in Seq(Nat \ {SP}), r \in Seq(Nat \ {SP}), v \in Seq(Nat) :
        m = request.method /\ r = request.url /\ v = request.version
  BY <1>1, RequestParts
<1>3. PICK line : line = Line(request, 0)
  OBVIOUS
<1>4. line = m \o <<SP>> \o r \o <<SP>> \o v
  BY <1>2, <1>3 DEF Line
<1>5. /\ Begin(readBuf, line)
      /\ Rest(readBuf, Len(line) + 2) = SubSeq(request.sent, LineAt(request)[1] + 1, taken)
  <2>1. UnreadFrom(0) /\ 0 + 1 = 1
    BY DEF AtLine
  <2> QED BY <1>1, <1>3, <2>1, LineIsReady
<1>6. req = initHttpRequest /\ req.curState = "ParseReqLine"
  BY DEF AtLine, Parsed
<1>7. UNCHANGED <<impl, request, taken>>
  BY ParserTakes
<1>8. PICK o \in parseHttpRequestLine(req, readBuf) \cup parseRequestLine(req, readBuf) :
        /\ req' = o.req /\ readBuf' = o.buf
        /\ pc' = "respond" => o.req.curState = "ParseReqDone"
        /\ pc' = "delete" => o.flag = "false"
  BY <1>6, ParserTakes
<1>9. /\ o.req = [req EXCEPT !.curState = "ParseReqHeader", !.method = m, !.url = r,
                             !.version = v]
      /\ Unread(o.buf) = Rest(readBuf, Len(line) + 2) /\ o.flag = "true"
  <2>0. BeginRequest(readBuf, line, m, r, v)
    BY <1>4, <1>5 DEF BeginRequest
  <2>1. o.req = [req EXCEPT !.curState = "ParseReqHeader", !.method = m, !.url = r,
                            !.version = v]
    <3>1. o.req = WithLine(req, m, r, v)
      BY <2>0, RequestLineStep
    <3> QED BY <3>1 DEF WithLine
  <2>2. Unread(o.buf) = Rest(readBuf, Len(line) + 2)
    BY <2>0, RequestLineStep
  <2>3. o.flag = "true"
    BY <2>0, RequestLineStep
  <2> QED BY <2>1, <2>2, <2>3
<1>10. /\ req'.method = m /\ req'.url = r /\ req'.version = v /\ req'.headers = <<>>
       /\ req'.curState = "ParseReqHeader"
  BY <1>6, <1>8, <1>9 DEF initHttpRequest
<1>11. pc' \notin {"respond", "delete"}
  BY <1>8, <1>9, <1>10
<1>12. SubSeq(request.headers, 1, 0) = <<>>
  BY <1>1, RequestParts
<1>13. Parsed(1)'
  <2> DEFINE none == <<>>
  <2>1. none \in Seq(Seq(Nat) \X Seq(Nat))
    OBVIOUS
  <2>2. ToSet(none) = {} /\ FirstOfEachKey(none) = {}
    BY DEF ToSet, FirstOfEachKey
  <2>3. 1 - 1 = 0 /\ ~ (1 = 0)
    OBVIOUS
  <2> HIDE DEF none
  <2>4. req'.headers = none /\ SubSeq(request'.headers, 1, 1 - 1) = none
    BY <1>7, <1>10, <1>12, <2>3 DEF none
  <2> QED BY <1>2, <1>7, <1>10, <2>1, <2>2, <2>3, <2>4 DEF Parsed
<1>14. UnreadFrom(1)'
  BY <1>5, <1>7, <1>8, <1>9 DEF UnreadFrom
<1> QED BY <1>10, <1>11, <1>13, <1>14 DEF AtLine

\* A header line, in both programs: it is added, or its key is there already.
LEMMA HeaderParsed ==
  ASSUME HttpInv, HeadRead, taken <= Len(request.sent),
         NEW k \in 1..Len(request.headers), AtLine(k),
         parseHttpRequest_c \/ parseHttpRequest_cpp
  PROVE  pc' \notin {"respond", "delete"} /\ (pc' = "parse" => AtLine(k + 1)')
<1>1. /\ WellFormed(request) /\ Len(request.headers) \in Nat
      /\ k \in 0..Len(request.headers) + 1 /\ k + 1 # 0 /\ k # 0 /\ (k + 1) - 1 = k
  BY ReadRequest
<1> DEFINE S == Seq(Nat) \X Seq(Nat)
           p == SubSeq(request.headers, 1, k - 1)
           q == SubSeq(request.headers, 1, k)
           x == request.headers[k]
<1>2. PICK key \in Seq(Nat), value \in Seq(Nat) :
        /\ x = <<key, value>> /\ x \in S /\ key = x[1]
        /\ key # <<>> /\ value # <<>> /\ ~ HasPair(key, COLON, SP)
        /\ Line(request, k) = key \o <<COLON, SP>> \o value
  <2>1. /\ x \in S /\ x = <<x[1], x[2]>> /\ x[1] \in Seq(Nat) /\ x[2] \in Seq(Nat)
        /\ x[1] # <<>> /\ x[2] # <<>> /\ ~ HasPair(x[1], COLON, SP)
        /\ Line(request, k) = x[1] \o <<COLON, SP>> \o x[2]
    BY <1>1, HeaderParts, Zenon
  <2> HIDE DEF x, S
  <2> QED BY <2>1
<1>3. PICK line : line = Line(request, k)
  OBVIOUS
<1>4. line = key \o <<COLON, SP>> \o value
  BY <1>2, <1>3
<1>5. /\ Begin(readBuf, line)
      /\ Rest(readBuf, Len(line) + 2)
           = SubSeq(request.sent, LineAt(request)[k + 1] + 1, taken)
  <2>1. UnreadFrom(k)
    BY DEF AtLine
  <2> QED BY <1>1, <1>3, <2>1, LineIsReady
<1>6. /\ req.curState = "ParseReqHeader" /\ req.method = request.method
      /\ req.url = request.url /\ req.version = request.version
      /\ req.headers \in Seq(S)
      /\ IF impl = "c" THEN req.headers = p
         ELSE ToSet(req.headers) = FirstOfEachKey(p) /\ Keys(req.headers) = Keys(p)
  BY <1>1 DEF AtLine, Parsed
<1>7. UNCHANGED <<impl, request, taken>>
  BY ParserTakes
<1>8. PICK o \in IF impl = "c" THEN parseHttpRequestHeader(req, readBuf)
                               ELSE parseRequestHeader(req, readBuf) :
        /\ req' = o.req /\ readBuf' = o.buf
        /\ pc' = "respond" => o.req.curState = "ParseReqDone"
        /\ pc' = "delete" => o.flag = "false"
  BY <1>6, ParserTakes
<1> HIDE DEF S, p, q, x
<1>9. /\ Unread(o.buf) = Rest(readBuf, Len(line) + 2) /\ o.flag \in {"true", "crash"}
      /\ o.req = IF impl = "c" THEN addHttpRequestHeader(req, key, value)
                               ELSE addHeader(req, key, value)
  <2>0. BeginHeader(readBuf, line, key, value)
    BY <1>2, <1>4, <1>5 DEF BeginHeader
  <2>1. CASE impl = "c"
    <3>1. o \in parseHttpRequestHeader(req, readBuf)
      BY <1>8, <2>1
    <3>2. /\ o.req = addHttpRequestHeader(req, key, value)
          /\ Unread(o.buf) = Rest(readBuf, Len(line) + 2) /\ o.flag \in {"true", "crash"}
      BY <2>0, <3>1, HeaderLineStep
    <3> QED BY <2>1, <3>2
  <2>2. CASE impl # "c"
    <3>1. o \in parseRequestHeader(req, readBuf)
      BY <1>8, <2>2
    <3>2. /\ o.req = addHeader(req, key, value)
          /\ Unread(o.buf) = Rest(readBuf, Len(line) + 2) /\ o.flag \in {"true", "crash"}
      BY <2>0, <3>1, HeaderLineStep
    <3> QED BY <2>2, <3>2
  <2> QED BY <2>1, <2>2
<1>10. /\ Append(req.headers, x) \in Seq(S)
       /\ ToSet(Append(req.headers, x)) = ToSet(req.headers) \cup {x}
       /\ Keys(Append(req.headers, x)) = Keys(req.headers) \cup {key}
  <2>1. PICK s \in Seq(S) : s = req.headers
    BY <1>6
  <2>2. Append(s, x) \in Seq(S)
    BY <1>2, OneMore
  <2>3. ToSet(Append(s, x)) = ToSet(s) \cup {x} /\ Keys(Append(s, x)) = Keys(s) \cup {x[1]}
    <3>1. PICK y \in S : y = x
      BY <1>2
    <3>2. ToSet(Append(s, y)) = ToSet(s) \cup {y}
      BY OneMore
    <3>3. Keys(Append(s, y)) = Keys(s) \cup {y[1]}
      BY OneMore
    <3> QED BY <3>1, <3>2, <3>3
  <2> QED BY <1>2, <2>1, <2>2, <2>3
<1>11. /\ q = Append(p, x)
       /\ Keys(q) = Keys(p) \cup {key}
       /\ FirstOfEachKey(q) = FirstOfEachKey(p) \cup (IF key \in Keys(p) THEN {} ELSE {x})
  <2>1. request.headers \in Seq(S)
    BY <1>1, RequestParts DEF S
  <2>2. q = Append(p, x)
    BY <2>1, FirstHeaders DEF p, q, x
  <2>3. Keys(q) = Keys(p) \cup {x[1]}
    BY <2>1, FirstOfEachGrows DEF p, q, x
  <2>4. FirstOfEachKey(q) = FirstOfEachKey(p) \cup (IF x[1] \in Keys(p) THEN {} ELSE {x})
    BY <2>1, FirstOfEachGrows DEF p, q, x
  <2> QED BY <1>2, <2>2, <2>3, <2>4
<1>12. /\ req'.curState = "ParseReqHeader" /\ req'.method = request.method
       /\ req'.url = request.url /\ req'.version = request.version
       /\ req'.headers \in Seq(S)
       /\ IF impl = "c" THEN req'.headers = q
          ELSE ToSet(req'.headers) = FirstOfEachKey(q) /\ Keys(req'.headers) = Keys(q)
  <2>1. CASE req' = [req EXCEPT !.headers = Append(@, x)] /\ (impl = "c" \/ ~ (key \in Keys(p)))
    <3>1. req'.headers = Append(req.headers, x)
      BY <1>10, <2>1
    <3> QED BY <1>6, <1>10, <1>11, <2>1, <3>1
  <2>2. CASE req' = req /\ impl # "c" /\ key \in Keys(p)
    BY <1>6, <1>11, <2>2
  <2>3. CASE impl = "c"
    BY <1>2, <1>8, <1>9, <2>1, <2>3 DEF addHttpRequestHeader
  <2>4. CASE impl # "c"
    <3>1. key \in Keys(req.headers) <=> \E i \in DOMAIN req.headers : req.headers[i][1] = key
      <4>1. DOMAIN req.headers = 1..Len(req.headers)
        BY <1>6, LenProperties
      <4> QED BY <1>6, <4>1, KeyIsThere
    <3>2. key \in Keys(p) <=> \E i \in DOMAIN req.headers : req.headers[i][1] = key
      BY <1>6, <2>4, <3>1
    <3>3. req' = IF key \in Keys(p) THEN req ELSE [req EXCEPT !.headers = Append(@, x)]
      BY <1>2, <1>8, <1>9, <2>4, <3>2 DEF addHeader
    <3> QED BY <2>1, <2>2, <2>4, <3>3
  <2> QED BY <2>3, <2>4
<1>13. Parsed(k + 1)'
  BY <1>1, <1>7, <1>12 DEF Parsed, q, S
<1>14. UnreadFrom(k + 1)'
  BY <1>5, <1>7, <1>8, <1>9 DEF UnreadFrom
<1>15. pc' \notin {"respond", "delete"}
  BY <1>8, <1>9, <1>12
<1> QED BY <1>1, <1>12, <1>13, <1>14, <1>15 DEF AtLine

\* The empty line: everything is parsed and only the body is left.
LEMMA EmptyLineParsed ==
  ASSUME HttpInv, HeadRead, taken <= Len(request.sent), AtLine(Len(request.headers) + 1),
         parseHttpRequest_c \/ parseHttpRequest_cpp
  PROVE  /\ pc' \notin {"parse", "delete"}
         /\ Parsed(Len(request.headers) + 1)' /\ UnreadFrom(Len(request.headers) + 2)'
<1>1. PICK n \in Nat : n = Len(request.headers) /\ n + 1 \in 0..n + 1 /\ n + 1 # 0
  BY ReadRequest
<1>2. PICK e : e = Line(request, n + 1) /\ e = <<>> /\ Len(e) = 0
  <2>1. ~ (n + 1 = 0) /\ ~ (n + 1 <= n)
    OBVIOUS
  <2>2. Line(request, n + 1) = <<>>
    BY <1>1, <2>1 DEF Line
  <2> QED BY <2>2
<1>3. /\ Begin(readBuf, e)
      /\ Rest(readBuf, 2) = SubSeq(request.sent, LineAt(request)[n + 2] + 1, taken)
  <2>1. UnreadFrom(n + 1) /\ n + 1 \in 0..Len(request.headers) + 1
    BY <1>1 DEF AtLine
  <2>2. Begin(readBuf, e)
    BY <1>2, <2>1, LineIsReady
  <2>3. Rest(readBuf, Len(e) + 2)
          = SubSeq(request.sent, LineAt(request)[(n + 1) + 1] + 1, taken)
    BY <1>2, <2>1, LineIsReady
  <2>4. Len(e) + 2 = 2 /\ (n + 1) + 1 = n + 2
    BY <1>2
  <2> QED BY <2>2, <2>3, <2>4
<1>4. /\ req.curState = "ParseReqHeader" /\ Parsed(n + 1)
  BY <1>1 DEF AtLine
<1>5. UNCHANGED <<impl, request, taken>>
  BY ParserTakes
<1>6. PICK o \in parseHttpRequestHeader(req, readBuf) \cup parseRequestHeader(req, readBuf) :
        /\ req' = o.req /\ readBuf' = o.buf
        /\ pc' = "parse" => o.req.curState # "ParseReqDone"
        /\ pc' = "delete" => o.flag = "false"
  BY <1>4, ParserTakes
<1>7. /\ o.req = [req EXCEPT !.curState = "ParseReqDone"]
      /\ Unread(o.buf) = Rest(readBuf, 2) /\ o.flag = "true"
  BY <1>2, <1>3, EmptyLineStep
<1>8. /\ req'.method = req.method /\ req'.url = req.url /\ req'.version = req.version
      /\ req'.headers = req.headers
  BY <1>6, <1>7
<1>9. Parsed(n + 1)'
  BY <1>1, <1>4, <1>5, <1>8 DEF Parsed
<1>10. UnreadFrom(n + 2)'
  BY <1>3, <1>5, <1>6, <1>7 DEF UnreadFrom
<1>11. pc' \notin {"parse", "delete"}
  <2>1. SUFFICES ASSUME pc' \in {"parse", "delete"} PROVE FALSE
    OBVIOUS
  <2>2. o.req.curState # "ParseReqDone" \/ o.flag = "false"
    BY <1>6, <2>1
  <2> QED BY <1>7, <2>2
<1> QED BY <1>1, <1>5, <1>9, <1>10, <1>11

\* The first bytes that are read are the first of the request.
LEMMA FirstIncoming ==
  ASSUME HttpInv, taken = 0
  PROVE  /\ Incoming \in Seq(Nat) /\ Len(Incoming) \in Nat
         /\ Len(Incoming) <= Len(request.sent)
         /\ Incoming = SubSeq(request.sent, 0 + 1, Len(Incoming))
<1> DEFINE w == taken + bufferWriteAbleSize(readBuf) + TmpSize
           n == Min({arrived, w})
<1>1. PICK s \in Seq(Nat) : s = request.sent
  BY RequestsAssumption DEF HttpInv, InputInv
<1>2. Len(s) \in Nat /\ arrived \in Nat /\ arrived <= Len(s)
  BY <1>1, LenProperties DEF HttpInv, InputInv
<1>3. w \in Nat
  BY GoodFields, SizesAssumption DEF HttpInv, InputInv, BufInv, bufferWriteAbleSize
<1> HIDE DEF w
<1>4. n \in Nat /\ n <= arrived
  BY <1>2, <1>3, MinOfTwo
<1> HIDE DEF n
<1>5. n <= Len(s)
  BY <1>2, <1>4
<1>6. PICK z \in Nat : z = 0 /\ z <= n /\ n - z = n
  BY <1>4
<1>7. SubSeq(s, z + 1, n) \in Seq(Nat) /\ Len(SubSeq(s, z + 1, n)) = n - z
  BY <1>4, <1>5, <1>6, Between
<1>8. Incoming = SubSeq(s, z + 1, n)
  BY <1>1, <1>6 DEF Incoming, n, w
<1> QED BY <1>1, <1>4, <1>5, <1>6, <1>7, <1>8

\* A new connection has read nothing.
LEMMA InitParse == Init => ParseInv
<1> SUFFICES ASSUME Init PROVE ParseInv
  OBVIOUS
<1>1. pc = "idle" /\ readBuf = initBuffer(Capacity) /\ req = initHttpRequest /\ taken = 0
  BY DEF Init, initTcpConnection
<1>2. 0 <= Len(request.sent)
  <2>1. request.sent \in Seq(Nat)
    BY RequestsAssumption DEF Init
  <2> QED BY <2>1, LenProperties
<1> QED BY <1>1, <1>2 DEF ParseInv

\* A step that leaves what ParseInv speaks of as it was.
LEMMA SameParse ==
  ASSUME ParseInv, UNCHANGED <<impl, request, taken, readBuf, req, pc>>
  PROVE  ParseInv'
BY DEF ParseInv, HeadRead, AtLine, Parsed, UnreadFrom

\* A step behind the parser.
LEMMA PastParse ==
  ASSUME ParseInv, UNCHANGED <<request, taken>>, pc' \notin {"idle", "parse", "respond"}
  PROVE  ParseInv'
BY DEF ParseInv

\* processRead() of both programs puts the first bytes of the request into the buffer.
LEMMA ReadParse ==
  ASSUME HttpInv, ParseInv, processRead_c \/ processRead_cpp
  PROVE  ParseInv'
<1>1. UNCHANGED <<impl, request, req>> /\ pc = "idle"
  BY DEF processRead_c, processRead_cpp, env
<1>2. readBuf = initBuffer(Capacity) /\ req = initHttpRequest /\ taken = 0
  BY <1>1 DEF ParseInv
<1>3. PICK in \in Seq(Nat) :
        /\ in = Incoming /\ Len(in) \in Nat /\ Len(in) <= Len(request.sent)
        /\ in = SubSeq(request.sent, 0 + 1, Len(in))
  BY <1>2, FirstIncoming
<1>4. /\ readBuf \in Good /\ Unread(readBuf) = <<>> /\ bufferWriteAbleSize(readBuf) = Capacity
  BY <1>2, SizesAssumption, NewIsEmpty
<1>5. CASE UNCHANGED <<readBuf, taken, pc>>
  BY <1>1, <1>5, SameParse
<1>6. CASE UNCHANGED <<readBuf, taken>> /\ pc' = "delete"
  BY <1>1, <1>6, PastParse
<1>7. ASSUME taken' = taken + Len(in), pc' \in {"parse", "crashed"},
             Len(in) <= Capacity \/ impl = "c" => Unread(readBuf') = Unread(readBuf) \o in
      PROVE  ParseInv'
  <2>1. taken' = Len(in)
    BY <1>2, <1>3, <1>7
  <2>2. taken' <= Len(request'.sent)
    BY <1>1, <1>3, <2>1
  <2>3. ASSUME HeadRead', pc' = "parse"
        PROVE  \E k \in 0..Len(request'.headers) + 1 : AtLine(k)'
    <3>1. /\ request \in Requests /\ request.valid /\ impl \in {"c", "cpp"}
      BY <1>1, <2>3 DEF HttpInv, InputInv, HeadRead
    <3>2. WellFormed(request) /\ request.sent \in Seq(Nat)
      BY <3>1, RequestsAssumption
    <3>3. /\ Len(request.headers) \in Nat
          /\ 0 \in 0..Len(request.headers) + 1
      BY <3>2, RequestParts
    <3>4. LineAt(request)[0] = 0
      BY <3>2, <3>3, LineIsSent
    <3>5. Len(in) <= Capacity \/ impl = "c"
      BY <1>1, <2>1, <2>3, <3>1 DEF HeadRead
    <3>6. Unread(readBuf') = in
      <4>1. Unread(readBuf') = <<>> \o in
        BY <1>4, <1>7, <3>5
      <4>2. <<>> \o in = in
        BY ConcatEmptySeq
      <4> QED BY <4>1, <4>2
    <3>7. UnreadFrom(0)'
      BY <1>1, <1>3, <2>1, <3>4, <3>6 DEF UnreadFrom
    <3>8. Parsed(0)' /\ req'.curState = "ParseReqLine"
      BY <1>1, <1>2 DEF Parsed, initHttpRequest
    <3>9. AtLine(0)'
      BY <3>7, <3>8 DEF AtLine
    <3> QED BY <1>1, <3>3, <3>9
  <2> QED BY <1>7, <2>2, <2>3 DEF ParseInv
<1>8. CASE /\ readBuf' = socketReadBuffer(readBuf, in)
           /\ taken' = taken + Len(in) /\ pc' = "parse"
  <2>1. Unread(readBuf') = Unread(readBuf) \o in
    BY <1>4, <1>8, ReadBytes
  <2> QED BY <1>7, <1>8, <2>1
<1>9. CASE /\ \E junk : readBuf' = socketRead(readBuf, in, junk)
           /\ taken' = taken + Len(in) /\ pc' \in {"parse", "crashed"} /\ impl = "cpp"
  <2>1. PICK junk : readBuf' = socketRead(readBuf, in, junk)
    BY <1>9
  <2>2. Len(in) <= Capacity => Unread(readBuf') = Unread(readBuf) \o in
    BY <1>4, <2>1, ReadBytes
  <2> QED BY <1>7, <1>9, <2>2
<1>10. CASE processRead_c
  BY <1>3, <1>5, <1>8, <1>10 DEF processRead_c
<1>11. CASE processRead_cpp
  <2>1. \/ UNCHANGED <<readBuf, taken>> /\ pc' = "delete"
        \/ /\ \E junk : readBuf' = socketRead(readBuf, in, junk)
           /\ taken' = taken + Len(in) /\ pc' \in {"parse", "crashed"} /\ impl = "cpp"
    BY <1>3, <1>11 DEF processRead_cpp
  <2> QED BY <1>6, <1>9, <2>1
<1> QED BY <1>10, <1>11

\* The parsers, line by line.
LEMMA LineParse ==
  ASSUME HttpInv, ParseInv, parseHttpRequest_c \/ parseHttpRequest_cpp
  PROVE  ParseInv'
<1>1. /\ UNCHANGED <<impl, request, taken>> /\ pc = "parse"
      /\ pc' \in {"crashed", "delete", "respond", "parse"}
  BY ParserTakes
<1>2. taken <= Len(request.sent)
  BY DEF ParseInv
<1>3. HeadRead' <=> HeadRead
  BY <1>1 DEF HeadRead
<1>4. CASE ~ HeadRead
  BY <1>1, <1>2, <1>3, <1>4 DEF ParseInv
<1>5. CASE HeadRead
  <2>1. PICK k \in 0..Len(request.headers) + 1 : AtLine(k)
    BY <1>1, <1>5 DEF ParseInv
  <2>2. Len(request.headers) \in Nat
    BY <1>5, ReadRequest
  <2>3. ASSUME NEW m \in 0..Len(request.headers) + 1, pc' # "respond",
               pc' = "parse" => AtLine(m)'
        PROVE  ParseInv'
    <3>1. pc' # "idle"
      BY <1>1
    <3> QED BY <1>1, <1>2, <2>3, <3>1 DEF ParseInv
  <2>4. CASE k = 0
    <3>1. AtLine(0)
      BY <2>1, <2>4
    <3>2. 1 \in 0..Len(request.headers) + 1
      BY <2>2
    <3>3. pc' # "respond" /\ (pc' = "parse" => AtLine(1)')
      BY <1>2, <1>5, <3>1, FirstLineParsed
    <3> QED BY <2>3, <3>2, <3>3
  <2>5. CASE k \in 1..Len(request.headers)
    <3>1. pc' # "respond" /\ (pc' = "parse" => AtLine(k + 1)')
      BY <1>2, <1>5, <2>1, <2>5, HeaderParsed
    <3>2. k + 1 \in 0..Len(request.headers) + 1
      BY <2>2, <2>5
    <3> QED BY <2>3, <3>1, <3>2
  <2>6. CASE k = Len(request.headers) + 1
    <3>1. AtLine(Len(request.headers) + 1)
      BY <2>1, <2>6
    <3>2. /\ pc' # "parse"
          /\ Parsed(Len(request.headers) + 1)' /\ UnreadFrom(Len(request.headers) + 2)'
      BY <1>2, <1>5, <3>1, EmptyLineParsed
    <3>3. pc' # "idle"
      BY <1>1
    <3> QED BY <1>1, <1>2, <3>2, <3>3 DEF ParseInv
  <2>7. k = 0 \/ k \in 1..Len(request.headers) \/ k = Len(request.headers) + 1
    BY <2>1, <2>2
  <2> QED BY <2>4, <2>5, <2>6, <2>7
<1> QED BY <1>4, <1>5

\* Every step keeps the two invariants.
LEMMA NextParse == HttpInv /\ ParseInv /\ [Next]_vars => ParseInv'
<1> SUFFICES ASSUME HttpInv, ParseInv, [Next]_vars
             PROVE  ParseInv'
  OBVIOUS
<1>1. CASE Arrive \/ Leave("eof") \/ Leave("reset") \/ Stall \/ Unlink
  <2>1. UNCHANGED <<impl, request, taken, readBuf, req, pc>>
    BY <1>1 DEF Arrive, Leave, Stall, Unlink, env
  <2> QED BY <2>1, SameParse
<1>2. CASE processRead_c \/ processRead_cpp
  BY <1>2, ReadParse
<1>3. CASE parseHttpRequest_c \/ parseHttpRequest_cpp
  BY <1>3, LineParse
<1>4. CASE prepareMsgHttpResponse \/ prepareMsg
  <2>1. UNCHANGED <<request, taken>> /\ pc' \notin {"idle", "parse", "respond"}
    BY <1>4 DEF prepareMsgHttpResponse, prepareMsg, env
  <2> QED BY <2>1, PastParse
<1>5. CASE sendFile_open \/ sendDir_open
  <2>1. UNCHANGED <<request, taken>> /\ pc' \notin {"idle", "parse", "respond"}
    BY <1>5 DEF sendFile_open, sendDir_open, env
  <2> QED BY <2>1, PastParse
<1>6. CASE sendFile_loop \/ sendDir_loop
  <2>1. UNCHANGED <<request, taken>> /\ pc' \notin {"idle", "parse", "respond"}
    BY <1>6 DEF sendFile_loop, sendDir_loop, env, RequestDone
  <2> QED BY <2>1, PastParse
<1>7. CASE detroyTcpConnection \/ destroy
  <2>1. UNCHANGED <<request, taken>> /\ pc' \notin {"idle", "parse", "respond"}
    BY <1>7 DEF detroyTcpConnection, destroy, env
  <2> QED BY <2>1, PastParse
<1>8. CASE UNCHANGED vars
  <2>1. UNCHANGED <<impl, request, taken, readBuf, req, pc>>
    BY <1>8 DEF vars
  <2> QED BY <2>1, SameParse
<1> QED BY <1>1, <1>2, <1>3, <1>4, <1>5, <1>6, <1>7, <1>8 DEF Next, Server

\* The invariant gives the property: all lines are read and the body is left.
LEMMA ParseInvAsSent == HttpInv /\ ParseInv => ParsedAsSent
<1> SUFFICES ASSUME HttpInv, ParseInv, HeadRead, pc = "respond"
             PROVE  /\ req.method = request.method /\ req.url = request.url
                    /\ req.version = request.version
                    /\ IF impl = "c" THEN req.headers = request.headers
                       ELSE ToSet(req.headers) = FirstOfEachKey(request.headers)
                    /\ Unread(readBuf)
                         = SubSeq(request.body, 1,
                                  taken - (Len(request.sent) - Len(request.body)))
  BY DEF ParsedAsSent
<1>1. PICK n \in Nat : n = Len(request.headers) /\ n + 1 # 0 /\ (n + 1) - 1 = n
  BY ReadRequest
<1>2. Parsed(n + 1) /\ UnreadFrom(n + 2)
  BY <1>1 DEF ParseInv
<1>3. SubSeq(request.headers, 1, n) = request.headers
  <2>1. request.headers \in Seq(Seq(Nat) \X Seq(Nat))
    BY ReadRequest, RequestParts
  <2> QED BY <1>1, <2>1, SubSeqFull
<1>4. /\ req.method = request.method /\ req.url = request.url
      /\ req.version = request.version
      /\ IF impl = "c" THEN req.headers = request.headers
         ELSE ToSet(req.headers) = FirstOfEachKey(request.headers)
  BY <1>1, <1>2, <1>3 DEF Parsed
<1>5. PICK s \in Seq(Nat), b \in Seq(Nat) : s = request.sent /\ b = request.body
  BY ReadRequest, RequestParts
<1>6. PICK a \in Nat :
        /\ a = LineAt(request)[n + 2] /\ Len(s) - Len(b) = a /\ SubSeq(s, a + 1, Len(s)) = b
  <2>1. /\ WellFormed(request) /\ 0 \in 0..n + 1 /\ n + 1 \in 0..n + 1 /\ (n + 1) + 1 = n + 2
        /\ request.sent \in Seq(Nat)
    BY ReadRequest
  <2> DEFINE A == LineAt(request)
  <2>2. A[(n + 1) + 1] \in Nat
    BY <1>1, <2>1, LineIsSent
  <2>3. Len(s) - Len(b) = A[n + 2]
    BY <1>1, <1>5, <2>1, LineIsSent
  <2>4. SubSeq(s, A[n + 2] + 1, Len(s)) = b
    BY <1>1, <1>5, <2>1, LineIsSent
  <2> HIDE DEF A
  <2> QED BY <2>1, <2>2, <2>3, <2>4 DEF A
<1>7. PICK t \in Nat : t = taken /\ a <= t /\ t <= Len(s)
  BY <1>5, <1>6, ReadRequest DEF ParseInv
<1>8. Len(s) \in Nat /\ a <= Len(s)
  BY <1>7, LenProperties
<1>9. SubSeq(b, 1, t - a) = SubSeq(s, a + 1, t)
  <2>1. PICK z \in Nat, d \in Nat : z = 0 /\ d = t - a
    BY <1>7
  <2>2. z <= d /\ d <= Len(s) - a
    BY <1>7, <1>8, <2>1
  <2>3. PICK n1 \in Nat : n1 = Len(s) /\ a <= n1 /\ n1 <= Len(s) /\ d <= n1 - a
    BY <1>8, <2>2
  <2>4. SubSeq(SubSeq(s, a + 1, n1), z + 1, d) = SubSeq(s, a + z + 1, a + d)
    BY <2>2, <2>3, PieceOfPiece
  <2>5. z + 1 = 1 /\ a + z + 1 = a + 1 /\ a + d = t
    BY <1>7, <2>1
  <2> QED BY <1>6, <2>1, <2>3, <2>4, <2>5
<1>10. Unread(readBuf) = SubSeq(s, a + 1, t)
  BY <1>2, <1>5, <1>6, <1>7 DEF UnreadFrom
<1>11. Unread(readBuf) = SubSeq(request.body, 1,
                                taken - (Len(request.sent) - Len(request.body)))
  BY <1>5, <1>6, <1>7, <1>9, <1>10
<1> QED BY <1>4, <1>11

\* Whatever pieces the request came in, the parser has understood it as it was meant when
\* it has it all: the two words and the version, the headers, and the body left alone.
THEOREM ParsedAlwaysAsSent == Spec => []ParsedAsSent
<1>1. Init => HttpInv /\ ParseInv
  BY InitHttp, InitParse
<1>2. (HttpInv /\ ParseInv) /\ [Next]_vars => (HttpInv /\ ParseInv)'
  BY NextHttp, NextParse
<1>3. HttpInv /\ ParseInv => ParsedAsSent
  BY ParseInvAsSent
<1> QED BY <1>1, <1>2, <1>3, PTL DEF Spec

-----------------------------------------------------------------------------
(* The decoders.                                                           *)

(* The bytes that are spelled in front of place i.                         *)
Rank(url, i) == Cardinality(Begins(url) \cap 1..i - 1)

\* An escape is not begun inside of another.
LEMMA EscapesApart ==
  ASSUME NEW url, NEW i \in Nat, Escape(url, i)
  PROVE  ~ Escape(url, i + 1) /\ ~ Escape(url, i + 2)
<1>1. Isxdigit(url[i + 1]) /\ Isxdigit(url[i + 2])
  BY DEF Escape
<1>2. \A c : Isxdigit(c) => c # PERCENT
  BY DEF Isxdigit, PERCENT
<1> QED BY <1>1, <1>2 DEF Escape

\* Where the decoder goes from a place where a byte is spelled: to the next such place.
LEMMA NextBegin ==
  ASSUME NEW url \in Seq(Nat), NEW i \in Begins(url)
  PROVE  /\ Len(url) \in Nat /\ i \in 1..Len(url)
         /\ Following(url, i) \in i + 1..Len(url) + 1
         /\ Following(url, i) \in Begins(url) \cup {Len(url) + 1}
         /\ \A j \in i + 1..Following(url, i) - 1 : j \notin Begins(url)
<1>1. PICK n \in Nat : n = Len(url)
  BY LenProperties
<1>2. i \in 1..n /\ \A j \in 1..n : j \in {i - 2, i - 1} => ~ Escape(url, j)
  BY <1>1 DEF Begins
<1>3. \A k \in 1..n : k \in Begins(url) <=> \A j \in 1..n : j \in {k - 2, k - 1} => ~ Escape(url, j)
  BY <1>1 DEF Begins
<1>4. CASE Escape(url, i)
  <2>1. i + 2 <= n /\ Following(url, i) = i + 3
    BY <1>1, <1>4 DEF Escape, Following
  <2>2. ~ Escape(url, i + 1) /\ ~ Escape(url, i + 2)
    BY <1>2, <1>4, EscapesApart
  <2>3. i + 1 \notin Begins(url) /\ i + 2 \notin Begins(url)
    BY <1>2, <1>3, <1>4, <2>1
  <2>4. i + 3 <= n => i + 3 \in Begins(url)
    <3>1. SUFFICES ASSUME i + 3 <= n, NEW j \in 1..n, j \in {(i + 3) - 2, (i + 3) - 1}
                   PROVE  ~ Escape(url, j)
      BY <1>2, <1>3
    <3>2. j = i + 1 \/ j = i + 2
      BY <1>2, <3>1
    <3> QED BY <2>2, <3>2
  <2>5. i + 3 \in i + 1..n + 1 /\ (i + 3 <= n \/ i + 3 = n + 1)
    BY <1>2, <2>1
  <2>6. \A j \in i + 1..(i + 3) - 1 : j = i + 1 \/ j = i + 2
    BY <1>2
  <2> QED BY <1>1, <1>2, <2>1, <2>3, <2>4, <2>5, <2>6
<1>5. CASE ~ Escape(url, i)
  <2>1. Following(url, i) = i + 1
    BY <1>5 DEF Following
  <2>2. i + 1 <= n => i + 1 \in Begins(url)
    <3>1. SUFFICES ASSUME i + 1 <= n, NEW j \in 1..n, j \in {(i + 1) - 2, (i + 1) - 1}
                   PROVE  ~ Escape(url, j)
      BY <1>2, <1>3
    <3>2. j = i - 1 \/ j = i
      BY <1>2, <3>1
    <3> QED BY <1>2, <1>5, <3>2
  <2>3. i + 1 \in i + 1..n + 1 /\ (i + 1 <= n \/ i + 1 = n + 1)
    BY <1>2
  <2>4. \A j \in i + 1..(i + 1) - 1 : FALSE
    BY <1>2
  <2> QED BY <1>1, <1>2, <2>1, <2>2, <2>3, <2>4
<1> QED BY <1>4, <1>5

\* The first place.
LEMMA FirstBegin ==
  ASSUME NEW url \in Seq(Nat)
  PROVE  1 \in Begins(url) \cup {Len(url) + 1}
<1>1. PICK n \in Nat : n = Len(url)
  BY LenProperties
<1>2. CASE n = 0
  BY <1>1, <1>2
<1>3. CASE n # 0
  <2>1. 1 \in 1..n /\ \A j \in 1..n : ~ (j \in {1 - 2, 1 - 1})
    BY <1>3
  <2> QED BY <1>1, <2>1 DEF Begins
<1> QED BY <1>2, <1>3

\* Ranks count the places.
LEMMA Ranks ==
  ASSUME NEW url \in Seq(Nat)
  PROVE  /\ Rank(url, 1) = 0
         /\ Rank(url, Len(url) + 1) = Cardinality(Begins(url))
         /\ \A i \in 1..Len(url) + 1 : /\ Rank(url, i) \in Nat /\ Rank(url, i) <= i - 1
                                       /\ Rank(url, i) <= Cardinality(Begins(url))
         /\ \A i \in Begins(url) : /\ Rank(url, i + 1) = Rank(url, i) + 1
                                   /\ Cardinality(Begins(url) \cap 1..i) = Rank(url, i) + 1
         /\ \A i, j \in 1..Len(url) + 1 :
              i <= j /\ (\A k \in i..j - 1 : k \notin Begins(url)) => Rank(url, j) = Rank(url, i)
<1>1. PICK n \in Nat : n = Len(url)
  BY LenProperties
<1> DEFINE B == Begins(url)
<1>2. B \subseteq 1..n
  BY <1>1 DEF Begins
<1> HIDE DEF B
<1>3. IsFiniteSet(B)
  <2>1. IsFiniteSet(1..n)
    BY FS_Interval
  <2> QED BY <1>2, <2>1, FS_Subset
<1>4. ASSUME NEW C \in SUBSET B
      PROVE  IsFiniteSet(C) /\ Cardinality(C) \in Nat /\ Cardinality(C) <= Cardinality(B)
  BY <1>3, FS_Subset, FS_CardinalityType
<1>5. Rank(url, 1) = 0
  <2>1. B \cap 1..1 - 1 = {}
    OBVIOUS
  <2> QED BY <2>1, FS_EmptySet DEF Rank, B
<1>6. Rank(url, n + 1) = Cardinality(B)
  <2>1. B \cap 1..(n + 1) - 1 = B
    <3>1. (n + 1) - 1 = n
      OBVIOUS
    <3>2. B \cap 1..n = B
      BY <1>2, Zenon
    <3> QED BY <3>1, <3>2
  <2> QED BY <2>1 DEF Rank, B
<1>7. ASSUME NEW i \in 1..n + 1
      PROVE  Rank(url, i) \in Nat /\ Rank(url, i) <= i - 1 /\ Rank(url, i) <= Cardinality(B)
  <2> DEFINE C == B \cap 1..i - 1
  <2>1. C \in SUBSET B /\ C \in SUBSET (1..i - 1)
    OBVIOUS
  <2> HIDE DEF C
  <2>2. Cardinality(C) \in Nat /\ Cardinality(C) <= Cardinality(B)
    BY <1>4, <2>1
  <2>3. IsFiniteSet(1..i - 1) /\ Cardinality(1..i - 1) = i - 1
    <3>1. 1 \in Int /\ i - 1 \in Int
      OBVIOUS
    <3>2. IsFiniteSet(1..i - 1) /\ Cardinality(1..i - 1) = IF 1 > i - 1 THEN 0 ELSE (i - 1) - 1 + 1
      BY <3>1, FS_Interval
    <3> QED BY <3>2
  <2>4. Cardinality(C) <= i - 1
    BY <2>1, <2>3, FS_Subset
  <2> QED BY <2>2, <2>4 DEF Rank, C, B
<1>8. ASSUME NEW i \in B
      PROVE  /\ Rank(url, i + 1) = Rank(url, i) + 1
             /\ Cardinality(B \cap 1..i) = Rank(url, i) + 1
  <2> DEFINE C == B \cap 1..i - 1
  <2>1. i \in 1..n
    BY <1>2
  <2>2. B \cap 1..i = C \cup {i} /\ i \notin C /\ (i + 1) - 1 = i /\ C \in SUBSET B
    BY <2>1
  <2> HIDE DEF C
  <2>3. Cardinality(C \cup {i}) = Cardinality(C) + 1
    BY <1>4, <2>2, FS_AddElement
  <2>4. Rank(url, i) = Cardinality(C) /\ Rank(url, i + 1) = Cardinality(C \cup {i})
    BY <2>2 DEF Rank, C, B
  <2> QED BY <2>2, <2>3, <2>4
<1>9. ASSUME NEW i \in 1..n + 1, NEW j \in 1..n + 1, i <= j, \A k \in i..j - 1 : k \notin B
      PROVE  Rank(url, j) = Rank(url, i)
  <2>1. B \cap 1..j - 1 = B \cap 1..i - 1
    <3>1. \A k \in 1..n : k \in 1..j - 1 /\ ~ (k \in 1..i - 1) => k \in i..j - 1
      BY <1>9
    <3>2. \A k \in 1..n : k \in 1..i - 1 => k \in 1..j - 1
      BY <1>9
    <3> QED BY <1>2, <1>9, <3>1, <3>2
  <2> QED BY <2>1 DEF Rank, B
<1>10. \A i, j \in 1..n + 1 :
         i <= j /\ (\A k \in i..j - 1 : k \notin B) => Rank(url, j) = Rank(url, i)
  BY <1>9
<1> QED BY <1>1, <1>5, <1>6, <1>7, <1>8, <1>10 DEF B

\* What a text that is spelled says of a place: its rank, the next one's, the byte.
LEMMA SpelledAt ==
  ASSUME NEW url \in Seq(Nat), NEW s, Spells(url, s), NEW i \in Begins(url)
  PROVE  /\ Rank(url, i) \in Nat /\ Rank(url, i) + 1 <= Len(s) /\ Rank(url, i) + 1 <= i
         /\ Rank(url, Following(url, i)) = Rank(url, i) + 1
         /\ s[Rank(url, i) + 1] = DecodedAt(url, i)
<1>1. PICK n \in Nat : n = Len(url)
  BY LenProperties
<1>2. PICK f \in i + 1..n + 1 : f = Following(url, i)
  BY <1>1, NextBegin
<1>3. i \in 1..n /\ \A j \in i + 1..f - 1 : j \notin Begins(url)
  BY <1>1, <1>2, NextBegin
<1>4. Len(s) = Cardinality(Begins(url)) /\ s[Cardinality(Begins(url) \cap 1..i)] = DecodedAt(url, i)
  BY DEF Spells
<1>5. /\ Rank(url, i + 1) = Rank(url, i) + 1
      /\ Cardinality(Begins(url) \cap 1..i) = Rank(url, i) + 1
  BY Ranks
<1>6. i \in 1..n + 1 /\ i + 1 \in 1..n + 1 /\ f \in 1..n + 1 /\ i + 1 <= f
  BY <1>2, <1>3
<1>7. /\ Rank(url, i) \in Nat /\ Rank(url, i) <= i - 1
      /\ Rank(url, i + 1) \in Nat /\ Rank(url, i + 1) <= Len(s)
  BY <1>1, <1>4, <1>6, Ranks
<1>8. Rank(url, f) = Rank(url, i + 1)
  BY <1>1, <1>3, <1>6, Ranks
<1>9. Rank(url, i) + 1 <= i
  BY <1>3, <1>7
<1> QED BY <1>2, <1>4, <1>5, <1>7, <1>8, <1>9

\* A sequence over a set is one over a larger set.
LEMMA LargerSet ==
  ASSUME NEW S, NEW T, \A x \in S : x \in T, NEW s \in Seq(S)
  PROVE  s \in Seq(T)
OBVIOUS

\* A string without a NUL is whole.
LEMMA StringIsWhole ==
  ASSUME NEW s \in Seq(Nat \ {NUL})
  PROVE  CString(s) = s
<1>1. \A i \in DOMAIN s : s[i] # NUL
  BY LenProperties, ElementOfSeq
<1>2. {i \in DOMAIN s : s[i] = NUL} = {}
  BY <1>1
<1> QED BY <1>2 DEF CString

\* With a NUL behind it in memory.
LEMMA StringEnds ==
  ASSUME NEW s \in Seq(Nat \ {NUL}), NEW m \in Seq(Nat), Len(s) + 1 <= Len(m),
         \A i \in 1..Len(s) : m[i] = s[i], m[Len(s) + 1] = NUL
  PROVE  CString(m) = s
<1> DEFINE nul == {i \in DOMAIN m : m[i] = NUL}
<1>1. PICK n \in Nat : n = Len(s)
  BY LenProperties
<1>2. Len(m) \in Nat /\ DOMAIN m = 1..Len(m) /\ \A i \in 1..n : s[i] # NUL
  BY <1>1, LenProperties, ElementOfSeq
<1>3. n + 1 \in nul /\ nul \subseteq Nat /\ \A i \in nul : n + 1 <= i
  <2>1. n + 1 \in 1..Len(m) /\ m[n + 1] = NUL /\ \A i \in 1..n : m[i] # NUL
    BY <1>1, <1>2
  <2>2. \A i \in 1..Len(m) : m[i] = NUL => n + 1 <= i
    BY <1>2, <2>1
  <2> QED BY <1>2, <2>1, <2>2
<1>4. CString(m) = IF nul = {} THEN m ELSE SubSeq(m, 1, Min(nul) - 1)
  BY DEF CString
<1> HIDE DEF nul
<1>5. Min(nul) = n + 1
  <2>1. Min(nul) \in nul /\ \A y \in nul : Min(nul) <= y
    BY <1>3, MinIsMember
  <2>2. Min(nul) <= n + 1 /\ n + 1 <= Min(nul) /\ Min(nul) \in Nat
    BY <1>3, <2>1
  <2> QED BY <2>2
<1>6. CString(m) = SubSeq(m, 1, n)
  <2>1. (n + 1) - 1 = n
    OBVIOUS
  <2> QED BY <1>3, <1>4, <1>5, <2>1
<1>7. SubSeq(m, 1, n) = s
  <2>1. n <= Len(m)
    BY <1>1, <1>2
  <2>2. /\ SubSeq(m, 1, n) \in Seq(Nat) /\ Len(SubSeq(m, 1, n)) = n
        /\ \A i \in 1..n : SubSeq(m, 1, n)[i] = m[i]
    BY <2>1, FirstOnes
  <2>3. s \in Seq(Nat)
    <3> DEFINE T == Nat \ {NUL}
    <3>1. s \in Seq(T) /\ \A x \in T : x \in Nat
      OBVIOUS
    <3> HIDE DEF T
    <3> QED BY <3>1, LargerSet
  <2>4. \A i \in 1..n : SubSeq(m, 1, n)[i] = s[i]
    BY <1>1, <2>2
  <2> DEFINE t == SubSeq(m, 1, n)
  <2> HIDE DEF t
  <2>5. t \in Seq(Nat) /\ Len(t) = Len(s) /\ \A i \in 1..Len(t) : t[i] = s[i]
    BY <1>1, <2>2, <2>4 DEF t
  <2>6. t = s
    BY <2>3, <2>5, SeqEqual
  <2> QED BY <2>6 DEF t
<1> QED BY <1>6, <1>7

\* Following stays in front of the end of the table.
LEMMA FollowingIsBehind ==
  ASSUME NEW url \in Seq(Nat), NEW i \in 1..Len(url)
  PROVE  Following(url, i) \in i + 1..Len(url) + 3
<1>1. Len(url) \in Nat
  BY LenProperties
<1>2. Following(url, i) = i + 3 \/ Following(url, i) = i + 1
  BY DEF Following
<1> QED BY <1>1, <1>2

\* There is such a table.
LEMMA DecodingExists ==
  ASSUME NEW url \in Seq(Nat)
  PROVE  \E F : /\ F = [i \in 1..Len(url) + 3 |->
                         IF i > Len(url) THEN <<>>
                         ELSE <<DecodedAt(url, i)>> \o F[Following(url, i)]]
<1>1. PICK n \in Nat : n = Len(url)
  BY LenProperties
<1> DEFINE At(F, i) == IF i > n THEN <<>> ELSE <<DecodedAt(url, i)>> \o F[Following(url, i)]
           T == {k \in Nat : k <= n => \E F : F = [i \in (n - k) + 1..n + 3 |-> At(F, i)]}
<1>2. 0 \in T
  <2> DEFINE F == [i \in n + 1..n + 3 |-> <<>>]
  <2>1. F = [i \in n + 1..n + 3 |-> At(F, i)]
    OBVIOUS
  <2>2. (n - 0) + 1 = n + 1
    OBVIOUS
  <2> HIDE DEF F, At
  <2> QED BY <2>1, <2>2
<1>3. ASSUME NEW k \in Nat, k \in T
      PROVE  k + 1 \in T
  <2>1. SUFFICES ASSUME k + 1 <= n
                 PROVE  \E F : F = [i \in (n - (k + 1)) + 1..n + 3 |-> At(F, i)]
    OBVIOUS
  <2>2. PICK m \in 1..n : m = n - k /\ (n - (k + 1)) + 1 = m /\ (n - k) + 1 = m + 1
    BY <2>1
  <2>3. PICK G : G = [i \in m + 1..n + 3 |-> At(G, i)]
    BY <1>3, <2>1, <2>2
  <2> DEFINE H == [i \in m..n + 3 |-> IF i = m THEN At(G, m) ELSE G[i]]
  <2>4. \A i \in m + 1..n + 3 : H[i] = G[i] /\ G[i] = At(G, i)
    <3>1. \A i \in m + 1..n + 3 : G[i] = At(G, i)
      <4> HIDE DEF At
      <4> QED BY <2>3
    <3>2. \A i \in m + 1..n + 3 : H[i] = G[i]
      <4> HIDE DEF At
      <4>1. \A i \in m + 1..n + 3 : i \in m..n + 3 /\ i # m
        BY <2>2
      <4> QED BY <4>1
    <3> HIDE DEF At, H
    <3> QED BY <3>1, <3>2
  <2>5. ASSUME NEW i \in m..n + 3
        PROVE  H[i] = At(H, i)
    <3>1. CASE i > n
      <4>1. i \in m + 1..n + 3
        BY <2>2, <3>1
      <4>2. At(G, i) = <<>> /\ At(H, i) = <<>>
        BY <3>1
      <4> HIDE DEF At, H
      <4> QED BY <2>4, <4>1, <4>2
    <3>2. CASE ~ (i > n)
      <4>1. i \in 1..n /\ Following(url, i) \in i + 1..n + 3
        BY <1>1, <2>2, <3>2, FollowingIsBehind
      <4>2. Following(url, i) \in m + 1..n + 3
        BY <2>2, <4>1
      <4>3. At(H, i) = At(G, i)
        <5>1. H[Following(url, i)] = G[Following(url, i)]
          BY <2>4, <4>2
        <5> HIDE DEF H
        <5> QED BY <5>1
      <4>4. H[i] = At(G, i)
        <5>1. CASE i = m
          <6> HIDE DEF At
          <6> QED BY <2>2, <5>1
        <5>2. CASE i # m
          <6>1. i \in m + 1..n + 3
            BY <2>2, <5>2
          <6> HIDE DEF At, H
          <6> QED BY <2>4, <6>1
        <5> QED BY <5>1, <5>2
      <4> HIDE DEF At, H
      <4> QED BY <4>3, <4>4
    <3> QED BY <3>1, <3>2
  <2>6. H = [i \in m..n + 3 |-> At(H, i)]
    <3>1. H = [i \in m..n + 3 |-> H[i]]
      OBVIOUS
    <3> HIDE DEF H, At
    <3> QED BY <2>5, <3>1
  <2> HIDE DEF H, At
  <2> QED BY <2>2, <2>6
<1>4. Nat \subseteq T
  <2> HIDE DEF T
  <2> QED BY <1>2, <1>3, FromZeroOn
<1>5. n \in T /\ (n - n) + 1 = 1
  <2> HIDE DEF T
  <2> QED BY <1>4
<1>6. \E F : F = [i \in 1..n + 3 |-> At(F, i)]
  <2> HIDE DEF At
  <2> QED BY <1>5
<1> QED BY <1>1, <1>6

\* The end of a sequence, its first element apart.
LEMMA HeadAndRest ==
  ASSUME NEW s \in Seq(Nat), NEW r \in Nat, r + 1 <= Len(s)
  PROVE  <<s[r + 1]>> \o SubSeq(s, r + 1 + 1, Len(s)) = SubSeq(s, r + 1, Len(s))
<1>1. PICK n \in Nat, b \in Nat : n = Len(s) /\ b = r + 1 /\ r <= b /\ b <= n /\ b <= Len(s)
  BY LenProperties
<1>2. SubSeq(s, r + 1, b) \o SubSeq(s, b + 1, n) = SubSeq(s, r + 1, n)
  BY <1>1, PiecesJoin
<1>3. SubSeq(s, r + 1, b) = <<s[b]>>
  <2> DEFINE t == SubSeq(s, r + 1, b)
             e == <<s[b]>>
  <2>1. t \in Seq(Nat) /\ Len(t) = b - r /\ \A i \in 1..b - r : t[i] = s[r + i]
    BY <1>1, Between
  <2>2. b - r = 1 /\ r + 1 = b
    BY <1>1
  <2>3. s[b] \in Nat
    BY <1>1, ElementOfSeq
  <2>4. e \in Seq(Nat) /\ Len(e) = 1 /\ e[1] = s[b]
    BY <2>3
  <2> HIDE DEF t, e
  <2>5. Len(t) = Len(e) /\ \A i \in 1..Len(t) : t[i] = e[i]
    <3>1. 1 \in 1..b - r
      BY <2>2
    <3>2. t[1] = s[b]
      BY <2>1, <2>2, <3>1
    <3> QED BY <2>1, <2>2, <2>4, <3>2
  <2>6. t = e
    BY <2>1, <2>4, <2>5, SeqEqual
  <2> QED BY <2>6 DEF t, e
<1> QED BY <1>1, <1>2, <1>3

\* HttpRequest::decodeMsg() gives the text that is spelled.
LEMMA DecodedCpp ==
  ASSUME NEW url \in Seq(Nat), NEW s \in Seq(Nat \ {NUL}), Spells(url, s)
  PROVE  decodeMsgCpp(url) = s
<1>1. PICK n \in Nat : n = Len(url)
  BY LenProperties
<1>2. s \in Seq(Nat) /\ Len(s) \in Nat
  <2> DEFINE T == Nat \ {NUL}
  <2>1. s \in Seq(T) /\ \A x \in T : x \in Nat
    OBVIOUS
  <2> HIDE DEF T
  <2> QED BY <2>1, LargerSet, LenProperties
<1> DEFINE At(F, i) == IF i > n THEN <<>> ELSE <<DecodedAt(url, i)>> \o F[Following(url, i)]
           From == CHOOSE F : F = [i \in 1..n + 3 |-> At(F, i)]
<1>3. decodeMsgCpp(url) = CString(From[1])
  BY <1>1 DEF decodeMsgCpp
<1>4. \A i \in 1..n + 3 : From[i] = At(From, i)
  <2>1. \E F : F = [i \in 1..n + 3 |-> At(F, i)]
    <3>1. PICK F : F = [i \in 1..Len(url) + 3 |->
                         IF i > Len(url) THEN <<>>
                         ELSE <<DecodedAt(url, i)>> \o F[Following(url, i)]]
      BY DecodingExists
    <3>2. F = [i \in 1..n + 3 |-> At(F, i)]
      BY <1>1, <3>1
    <3> HIDE DEF At
    <3> QED BY <3>2
  <2>2. From = [i \in 1..n + 3 |-> At(From, i)]
    <3> HIDE DEF At
    <3> QED BY <2>1
  <2> HIDE DEF From, At
  <2> QED BY <2>2
<1> HIDE DEF From
<1> DEFINE P(i) == From[i] = SubSeq(s, Rank(url, i) + 1, Len(s))
           T == {k \in Nat : \A i \in Begins(url) \cup {n + 1} : n + 1 - i <= k => P(i)}
<1>5. P(n + 1)
  <2>1. n + 1 \in 1..n + 3 /\ n + 1 > n
    OBVIOUS
  <2>2. From[n + 1] = <<>>
    BY <1>4, <2>1
  <2>3. Rank(url, n + 1) = Len(s)
    <3>1. Rank(url, n + 1) = Cardinality(Begins(url))
      BY <1>1, Ranks
    <3> QED BY <3>1 DEF Spells
  <2>4. SubSeq(s, Len(s) + 1, Len(s)) = <<>>
    BY <1>2
  <2> QED BY <2>2, <2>3, <2>4
<1>6. \A i \in Begins(url) : i \in 1..n
  BY <1>1 DEF Begins
<1>7. 0 \in T
  <2>1. ASSUME NEW i \in Begins(url) \cup {n + 1}, n + 1 - i <= 0 PROVE i = n + 1
    BY <1>6, <2>1
  <2> HIDE DEF P
  <2> QED BY <1>5, <2>1
<1>8. ASSUME NEW k \in Nat, k \in T
      PROVE  k + 1 \in T
  <2>1. SUFFICES ASSUME NEW i \in Begins(url), n + 1 - i <= k + 1
                 PROVE  P(i)
    <3> HIDE DEF P
    <3> QED BY <1>5
  <2>2. PICK f \in i + 1..n + 1 : f = Following(url, i)
    BY <1>1, NextBegin
  <2>3. f \in Begins(url) \cup {n + 1} /\ i \in 1..n
    BY <1>1, <2>2, NextBegin
  <2>4. n + 1 - f <= k
    BY <2>1, <2>2, <2>3
  <2>5. P(f)
    <3> HIDE DEF P
    <3> QED BY <1>8, <2>3, <2>4
  <2>6. PICK r \in Nat :
          /\ r = Rank(url, i) /\ r + 1 <= Len(s) /\ Rank(url, f) = r + 1
          /\ s[r + 1] = DecodedAt(url, i)
    BY <2>2, SpelledAt
  <2>7. From[i] = <<DecodedAt(url, i)>> \o From[f]
    <3>1. i \in 1..n + 3 /\ ~ (i > n)
      BY <2>3
    <3> QED BY <1>4, <2>2, <3>1
  <2>8. From[i] = <<s[r + 1]>> \o SubSeq(s, r + 1 + 1, Len(s))
    BY <2>5, <2>6, <2>7
  <2> QED BY <1>2, <2>6, <2>8, HeadAndRest
<1>9. Nat \subseteq T
  <2> HIDE DEF T
  <2> QED BY <1>7, <1>8, FromZeroOn
<1>10. P(1)
  <2>1. 1 \in Begins(url) \cup {n + 1}
    BY <1>1, FirstBegin
  <2>2. n \in T /\ n + 1 - 1 <= n
    <3> HIDE DEF T
    <3> QED BY <1>9
  <2> HIDE DEF P
  <2> QED BY <2>1, <2>2
<1>11. From[1] = s
  <2>1. Rank(url, 1) = 0
    BY Ranks
  <2>2. SubSeq(s, 1, Len(s)) = s
    BY <1>2, SubSeqFull
  <2> QED BY <1>10, <2>1, <2>2
<1> QED BY <1>3, <1>11, StringIsWhole

(* The values one gets from x by F, turn by turn.                          *)
Turns(g, x, F, m) == g = [k \in 0..m |-> IF k = 0 THEN x ELSE F[g[k - 1]]]

\* A function given by its first value and by what comes behind each.
LEMMA TurnsExist ==
  ASSUME NEW x, NEW F, NEW m \in Nat
  PROVE  \E g : Turns(g, x, F, m)
<1> DEFINE T == {j \in Nat : \E g : g = [k \in 0..j |-> IF k = 0 THEN x ELSE F[g[k - 1]]]}
<1>1. 0 \in T
  <2> DEFINE g == [k \in 0..0 |-> x]
  <2>1. g = [k \in 0..0 |-> IF k = 0 THEN x ELSE F[g[k - 1]]]
    OBVIOUS
  <2> HIDE DEF g
  <2> QED BY <2>1
<1>2. ASSUME NEW n \in Nat, n \in T
      PROVE  n + 1 \in T
  <2>1. PICK g : g = [k \in 0..n |-> IF k = 0 THEN x ELSE F[g[k - 1]]]
    BY <1>2
  <2> DEFINE f == [k \in 0..n + 1 |-> IF k = n + 1 THEN F[g[n]] ELSE g[k]]
  <2>2. ASSUME NEW k \in 0..n + 1
        PROVE  f[k] = IF k = 0 THEN x ELSE F[f[k - 1]]
    <3>1. CASE k = n + 1
      <4>1. k - 1 = n /\ n \in 0..n + 1 /\ n # n + 1 /\ k # 0
        BY <3>1
      <4>2. f[k] = F[g[n]] /\ f[n] = g[n]
        BY <3>1, <4>1
      <4> HIDE DEF f
      <4> QED BY <4>1, <4>2
    <3>2. CASE k # n + 1
      <4>1. k \in 0..n
        BY <3>2
      <4>2. f[k] = g[k] /\ g[k] = IF k = 0 THEN x ELSE F[g[k - 1]]
        BY <2>1, <3>2, <4>1
      <4>3. k # 0 => f[k - 1] = g[k - 1]
        <5>1. k # 0 => k - 1 \in 0..n + 1 /\ k - 1 # n + 1
          BY <4>1
        <5> QED BY <5>1
      <4> HIDE DEF f
      <4> QED BY <4>2, <4>3
    <3> QED BY <3>1, <3>2
  <2>3. f = [k \in 0..n + 1 |-> IF k = 0 THEN x ELSE F[f[k - 1]]]
    <3>1. f = [k \in 0..n + 1 |-> f[k]]
      OBVIOUS
    <3> HIDE DEF f
    <3> QED BY <2>2, <3>1
  <2> HIDE DEF f
  <2> QED BY <2>3
<1>3. Nat \subseteq T
  <2> HIDE DEF T
  <2> QED BY <1>1, <1>2, FromZeroOn
<1>4. PICK g : g = [k \in 0..m |-> IF k = 0 THEN x ELSE F[g[k - 1]]]
  BY <1>3
<1> QED BY <1>4 DEF Turns

(* The state of the C decoder when `from` has come behind place k: what is *)
(* in front of `to` is decoded, what is behind `from` is as it was.        *)
Decoder(url, s, k, st) ==
  LET n == Len(url)
      r == Rank(url, st.from)
  IN  /\ st \in [mem : Seq(Nat), to : Nat, from : Nat]
      /\ Len(st.mem) = n + 1 /\ st.mem[n + 1] = NUL
      /\ st.from \in Begins(url) \cup {n + 1} /\ k + 1 <= st.from
      /\ st.to = r + 1
      /\ \A j \in st.from..n : st.mem[j] = url[j]
      /\ \A j \in 1..r : st.mem[j] = s[j]

(* One turn of it.                                                         *)
TurnOf(st) ==
  IF st.mem[st.from] = NUL
    THEN st
    ELSE [mem  |-> [st.mem EXCEPT ![st.to] = DecodedAt(st.mem, st.from)],
          to   |-> st.to + 1,
          from |-> Following(st.mem, st.from)]

\* What has been written in front of a place changes nothing about the escapes there.
LEMMA SameEscape ==
  ASSUME NEW url \in Seq(Nat), NEW mem \in Seq(Nat), Len(mem) = Len(url) + 1,
         mem[Len(url) + 1] = NUL, NEW i \in 1..Len(url),
         \A j \in i..Len(url) : mem[j] = url[j]
  PROVE  DecodedAt(mem, i) = DecodedAt(url, i) /\ Following(mem, i) = Following(url, i)
<1>1. PICK n \in Nat : n = Len(url)
  BY LenProperties
<1>2. ~ Isxdigit(NUL)
  BY DEF Isxdigit, NUL
<1>3. i \in 1..n /\ mem[i] = url[i]
  BY <1>1
<1>4. CASE i + 2 <= n
  <2>1. mem[i + 1] = url[i + 1] /\ mem[i + 2] = url[i + 2] /\ i + 2 <= n + 1
    <3>1. i + 1 \in i..n /\ i + 2 \in i..n
      BY <1>3, <1>4
    <3> QED BY <1>1, <1>4, <3>1, SMTT(40)
  <2>2. Escape(mem, i) <=> Escape(url, i)
    BY <1>1, <1>3, <1>4, <2>1 DEF Escape
  <2> QED BY <1>3, <2>1, <2>2 DEF DecodedAt, Following
<1>5. CASE ~ (i + 2 <= n)
  <2>1. ~ Escape(url, i)
    BY <1>1, <1>5 DEF Escape
  <2>2. ~ Escape(mem, i)
    <3>1. SUFFICES ASSUME Escape(mem, i) PROVE FALSE
      OBVIOUS
    <3>2. i + 2 <= n + 1 /\ Isxdigit(mem[i + 2])
      BY <1>1, <3>1 DEF Escape
    <3>3. i + 2 = n + 1
      BY <1>3, <1>5, <3>2
    <3> QED BY <1>1, <1>2, <3>2, <3>3
  <2> QED BY <1>3, <2>1, <2>2 DEF DecodedAt, Following
<1> QED BY <1>4, <1>5

\* A turn takes the decoder on.
LEMMA TurnKeepsDecoder ==
  ASSUME NEW url \in Seq(Nat), \A j \in 1..Len(url) : url[j] # NUL,
         NEW s \in Seq(Nat), Spells(url, s),
         NEW k \in Nat, k < Len(url), NEW st, Decoder(url, s, k, st)
  PROVE  Decoder(url, s, k + 1, TurnOf(st))
<1>1. PICK n \in Nat : n = Len(url)
  BY LenProperties
<1>2. PICK mem \in Seq(Nat), to \in Nat, i \in Nat :
        st = [mem |-> mem, to |-> to, from |-> i] /\ st.mem = mem /\ st.to = to /\ st.from = i
  BY DEF Decoder
<1>3. /\ Len(mem) = n + 1 /\ mem[n + 1] = NUL
      /\ i \in Begins(url) \cup {n + 1} /\ k + 1 <= i
      /\ to = Rank(url, i) + 1
      /\ \A j \in i..n : mem[j] = url[j]
      /\ \A j \in 1..Rank(url, i) : mem[j] = s[j]
      /\ st \in [mem : Seq(Nat), to : Nat, from : Nat]
  BY <1>1, <1>2 DEF Decoder
<1>4. CASE i = n + 1
  <2>1. TurnOf(st) = st
    BY <1>2, <1>3, <1>4 DEF TurnOf
  <2>2. k + 1 + 1 <= i
    BY <1>1, <1>4
  <2>3. Decoder(url, s, k + 1, st)
    BY <1>1, <1>2, <1>3, <2>2 DEF Decoder
  <2> QED BY <2>1, <2>3
<1>5. CASE i # n + 1
  <2>1. i \in Begins(url) /\ i \in 1..n
    BY <1>1, <1>3, <1>5 DEF Begins
  <2>2. mem[i] # NUL
    <3>1. i \in i..n /\ i \in 1..Len(url)
      BY <1>1, <2>1
    <3>2. mem[i] = url[i]
      BY <1>3, <3>1
    <3>3. url[i] # NUL
      BY <3>1
    <3> QED BY <3>2, <3>3
  <2>3. PICK f \in i + 1..n + 1 : f = Following(url, i) /\ f \in Begins(url) \cup {n + 1}
    BY <1>1, <2>1, NextBegin
  <2>4. PICK r \in Nat :
          /\ r = Rank(url, i) /\ r + 1 <= Len(s) /\ r + 1 <= i
          /\ Rank(url, f) = r + 1 /\ s[r + 1] = DecodedAt(url, i)
    BY <2>1, <2>3, SpelledAt
  <2>5. PICK c \in Nat : c = s[r + 1]
    <3>1. r + 1 \in 1..Len(s)
      BY <2>4, LenProperties
    <3> QED BY <3>1, ElementOfSeq
  <2>6. DecodedAt(mem, i) = c /\ Following(mem, i) = f
    BY <1>1, <1>3, <2>1, <2>3, <2>4, <2>5, SameEscape
  <2> DEFINE m == [mem EXCEPT ![r + 1] = c]
             next == [mem |-> m, to |-> r + 1 + 1, from |-> f]
  <2>7. r + 1 \in 1..Len(mem) /\ to = r + 1
    <3>1. r + 1 \in 1..n + 1
      BY <2>1, <2>4
    <3> QED BY <1>3, <2>4, <3>1
  <2>8. TurnOf(st) = next
    BY <1>2, <2>2, <2>6, <2>7 DEF TurnOf
  <2>9. /\ m \in Seq(Nat) /\ Len(m) = n + 1 /\ m[r + 1] = c
        /\ \A j \in 1..n + 1 : j # r + 1 => m[j] = mem[j]
    BY <1>3, <2>7, ExceptSeq
  <2> HIDE DEF m
  <2>10. m[n + 1] = NUL /\ \A j \in f..n : m[j] = url[j]
    <3>1. \A j \in f..n : j \in i..n /\ j # r + 1 /\ j \in 1..n + 1
      BY <2>1, <2>3, <2>4
    <3>2. n + 1 # r + 1
      BY <2>1, <2>4
    <3>3. m[n + 1] = NUL
      <4>1. n + 1 \in 1..n + 1
        OBVIOUS
      <4> QED BY <1>3, <2>9, <3>2, <4>1
    <3>4. ASSUME NEW j \in f..n PROVE m[j] = url[j]
      <4>1. m[j] = mem[j] /\ mem[j] = url[j]
        BY <1>3, <2>9, <3>1
      <4> QED BY <4>1
    <3> QED BY <3>3, <3>4
  <2>11. \A j \in 1..r + 1 : m[j] = s[j]
    <3>1. ASSUME NEW j \in 1..r + 1 PROVE m[j] = s[j]
      <4>1. CASE j = r + 1
        BY <2>5, <2>9, <4>1
      <4>2. CASE j # r + 1
        <5>1. j \in 1..r /\ j \in 1..n + 1
          BY <2>1, <2>4, <4>2
        <5> QED BY <1>3, <2>4, <2>9, <4>2, <5>1
      <4> QED BY <4>1, <4>2
    <3> QED BY <3>1
  <2>12. k + 1 + 1 <= f /\ next \in [mem : Seq(Nat), to : Nat, from : Nat]
    <3>1. k + 1 + 1 <= f
      BY <1>3, <2>3
    <3>2. f \in Nat /\ r + 1 + 1 \in Nat
      BY <2>3
    <3> QED BY <2>9, <3>1, <3>2
  <2>13. next.mem = m /\ next.to = r + 1 + 1 /\ next.from = f
    OBVIOUS
  <2> HIDE DEF next
  <2>14. Decoder(url, s, k + 1, next)
    BY <1>1, <2>3, <2>4, <2>9, <2>10, <2>11, <2>12, <2>13 DEF Decoder
  <2> QED BY <2>8, <2>14
<1> QED BY <1>4, <1>5

\* decodeMsg() in C gives the text that is spelled.
LEMMA DecodedC ==
  ASSUME NEW url \in Seq(Nat), \A j \in 1..Len(url) : url[j] # NUL,
         NEW s \in Seq(Nat \ {NUL}), Spells(url, s)
  PROVE  decodeMsg(url) = s
<1>1. PICK n \in Nat : n = Len(url)
  BY LenProperties
<1>2. s \in Seq(Nat) /\ Len(s) \in Nat
  <2> DEFINE T == Nat \ {NUL}
  <2>1. s \in Seq(T) /\ \A x \in T : x \in Nat
    OBVIOUS
  <2> HIDE DEF T
  <2> QED BY <2>1, LargerSet, LenProperties
<1> DEFINE S == [mem : Seq(Nat), to : Nat, from : Nat]
           Turn == [st \in S |-> IF st.mem[st.from] = NUL
                                   THEN st
                                   ELSE [mem  |-> [st.mem EXCEPT ![st.to] = DecodedAt(st.mem, st.from)],
                                         to   |-> st.to + 1,
                                         from |-> Following(st.mem, st.from)]]
           x == [mem |-> Append(url, NUL), to |-> 1, from |-> 1]
           After == CHOOSE A : A = [k \in 0..n |-> IF k = 0 THEN x ELSE Turn[A[k - 1]]]
           end == After[n]
<1>3. decodeMsg(url) = CString([end.mem EXCEPT ![end.to] = NUL])
  BY <1>1 DEF decodeMsg
<1>4. \A st \in S : Turn[st] = TurnOf(st)
  BY DEF TurnOf
<1>5. Decoder(url, s, 0, x)
  <2>1. NUL \in Nat
    BY DEF NUL
  <2>2. /\ Append(url, NUL) \in Seq(Nat) /\ Len(Append(url, NUL)) = n + 1
        /\ \A j \in 1..n : Append(url, NUL)[j] = url[j]
        /\ Append(url, NUL)[n + 1] = NUL
    BY <1>1, <2>1, AppendProperties
  <2>3. 1 \in Begins(url) \cup {n + 1} /\ Rank(url, 1) = 0
    BY <1>1, FirstBegin, Ranks
  <2>4. x.mem = Append(url, NUL) /\ x.to = 1 /\ x.from = 1 /\ x \in S
    BY <2>2
  <2> HIDE DEF x
  <2>5. 0 + 1 <= 1 /\ 0 + 1 = 1
    OBVIOUS
  <2> QED BY <1>1, <2>2, <2>3, <2>4, <2>5 DEF Decoder
<1> HIDE DEF x, Turn
<1>6. After[0] = x /\ \A k \in 1..n : After[k] = Turn[After[k - 1]]
  <2>1. \E A : A = [k \in 0..n |-> IF k = 0 THEN x ELSE Turn[A[k - 1]]]
    <3>1. PICK A : Turns(A, x, Turn, n)
      BY TurnsExist
    <3> QED BY <3>1 DEF Turns
  <2>2. After = [k \in 0..n |-> IF k = 0 THEN x ELSE Turn[After[k - 1]]]
    BY <2>1
  <2> HIDE DEF After
  <2>3. \A k \in 0..n : After[k] = IF k = 0 THEN x ELSE Turn[After[k - 1]]
    BY <2>2
  <2> QED BY <2>3
<1> HIDE DEF After
<1> DEFINE T == {k \in Nat : k <= n => Decoder(url, s, k, After[k])}
<1>7. 0 \in T
  BY <1>5, <1>6
<1>8. ASSUME NEW k \in Nat, k \in T
      PROVE  k + 1 \in T
  <2>1. SUFFICES ASSUME k + 1 <= n PROVE Decoder(url, s, k + 1, After[k + 1])
    OBVIOUS
  <2>2. Decoder(url, s, k, After[k]) /\ k < Len(url)
    BY <1>1, <1>8, <2>1
  <2>3. After[k] \in S
    BY <2>2 DEF Decoder
  <2>4. k + 1 \in 1..n /\ (k + 1) - 1 = k
    BY <2>1
  <2>5. After[k + 1] = TurnOf(After[k])
    BY <1>4, <1>6, <2>3, <2>4
  <2> QED BY <1>2, <2>2, <2>5, TurnKeepsDecoder
<1>9. Nat \subseteq T
  <2> HIDE DEF T
  <2> QED BY <1>7, <1>8, FromZeroOn
<1>10. Decoder(url, s, n, end)
  <2>1. n \in T
    <3> HIDE DEF T
    <3> QED BY <1>9
  <2> QED BY <2>1
<1> HIDE DEF end
<1>11. /\ end.mem \in Seq(Nat) /\ Len(end.mem) = n + 1
       /\ end.from = n + 1 /\ end.to = Len(s) + 1
       /\ \A j \in 1..Len(s) : end.mem[j] = s[j]
  <2>1. /\ end.mem \in Seq(Nat) /\ Len(end.mem) = n + 1
        /\ end.from \in Begins(url) \cup {n + 1} /\ n + 1 <= end.from
        /\ end.to = Rank(url, end.from) + 1
        /\ \A j \in 1..Rank(url, end.from) : end.mem[j] = s[j]
    BY <1>1, <1>10 DEF Decoder
  <2>2. end.from = n + 1
    <3>1. \A i \in Begins(url) : i \in 1..n
      BY <1>1 DEF Begins
    <3> QED BY <2>1, <3>1
  <2>3. Rank(url, n + 1) = Len(s)
    <3>1. Rank(url, n + 1) = Cardinality(Begins(url))
      BY <1>1, Ranks
    <3> QED BY <3>1 DEF Spells
  <2> QED BY <2>1, <2>2, <2>3
<1>12. Len(s) <= n
  <2>1. n + 1 \in 1..Len(url) + 1
    BY <1>1
  <2>2. Rank(url, n + 1) <= n + 1 - 1 /\ Rank(url, n + 1) = Cardinality(Begins(url))
    BY <1>1, <2>1, Ranks
  <2>3. Cardinality(Begins(url)) = Len(s)
    BY DEF Spells
  <2> QED BY <1>2, <2>2, <2>3
<1> DEFINE m == [end.mem EXCEPT ![Len(s) + 1] = NUL]
<1>13. /\ m \in Seq(Nat) /\ Len(s) + 1 <= Len(m)
       /\ \A j \in 1..Len(s) : m[j] = s[j]
       /\ m[Len(s) + 1] = NUL
  <2>1. PICK d \in Seq(Nat), l \in Nat : d = end.mem /\ l = Len(s) + 1
    BY <1>2, <1>11
  <2>2. l \in 1..Len(d) /\ Len(d) = n + 1 /\ NUL \in Nat
    BY <1>2, <1>11, <1>12, <2>1 DEF NUL
  <2>3. m = [d EXCEPT ![l] = NUL]
    BY <2>1
  <2> HIDE DEF m
  <2>4. /\ m \in Seq(Nat) /\ Len(m) = Len(d) /\ m[l] = NUL
        /\ \A j \in 1..Len(d) : j # l => m[j] = d[j]
    BY <2>2, <2>3, ExceptSeq
  <2>5. \A j \in 1..Len(s) : j # l /\ j \in 1..Len(d)
    BY <1>2, <2>1, <2>2
  <2>6. Len(s) + 1 <= Len(m)
    BY <1>2, <2>1, <2>2, <2>4
  <2>7. \A j \in 1..Len(s) : m[j] = s[j]
    BY <1>11, <2>1, <2>4, <2>5
  <2> QED BY <2>1, <2>4, <2>6, <2>7
<1>14. decodeMsg(url) = CString(m)
  BY <1>3, <1>11
<1> HIDE DEF m
<1>15. CString(m) = s
  BY <1>13, StringEnds
<1> QED BY <1>14, <1>15

\* The highest of some numbers that have a bound.
LEMMA MaxIsMember ==
  ASSUME NEW S, S # {}, NEW n \in Nat, \A x \in S : x \in Nat /\ x <= n
  PROVE  Max(S) \in S /\ \A y \in S : y <= Max(S)
<1> DEFINE T == {k \in Nat : \E x \in S : k = n - x}
<1>1. T # {} /\ T \subseteq Nat
  <2>1. PICK x \in S : TRUE
    OBVIOUS
  <2>2. n - x \in Nat
    OBVIOUS
  <2> QED BY <2>2
<1>2. PICK k \in T : \A y \in T : k <= y
  <2> HIDE DEF T
  <2> QED BY <1>1, MinIsMember
<1>3. PICK x \in S : k = n - x
  OBVIOUS
<1>4. ASSUME NEW y \in S PROVE x >= y
  <2>1. n - y \in T /\ x \in Nat /\ y \in Nat
    OBVIOUS
  <2>2. k <= n - y
    BY <1>2, <2>1
  <2> QED BY <1>3, <2>1, <2>2
<1>5. Max(S) \in S /\ \A y \in S : Max(S) >= y
  BY <1>4, Zenon DEF Max
<1>6. Max(S) \in Nat
  BY <1>5
<1> QED BY <1>5, <1>6

\* getFileType() finds the type of a name.
LEMMA TypeIsFound ==
  ASSUME NEW name \in Seq(Nat), NEW type, HasType(name, type)
  PROVE  getFileType(name) = type
<1> DEFINE dots == {i \in DOMAIN name : name[i] = DOT}
           end(i) == SubSeq(name, i, Len(name))
           last(i) == \A j \in i + 1..Len(name) : name[j] # DOT
<1>1. PICK n \in Nat : n = Len(name) /\ DOMAIN name = 1..n
  BY LenProperties
<1>2. getFileType(name) = IF dots # {} /\ end(Max(dots)) \in DOMAIN MimeTypes
                            THEN MimeTypes[end(Max(dots))] ELSE TextPlain
  BY DEF getFileType
<1>3. IF \E i \in dots : end(i) \in DOMAIN MimeTypes /\ last(i)
        THEN \E i \in dots : last(i) /\ type = MimeTypes[end(i)]
        ELSE type = TextPlain
  BY DEF HasType
<1>4. CASE dots = {}
  <2> HIDE DEF dots, end, last
  <2> QED BY <1>2, <1>3, <1>4
<1>5. CASE dots # {}
  <2>1. \A i \in dots : i \in Nat /\ i <= n
    BY <1>1
  <2>2. \A i \in dots : i \in 1..n
    BY <1>1
  <2>3. Max(dots) \in dots /\ \A i \in dots : i <= Max(dots)
    <3> HIDE DEF dots
    <3> QED BY <1>5, <2>1, MaxIsMember
  <2>4. last(Max(dots))
    <3>1. SUFFICES ASSUME NEW j \in Max(dots) + 1..n, name[j] = DOT PROVE FALSE
      BY <1>1
    <3>2. Max(dots) \in 1..n
      BY <2>2, <2>3
    <3>3. j \in 1..n /\ ~ (j <= Max(dots))
      <4> HIDE DEF dots
      <4> QED BY <3>2
    <3>4. j \in dots
      BY <1>1, <3>1, <3>3
    <3> QED BY <2>3, <3>3, <3>4
  <2>5. ASSUME NEW i \in dots, last(i) PROVE i = Max(dots)
    <3>1. i \in 1..n /\ Max(dots) \in 1..n /\ i <= Max(dots) /\ name[Max(dots)] = DOT
      BY <2>2, <2>3
    <3>2. ~ (Max(dots) \in i + 1..n)
      BY <1>1, <2>5, <3>1
    <3> HIDE DEF dots
    <3> QED BY <3>1, <3>2
  <2> HIDE DEF dots, end, last
  <2> QED BY <1>2, <1>3, <1>5, <2>3, <2>4, <2>5
<1> QED BY <1>4, <1>5

\* Both decoders give the file that is asked for.
LEMMA FileIsNamed ==
  ASSUME NEW r, WellFormed(r)
  PROVE  FileOf(decodeMsg(r.url)) = r.path /\ FileOf(decodeMsgCpp(r.url)) = r.path
<1> DEFINE B == Nat \ {NUL}
           C == Nat \ {SP, NUL}
<1>1. r.url \in Seq(C) /\ r.path \in Seq(B)
  BY DEF WellFormed
<1>2. PICK url \in Seq(Nat) : url = r.url /\ \A j \in 1..Len(url) : url[j] # NUL
  <2>1. \A x \in C : x \in Nat /\ x # NUL
    OBVIOUS
  <2> HIDE DEF C
  <2>2. r.url \in Seq(Nat)
    BY <1>1, <2>1, LargerSet
  <2>3. \A j \in 1..Len(r.url) : r.url[j] \in C
    BY <1>1, ElementOfSeq
  <2> QED BY <2>1, <2>2, <2>3
<1>3. ASSUME NEW s \in Seq(B), Spells(url, s)
      PROVE  decodeMsg(url) = s /\ decodeMsgCpp(url) = s
  <2>1. s \in Seq(Nat \ {NUL})
    BY <1>3
  <2> HIDE DEF B
  <2>2. decodeMsg(url) = s
    BY <1>2, <1>3, <2>1, DecodedC
  <2>3. decodeMsgCpp(url) = s
    BY <1>3, <2>1, DecodedCpp
  <2> QED BY <2>2, <2>3
<1> DEFINE slash == <<SLASH>>
<1>4. slash \in Seq(B) /\ Len(slash) = 1 /\ slash \in Seq(Nat)
  BY DEF SLASH, NUL
<1>5. CASE r.path = RootDir /\ Spells(url, slash)
  <2>1. decodeMsg(url) = slash /\ decodeMsgCpp(url) = slash
    BY <1>3, <1>4, <1>5
  <2>2. FileOf(slash) = RootDir
    BY DEF FileOf
  <2> QED BY <1>2, <1>5, <2>1, <2>2
<1>6. CASE r.path # <<>> /\ Spells(url, slash \o r.path)
  <2> DEFINE p == r.path
             s == slash \o p
  <2> HIDE DEF slash, B
  <2>1. s \in Seq(B) /\ Len(s) = 1 + Len(p) /\ Len(p) \in Nat
    <3>1. p \in Seq(B)
      BY <1>1
    <3>2. slash \o p \in Seq(B) /\ Len(slash \o p) = Len(slash) + Len(p)
      BY <1>4, <3>1, ConcatProperties
    <3> QED BY <1>4, <3>1, <3>2, LenProperties
  <2>2. decodeMsg(url) = s /\ decodeMsgCpp(url) = s
    BY <1>3, <1>6, <2>1
  <2>3. Len(p) # 0
    BY <1>1, <1>6, EmptySeq
  <2>4. s # slash
    BY <1>4, <2>1, <2>3, SMTT(40)
  <2>5. SubSeq(s, 2, Len(s)) = p
    <3>1. SubSeq(slash \o p, Len(slash) + 1, Len(slash) + Len(p)) = p
      BY <1>1, <1>4, EndOfTwo
    <3>2. Len(slash) + 1 = 2 /\ Len(slash) + Len(p) = Len(s)
      BY <1>4, <2>1
    <3> QED BY <3>1, <3>2
  <2>6. FileOf(s) = p
    BY <2>4, <2>5 DEF FileOf, slash
  <2> QED BY <1>2, <2>2, <2>6
<1>7. \/ r.path = RootDir /\ Spells(url, slash)
      \/ r.path # <<>> /\ Spells(url, slash \o r.path)
  BY <1>2 DEF WellFormed
<1> QED BY <1>5, <1>6, <1>7

-----------------------------------------------------------------------------
(* What the client has received.                                           *)

(* The first items of w have reached the client: n of them, with nothing   *)
(* left in the write buffer, unless the connection was reset.              *)
Sending(w, n) ==
  \E j \in 0..Len(w) :
    /\ received = SubSeq(w, 1, j)
    /\ peer # "reset" => j = n /\ bufferReadAbleSize(writeBuf) = 0

(* The items behind the first n of w.                                      *)
NextItems(w, n, items) ==
  /\ w \in Seq(Nat) /\ items \in Seq(Nat) /\ n \in Nat /\ n + Len(items) <= Len(w)
  /\ SubSeq(w, n + 1, n + Len(items)) = items

\* send() of a part of what a drained buffer got leaves the rest, and of all nothing.
LEMMA SentFirst ==
  ASSUME NEW b \in Good, NEW count \in 1..bufferReadAbleSize(b)
  PROVE  bufferReadAbleSize(AfterSend(b, count)) = bufferReadAbleSize(b) - count
<1>1. bufferReadAbleSize(b) \in Nat
  BY UnreadBytes
<1>2. count \in Nat /\ count > 0 /\ count # 0 /\ bufferReadAbleSize(b) > 0
      /\ count <= bufferReadAbleSize(b)
  BY <1>1
<1>3. AfterSend(b, count) = [b EXCEPT !.readPos = b.readPos + count]
  BY <1>2 DEF AfterSend, sendDataBuffer, sendData
<1> QED BY <1>2, <1>3, UnreadBehind

\* appendString() or appendDataBuffer(), and send() of what is then there, when nothing was
\* left before: the client receives the items, or the first of them and the connection is reset.
LEMMA ItemsAreSent ==
  ASSUME HttpInv, NEW w, NEW n, NEW items, NextItems(w, n, items), Sending(w, n),
         AppendAndSend(items)
  PROVE  Sending(w, n + Len(items))'
<1>1. PICK k \in Nat, l \in Nat :
        k = Len(items) /\ l = Len(w) /\ w \in Seq(Nat) /\ items \in Seq(Nat)
        /\ n \in Nat /\ n + k <= l /\ SubSeq(w, n + 1, n + k) = items
  BY LenProperties DEF NextItems
<1>2. PICK j \in 0..l :
        /\ received = SubSeq(w, 1, j)
        /\ peer # "reset" => j = n /\ bufferReadAbleSize(writeBuf) = 0
  BY <1>1 DEF Sending
<1>3. CASE peer = "reset"
  <2>1. UNCHANGED <<received, peer>>
    BY <1>3, Zenon DEF AppendAndSend
  <2> QED BY <1>1, <1>2, <1>3, <2>1 DEF Sending
<1>4. CASE peer # "reset"
  <2> DEFINE b == Append_(writeBuf, items)
  <2>1. writeBuf \in Good /\ j = n /\ bufferReadAbleSize(writeBuf) = 0
    BY <1>2, <1>4 DEF HttpInv, BufInv
  <2>2. Unread(writeBuf) = <<>>
    BY <2>1, UnreadBytes, EmptySeq
  <2>3. b = appendDataBuffer(writeBuf, items)
    BY <1>1, <2>1, AppendedBytes DEF Append_
  <2>4. b \in Good /\ Unread(b) = Unread(writeBuf) \o items /\ bufferReadAbleSize(b) = 0 + k
    BY <1>1, <2>1, <2>3, AppendedBytes
  <2>5. Unread(b) = items /\ bufferReadAbleSize(b) = k
    BY <1>1, <2>2, <2>4, ConcatEmptySeq
  <2>6. PICK count \in 1..bufferReadAbleSize(b) :
          /\ writeBuf' = AfterSend(b, count)
          /\ received' = received \o SubSeq(Unread(b), 1, count)
          /\ peer' = IF count < bufferReadAbleSize(b) THEN "reset" ELSE peer
    BY <1>4, Zenon DEF AppendAndSend
  <2> HIDE DEF b
  <2>7. bufferReadAbleSize(writeBuf') = k - count
    BY <2>4, <2>5, <2>6, SentFirst
  <2>8. count \in Nat /\ count <= k
    BY <1>1, <2>5, <2>6
  <2>9. PICK z \in Nat, m \in Nat, e \in Nat : z = 0 /\ m = n + count /\ e = n + k
    <3>1. 0 \in Nat /\ n + count \in Nat /\ n + k \in Nat
      BY <1>1, <2>8
    <3> QED BY <3>1
  <2>10. /\ z <= count /\ n <= e /\ count <= e - n /\ m <= l /\ n <= m /\ e <= l
         /\ n + z + 1 = n + 1 /\ z + 1 = 1
    BY <1>1, <2>8, <2>9
  <2>11. SubSeq(items, 1, count) = SubSeq(w, n + 1, m)
    <3>1. SubSeq(SubSeq(w, n + 1, e), z + 1, count) = SubSeq(w, n + z + 1, n + count)
      BY <1>1, <2>8, <2>9, <2>10, PieceOfPiece
    <3> QED BY <1>1, <2>9, <2>10, <3>1
  <2>12. SubSeq(w, 1, n) \o SubSeq(w, n + 1, m) = SubSeq(w, 1, m)
    BY <1>1, <2>9, <2>10, FrontAndNext, ZenonT(40)
  <2>13. received' = SubSeq(w, 1, m)
    BY <1>2, <2>1, <2>5, <2>6, <2>11, <2>12
  <2>14. m \in 0..Len(w)
    BY <1>1, <2>9, <2>10
  <2>15. peer' # "reset" => m = n + Len(items) /\ bufferReadAbleSize(writeBuf') = 0
    <3>1. SUFFICES ASSUME peer' # "reset"
                   PROVE  m = n + Len(items) /\ bufferReadAbleSize(writeBuf') = 0
      OBVIOUS
    <3>2. ~ (count < k)
      BY <2>5, <2>6, <3>1
    <3>3. count = k
      BY <2>8, <3>2
    <3> QED BY <1>1, <2>7, <2>9, <3>3
  <2> QED BY <2>13, <2>14, <2>15 DEF Sending
<1> QED BY <1>3, <1>4

\* Nothing has been received and nothing is left.
LEMMA NothingSent ==
  ASSUME NEW w \in Seq(Nat), received = <<>>, bufferReadAbleSize(writeBuf) = 0
  PROVE  Sending(w, 0)
<1>1. SubSeq(w, 1, 0) = <<>> /\ 0 \in 0..Len(w)
  BY LenProperties
<1> QED BY <1>1 DEF Sending

\* What is sent of a response is the beginning of it.
LEMMA SendingIsPrefix ==
  ASSUME NEW w \in Seq(Nat), NEW j \in 0..Len(w), received = SubSeq(w, 1, j)
  PROVE  IsPrefix(received, w) /\ (j = Len(w) => received = w)
<1>1. PICK l \in Nat : l = Len(w)
  BY LenProperties
<1>2. j \in Nat /\ j <= l
  BY <1>1
<1>3. Len(received) = j
  BY <1>1, <1>2, FirstOnes
<1>4. SubSeq(received, 1, j) = SubSeq(w, 1, j)
  <2>1. PICK z \in Nat : z = 0 /\ z <= j /\ j <= j - z /\ z + 1 = 1 /\ z + z + 1 = 1 /\ z + j = j
    BY <1>2
  <2>2. SubSeq(SubSeq(w, z + 1, j), z + 1, j) = SubSeq(w, z + z + 1, z + j)
    BY <1>1, <1>2, <2>1, PieceOfPiece
  <2> QED BY <2>1, <2>2
<1>5. SubSeq(w, 1, Len(w)) = w
  BY SubSeqFull
<1> QED BY <1>1, <1>2, <1>3, <1>4, <1>5 DEF IsPrefix

(* The response p is the one to a GET of path in the file system fs.       *)
AnswerTo(p, path, fs) ==
  IF path \notin DOMAIN fs
    THEN p = Response(404, <<TextHtml>>, NotFoundFile, "sendFile")
  ELSE IF fs[path].dir
    THEN p = Response(200, <<TextHtml>>, path, "sendDir")
    ELSE LET type == fs[path].type  length == Len(fs[path].content)
         IN  \E hs \in {<<type, length>>, <<length, type>>} :
               p = Response(200, hs, path, "sendFile")

(* What its sender sends, and all of it.                                   *)
Body(p, fs) ==
  IF p.sendDataFunc = "sendDir"
    THEN <<DirHead>> \o fs[p.fileName].content \o <<DirTail>>
    ELSE IF p.fileName \in DOMAIN fs THEN fs[p.fileName].content ELSE <<>>

Whole(p, fs) == Head_(p) \o Body(p, fs)

\* A page, with one of the headers it may have.
LEMMA PageOf ==
  ASSUME NEW status, NEW hs, NEW h \in hs, NEW content
  PROVE  <<status>> \o h \o <<EmptyLine>> \o content \in Page(status, hs, content)
BY DEF Page

\* The fields of a response.
LEMMA ResponseFields ==
  ASSUME NEW s, NEW h, NEW f, NEW g, NEW p, p = Response(s, h, f, g)
  PROVE  p.status = s /\ p.headers = h /\ p.fileName = f /\ p.sendDataFunc = g
BY DEF Response

\* Such a response is one of those the client may receive.
LEMMA WholeIsResponse ==
  ASSUME NEW p, NEW path, NEW fs, AnswerTo(p, path, fs)
  PROVE  Whole(p, fs) \in ResponsesFor(path, fs)
<1>1. Whole(p, fs) = <<p.status>> \o p.headers \o <<EmptyLine>> \o Body(p, fs)
  BY DEF Whole, Head_
<1>2. CASE path \notin DOMAIN fs
  <2> DEFINE c == IF NotFoundFile \in DOMAIN fs THEN fs[NotFoundFile].content ELSE <<>>
             h == <<TextHtml>>
  <2>1. p = Response(404, h, NotFoundFile, "sendFile")
    BY <1>2 DEF AnswerTo
  <2>2. p.status = 404 /\ p.headers = h /\ p.fileName = NotFoundFile
        /\ p.sendDataFunc = "sendFile"
    BY <2>1, ResponseFields
  <2>3. Body(p, fs) = c
    BY <2>2 DEF Body
  <2>4. ResponsesFor(path, fs) = Page(404, {h}, c)
    BY <1>2 DEF ResponsesFor
  <2> HIDE DEF c, h
  <2>5. <<404>> \o h \o <<EmptyLine>> \o c \in Page(404, {h}, c)
    BY PageOf
  <2> QED BY <1>1, <2>2, <2>3, <2>4, <2>5
<1>3. CASE path \in DOMAIN fs /\ fs[path].dir
  <2> DEFINE c == <<DirHead>> \o fs[path].content \o <<DirTail>>
             h == <<TextHtml>>
  <2>1. p = Response(200, h, path, "sendDir")
    BY <1>3 DEF AnswerTo
  <2>2. p.status = 200 /\ p.headers = h /\ p.fileName = path /\ p.sendDataFunc = "sendDir"
    BY <2>1, ResponseFields
  <2>3. Body(p, fs) = c
    BY <2>2 DEF Body
  <2>4. ResponsesFor(path, fs) = Page(200, {h}, c)
    BY <1>3 DEF ResponsesFor
  <2> HIDE DEF c, h
  <2>5. <<200>> \o h \o <<EmptyLine>> \o c \in Page(200, {h}, c)
    BY PageOf
  <2> QED BY <1>1, <2>2, <2>3, <2>4, <2>5
<1>4. CASE path \in DOMAIN fs /\ ~ fs[path].dir
  <2> DEFINE c == fs[path].content
             t == fs[path].type
             H == {<<t, Len(c)>>, <<Len(c), t>>}
  <2>1. PICK h \in H : p = Response(200, h, path, "sendFile")
    BY <1>4 DEF AnswerTo
  <2>2. p.status = 200 /\ p.headers = h /\ p.fileName = path /\ p.sendDataFunc = "sendFile"
    BY <2>1, ResponseFields
  <2>3. Body(p, fs) = c
    BY <1>4, <2>2 DEF Body
  <2>4. ResponsesFor(path, fs) = Page(200, H, c)
    BY <1>4 DEF ResponsesFor
  <2> HIDE DEF c, H
  <2>5. <<200>> \o h \o <<EmptyLine>> \o c \in Page(200, H, c)
    BY PageOf
  <2> QED BY <1>1, <2>2, <2>3, <2>4, <2>5
<1> QED BY <1>2, <1>3, <1>4

\* processHttpRequest() in both programs finds it, for a GET of a file by its url.
LEMMA GetIsAnswered ==
  ASSUME NEW r, WellFormed(r), IsGet(r.method), NEW q, q.method = r.method, q.url = r.url,
         NEW fs, \A f \in DOMAIN fs : /\ f \in Seq(Nat)
                                      /\ ~ fs[f].dir => HasType(f, fs[f].type),
         NEW p
  PROVE  /\ AnswerTo(processHttpRequest(q, p, fs), r.path, fs)
         /\ AnswerTo(processHttpRequestCpp(q, p, fs), r.path, fs)
<1> DEFINE path == r.path
           t == fs[path].type
           l == Len(fs[path].content)
<1>1. FileOf(decodeMsg(q.url)) = path /\ FileOf(decodeMsgCpp(q.url)) = path
  BY FileIsNamed
<1>2. IsGet(q.method)
  OBVIOUS
<1>3. CASE path \notin DOMAIN fs
  <2>1. /\ processHttpRequest(q, p, fs) = Response(404, <<TextHtml>>, NotFoundFile, "sendFile")
        /\ processHttpRequestCpp(q, p, fs)
             = Response(404, <<TextHtml>>, NotFoundFile, "sendFile")
    BY <1>1, <1>2, <1>3, Zenon DEF processHttpRequest, processHttpRequestCpp
  <2> QED BY <1>3, <2>1 DEF AnswerTo
<1>4. CASE path \in DOMAIN fs /\ fs[path].dir
  <2>1. /\ processHttpRequest(q, p, fs) = Response(200, <<TextHtml>>, path, "sendDir")
        /\ processHttpRequestCpp(q, p, fs) = Response(200, <<TextHtml>>, path, "sendDir")
    BY <1>1, <1>2, <1>4, Zenon DEF processHttpRequest, processHttpRequestCpp
  <2> QED BY <1>4, <2>1 DEF AnswerTo
<1>5. CASE path \in DOMAIN fs /\ ~ fs[path].dir
  <2>1. getFileType(path) = t
    BY <1>5, TypeIsFound
  <2>2. /\ processHttpRequest(q, p, fs)
             = Response(200, <<getFileType(path), l>>, path, "sendFile")
        /\ processHttpRequestCpp(q, p, fs)
             = Response(200, <<l, getFileType(path)>>, path, "sendFile")
    BY <1>1, <1>2, <1>5, Zenon DEF processHttpRequest, processHttpRequestCpp
  <2>3. \A x : AnswerTo(x, path, fs) <=>
          \E hs \in {<<t, l>>, <<l, t>>} : x = Response(200, hs, path, "sendFile")
    BY <1>5, Zenon DEF AnswerTo
  <2> HIDE DEF path, t, l
  <2> QED BY <2>1, <2>2, <2>3 DEF path
<1> QED BY <1>3, <1>4, <1>5

\* One item of a sequence.
LEMMA OneItem ==
  ASSUME NEW s \in Seq(Nat), NEW i \in 1..Len(s)
  PROVE  NextItems(s, i - 1, <<s[i]>>)
<1>1. PICK l \in Nat, a \in Nat, x \in Nat :
        l = Len(s) /\ a = i - 1 /\ x = s[i]
  <2>1. Len(s) \in Nat /\ s[i] \in Nat
    BY LenProperties, ElementOfSeq
  <2>2. i - 1 \in Nat
    BY <2>1
  <2> QED BY <2>1, <2>2
<1>2. a + 1 = i /\ a + 1 <= l /\ a <= a + 1 /\ (a + 1) - a = 1 /\ a + 1 \in Nat
  BY <1>1
<1> DEFINE t == SubSeq(s, a + 1, a + 1)
<1>3. t \in Seq(Nat) /\ Len(t) = 1 /\ \A k \in 1..1 : t[k] = s[a + k]
  BY <1>1, <1>2, Between
<1>4. t[1] = x
  BY <1>1, <1>2, <1>3
<1> HIDE DEF t
<1>5. t = <<x>>
  BY <1>3, <1>4
<1>6. <<x>> \in Seq(Nat) /\ Len(<<x>>) = 1
  OBVIOUS
<1> QED BY <1>1, <1>2, <1>5, <1>6 DEF NextItems, t

\* The first two items.
LEMMA TwoItems ==
  ASSUME NEW s \in Seq(Nat), 2 <= Len(s)
  PROVE  NextItems(s, 0, <<s[1], s[2]>>)
<1>1. PICK l \in Nat, a \in Nat : l = Len(s) /\ a = 0 /\ a + 1 = 1 /\ 2 <= l
  BY LenProperties
<1> DEFINE t == SubSeq(s, 1, 2)
<1>2. t \in Seq(Nat) /\ Len(t) = 2 /\ \A k \in 1..2 : t[k] = s[k]
  BY <1>1, FirstOnes
<1>3. 1 \in 1..Len(s) /\ 2 \in 1..Len(s) /\ 1 \in 1..2 /\ 2 \in 1..2
  BY <1>1
<1>4. PICK x \in Nat, y \in Nat : x = s[1] /\ y = s[2]
  BY <1>3, ElementOfSeq
<1>5. t[1] = x /\ t[2] = y
  BY <1>2, <1>3, <1>4
<1> HIDE DEF t
<1>6. t = <<x, y>>
  BY <1>2, <1>5
<1>7. <<x, y>> \in Seq(Nat) /\ Len(<<x, y>>) = 2
  OBVIOUS
<1>8. 0 + 1 = 1 /\ 0 + 2 = 2
  OBVIOUS
<1> QED BY <1>1, <1>4, <1>6, <1>7, <1>8 DEF NextItems, t

\* Items of the second of two sequences.
LEMMA ItemsBehind ==
  ASSUME NEW s \in Seq(Nat), NEW t, NEW n, NEW items, NextItems(t, n, items)
  PROVE  NextItems(s \o t, Len(s) + n, items)
<1>1. PICK a \in Nat, l \in Nat, k \in Nat :
        /\ a = Len(s) /\ l = Len(t) /\ k = Len(items)
        /\ t \in Seq(Nat) /\ items \in Seq(Nat) /\ n \in Nat /\ n + k <= l
        /\ SubSeq(t, n + 1, n + k) = items
  BY LenProperties DEF NextItems
<1>2. PICK u \in Seq(Nat), e \in Nat, d \in Nat :
        u = s \o t /\ e = a + l /\ Len(u) = e /\ d = n + k
  <2>1. s \o t \in Seq(Nat) /\ Len(s \o t) = Len(s) + Len(t)
    BY <1>1, ConcatProperties
  <2>2. a + l \in Nat /\ n + k \in Nat
    BY <1>1
  <2> QED BY <1>1, <2>1, <2>2
<1>3. SubSeq(u, a + 1, e) = t
  BY <1>1, <1>2, EndOfTwo
<1>4. SubSeq(SubSeq(u, a + 1, e), n + 1, d) = SubSeq(u, a + n + 1, a + d)
  <2>1. a <= e /\ e <= Len(u) /\ n <= d /\ d <= e - a
    BY <1>1, <1>2
  <2>2. PICK c \in Nat : c = n
    BY <1>1
  <2>3. c <= d /\ d <= e - a
    BY <2>1, <2>2
  <2>4. SubSeq(SubSeq(u, a + 1, e), c + 1, d) = SubSeq(u, a + c + 1, a + d)
    BY <2>1, <2>3, PieceOfPiece
  <2> QED BY <2>2, <2>4
<1>5. PICK m \in Nat : m = a + n /\ m + k = a + d /\ m + k <= e
  <2>1. a + n \in Nat /\ (a + n) + k = a + d /\ (a + n) + k <= e
    BY <1>1, <1>2
  <2> QED BY <2>1
<1>6. SubSeq(u, m + 1, m + k) = items
  BY <1>1, <1>2, <1>3, <1>4, <1>5
<1> QED BY <1>1, <1>2, <1>5, <1>6 DEF NextItems

\* The items of a directory: the title, its rows, the end of the page.
LEMMA DirItems ==
  ASSUME NEW c \in Seq(Nat), NEW x \in Nat, NEW y \in Nat, NEW d, d = <<x>> \o c \o <<y>>
  PROVE  /\ d \in Seq(Nat) /\ Len(d) = Len(c) + 2
         /\ d[1] = x /\ d[Len(c) + 2] = y
         /\ \A i \in 1..Len(c) : d[i + 1] = c[i]
<1>1. PICK l \in Nat : l = Len(c)
  BY LenProperties
<1>2. PICK a \in Seq(Nat), b \in Seq(Nat) :
        a = <<x>> /\ b = <<y>> /\ Len(a) = 1 /\ Len(b) = 1 /\ a[1] = x /\ b[1] = y
  <2>1. <<x>> \in Seq(Nat) /\ Len(<<x>>) = 1 /\ <<x>>[1] = x
    OBVIOUS
  <2>2. <<y>> \in Seq(Nat) /\ Len(<<y>>) = 1 /\ <<y>>[1] = y
    OBVIOUS
  <2> QED BY <2>1, <2>2, Zenon
<1>3. PICK e \in Seq(Nat) : /\ e = a \o c /\ Len(e) = 1 + l
                            /\ \A i \in 1..1 + l : e[i] = IF i <= 1 THEN a[i] ELSE c[i - 1]
  <2>1. /\ a \o c \in Seq(Nat) /\ Len(a \o c) = Len(a) + Len(c)
        /\ \A i \in 1..Len(a) + Len(c) :
             (a \o c)[i] = IF i <= Len(a) THEN a[i] ELSE c[i - Len(a)]
    BY ConcatProperties
  <2> QED BY <1>1, <1>2, <2>1
<1>4. /\ e \o b \in Seq(Nat) /\ Len(e \o b) = (1 + l) + 1
      /\ \A i \in 1..(1 + l) + 1 : (e \o b)[i] = IF i <= 1 + l THEN e[i] ELSE b[i - (1 + l)]
  BY <1>2, <1>3, ConcatProperties
<1>5. d = e \o b
  BY <1>2, <1>3
<1>6. (1 + l) + 1 = l + 2
  OBVIOUS
<1>7. d[1] = x
  <2>1. 1 \in 1..(1 + l) + 1 /\ 1 \in 1..1 + l /\ 1 <= 1 + l /\ 1 <= 1
    OBVIOUS
  <2> QED BY <1>2, <1>3, <1>4, <1>5, <2>1
<1>8. d[l + 2] = y
  <2>1. l + 2 \in 1..(1 + l) + 1 /\ ~ (l + 2 <= 1 + l) /\ l + 2 - (1 + l) = 1
    OBVIOUS
  <2> QED BY <1>2, <1>4, <1>5, <2>1
<1>9. ASSUME NEW i \in 1..l PROVE d[i + 1] = c[i]
  <2>1. /\ i + 1 \in 1..(1 + l) + 1 /\ i + 1 \in 1..1 + l /\ i + 1 <= 1 + l
        /\ ~ (i + 1 <= 1) /\ (i + 1) - 1 = i
    OBVIOUS
  <2> QED BY <1>3, <1>4, <1>5, <2>1
<1> QED BY <1>1, <1>4, <1>5, <1>6, <1>7, <1>8, <1>9

(* The file systems the response may be of.                                *)
Seen == {files} \cup (IF gone THEN {Disk} ELSE {})

(* How much of it has been sent where the sender is.                       *)
Stage(fs) ==
  LET head == Len(Head_(resp))
  IN  /\ pc = "open" => Sending(Whole(resp, fs), head)
      /\ pc = "sendFile" =>
           /\ resp.sendDataFunc = "sendFile" /\ Served /\ row <= Len(Content) + 1
           /\ Sending(Whole(resp, fs), head + (row - 1))
      /\ pc = "sendDir" =>
           /\ resp.sendDataFunc = "sendDir" /\ Served /\ row <= Len(Content) + 1
           /\ Sending(Whole(resp, fs), head + (IF row = 1 THEN 0 ELSE row))

(* A response is on its way.                                               *)
Serving == \E fs \in Seen : AnswerTo(resp, request.path, fs) /\ Stage(fs)

(* No more of it will be sent.                                             *)
Ended ==
  \E w \in Acceptable :
    /\ w \in Seq(Nat)
    /\ \E j \in 0..Len(w) : /\ received = SubSeq(w, 1, j)
                            /\ pc = "delete" /\ peer # "reset" => j = Len(w)

SendInv ==
  /\ pc \in {"idle", "parse", "respond"} => received = <<>> /\ writeBuf = initBuffer(Capacity)
  /\ Get /\ pc \in {"open", "sendFile", "sendDir"} => Serving
  /\ Get /\ pc \notin {"idle", "parse", "respond", "open", "sendFile", "sendDir"} => Ended

\* The files of a file system that was seen are files of the one given.
LEMMA SeenFiles ==
  ASSUME HttpInv, NEW fs \in Seen
  PROVE  \A f \in DOMAIN fs :
           /\ f \in DOMAIN files /\ fs[f] = files[f]
           /\ f \in Seq(Nat) /\ fs[f].content \in Seq(Nat)
           /\ fs[f].dir => fs[f].content # <<>>
           /\ ~ fs[f].dir => HasType(f, fs[f].type)
<1>1. \A f \in DOMAIN files :
           /\ f \in Seq(Nat) /\ files[f].content \in Seq(Nat)
           /\ files[f].dir => files[f].content # <<>>
           /\ ~ files[f].dir => HasType(f, files[f].type)
  BY FilesAssumption DEF HttpInv, InputInv
<1>2. CASE fs = files
  BY <1>1, <1>2
<1>3. CASE fs = Disk
  <2> DEFINE D == DOMAIN files \ (IF gone THEN {request.path} ELSE {})
  <2>1. D \subseteq DOMAIN files
    BY Zenon
  <2>2. fs = [p \in D |-> files[p]]
    BY <1>3 DEF Disk
  <2> HIDE DEF D
  <2>3. DOMAIN fs = D /\ \A f \in D : fs[f] = files[f]
    BY <2>2
  <2> QED BY <1>1, <2>1, <2>3
<1> QED BY <1>2, <1>3 DEF Seen

\* A file that is served is there in any of them, once the answer names it.
LEMMA ServedFiles ==
  ASSUME Served, NEW fs \in Seen
  PROVE  /\ resp.fileName \in DOMAIN fs /\ fs[resp.fileName] = files[resp.fileName]
         /\ Content = fs[resp.fileName].content
<1> DEFINE D == DOMAIN files \ (IF gone THEN {request.path} ELSE {})
           f == resp.fileName
<1>1. D \subseteq DOMAIN files
  BY Zenon
<1>2. Disk = [p \in D |-> files[p]]
  BY DEF Disk
<1> HIDE DEF D
<1>3. DOMAIN Disk = D /\ \A p \in D : Disk[p] = files[p]
  BY <1>2
<1>4. f \in D
  BY <1>3 DEF Served
<1>5. f \in DOMAIN fs /\ fs[f] = files[f]
  BY <1>1, <1>3, <1>4 DEF Seen
<1>6. Content = files[f].content
  BY DEF Content
<1> QED BY <1>5, <1>6

\* The response in one of them is acceptable.
LEMMA SeenIsAcceptable ==
  ASSUME NEW fs \in Seen, NEW p, AnswerTo(p, request.path, fs)
  PROVE  Whole(p, fs) \in Acceptable
<1>1. Whole(p, fs) \in ResponsesFor(request.path, fs)
  BY WholeIsResponse
<1> QED BY <1>1, Zenon DEF Seen, Acceptable

\* Such a response consists of numbers.
LEMMA WholeIsBytes ==
  ASSUME HttpInv, NEW fs \in Seen, NEW p, Printable(p), AnswerTo(p, request.path, fs)
  PROVE  Head_(p) \in Seq(Nat) /\ Body(p, fs) \in Seq(Nat) /\ Whole(p, fs) \in Seq(Nat)
<1>1. Head_(p) \in Seq(Nat)
  BY HeadIsBytes
<1>2. \A f \in DOMAIN fs : fs[f].content \in Seq(Nat)
  BY SeenFiles
<1>3. CASE p.sendDataFunc = "sendDir"
  <2>1. p.fileName \in DOMAIN fs
    <3>1. request.path \in DOMAIN fs /\ fs[request.path].dir
      <4>1. \A s, h, f : p # Response(s, h, f, "sendFile")
        BY <1>3 DEF Response
      <4> QED BY <4>1, Zenon DEF AnswerTo
    <3>2. p = Response(200, <<TextHtml>>, request.path, "sendDir")
      BY <3>1 DEF AnswerTo
    <3>3. p.fileName = request.path
      BY <3>2, ResponseFields
    <3> QED BY <3>1, <3>3
  <2>2. PICK c \in Seq(Nat) : c = fs[p.fileName].content
    BY <1>2, <2>1
  <2>3. DirHead \in Nat /\ DirTail \in Nat
    BY DEF DirHead, DirTail
  <2>4. <<DirHead>> \o c \o <<DirTail>> \in Seq(Nat)
    BY <2>3, DirItems
  <2> QED BY <1>1, <1>3, <2>2, <2>4, ConcatProperties DEF Body, Whole
<1>4. CASE p.sendDataFunc # "sendDir"
  <2>1. <<>> \in Seq(Nat)
    OBVIOUS
  <2>2. Body(p, fs) \in Seq(Nat)
    BY <1>2, <1>4, <2>1 DEF Body
  <2> QED BY <1>1, <2>2, ConcatProperties DEF Whole
<1> QED BY <1>3, <1>4

\* A GET that has been read has an acceptable response.
LEMMA SomeResponse ==
  ASSUME HttpInv, Get
  PROVE  \E w \in Acceptable : w \in Seq(Nat)
<1> DEFINE q == [method |-> request.method, url |-> request.url]
           p == processHttpRequest(q, initHttpResponse, files)
<1>1. q.method = request.method /\ q.url = request.url
  OBVIOUS
<1> HIDE DEF q
<1>2. WellFormed(request) /\ IsGet(request.method)
  BY ReadRequest DEF Get
<1>3. files \in Seen
  BY DEF Seen
<1>4. AnswerTo(p, request.path, files)
  BY <1>1, <1>2, <1>3, SeenFiles, GetIsAnswered
<1>5. Printable(p)
  <2>1. Printable(initHttpResponse)
    BY DEF Printable, initHttpResponse
  <2> QED BY <1>3, <2>1, SeenFiles, ProcessIsPrintable
<1> HIDE DEF p
<1> QED BY <1>3, <1>4, <1>5, SeenIsAcceptable, WholeIsBytes

\* What is being sent is still being sent when nothing moves but the client's end.
LEMMA StillSending ==
  ASSUME NEW w, NEW n, Sending(w, n), UNCHANGED <<received, writeBuf>>,
         peer' # "reset" => peer # "reset"
  PROVE  Sending(w, n)'
BY DEF Sending

\* Nothing has been sent: the connection may end there.
LEMMA EndsUnsent == HttpInv /\ Get /\ received = <<>> /\ pc # "delete" => Ended
<1> SUFFICES ASSUME HttpInv, Get, received = <<>>, pc # "delete" PROVE Ended
  OBVIOUS
<1>1. PICK w \in Acceptable : w \in Seq(Nat)
  BY SomeResponse
<1>2. SubSeq(w, 1, 0) = <<>> /\ 0 \in 0..Len(w)
  BY <1>1, LenProperties
<1> QED BY <1>1, <1>2 DEF Ended

\* A new connection has sent nothing.
LEMMA InitSend == Init => SendInv
BY DEF Init, initTcpConnection, SendInv

\* A step of the environment, or none, but the removal of the file.
LEMMA SameSend ==
  ASSUME SendInv,
         UNCHANGED <<impl, request, files, taken, gone, pc, writeBuf, resp, row, received>>,
         peer' # "reset" => peer # "reset"
  PROVE  SendInv'
<1>1. Get' <=> Get
  BY DEF Get, HeadRead
<1>2. Disk' = Disk /\ Seen' = Seen /\ Acceptable' = Acceptable
  BY DEF Disk, Seen, Acceptable
<1>3. Served' <=> Served
  BY <1>2 DEF Served
<1>4. Content' = Content
  BY <1>3 DEF Content
<1>5. ASSUME Serving PROVE Serving'
  <2>1. PICK fs \in Seen : AnswerTo(resp, request.path, fs) /\ Stage(fs)
    BY <1>5 DEF Serving
  <2>2. PICK w, n : w = Whole(resp, fs) /\ n = Len(Head_(resp))
    OBVIOUS
  <2>3. Whole(resp, fs)' = w /\ Len(Head_(resp))' = n /\ (AnswerTo(resp, request.path, fs))'
    BY <2>1, <2>2 DEF Whole, Head_, Body, AnswerTo
  <2>4. \A m : Sending(w, m) => Sending(w, m)'
    BY StillSending
  <2>5. Stage(fs)'
    BY <1>3, <1>4, <2>1, <2>2, <2>3, <2>4 DEF Stage
  <2> QED BY <1>2, <2>1, <2>3, <2>5 DEF Serving
<1>6. ASSUME Ended PROVE Ended'
  BY <1>2, <1>6 DEF Ended
<1> QED BY <1>1, <1>5, <1>6 DEF SendInv

\* The file is removed: until it is opened, the response may still be the one it was.
LEMMA UnlinkSend ==
  ASSUME SendInv, Unlink
  PROVE  SendInv'
<1>1. /\ UNCHANGED <<impl, request, files, taken, peer, pc, writeBuf, resp, row, received>>
      /\ pc \in {"idle", "parse", "respond", "open"}
  BY DEF Unlink, env
<1>2. ~ gone
  <2>1. SUFFICES ASSUME gone PROVE FALSE
    OBVIOUS
  <2>2. request.path \in DOMAIN Disk /\ DOMAIN Disk = DOMAIN files \ {request.path}
    BY <2>1 DEF Unlink, Disk
  <2> QED BY <2>2
<1>3. Get' => Get
  BY <1>1, <1>2 DEF Get, HeadRead
<1>4. ASSUME Serving, pc = "open" PROVE Serving'
  <2>1. PICK fs \in {files} : AnswerTo(resp, request.path, fs) /\ Stage(fs)
    BY <1>2, <1>4 DEF Serving, Seen
  <2>2. fs \in Seen'
    BY <1>1 DEF Seen
  <2>3. PICK w, n : w = Whole(resp, fs) /\ n = Len(Head_(resp))
    OBVIOUS
  <2>4. Whole(resp, fs)' = w /\ Len(Head_(resp))' = n /\ (AnswerTo(resp, request.path, fs))'
    BY <1>1, <2>1, <2>3 DEF Whole, Head_, Body, AnswerTo
  <2>5. Sending(w, n)'
    <3>1. Sending(w, n)
      BY <1>4, <2>1, <2>3 DEF Stage
    <3> QED BY <1>1, <3>1, StillSending
  <2>6. Stage(fs)'
    BY <1>1, <1>4, <2>4, <2>5 DEF Stage
  <2> QED BY <2>2, <2>4, <2>6 DEF Serving
<1> QED BY <1>1, <1>3, <1>4 DEF SendInv

\* A step in front of the head of the response: nothing is sent.
LEMMA EarlySend ==
  ASSUME SendInv, HttpInv', pc \in {"idle", "parse", "respond"}, UNCHANGED received,
         pc' \in {"idle", "parse", "respond"} => UNCHANGED writeBuf,
         pc' \in {"idle", "parse", "respond", "crashed"} \/ (pc' = "delete" /\ ~ Get')
  PROVE  SendInv'
<1>1. received' = <<>> /\ writeBuf = initBuffer(Capacity)
  BY DEF SendInv
<1>2. pc' = "crashed" /\ Get' => Ended'
  <2>1. (HttpInv /\ Get /\ received = <<>> /\ pc # "delete" => Ended)'
    BY EndsUnsent, PTL
  <2> QED BY <1>1, <2>1
<1> QED BY <1>1, <1>2 DEF SendInv

\* The file system of the moment is what is left of the one given.
LEMMA DiskIsPart ==
  /\ \A f \in DOMAIN Disk : f \in DOMAIN files /\ Disk[f] = files[f]
  /\ ~ gone => DOMAIN Disk = DOMAIN files
<1> DEFINE D == DOMAIN files \ (IF gone THEN {request.path} ELSE {})
<1>1. D \subseteq DOMAIN files
  BY Zenon
<1>2. ~ gone => D = DOMAIN files
  BY Zenon
<1>3. Disk = [p \in D |-> files[p]]
  BY DEF Disk
<1> HIDE DEF D
<1>4. DOMAIN Disk = D /\ \A f \in D : Disk[f] = files[f]
  BY <1>3
<1> QED BY <1>1, <1>2, <1>4

\* processHttpRequest() answers from the file system of the moment.
LEMMA AnsweredFromDisk ==
  ASSUME HttpInv, ParseInv, Get, pc = "respond", NEW p,
         \/ p = processHttpRequest(req, resp, Disk)
         \/ p = processHttpRequestCpp(req, resp, Disk)
  PROVE  \E fs \in Seen : AnswerTo(p, request.path, fs)
<1>1. WellFormed(request) /\ IsGet(request.method) /\ Len(request.headers) \in Nat /\ HeadRead
  BY ReadRequest DEF Get
<1>2. req.method = request.method /\ req.url = request.url
  <2>1. Parsed(Len(request.headers) + 1)
    BY <1>1 DEF ParseInv
  <2>2. ~ (Len(request.headers) + 1 = 0)
    BY <1>1
  <2> QED BY <2>1, <2>2 DEF Parsed
<1>3. files \in Seen
  BY DEF Seen
<1>4. \A f \in DOMAIN Disk : f \in Seq(Nat) /\ (~ Disk[f].dir => HasType(f, Disk[f].type))
  BY <1>3, SeenFiles, DiskIsPart
<1>5. AnswerTo(p, request.path, Disk)
  <2>1. PICK fs : fs = Disk
    OBVIOUS
  <2>2. \A f \in DOMAIN fs : f \in Seq(Nat) /\ (~ fs[f].dir => HasType(f, fs[f].type))
    BY <1>4, <2>1
  <2>3. /\ AnswerTo(processHttpRequest(req, resp, fs), request.path, fs)
        /\ AnswerTo(processHttpRequestCpp(req, resp, fs), request.path, fs)
    BY <1>1, <1>2, <2>2, GetIsAnswered
  <2> QED BY <2>1, <2>3
<1>6. CASE gone
  BY <1>5, <1>6 DEF Seen
<1>7. CASE ~ gone
  <2>1. AnswerTo(p, request.path, files)
    BY <1>5, <1>7, DiskIsPart DEF AnswerTo
  <2> QED BY <1>3, <2>1
<1> QED BY <1>6, <1>7

\* A response to a GET has a status and a sender.
LEMMA AnswerIsFilled ==
  ASSUME NEW p, NEW path, NEW fs, AnswerTo(p, path, fs)
  PROVE  /\ p.status # 0 /\ p.sendDataFunc \in {"sendFile", "sendDir"}
         /\ p.sendDataFunc = "sendDir" =>
              path \in DOMAIN fs /\ fs[path].dir /\ p.fileName = path
<1>1. CASE path \notin DOMAIN fs
  <2>1. p = Response(404, <<TextHtml>>, NotFoundFile, "sendFile")
    BY <1>1 DEF AnswerTo
  <2>2. p.status = 404 /\ p.sendDataFunc = "sendFile"
    BY <2>1, ResponseFields
  <2> QED BY <2>2
<1>2. CASE path \in DOMAIN fs /\ fs[path].dir
  <2>1. p = Response(200, <<TextHtml>>, path, "sendDir")
    BY <1>2 DEF AnswerTo
  <2>2. p.status = 200 /\ p.sendDataFunc = "sendDir" /\ p.fileName = path
    BY <2>1, ResponseFields
  <2> QED BY <1>2, <2>2
<1>3. CASE path \in DOMAIN fs /\ ~ fs[path].dir
  <2>1. PICK h : p = Response(200, h, path, "sendFile")
    BY <1>3, Zenon DEF AnswerTo
  <2>2. p.status = 200 /\ p.sendDataFunc = "sendFile"
    BY <2>1, ResponseFields
  <2> QED BY <2>2
<1> QED BY <1>1, <1>2, <1>3

\* The head of the response goes out.
LEMMA PrepareSend ==
  ASSUME HttpInv, ParseInv, SendInv, prepareMsgHttpResponse \/ prepareMsg
  PROVE  SendInv'
<1>1. /\ UNCHANGED <<impl, request, files, taken, gone>> /\ pc = "respond"
      /\ pc' \in {"open", "crashed"}
  BY DEF prepareMsgHttpResponse, prepareMsg, env
<1>2. Get' <=> Get
  BY <1>1 DEF Get, HeadRead
<1>3. SUFFICES ASSUME Get PROVE pc' = "open" /\ Serving'
  BY <1>1, <1>2 DEF SendInv
<1>4. \/ resp' = processHttpRequest(req, resp, Disk)
      \/ resp' = processHttpRequestCpp(req, resp, Disk)
  BY DEF prepareMsgHttpResponse, prepareMsg
<1>5. PICK fs \in Seen : AnswerTo(resp', request.path, fs)
  BY <1>1, <1>3, <1>4, AnsweredFromDisk
<1>6. resp'.status # 0 /\ resp'.sendDataFunc # "NULL"
  BY <1>5, AnswerIsFilled
<1>7. pc' = "open" /\ AppendAndSend(Head_(resp'))
  BY <1>6 DEF prepareMsgHttpResponse, prepareMsg
<1>8. PICK p : p = resp'
  OBVIOUS
<1>9. Printable(p)
  <2>1. HttpInv'
    BY PrepareHttp
  <2> QED BY <1>8, <2>1 DEF HttpInv, OutputInv, Printable
<1>10. PICK head \in Seq(Nat), body \in Seq(Nat), w \in Seq(Nat) :
         head = Head_(p) /\ body = Body(p, fs) /\ w = Whole(p, fs) /\ w = head \o body
  BY <1>5, <1>8, <1>9, WholeIsBytes DEF Whole
<1>11. NextItems(w, 0, head)
  <2>1. PICK k \in Nat, l \in Nat : k = Len(head) /\ l = Len(body)
    BY LenProperties
  <2>2. Len(w) = k + l
    BY <1>10, <2>1, ConcatProperties
  <2>3. SubSeq(w, 1, k) = SubSeq(head, 1, k)
    <3>1. k <= Len(head)
      BY <2>1
    <3> QED BY <1>10, <3>1, FrontOfTwo
  <2>4. SubSeq(head, 1, k) = head
    BY <2>1, SubSeqFull
  <2>5. 0 + 1 = 1 /\ 0 + k = k /\ 0 + k <= k + l /\ 0 \in Nat
    BY <2>1
  <2> QED BY <2>1, <2>2, <2>3, <2>4, <2>5 DEF NextItems
<1>12. Sending(w, 0)
  <2>1. received = <<>> /\ writeBuf = initBuffer(Capacity)
    BY <1>1 DEF SendInv
  <2>2. bufferReadAbleSize(writeBuf) = 0
    BY <2>1, SizesAssumption, NewIsEmpty
  <2> QED BY <2>1, <2>2, NothingSent
<1>13. PICK n \in Nat : n = Len(head) /\ 0 + n = n
  BY LenProperties
<1>14. Sending(w, n)'
  <2>1. AppendAndSend(head)
    BY <1>7, <1>8, <1>10
  <2>2. Sending(w, 0 + Len(head))'
    BY <1>11, <1>12, <2>1, ItemsAreSent
  <2> QED BY <1>13, <2>2
<1>15. Stage(fs)'
  <2>1. Whole(resp, fs)' = w /\ Len(Head_(resp))' = n
    BY <1>8, <1>10, <1>13 DEF Whole, Head_, Body
  <2> QED BY <1>7, <1>14, <2>1 DEF Stage
<1>16. fs \in Seen' /\ AnswerTo(resp, request.path, fs)'
  <2>1. Disk' = Disk
    BY <1>1 DEF Disk
  <2>2. Seen' = Seen
    BY <1>1, <2>1 DEF Seen
  <2> QED BY <1>1, <1>5, <2>2 DEF AnswerTo
<1> QED BY <1>7, <1>15, <1>16 DEF Serving

\* The head of a request has some bytes.
LEMMA HeadHasBytes == HttpInv /\ HeadRead => taken # 0
<1> SUFFICES ASSUME HttpInv, HeadRead PROVE taken # 0
  OBVIOUS
<1>1. PICK n \in Nat : n = Len(request.headers) /\ n + 1 \in 0..n + 1 /\ (n + 1) + 1 = n + 2
  BY ReadRequest
<1> DEFINE A == LineAt(request)
           l == Line(request, n + 1)
<1>2. WellFormed(request) /\ request.sent \in Seq(Nat) /\ taken \in Nat
      /\ taken >= Len(request.sent) - Len(request.body)
  BY ReadRequest
<1>3. /\ A[n + 1] \in Nat /\ A[(n + 1) + 1] = A[n + 1] + Len(l) + 2
      /\ Len(request.sent) - Len(request.body) = A[n + 2]
  BY <1>1, <1>2, LineIsSent
<1>4. Len(l) \in Nat
  BY <1>1, <1>2, LinesAreBytes
<1>5. A[n + 2] = A[n + 1] + Len(l) + 2
  <2> HIDE DEF A, l
  <2> QED BY <1>1, <1>3
<1>6. PICK a \in Nat, k \in Nat :
        /\ a = A[n + 1] /\ k = Len(l)
        /\ Len(request.sent) - Len(request.body) = a + k + 2
  <2> HIDE DEF A, l
  <2> QED BY <1>3, <1>4, <1>5
<1> HIDE DEF A, l
<1>7. taken >= a + k + 2
  BY <1>2, <1>6
<1> QED BY <1>2, <1>7

\* The read.
LEMMA ReadSend ==
  ASSUME HttpInv, ParseInv, SendInv, processRead_c \/ processRead_cpp
  PROVE  SendInv'
<1>1. /\ pc = "idle" /\ UNCHANGED <<received, writeBuf>>
      /\ pc' \in {"idle", "parse", "crashed"} \/ (pc' = "delete" /\ UNCHANGED taken)
  <2>1. CASE processRead_c
    BY <2>1 DEF processRead_c
  <2>2. CASE processRead_cpp
    <3>1. \/ pc' \in {"parse", "crashed"}
          \/ pc' = "delete" /\ UNCHANGED taken
      BY <2>2 DEF processRead_cpp
    <3> QED BY <2>2, <3>1 DEF processRead_cpp
  <2> QED BY <2>1, <2>2
<1>2. HttpInv'
  BY ReadHttp
<1>3. UNCHANGED taken => ~ Get'
  <2>1. (HttpInv /\ HeadRead => taken # 0)'
    BY HeadHasBytes, PTL
  <2>2. taken = 0
    BY <1>1 DEF ParseInv
  <2> QED BY <1>2, <2>1, <2>2 DEF Get
<1> QED BY <1>1, <1>2, <1>3, EarlySend

\* The parser fails on no line of a request that was meant to be one.
LEMMA ParserGoesOn ==
  ASSUME HttpInv, ParseInv, HeadRead, parseHttpRequest_c \/ parseHttpRequest_cpp
  PROVE  pc' # "delete"
<1>1. taken <= Len(request.sent) /\ pc = "parse"
  BY ParserTakes DEF ParseInv
<1>2. PICK k \in 0..Len(request.headers) + 1 : AtLine(k)
  BY <1>1 DEF ParseInv
<1>3. CASE k = 0
  <2>1. AtLine(0)
    BY <1>2, <1>3
  <2> QED BY <1>1, <2>1, FirstLineParsed
<1>4. CASE k \in 1..Len(request.headers)
  BY <1>1, <1>2, <1>4, HeaderParsed
<1>5. CASE k = Len(request.headers) + 1
  <2>1. AtLine(Len(request.headers) + 1)
    BY <1>2, <1>5
  <2> QED BY <1>1, <2>1, EmptyLineParsed
<1>6. k = 0 \/ k \in 1..Len(request.headers) \/ k = Len(request.headers) + 1
  BY <1>2, ReadRequest
<1> QED BY <1>3, <1>4, <1>5, <1>6

\* The parsers.
LEMMA ParseSend ==
  ASSUME HttpInv, ParseInv, SendInv, parseHttpRequest_c \/ parseHttpRequest_cpp
  PROVE  SendInv'
<1>1. /\ UNCHANGED <<impl, request, taken>> /\ pc = "parse"
      /\ pc' \in {"crashed", "delete", "respond", "parse"}
  BY ParserTakes
<1>2. /\ UNCHANGED received
      /\ pc' \in {"idle", "parse", "respond"} => UNCHANGED writeBuf
  <2>1. CASE parseHttpRequest_c
    BY <2>1 DEF parseHttpRequest_c
  <2>2. CASE parseHttpRequest_cpp
    <3>1. PICK o : /\ pc' = IF o.flag = "crash" THEN "crashed"
                            ELSE IF o.flag = "false" THEN "delete"
                            ELSE IF o.req.curState = "ParseReqDone" THEN "respond" ELSE "parse"
                   /\ writeBuf' = IF o.flag = "false" THEN appendString(writeBuf, <<BadRequest>>)
                                                      ELSE writeBuf
      BY <2>2 DEF parseHttpRequest_cpp
    <3>2. CASE o.flag = "false"
      <4>1. o.flag # "crash"
        BY <3>2
      <4>2. pc' = "delete"
        BY <3>1, <3>2, <4>1
      <4> QED BY <2>2, <4>2 DEF parseHttpRequest_cpp
    <3>3. CASE o.flag # "false"
      BY <2>2, <3>1, <3>3 DEF parseHttpRequest_cpp
    <3> QED BY <3>2, <3>3
  <2> QED BY <2>1, <2>2
<1>3. HttpInv'
  BY ParseHttp
<1>4. pc' = "delete" => ~ Get'
  BY <1>1, ParserGoesOn DEF Get, HeadRead
<1> QED BY <1>1, <1>2, <1>3, <1>4, EarlySend

\* The connection ends with this much of a response sent.
LEMMA EndedThere ==
  ASSUME NEW w \in Acceptable, w \in Seq(Nat), UNCHANGED <<request, files, gone>>,
         NEW n, Sending(w, n)', pc' = "delete" => n = Len(w)
  PROVE  Ended'
<1>1. Disk' = Disk
  BY DEF Disk
<1>2. Acceptable' = Acceptable
  BY <1>1 DEF Acceptable
<1> QED BY <1>2 DEF Ended, Sending

\* A response that is being sent, in its parts.
LEMMA ServingParts ==
  ASSUME HttpInv, Serving
  PROVE  \E fs \in Seen, head \in Seq(Nat), body \in Seq(Nat), w \in Seq(Nat) :
           /\ AnswerTo(resp, request.path, fs) /\ Stage(fs)
           /\ head = Head_(resp) /\ body = Body(resp, fs) /\ w = Whole(resp, fs)
           /\ w = head \o body /\ w \in Acceptable
           /\ Len(head) \in Nat /\ Len(body) \in Nat /\ Len(w) = Len(head) + Len(body)
<1>1. PICK fs \in Seen : AnswerTo(resp, request.path, fs) /\ Stage(fs)
  BY DEF Serving
<1>2. Printable(resp)
  BY DEF HttpInv, OutputInv
<1>3. PICK head \in Seq(Nat), body \in Seq(Nat), w \in Seq(Nat) :
        head = Head_(resp) /\ body = Body(resp, fs) /\ w = Whole(resp, fs) /\ w = head \o body
  BY <1>1, <1>2, WholeIsBytes DEF Whole
<1>4. w \in Acceptable
  BY <1>1, <1>3, SeenIsAcceptable
<1>5. Len(head) \in Nat /\ Len(body) \in Nat /\ Len(w) = Len(head) + Len(body)
  BY <1>3, LenProperties, ConcatProperties
<1> QED BY <1>1, <1>3, <1>4, <1>5

\* The response goes on: the head and w are what they were.
LEMMA GoesOn ==
  ASSUME NEW fs \in Seen, AnswerTo(resp, request.path, fs),
         UNCHANGED <<request, files, gone, resp>>, Stage(fs)'
  PROVE  Serving'
<1>1. Disk' = Disk
  BY DEF Disk
<1>2. Seen' = Seen
  BY <1>1 DEF Seen
<1> QED BY <1>2, ZenonT(40) DEF Serving, AnswerTo

\* The senders begin: the file is there, and the directory always is.
LEMMA OpenSend ==
  ASSUME HttpInv, SendInv, sendFile_open \/ sendDir_open
  PROVE  SendInv'
<1>1. /\ UNCHANGED <<impl, request, files, taken, peer, gone, writeBuf, resp, received>>
      /\ pc = "open" /\ row' = 1
  BY DEF sendFile_open, sendDir_open, env
<1>2. Get' <=> Get
  BY <1>1 DEF Get, HeadRead
<1>3. /\ pc' \in {"sendFile", "sendDir", "crashed"}
      /\ pc' = "sendFile" => Served /\ resp.sendDataFunc = "sendFile"
      /\ pc' = "sendDir" => resp.sendDataFunc = "sendDir"
      /\ resp.sendDataFunc = "sendDir" /\ Served => pc' = "sendDir"
  <2>1. CASE sendFile_open
    BY <2>1 DEF sendFile_open
  <2>2. CASE sendDir_open
    BY <2>2 DEF sendDir_open
  <2> QED BY <2>1, <2>2
<1>4. SUFFICES ASSUME Get
               PROVE  /\ pc' \in {"sendFile", "sendDir"} => Serving'
                      /\ pc' = "crashed" => Ended'
  BY <1>2, <1>3 DEF SendInv
<1>5. Serving
  BY <1>1, <1>4 DEF SendInv
<1>6. PICK fs \in Seen, head \in Seq(Nat), body \in Seq(Nat), w \in Seq(Nat) :
        /\ AnswerTo(resp, request.path, fs) /\ Stage(fs)
        /\ head = Head_(resp) /\ w = Whole(resp, fs) /\ w \in Acceptable
        /\ Len(head) \in Nat
  BY <1>5, ServingParts
<1>7. PICK n \in Nat : n = Len(head) /\ n + (1 - 1) = n /\ n + 0 = n
  BY <1>6
<1>8. Sending(w, n)'
  <2>1. Sending(w, n)
    BY <1>1, <1>6, <1>7 DEF Stage
  <2> QED BY <1>1, <2>1, StillSending
<1>9. pc' = "crashed" => Ended'
  <2>1. SUFFICES ASSUME pc' = "crashed" PROVE Ended'
    OBVIOUS
  <2>2. UNCHANGED <<request, files, gone>> /\ (pc' = "delete" => n = Len(w))
    BY <1>1, <2>1
  <2> QED BY <1>6, <1>8, <2>2, EndedThere
<1>10. pc' = "sendDir" => Served
  <2>1. SUFFICES ASSUME resp.sendDataFunc = "sendDir" PROVE Served
    BY <1>3
  <2>2. request.path \in DOMAIN fs /\ fs[request.path].dir /\ resp.fileName = request.path
    BY <1>6, <2>1, AnswerIsFilled
  <2>3. ~ gone
    <3>1. SUFFICES ASSUME gone PROVE FALSE
      OBVIOUS
    <3>2. ~ files[request.path].dir
      BY <1>4, <3>1 DEF Get
    <3>3. request.path \in DOMAIN fs /\ fs[request.path] = files[request.path]
      BY <2>2, SeenFiles
    <3> QED BY <2>2, <3>2, <3>3
  <2>4. request.path \in DOMAIN files
    BY <2>2, SeenFiles
  <2> QED BY <2>2, <2>3, <2>4, DiskIsPart DEF Served
<1>11. ASSUME pc' \in {"sendFile", "sendDir"} PROVE Stage(fs)'
  <2>1. Disk' = Disk
    BY <1>1 DEF Disk
  <2>2. Served'
    BY <1>1, <1>3, <1>10, <1>11, <2>1 DEF Served
  <2>3. row' <= Len(Content') + 1
    <3>1. Content \in Seq(Nat)
      BY ContentIsBytes DEF HttpInv, InputInv
    <3>2. Content' = Content
      BY <1>1, <2>1 DEF Content, Served
    <3>3. Len(Content) \in Nat
      BY <3>1, LenProperties
    <3> QED BY <1>1, <3>2, <3>3
  <2>4. Whole(resp, fs)' = w /\ Len(Head_(resp))' = n
    BY <1>1, <1>6, <1>7 DEF Whole, Head_, Body
  <2>5. /\ Sending(Whole(resp, fs), Len(Head_(resp)) + (row - 1))'
        /\ Sending(Whole(resp, fs), Len(Head_(resp)) + (IF row = 1 THEN 0 ELSE row))'
    BY <1>1, <1>7, <1>8, <2>4 DEF Sending
  <2> QED BY <1>1, <1>3, <1>11, <2>2, <2>3, <2>5 DEF Stage
<1>12. pc' \in {"sendFile", "sendDir"} => Serving'
  BY <1>1, <1>6, <1>11, GoesOn
<1> QED BY <1>9, <1>12

\* The DELETE.
LEMMA DestroySend ==
  ASSUME SendInv, detroyTcpConnection \/ destroy
  PROVE  SendInv'
<1>1. /\ UNCHANGED <<impl, request, files, taken, gone, received>>
      /\ pc = "delete" /\ pc' \in {"closed", "leaked"}
  BY DEF detroyTcpConnection, destroy, env
<1>2. Get' <=> Get
  BY <1>1 DEF Get, HeadRead
<1>3. Disk' = Disk
  BY <1>1 DEF Disk
<1>4. Acceptable' = Acceptable
  BY <1>1, <1>3 DEF Acceptable
<1>5. ASSUME Get PROVE Ended'
  <2>1. Ended
    BY <1>1, <1>5 DEF SendInv
  <2> QED BY <1>1, <1>4, <2>1 DEF Ended
<1> QED BY <1>1, <1>2, <1>5 DEF SendInv

\* Where a sender is behind a turn of its loop.
LEMMA StageGoesOn ==
  ASSUME NEW fs, Stage(fs), UNCHANGED <<request, files, gone, resp, pc>>,
         pc \in {"sendFile", "sendDir"}, row' <= Len(Content) + 1,
         NEW w, w = Whole(resp, fs), NEW n, n = Len(Head_(resp)), NEW m, Sending(w, m)',
         pc = "sendFile" => m = n + (row' - 1),
         pc = "sendDir" => m = n + (IF row' = 1 THEN 0 ELSE row')
  PROVE  Stage(fs)'
<1>1. Disk' = Disk
  BY DEF Disk
<1>2. (Served' <=> Served) /\ Content' = Content
  BY <1>1 DEF Served, Content
<1>3. Whole(resp, fs)' = w /\ Len(Head_(resp))' = n
  BY DEF Whole, Head_, Body
<1>4. CASE pc = "sendFile"
  <2>1. Sending(Whole(resp, fs), Len(Head_(resp)) + (row - 1))'
    BY <1>3, <1>4 DEF Sending
  <2>2. resp.sendDataFunc = "sendFile" /\ Served
    BY <1>4 DEF Stage
  <2> QED BY <1>2, <1>4, <2>1, <2>2 DEF Stage
<1>5. CASE pc = "sendDir"
  <2>1. Sending(Whole(resp, fs), Len(Head_(resp)) + (IF row = 1 THEN 0 ELSE row))'
    BY <1>3, <1>5 DEF Sending
  <2>2. resp.sendDataFunc = "sendDir" /\ Served
    BY <1>5 DEF Stage
  <2> QED BY <1>2, <1>5, <2>1, <2>2 DEF Stage
<1> QED BY <1>4, <1>5

\* The loop of sendFile(): the next chunk, the end, or a read() that fails.
LEMMA FileLoopSend ==
  ASSUME HttpInv, SendInv, sendFile_loop
  PROVE  SendInv'
<1>1. /\ UNCHANGED <<impl, request, files, taken, gone, resp>>
      /\ pc = "sendFile" /\ pc' \in {"sendFile", "delete", "readLoop"}
  BY DEF sendFile_loop, env, RequestDone
<1>2. Get' <=> Get
  BY <1>1 DEF Get, HeadRead
<1>3. SUFFICES ASSUME Get
               PROVE  /\ pc' = "sendFile" => Serving'
                      /\ pc' # "sendFile" => Ended'
  BY <1>1, <1>2 DEF SendInv
<1>4. Serving
  BY <1>1, <1>3 DEF SendInv
<1>5. PICK fs \in Seen, head \in Seq(Nat), body \in Seq(Nat), w \in Seq(Nat) :
        /\ AnswerTo(resp, request.path, fs) /\ Stage(fs)
        /\ head = Head_(resp) /\ body = Body(resp, fs) /\ w = Whole(resp, fs)
        /\ w = head \o body /\ w \in Acceptable
        /\ Len(head) \in Nat /\ Len(body) \in Nat /\ Len(w) = Len(head) + Len(body)
  BY <1>4, ServingParts
<1>6. PICK n \in Nat, l \in Nat : n = Len(head) /\ l = Len(body)
  BY <1>5
<1>7. resp.sendDataFunc = "sendFile" /\ Served
  BY <1>1, <1>5 DEF Stage
<1>8. body = Content
  BY <1>5, <1>7, ServedFiles DEF Body
<1>9. PICK r \in Nat : r = row /\ r # 0 /\ r <= l + 1 /\ r - 1 \in Nat
  <2>1. row \in Nat \ {0}
    BY <1>1 DEF HttpInv, OutputInv
  <2>2. row <= Len(Content) + 1
    BY <1>1, <1>5 DEF Stage
  <2> QED BY <1>6, <1>8, <2>1, <2>2
<1>10. PICK m \in Nat : m = n + (r - 1) /\ Sending(w, m)
  <2>1. n + (r - 1) \in Nat
    BY <1>9
  <2>2. Sending(w, n + (r - 1))
    BY <1>1, <1>5, <1>6, <1>9 DEF Stage
  <2> QED BY <2>1, <2>2
<1>11. CASE row <= Len(Content) /\ AppendAndSend(<<Content[row]>>) /\ row' = row + 1 /\ pc' = pc
  <2>1. r \in 1..Len(body)
    BY <1>6, <1>8, <1>9, <1>11
  <2> DEFINE items == <<body[r]>>
  <2>2. NextItems(body, r - 1, items)
    BY <2>1, OneItem
  <2>3. Len(items) = 1
    OBVIOUS
  <2>4. AppendAndSend(items)
    BY <1>8, <1>9, <1>11
  <2> HIDE DEF items
  <2>5. NextItems(w, m, items)
    BY <1>5, <1>6, <1>10, <2>2, ItemsBehind
  <2>6. Sending(w, m + Len(items))'
    BY <1>10, <2>4, <2>5, ItemsAreSent
  <2>7. PICK e \in Nat : e = m + Len(items) /\ e = n + (row' - 1)
    BY <1>9, <1>10, <1>11, <2>3
  <2>8. Sending(w, e)'
    BY <2>6, <2>7
  <2>9. row' <= Len(Content) + 1
    BY <1>6, <1>8, <1>9, <1>11
  <2>10. Stage(fs)'
    BY <1>1, <1>5, <1>6, <1>11, <2>7, <2>8, <2>9, StageGoesOn
  <2>11. Serving'
    BY <1>1, <1>5, <2>10, GoesOn
  <2> QED BY <1>1, <1>11, <2>11
<1>12. ASSUME UNCHANGED <<peer, writeBuf, received>>, pc' # "sendFile",
              pc' = "delete" => row > Len(Content)
       PROVE  Ended'
  <2>1. Sending(w, m)'
    BY <1>10, <1>12, StillSending
  <2>2. pc' = "delete" => m = Len(w)
    <3>1. SUFFICES ASSUME r > l PROVE m = n + l
      BY <1>5, <1>6, <1>8, <1>9, <1>12
    <3> QED BY <1>9, <1>10, <3>1
  <2>3. UNCHANGED <<request, files, gone>>
    BY <1>1
  <2> QED BY <1>5, <2>1, <2>2, <2>3, EndedThere
<1>13. CASE row > Len(Content) /\ RequestDone /\ UNCHANGED <<row, peer, writeBuf, received>>
  BY <1>12, <1>13 DEF RequestDone
<1>14. CASE pc' = "readLoop" /\ UNCHANGED <<row, peer, writeBuf, received, req>>
  BY <1>12, <1>14
<1>15. \/ row <= Len(Content) /\ AppendAndSend(<<Content[row]>>) /\ row' = row + 1 /\ pc' = pc
       \/ row > Len(Content) /\ RequestDone /\ UNCHANGED <<row, peer, writeBuf, received>>
       \/ pc' = "readLoop" /\ UNCHANGED <<row, peer, writeBuf, received, req>>
  BY DEF sendFile_loop
<1> QED BY <1>11, <1>13, <1>14, <1>15 DEF RequestDone

\* The loop of sendDir(): the title with the first row, a row, the end of the page.
LEMMA DirLoopSend ==
  ASSUME HttpInv, SendInv, sendDir_loop
  PROVE  SendInv'
<1>1. /\ UNCHANGED <<impl, request, files, taken, gone, resp>>
      /\ pc = "sendDir" /\ pc' \in {"sendDir", "delete"}
  BY DEF sendDir_loop, env, RequestDone
<1>2. Get' <=> Get
  BY <1>1 DEF Get, HeadRead
<1>3. SUFFICES ASSUME Get
               PROVE  /\ pc' = "sendDir" => Serving'
                      /\ pc' = "delete" => Ended'
  BY <1>1, <1>2 DEF SendInv
<1>4. Serving
  BY <1>1, <1>3 DEF SendInv
<1>5. PICK fs \in Seen, head \in Seq(Nat), body \in Seq(Nat), w \in Seq(Nat) :
        /\ AnswerTo(resp, request.path, fs) /\ Stage(fs)
        /\ head = Head_(resp) /\ body = Body(resp, fs) /\ w = Whole(resp, fs)
        /\ w = head \o body /\ w \in Acceptable
        /\ Len(head) \in Nat /\ Len(body) \in Nat /\ Len(w) = Len(head) + Len(body)
  BY <1>4, ServingParts
<1>6. resp.sendDataFunc = "sendDir" /\ Served
  BY <1>1, <1>5 DEF Stage
<1>7. PICK c \in Seq(Nat) : c = Content /\ c # <<>>
  <2>1. request.path \in DOMAIN fs /\ fs[request.path].dir /\ resp.fileName = request.path
    BY <1>5, <1>6, AnswerIsFilled
  <2>2. Content = fs[request.path].content
    BY <1>6, <2>1, ServedFiles
  <2> QED BY <2>1, <2>2, SeenFiles
<1>8. body = <<DirHead>> \o c \o <<DirTail>>
  BY <1>5, <1>6, <1>7, ServedFiles DEF Body
<1>9. PICK n \in Nat, l \in Nat : n = Len(head) /\ l = Len(c) /\ l # 0
  BY <1>5, <1>7, LenProperties, EmptySeq
<1>10. /\ Len(body) = l + 2 /\ body[1] = DirHead /\ body[l + 2] = DirTail
       /\ \A i \in 1..l : body[i + 1] = c[i]
  <2>1. DirHead \in Nat /\ DirTail \in Nat
    BY DEF DirHead, DirTail
  <2> QED BY <1>8, <1>9, <2>1, DirItems
<1>11. PICK r \in Nat : r = row /\ r # 0 /\ r <= l + 1
  <2>1. row \in Nat \ {0}
    BY <1>1 DEF HttpInv, OutputInv
  <2>2. row <= Len(Content) + 1
    BY <1>1, <1>5 DEF Stage
  <2> QED BY <1>7, <1>9, <2>1, <2>2
<1>12. PICK d \in Nat : d = IF r = 1 THEN 0 ELSE r
  OBVIOUS
<1>13. Sending(w, n + d)
  BY <1>1, <1>5, <1>9, <1>11, <1>12 DEF Stage
<1>14. ASSUME NEW items, NextItems(body, d, items), AppendAndSend(items)
       PROVE  Sending(w, n + d + Len(items))'
  <2>1. NextItems(w, n + d, items)
    BY <1>5, <1>9, <1>14, ItemsBehind
  <2> QED BY <1>13, <1>14, <2>1, ItemsAreSent
<1>15. CASE /\ row <= Len(Content)
            /\ AppendAndSend(IF row = 1 THEN <<DirHead, Content[1]>> ELSE <<Content[row]>>)
            /\ row' = row + 1 /\ pc' = pc
  <2>1. r <= l
    BY <1>7, <1>9, <1>11, <1>15
  <2>2. PICK e \in Nat : e = n + (r + 1) /\ Sending(w, e)'
    <3>1. CASE r = 1
      <4> DEFINE items == <<body[1], body[2]>>
      <4>1. 2 <= Len(body) /\ d = 0
        BY <1>10, <1>12, <3>1
      <4>2. NextItems(body, d, items)
        BY <4>1, TwoItems
      <4>3. items = <<DirHead, c[1]>>
        <5>1. 1 \in 1..l /\ 1 + 1 = 2
          BY <2>1, <3>1
        <5> QED BY <1>10, <5>1
      <4>4. AppendAndSend(items)
        BY <1>7, <1>11, <1>15, <3>1, <4>3
      <4>5. Len(items) = 2
        OBVIOUS
      <4> HIDE DEF items
      <4>6. Sending(w, n + d + Len(items))'
        BY <1>14, <4>2, <4>4
      <4>7. n + d + Len(items) = n + (r + 1)
        BY <3>1, <4>1, <4>5
      <4>8. n + (r + 1) \in Nat
        OBVIOUS
      <4> QED BY <4>6, <4>7, <4>8
    <3>2. CASE r # 1
      <4> DEFINE items == <<body[r + 1]>>
      <4>1. r + 1 \in 1..Len(body) /\ d = r /\ (r + 1) - 1 = r /\ r \in 1..l
        BY <1>10, <1>11, <1>12, <2>1, <3>2
      <4>2. NextItems(body, d, items)
        <5>1. NextItems(body, (r + 1) - 1, <<body[r + 1]>>)
          BY <4>1, OneItem
        <5> QED BY <4>1, <5>1
      <4>3. items = <<c[r]>>
        BY <1>10, <4>1
      <4>4. AppendAndSend(items)
        BY <1>7, <1>11, <1>15, <3>2, <4>3
      <4>5. Len(items) = 1
        OBVIOUS
      <4> HIDE DEF items
      <4>6. Sending(w, n + d + Len(items))'
        BY <1>14, <4>2, <4>4
      <4>7. n + d + Len(items) = n + (r + 1)
        BY <4>1, <4>5
      <4>8. n + (r + 1) \in Nat
        OBVIOUS
      <4> QED BY <4>6, <4>7, <4>8
    <3> QED BY <3>1, <3>2
  <2>3. row' <= Len(Content) + 1 /\ e = n + (IF row' = 1 THEN 0 ELSE row')
    BY <1>7, <1>9, <1>11, <1>15, <2>1, <2>2
  <2>4. UNCHANGED <<request, files, gone, resp, pc>> /\ pc # "sendFile"
    BY <1>1, <1>15
  <2>5. Stage(fs)'
    BY <1>1, <1>5, <1>9, <2>2, <2>3, <2>4, StageGoesOn
  <2>6. Serving'
    BY <1>1, <1>5, <2>5, GoesOn
  <2> QED BY <1>1, <1>15, <2>6
<1>16. CASE row > Len(Content) /\ AppendAndSend(<<DirTail>>) /\ RequestDone
  <2>1. r = l + 1 /\ d = l + 1 /\ l + 2 \in 1..Len(body) /\ (l + 2) - 1 = d
    BY <1>7, <1>9, <1>10, <1>11, <1>12, <1>16
  <2> DEFINE items == <<body[l + 2]>>
  <2>2. NextItems(body, d, items)
    <3>1. NextItems(body, (l + 2) - 1, <<body[l + 2]>>)
      BY <2>1, OneItem
    <3> QED BY <2>1, <3>1
  <2>3. AppendAndSend(items)
    BY <1>10, <1>16
  <2>4. Len(items) = 1
    OBVIOUS
  <2> HIDE DEF items
  <2>5. Sending(w, n + d + Len(items))'
    BY <1>14, <2>2, <2>3
  <2>6. n + d + Len(items) = Len(w)
    BY <1>5, <1>9, <1>10, <2>1, <2>4
  <2>7. UNCHANGED <<request, files, gone>>
    BY <1>1
  <2>8. Ended'
    BY <1>5, <2>5, <2>6, <2>7, EndedThere
  <2> QED BY <1>16, <2>8 DEF RequestDone
<1>17. \/ /\ row <= Len(Content)
          /\ AppendAndSend(IF row = 1 THEN <<DirHead, Content[1]>> ELSE <<Content[row]>>)
          /\ row' = row + 1 /\ pc' = pc
       \/ row > Len(Content) /\ AppendAndSend(<<DirTail>>) /\ RequestDone
  BY DEF sendDir_loop
<1> QED BY <1>15, <1>16, <1>17

\* Every step keeps the three invariants.
LEMMA NextSend == HttpInv /\ ParseInv /\ SendInv /\ [Next]_vars => SendInv'
<1> SUFFICES ASSUME HttpInv, ParseInv, SendInv, [Next]_vars
             PROVE  SendInv'
  OBVIOUS
<1>1. CASE Arrive
  <2>1. /\ UNCHANGED <<impl, request, files, taken, gone, pc, writeBuf, resp, row, received>>
        /\ peer' = peer
    BY <1>1 DEF Arrive, env
  <2> QED BY <2>1, SameSend
<1>2. CASE Leave("eof") \/ Leave("reset") \/ Stall
  <2>1. /\ UNCHANGED <<impl, request, files, taken, gone, pc, writeBuf, resp, row, received>>
        /\ peer' # "reset" => peer # "reset"
    BY <1>2 DEF Leave, Stall, env
  <2> QED BY <2>1, SameSend
<1>3. CASE Unlink
  BY <1>3, UnlinkSend
<1>4. CASE processRead_c \/ processRead_cpp
  BY <1>4, ReadSend
<1>5. CASE parseHttpRequest_c \/ parseHttpRequest_cpp
  BY <1>5, ParseSend
<1>6. CASE prepareMsgHttpResponse \/ prepareMsg
  BY <1>6, PrepareSend
<1>7. CASE sendFile_open \/ sendDir_open
  BY <1>7, OpenSend
<1>8. CASE sendFile_loop
  BY <1>8, FileLoopSend
<1>9. CASE sendDir_loop
  BY <1>9, DirLoopSend
<1>10. CASE detroyTcpConnection \/ destroy
  BY <1>10, DestroySend
<1>11. CASE UNCHANGED vars
  <2>1. /\ UNCHANGED <<impl, request, files, taken, gone, pc, writeBuf, resp, row, received>>
        /\ peer' = peer
    BY <1>11 DEF vars
  <2> QED BY <2>1, SameSend
<1> QED BY <1>1, <1>2, <1>3, <1>4, <1>5, <1>6, <1>7, <1>8, <1>9, <1>10, <1>11 DEF Next, Server

\* The invariants give the property.
LEMMA SendInvInOrder == HttpInv /\ SendInv => ResponseInOrder
<1> SUFFICES ASSUME HttpInv, SendInv, Get
             PROVE  /\ \E w \in Acceptable : IsPrefix(received, w)
                    /\ (pc = "delete" /\ peer # "reset") => received \in Acceptable
  BY DEF ResponseInOrder
<1>1. \E w \in Acceptable : \E j \in 0..Len(w) :
        /\ w \in Seq(Nat) /\ received = SubSeq(w, 1, j)
        /\ pc = "delete" /\ peer # "reset" => j = Len(w)
  <2>1. CASE pc \in {"idle", "parse", "respond"}
    <3>1. PICK w \in Acceptable : w \in Seq(Nat)
      BY SomeResponse
    <3>2. SubSeq(w, 1, 0) = <<>> /\ 0 \in 0..Len(w) /\ received = <<>>
      BY <2>1, <3>1, LenProperties DEF SendInv
    <3> QED BY <2>1, <3>1, <3>2
  <2>2. CASE pc \in {"open", "sendFile", "sendDir"}
    <3>1. Serving
      BY <2>2 DEF SendInv
    <3>2. PICK fs \in Seen, w \in Seq(Nat) :
            Stage(fs) /\ w = Whole(resp, fs) /\ w \in Acceptable
      BY <3>1, ServingParts
    <3>3. \E n : Sending(w, n)
      BY <2>2, <3>2 DEF Stage
    <3> QED BY <2>2, <3>2, <3>3 DEF Sending
  <2>3. CASE pc \notin {"idle", "parse", "respond", "open", "sendFile", "sendDir"}
    <3>1. Ended
      BY <2>3 DEF SendInv
    <3> QED BY <3>1 DEF Ended
  <2> QED BY <2>1, <2>2, <2>3
<1>2. PICK w \in Acceptable :
        \E j \in 0..Len(w) :
          /\ w \in Seq(Nat) /\ received = SubSeq(w, 1, j)
          /\ pc = "delete" /\ peer # "reset" => j = Len(w)
  BY <1>1
<1>3. PICK j \in 0..Len(w) :
        /\ w \in Seq(Nat) /\ received = SubSeq(w, 1, j)
        /\ pc = "delete" /\ peer # "reset" => j = Len(w)
  BY <1>2
<1>4. IsPrefix(received, w) /\ (j = Len(w) => received = w)
  BY <1>3, SendingIsPrefix
<1> QED BY <1>2, <1>3, <1>4

\* What the client of a GET has received is at every moment the beginning of a correct
\* response, in both programs, for any files and sizes, and all of it when the connection is
\* given up without a reset: percent-decoding, the type of the file, the head, and the loops of
\* sendFile() and sendDir() that fill and drain the write buffer.
THEOREM ResponseAlwaysInOrder == Spec => []ResponseInOrder
<1>1. Init => HttpInv /\ ParseInv /\ SendInv
  BY InitHttp, InitParse, InitSend
<1>2. (HttpInv /\ ParseInv /\ SendInv) /\ [Next]_vars => (HttpInv /\ ParseInv /\ SendInv)'
  BY NextHttp, NextParse, NextSend
<1>3. HttpInv /\ ParseInv /\ SendInv => ResponseInOrder
  BY SendInvInOrder
<1> QED BY <1>1, <1>2, <1>3, PTL DEF Spec
=============================================================================
