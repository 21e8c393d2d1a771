------------------------ MODULE TcpConnectionProofs -------------------------
(***************************************************************************)
(* Proofs about TcpConnection for any message length, send buffer, high    *)
(* water mark, number of messages, application threads and scripts.        *)
(***************************************************************************)
EXTENDS TcpConnection, SequenceTheorems, TLAPS

-----------------------------------------------------------------------------
(* Sequences of bytes *)

\* Concatenation of sequences of bytes.
LEMMA Joined ==
  /\ \A s, t \in Seq(Nat) : s \o t \in Seq(Nat)
  /\ \A s, t, u \in Seq(Nat) : (s \o t) \o u = s \o (t \o u)
  /\ \A s \in Seq(Nat) : s \o <<>> = s /\ <<>> \o s = s
<1>1. \A s, t \in Seq(Nat) : s \o t \in Seq(Nat)
  BY ConcatProperties, Zenon
<1>2. \A s, t, u \in Seq(Nat) : (s \o t) \o u = s \o (t \o u)
  <2>1. \A S : \A s, t, u \in Seq(S) : (s \o t) \o u = s \o (t \o u)
    BY ConcatAssociative, Zenon
  <2> QED BY <2>1, SMTT(60)
<1>3. \A s \in Seq(Nat) : s \o <<>> = s /\ <<>> \o s = s
  BY ConcatEmptySeq, Zenon
<1> QED BY <1>1, <1>2, <1>3

\* The bytes accepted so far, numbered.
LEMMA IotaFacts ==
  ASSUME NEW n \in Nat
  PROVE  /\ Iota(n) \in Seq(Nat) /\ Len(Iota(n)) = n
         /\ \A i \in 1..n : Iota(n)[i] = i
<1>1. Iota(n) \in [1..n -> Nat]
  BY DEF Iota
<1>2. Iota(n) \in Seq(Nat)
  BY <1>1, SeqDef
<1> QED BY <1>1, <1>2, LenProperties DEF Iota

\* A prefix of them, byte by byte.
LEMMA IotaPrefix ==
  ASSUME NEW s \in Seq(Nat), NEW n \in Nat
  PROVE  IsPrefix(s, Iota(n)) <=> Len(s) <= n /\ \A i \in 1..Len(s) : s[i] = i
<1>1. Iota(n) \in Seq(Nat) /\ Len(Iota(n)) = n /\ \A i \in 1..n : Iota(n)[i] = i
  BY IotaFacts
<1>2. Len(s) \in Nat /\ SubSeq(s, 1, Len(s)) = s
  BY LenProperties, SubSeqFull
<1>3. ASSUME Len(s) <= n
      PROVE  /\ SubSeq(Iota(n), 1, Len(s)) \in Seq(Nat)
             /\ Len(SubSeq(Iota(n), 1, Len(s))) = Len(s)
             /\ \A i \in 1..Len(s) : SubSeq(Iota(n), 1, Len(s))[i] = i
  <2>1. \A i \in 1..Len(s) : i \in 1..n /\ Iota(n)[i] = i /\ Iota(n)[i] \in Nat
    BY <1>1, <1>2, <1>3
  <2>2. /\ SubSeq(Iota(n), 1, Len(s)) \in Seq(Nat)
        /\ Len(SubSeq(Iota(n), 1, Len(s))) = IF 1 <= Len(s) THEN Len(s) - 1 + 1 ELSE 0
        /\ \A i \in 1..(Len(s) - 1 + 1) : SubSeq(Iota(n), 1, Len(s))[i] = Iota(n)[1 + i - 1]
    BY <1>2, <2>1, SubSeqProperties
  <2> QED BY <1>2, <2>1, <2>2
<1>4. ASSUME Len(s) <= n, \A i \in 1..Len(s) : s[i] = i
      PROVE  s = SubSeq(Iota(n), 1, Len(s))
  BY <1>3, <1>4, SeqEqual
<1>5. ASSUME Len(s) <= n, s = SubSeq(Iota(n), 1, Len(s)) PROVE \A i \in 1..Len(s) : s[i] = i
  BY <1>3, <1>5
<1> QED BY <1>1, <1>2, <1>4, <1>5 DEF IsPrefix

\* One more message.
LEMMA IotaGrows ==
  ASSUME NEW n \in Nat, NEW m \in Nat
  PROVE  /\ [i \in 1..m |-> n + i] \in Seq(Nat)
         /\ Len([i \in 1..m |-> n + i]) = m
         /\ Iota(n) \o [i \in 1..m |-> n + i] = Iota(n + m)
<1> DEFINE b == [i \in 1..m |-> n + i]
<1>1. b \in [1..m -> Nat]
  OBVIOUS
<1>2. b \in Seq(Nat) /\ Len(b) = m /\ \A i \in 1..m : b[i] = n + i
  BY <1>1, SeqDef, LenProperties
<1> HIDE DEF b
<1>3. Iota(n) \in Seq(Nat) /\ Len(Iota(n)) = n /\ \A i \in 1..n : Iota(n)[i] = i
  BY IotaFacts
<1>4. /\ Iota(n + m) \in Seq(Nat) /\ Len(Iota(n + m)) = n + m
      /\ \A i \in 1..(n + m) : Iota(n + m)[i] = i
  BY IotaFacts, n + m \in Nat
<1>5. /\ Iota(n) \o b \in Seq(Nat) /\ Len(Iota(n) \o b) = n + m
      /\ \A i \in 1..(n + m) : (Iota(n) \o b)[i] = IF i <= n THEN Iota(n)[i] ELSE b[i - n]
  <2>1. /\ Iota(n) \o b \in Seq(Nat) /\ Len(Iota(n) \o b) = Len(Iota(n)) + Len(b)
        /\ \A i \in 1..(Len(Iota(n)) + Len(b)) : (Iota(n) \o b)[i] =
              IF i <= Len(Iota(n)) THEN Iota(n)[i] ELSE b[i - Len(Iota(n))]
    BY <1>2, <1>3, ConcatProperties
  <2> QED BY <1>2, <1>3, <2>1
<1>6. \A i \in 1..(n + m) : (Iota(n) \o b)[i] = Iota(n + m)[i]
  <2> SUFFICES ASSUME NEW i \in 1..(n + m) PROVE (Iota(n) \o b)[i] = i
    BY <1>4
  <2>1. CASE i <= n BY <1>3, <1>5, <2>1
  <2>2. CASE ~(i <= n)
    <3>1. i - n \in 1..m
      BY <2>2
    <3> QED BY <1>2, <1>5, <2>2, <3>1
  <2> QED BY <2>1, <2>2
<1>7. Iota(n) \o b = Iota(n + m)
  BY <1>4, <1>5, <1>6, SeqEqual
<1> QED BY <1>2, <1>7 DEF b

\* Cutting a sequence in two loses nothing.
LEMMA Cut ==
  ASSUME NEW s \in Seq(Nat), NEW n \in 0..Len(s)
  PROVE  /\ SubSeq(s, 1, n) \in Seq(Nat) /\ SubSeq(s, n + 1, Len(s)) \in Seq(Nat)
         /\ SubSeq(s, 1, n) \o SubSeq(s, n + 1, Len(s)) = s
<1>1. Len(s) \in Nat /\ \A i \in 1..Len(s) : s[i] \in Nat
  BY LenProperties, ElementOfSeq
<1>2. (\A i \in 1..n : s[i] \in Nat) /\ \A i \in (n + 1)..Len(s) : s[i] \in Nat
  BY <1>1
<1>3. SubSeq(s, 1, n) \in Seq(Nat)
  BY <1>1, <1>2, SubSeqProperties
<1>4. SubSeq(s, n + 1, Len(s)) \in Seq(Nat)
  BY <1>1, <1>2, SubSeqProperties, n + 1 \in Int
<1>5. SubSeq(s, 1, n) \o SubSeq(s, n + 1, Len(s)) = SubSeq(s, 1, Len(s))
  BY <1>1, ConcatAdjacentSubSeq, 1 \in 1..(Len(s) + 1), n \in (1 - 1)..Len(s),
     Len(s) \in n..Len(s)
<1> QED BY <1>3, <1>4, <1>5, SubSeqFull

\* The length of the first part.
LEMMA LenOfCut ==
  ASSUME NEW s \in Seq(Nat), NEW n \in 0..Len(s)
  PROVE  Len(SubSeq(s, 1, n)) = n
<1>1. Len(s) \in Nat /\ \A i \in 1..Len(s) : s[i] \in Nat
  BY LenProperties, ElementOfSeq
<1>2. n \in Int /\ \A i \in 1..n : s[i] \in Nat
  BY <1>1
<1>3. Len(SubSeq(s, 1, n)) = IF 1 <= n THEN n - 1 + 1 ELSE 0
  BY <1>2, SubSeqProperties
<1> QED BY <1>1, <1>3

\* A part of a sequence goes behind another and the rest follows.
LEMMA Forwarded ==
  ASSUME NEW q \in Seq(Nat), NEW b \in Seq(Nat), NEW n \in 0..Len(b)
  PROVE  /\ q \o SubSeq(b, 1, n) \in Seq(Nat) /\ SubSeq(b, n + 1, Len(b)) \in Seq(Nat)
         /\ (q \o SubSeq(b, 1, n)) \o SubSeq(b, n + 1, Len(b)) = q \o b
         /\ Len(q \o SubSeq(b, 1, n)) = Len(q) + n
<1>1. PICK x, y : x = SubSeq(b, 1, n) /\ y = SubSeq(b, n + 1, Len(b))
  OBVIOUS
<1>2. x \in Seq(Nat) /\ y \in Seq(Nat) /\ x \o y = b
  BY <1>1, Cut
<1>3. (q \o x) \o y = q \o b
  <2>1. \A s, t, u \in Seq(Nat) : (s \o t) \o u = s \o (t \o u)
    BY Joined
  <2>2. q \in Seq(Nat) /\ x \in Seq(Nat) /\ y \in Seq(Nat)
    BY <1>2
  <2>3. (q \o x) \o y = q \o (x \o y)
    BY <2>1, <2>2, Zenon
  <2> QED BY <1>2, <2>3, Zenon
<1>4. q \o x \in Seq(Nat) /\ Len(q \o x) = Len(q) + Len(x)
  BY <1>2, ConcatProperties
<1>5. Len(x) = n
  BY <1>1, LenOfCut
<1> QED BY <1>1, <1>2, <1>3, <1>4, <1>5

\* Moving the first byte of one sequence to the end of another.
LEMMA MoveHead ==
  ASSUME NEW s \in Seq(Nat), NEW t \in Seq(Nat), t # <<>>
  PROVE  /\ Append(s, Head(t)) \in Seq(Nat) /\ Tail(t) \in Seq(Nat)
         /\ Append(s, Head(t)) \o Tail(t) = s \o t
<1>1. Head(t) \in Nat /\ Tail(t) \in Seq(Nat)
  BY HeadTailProperties
<1>2. <<Head(t)>> \in Seq(Nat) /\ Append(s, Head(t)) = s \o <<Head(t)>>
  BY <1>1, AppendIsConcat
<1>3. <<Head(t)>> \o Tail(t) = t
  <2>1. Len(t) \in Nat \ {0} /\ t[1] = Head(t) /\ Tail(t) = SubSeq(t, 2, Len(t))
    BY EmptySeq, TailIsSubSeq
  <2>2. 1 \in 1..Len(t) /\ Len(t) \in 1..Len(t)
    BY <2>1
  <2>3. SubSeq(t, 1, Len(t)) = <<t[1]>> \o SubSeq(t, 1 + 1, Len(t))
    BY <2>2, SubSeqRecursiveFirst
  <2> QED BY <2>1, <2>3, SubSeqFull
<1>4. (s \o <<Head(t)>>) \o Tail(t) = s \o (<<Head(t)>> \o Tail(t))
  BY <1>1, <1>2, ConcatAssociative
<1>5. Append(s, Head(t)) \in Seq(Nat)
  BY <1>1, AppendProperties
<1> QED BY <1>1, <1>2, <1>3, <1>4, <1>5

\* The smaller of two numbers, and zero for a failed write().
LEMMA MinMax ==
  ASSUME NEW a \in Int, NEW b \in Int
  PROVE  /\ Min({a, b}) \in {a, b} /\ Min({a, b}) <= a /\ Min({a, b}) <= b
         /\ Max({a, b}) \in {a, b} /\ a <= Max({a, b}) /\ b <= Max({a, b})
<1>1. \E x \in {a, b} : \A y \in {a, b} : x =< y
  BY a <= b \/ b <= a
<1>2. \E x \in {a, b} : \A y \in {a, b} : x >= y
  BY a <= b \/ b <= a
<1> QED BY <1>1, <1>2 DEF Min, Max

-----------------------------------------------------------------------------
(***************************************************************************)
(* The stream.  After a reset the send buffer stays empty, because write() *)
(* fails from then on; until then what the peer has read, what the kernel  *)
(* holds and what the output buffer holds are all that was accepted.  That *)
(* write() takes at least a byte when there is room needs the bound of the *)
(* send buffer.                                                            *)
(***************************************************************************)
Unread == sndq \o outputBuffer

StreamInv ==
  /\ accepted \in Nat /\ delivered \in Seq(Nat) /\ sndq \in Seq(Nat)
  /\ outputBuffer \in Seq(Nat) /\ reset \in BOOLEAN /\ Len(sndq) <= SndBuf
  /\ ~reset => delivered \o Unread = Iota(accepted)
  /\ reset => sndq = <<>> /\ IsPrefix(delivered, Iota(accepted))

streamVars == <<accepted, delivered, sndq, outputBuffer, reset>>

\* The invariant says what is meant.
LEMMA StreamInvIntact == StreamInv => StreamIntact
<1> SUFFICES ASSUME StreamInv PROVE StreamIntact
  OBVIOUS
<1>1. /\ accepted \in Nat /\ delivered \in Seq(Nat) /\ sndq \in Seq(Nat)
      /\ outputBuffer \in Seq(Nat)
  BY DEF StreamInv
<1>2. delivered \o sndq \in Seq(Nat)
  BY <1>1, ConcatProperties
<1>3. CASE reset
  <2>1. sndq = <<>> /\ IsPrefix(delivered, Iota(accepted))
    BY <1>3 DEF StreamInv
  <2>2. delivered \o sndq = delivered
    BY <1>1, <2>1, ConcatEmptySeq
  <2>3. IsPrefix(delivered \o sndq, Iota(accepted))
    BY <2>1, <2>2, Zenon
  <2> QED BY <1>3, <2>3 DEF StreamIntact
<1>4. CASE ~reset
  <2> DEFINE d == delivered \o sndq
  <2>1. d \o outputBuffer = Iota(accepted)
    <3>1. delivered \o (sndq \o outputBuffer) = Iota(accepted)
      BY <1>4 DEF StreamInv, Unread
    <3>2. (delivered \o sndq) \o outputBuffer = delivered \o (sndq \o outputBuffer)
      BY <1>1, Joined, Zenon
    <3> QED BY <3>1, <3>2, Zenon
  <2> HIDE DEF d
  <2>2. d \in Seq(Nat) /\ Len(d) \in Nat /\ Len(outputBuffer) \in Nat
    BY <1>1, <1>2, LenProperties DEF d
  <2>3. /\ Len(d \o outputBuffer) = Len(d) + Len(outputBuffer)
        /\ \A i \in 1..(Len(d) + Len(outputBuffer)) :
             (d \o outputBuffer)[i] = IF i <= Len(d) THEN d[i] ELSE outputBuffer[i - Len(d)]
    BY <1>1, <2>2, ConcatProperties
  <2>4. Len(Iota(accepted)) = accepted /\ \A i \in 1..accepted : Iota(accepted)[i] = i
    BY <1>1, IotaFacts
  <2>5. Len(d) <= accepted /\ \A i \in 1..Len(d) : d[i] = i
    BY <1>1, <2>1, <2>2, <2>3, <2>4
  <2>6. IsPrefix(d, Iota(accepted))
    BY <1>1, <2>2, <2>5, IotaPrefix
  <2> QED BY <1>4, <2>1, <2>6 DEF StreamIntact, d
<1> QED BY <1>3, <1>4

\* A prefix of what was accepted stays one when more is.
LEMMA PrefixStays ==
  ASSUME NEW s \in Seq(Nat), NEW n \in Nat, NEW m \in Nat, n <= m, IsPrefix(s, Iota(n))
  PROVE  IsPrefix(s, Iota(m))
<1>1. Len(s) \in Nat /\ Len(s) <= n /\ \A i \in 1..Len(s) : s[i] = i
  BY IotaPrefix, LenProperties
<1> QED BY <1>1, IotaPrefix

\* A step that moves bytes from the output buffer to the socket or nothing at
\* all keeps the stream, one that adds a message at the end as well.
LEMMA StreamGrows ==
  ASSUME StreamInv, UNCHANGED <<delivered, reset>>,
         sndq' \in Seq(Nat), outputBuffer' \in Seq(Nat), reset => sndq' = sndq,
         Len(sndq') <= SndBuf,
         \/ accepted' = accepted /\ Unread' = Unread
         \/ /\ accepted' = accepted + MsgLen
            /\ Unread' = Unread \o [i \in 1..MsgLen |-> accepted + i]
  PROVE  StreamInv'
<1>1. /\ accepted \in Nat /\ delivered \in Seq(Nat) /\ Unread \in Seq(Nat)
      /\ MsgLen \in Nat
  BY ConcatProperties, SizeAssumption DEF StreamInv, Unread
<1>2. accepted' \in Nat /\ accepted <= accepted'
  BY <1>1
<1>3. CASE reset
  <2>1. IsPrefix(delivered, Iota(accepted'))
    BY <1>1, <1>2, <1>3, PrefixStays DEF StreamInv
  <2>2. IsPrefix(delivered, Iota(accepted))'
    BY <2>1 DEF Iota, IsPrefix
  <2> QED BY <1>1, <1>2, <1>3, <2>2 DEF StreamInv
<1>4. CASE ~reset
  <2>1. delivered \o Unread = Iota(accepted)
    BY <1>4 DEF StreamInv
  <2>2. delivered' \o Unread' = Iota(accepted')
    <3>1. CASE accepted' = accepted /\ Unread' = Unread
      BY <2>1, <3>1
    <3>2. CASE /\ accepted' = accepted + MsgLen
               /\ Unread' = Unread \o [i \in 1..MsgLen |-> accepted + i]
      <4>1. /\ [i \in 1..MsgLen |-> accepted + i] \in Seq(Nat)
            /\ Iota(accepted) \o [i \in 1..MsgLen |-> accepted + i] = Iota(accepted + MsgLen)
        BY <1>1, IotaGrows
      <4>2. PICK b \in Seq(Nat) : b = [i \in 1..MsgLen |-> accepted + i]
        BY <4>1
      <4>3. delivered \o (Unread \o b) = (delivered \o Unread) \o b
        BY <1>1, Joined, Zenon
      <4>4. Unread' = Unread \o b
        BY <3>2, <4>2
      <4>5. Iota(accepted) \o b = Iota(accepted')
        BY <3>2, <4>1, <4>2
      <4> QED BY <2>1, <4>3, <4>4, <4>5, delivered' = delivered, Zenon
    <3> QED BY <3>1, <3>2
  <2>3. (delivered \o Unread = Iota(accepted))'
    BY <2>2 DEF Iota, Unread
  <2> QED BY <1>1, <1>2, <1>4, <2>3 DEF StreamInv
<1> QED BY <1>3, <1>4

\* sendInLoop() (TcpConnection.cc 171-224): what write() did not take goes to
\* the output buffer, behind what is there.
LEMMA SendKeepsStream ==
  ASSUME StreamInv, SendInLoop
  PROVE  StreamInv'
<1>1. /\ MsgLen \in Nat \ {0} /\ accepted \in Nat /\ sndq \in Seq(Nat)
      /\ outputBuffer \in Seq(Nat) /\ UNCHANGED <<delivered, reset>>
      /\ Len(sndq) <= SndBuf
  <2>1. UNCHANGED <<delivered, reset>>
    BY DEF SendInLoop, Written, inVars
  <2> QED BY <2>1, SizeAssumption DEF StreamInv
<1>2. PICK b \in Seq(Nat) : b = [i \in 1..MsgLen |-> accepted + i] /\ Len(b) = MsgLen
  BY <1>1, IotaGrows
<1>3. ASSUME accepted' = accepted + MsgLen, sndq' \in Seq(Nat), outputBuffer' \in Seq(Nat),
             Len(sndq') <= SndBuf, reset => sndq' = sndq, Unread' = Unread \o b
      PROVE  StreamInv'
  BY <1>1, <1>2, <1>3, StreamGrows
<1>4. CASE UNCHANGED <<outputBuffer, sndq, accepted>>
  <2>1. Unread' = Unread
    BY <1>4 DEF Unread
  <2> QED BY <1>1, <1>4, <2>1, StreamGrows
<1>5. CASE \* everything is kept
        /\ accepted' = accepted + MsgLen /\ sndq' = sndq
        /\ outputBuffer' = outputBuffer \o Remaining(b, 0)
  <2>1. outputBuffer' = outputBuffer \o b
    <3>1. SubSeq(b, 1, Len(b)) = b
      BY SubSeqFull
    <3>2. 0 + 1 = 1
      OBVIOUS
    <3> QED BY <1>5, <3>1, <3>2, Zenon DEF Remaining
  <2>2. outputBuffer' \in Seq(Nat) /\ sndq \o outputBuffer' = (sndq \o outputBuffer) \o b
    BY <1>1, <2>1, Joined, Zenon
  <2>3. Unread' = Unread \o b
    BY <1>5, <2>2 DEF Unread
  <2> QED BY <1>1, <1>3, <1>5, <2>2, <2>3
<1>6. ASSUME NEW n \in 1..MsgLen, ~reset, outputBuffer = <<>>, Len(sndq) + n <= SndBuf,
             accepted' = accepted + MsgLen, sndq' = sndq \o SubSeq(b, 1, n),
             outputBuffer' = IF n < MsgLen THEN outputBuffer \o Remaining(b, n)
                             ELSE outputBuffer
      PROVE  StreamInv'
  <2>1. n \in 0..Len(b)
    BY <1>1, <1>2
  <2>2. /\ sndq' \in Seq(Nat) /\ SubSeq(b, n + 1, Len(b)) \in Seq(Nat)
        /\ sndq' \o SubSeq(b, n + 1, Len(b)) = sndq \o b
        /\ Len(sndq') = Len(sndq) + n
    BY <1>1, <1>6, <2>1, Forwarded
  <2>3. outputBuffer' = SubSeq(b, n + 1, Len(b))
    <3>1. CASE n < MsgLen
      <4>1. outputBuffer' = <<>> \o SubSeq(b, n + 1, Len(b))
        BY <1>6, <3>1 DEF Remaining
      <4> QED BY <2>2, <4>1, Joined
    <3>2. CASE n = MsgLen
      <4>1. PICK k \in Int, m \in Int : k = n + 1 /\ m = Len(b) /\ m < k
        BY <1>1, <1>2, <3>2
      <4>2. SubSeq(b, k, m) = <<>>
        BY <4>1, SubSeqEmpty
      <4> QED BY <1>1, <1>6, <3>2, <4>1, <4>2
    <3> QED BY <1>1, <3>1, <3>2
  <2>4. Unread = sndq
    BY <1>1, <1>6, Joined DEF Unread
  <2>5. Unread' = Unread \o b
    BY <2>2, <2>3, <2>4, Zenon DEF Unread
  <2>6. Len(sndq') <= SndBuf
    BY <1>6, <2>2
  <2> QED BY <1>3, <1>6, <2>2, <2>3, <2>5, <2>6
<1>7. CASE state = "kDisconnected"
  BY <1>4, <1>7 DEF SendInLoop, connVars
<1>8. CASE state # "kDisconnected" /\ ~(~isWriting(events) /\ Len(outputBuffer) = 0)
  <2>1. /\ accepted' = accepted + MsgLen /\ sndq' = sndq
        /\ outputBuffer' = outputBuffer \o Remaining(b, 0)
    <3>1. 0 < MsgLen
      BY <1>1
    <3> QED BY <1>2, <1>8, <3>1, Zenon DEF SendInLoop
  <2> QED BY <1>5, <2>1
<1>9. CASE state # "kDisconnected" /\ ~isWriting(events) /\ Len(outputBuffer) = 0
  <2>1. outputBuffer = <<>>
    BY <1>1, <1>9, EmptySeq
  <2>2. PICK r : r = WriteResult(MsgLen)
    OBVIOUS
  <2>3. /\ Written(b, r)
        /\ r.err \in {"EPIPE", "ECONNRESET"} => UNCHANGED <<outputBuffer, accepted>>
        /\ r.err \notin {"EPIPE", "ECONNRESET"} =>
             /\ accepted' = accepted + MsgLen
             /\ outputBuffer' = IF Max({r.n, 0}) < MsgLen
                                THEN outputBuffer \o Remaining(b, Max({r.n, 0}))
                                ELSE outputBuffer
    BY <1>2, <1>9, <2>2, Zenon DEF SendInLoop
  <2>4. CASE r.err \in {"EPIPE", "ECONNRESET"}
    <3>1. r.n = -1
      BY <2>2, <2>4 DEF WriteResult
    <3>2. sndq' = sndq
      BY <2>3, <3>1 DEF Written
    <3> QED BY <1>4, <2>3, <2>4, <3>2
  <2>5. CASE r.err = "EWOULDBLOCK"
    <3>1. r.n = -1
      BY <2>2, <2>5 DEF WriteResult
    <3>2. Max({r.n, 0}) = 0
      <4>1. r.n \in Int /\ 0 \in Int /\ r.n < 0
        BY <3>1
      <4>2. Max({r.n, 0}) \in {r.n, 0} /\ 0 <= Max({r.n, 0})
        BY <4>1, MinMax, Zenon
      <4> QED BY <4>1, <4>2
    <3>3. sndq' = sndq
      BY <2>3, <3>1 DEF Written
    <3>4. accepted' = accepted + MsgLen /\ outputBuffer' = outputBuffer \o Remaining(b, 0)
      <4>1. 0 < MsgLen /\ r.err \notin {"EPIPE", "ECONNRESET"}
        BY <1>1, <2>5
      <4> QED BY <2>3, <3>2, <4>1, Zenon
    <3> QED BY <1>5, <3>3, <3>4
  <2>6. CASE r.err = "none"
    <3>1. Len(sndq) \in Nat /\ SndBuf \in Nat /\ Len(sndq) <= SndBuf
      BY <1>1, LenProperties, SizeAssumption
    <3>2. ~reset /\ r.n = Min({MsgLen, Space}) /\ Space # 0
      BY <1>1, <2>2, <2>6 DEF WriteResult
    <3>3. PICK n \in 1..MsgLen : n = r.n /\ Len(sndq) + n <= SndBuf
      <4>1. Space \in Nat \ {0} /\ Space = SndBuf - Len(sndq)
        BY <3>1, <3>2 DEF Space
      <4>2. MsgLen \in Int /\ Space \in Int
        BY <1>1, <4>1
      <4>3. Min({MsgLen, Space}) \in {MsgLen, Space} /\ Min({MsgLen, Space}) <= MsgLen
            /\ Min({MsgLen, Space}) <= Space
        BY <4>2, MinMax, Zenon
      <4>4. PICK m : m = Min({MsgLen, Space})
        OBVIOUS
      <4>5. m \in 1..MsgLen /\ Len(sndq) + m <= SndBuf /\ m = r.n
        BY <1>1, <3>1, <3>2, <4>1, <4>3, <4>4
      <4> QED BY <4>5
    <3>4. Max({r.n, 0}) = n
      <4>1. n \in Int /\ 0 \in Int /\ 0 < n
        BY <1>1
      <4>2. Max({n, 0}) \in {n, 0} /\ n <= Max({n, 0})
        BY <4>1, MinMax, Zenon
      <4>3. Max({n, 0}) = n
        BY <4>1, <4>2
      <4> QED BY <3>3, <4>3
    <3>5. sndq' = sndq \o SubSeq(b, 1, n)
      <4>1. r.n > 0
        BY <1>1, <3>3
      <4> QED BY <2>3, <3>3, <4>1, Zenon DEF Written
    <3>6. /\ accepted' = accepted + MsgLen
          /\ outputBuffer' = IF n < MsgLen THEN outputBuffer \o Remaining(b, n) ELSE outputBuffer
      BY <2>3, <2>6, <3>4
    <3> QED BY <1>6, <2>1, <3>2, <3>3, <3>5, <3>6
  <2> QED BY <2>2, <2>4, <2>5, <2>6 DEF WriteResult
<1> QED BY <1>7, <1>8, <1>9

\* handleWrite() (TcpConnection.cc 93-126): what write() takes is retrieved from
\* the output buffer, no more and no less.
LEMMA WriteKeepsStream ==
  ASSUME StreamInv, HandleWrite, UNCHANGED <<accepted, delivered>>
  PROVE  StreamInv'
<1>1. /\ accepted \in Nat /\ sndq \in Seq(Nat) /\ outputBuffer \in Seq(Nat)
      /\ Len(sndq) <= SndBuf /\ Len(sndq) \in Nat /\ Len(outputBuffer) \in Nat
      /\ SndBuf \in Nat /\ UNCHANGED <<accepted, delivered, reset>>
  <2>1. reset' = reset
    BY DEF HandleWrite, Written, inVars, sockVars
  <2> QED BY <2>1, SizeAssumption, LenProperties DEF StreamInv
<1>2. CASE UNCHANGED <<outputBuffer, sndq>>
  <2>1. Unread' = Unread
    BY <1>2 DEF Unread
  <2> QED BY <1>1, <1>2, <2>1, StreamGrows
<1>3. CASE ~isWriting(events)
  BY <1>2, <1>3 DEF HandleWrite, connVars, sockVars
<1>4. CASE isWriting(events)
  <2>1. PICK r : r = WriteResult(Len(outputBuffer))
    OBVIOUS
  <2>2. /\ Written(outputBuffer, r)
        /\ r.n <= 0 => outputBuffer' = outputBuffer
        /\ ~(r.n <= 0) => outputBuffer' = SubSeq(outputBuffer, r.n + 1, Len(outputBuffer))
    BY <1>4, <2>1, Zenon DEF HandleWrite, connVars
  <2>3. r.n \in Int /\ (r.n > 0 => /\ ~reset /\ r.n <= Len(outputBuffer)
                                   /\ Len(sndq) + r.n <= SndBuf)
    <3>1. CASE r.n \in {-1, 0}
      BY <3>1
    <3>2. CASE r.n \notin {-1, 0}
      <4>1. ~reset /\ r.n = Min({Len(outputBuffer), Space})
        BY <2>1, <3>2 DEF WriteResult
      <4>2. Len(outputBuffer) \in Int /\ Space \in Int /\ Space = SndBuf - Len(sndq)
        BY <1>1 DEF Space
      <4>3. /\ Min({Len(outputBuffer), Space}) \in {Len(outputBuffer), Space}
            /\ Min({Len(outputBuffer), Space}) <= Len(outputBuffer)
            /\ Min({Len(outputBuffer), Space}) <= Space
        BY <4>2, MinMax, Zenon
      <4>4. PICK m : m = Min({Len(outputBuffer), Space})
        OBVIOUS
      <4>5. m \in Int /\ m <= Len(outputBuffer) /\ Len(sndq) + m <= SndBuf /\ m = r.n
        BY <1>1, <4>1, <4>2, <4>3, <4>4
      <4> QED BY <4>1, <4>5
    <3> QED BY <3>1, <3>2
  <2>4. CASE ~(r.n > 0)
    <3>1. sndq' = sndq
      BY <2>2, <2>4 DEF Written
    <3>2. outputBuffer' = outputBuffer
      BY <2>2, <2>3, <2>4
    <3> QED BY <1>2, <3>1, <3>2
  <2>5. CASE r.n > 0
    <3>1. PICK n \in 0..Len(outputBuffer) : n = r.n
      BY <1>1, <2>3, <2>5
    <3>2. /\ sndq' = sndq \o SubSeq(outputBuffer, 1, n)
          /\ outputBuffer' = SubSeq(outputBuffer, n + 1, Len(outputBuffer))
      <4>1. ~(r.n <= 0)
        BY <2>3, <2>5
      <4> QED BY <2>2, <2>5, <3>1, <4>1, Zenon DEF Written
    <3>3. /\ sndq' \in Seq(Nat) /\ outputBuffer' \in Seq(Nat)
          /\ sndq' \o outputBuffer' = sndq \o outputBuffer
          /\ Len(sndq') = Len(sndq) + n
      BY <1>1, <3>2, Forwarded
    <3>4. Unread' = Unread
      BY <3>3 DEF Unread
    <3>5. Len(sndq') <= SndBuf /\ ~reset
      BY <2>3, <2>5, <3>1, <3>3
    <3> QED BY <1>1, <3>3, <3>4, <3>5, StreamGrows
  <2> QED BY <2>4, <2>5
<1> QED BY <1>3, <1>4

\* The peer takes a byte from the socket.
LEMMA PeerReadsKeepsStream ==
  ASSUME StreamInv, PeerReads
  PROVE  StreamInv'
<1>1. /\ accepted \in Nat /\ sndq \in Seq(Nat) /\ outputBuffer \in Seq(Nat)
      /\ delivered \in Seq(Nat) /\ Len(sndq) <= SndBuf /\ sndq # <<>> /\ ~reset
      /\ SndBuf \in Nat /\ Len(sndq) \in Nat
      /\ UNCHANGED <<accepted, outputBuffer, reset>>
      /\ delivered' = Append(delivered, Head(sndq)) /\ sndq' = Tail(sndq)
  BY SizeAssumption, LenProperties DEF StreamInv, PeerReads, connVars, inVars
<1>2. /\ delivered' \in Seq(Nat) /\ sndq' \in Seq(Nat)
      /\ delivered' \o sndq' = delivered \o sndq
  BY <1>1, MoveHead
<1>3. Len(sndq') <= SndBuf
  <2>1. Len(Tail(sndq)) = Len(sndq) - 1
    BY <1>1, HeadTailProperties
  <2> QED BY <1>1, <2>1
<1>4. delivered \o (sndq \o outputBuffer) = Iota(accepted)
  BY <1>1 DEF StreamInv, Unread
<1>5. delivered' \o (sndq' \o outputBuffer') = Iota(accepted)
  <2>1. delivered' \o (sndq' \o outputBuffer) = (delivered' \o sndq') \o outputBuffer
    BY <1>1, <1>2, Joined
  <2>2. delivered \o (sndq \o outputBuffer) = (delivered \o sndq) \o outputBuffer
    BY <1>1, Joined
  <2> QED BY <1>1, <1>2, <1>4, <2>1, <2>2
<1>6. (delivered \o Unread = Iota(accepted))'
  BY <1>1, <1>5 DEF Unread, Iota
<1> QED BY <1>1, <1>2, <1>3, <1>6 DEF StreamInv

\* The peer resets the connection and the kernel drops its send buffer.
LEMMA PeerResetsKeepsStream ==
  ASSUME StreamInv, PeerResets
  PROVE  StreamInv'
<1>1. /\ accepted \in Nat /\ delivered \in Seq(Nat) /\ outputBuffer \in Seq(Nat)
      /\ sndq \in Seq(Nat) /\ reset' = TRUE /\ sndq' = <<>>
      /\ UNCHANGED <<accepted, delivered, outputBuffer>> /\ ~reset
      /\ SndBuf \in Nat
  BY SizeAssumption DEF StreamInv, PeerResets, connVars, histVars
<1>2. IsPrefix(delivered \o sndq, Iota(accepted))
  BY StreamInvIntact DEF StreamIntact
<1>3. IsPrefix(delivered, Iota(accepted))
  <2>1. PICK d \in Seq(Nat) : d = delivered \o sndq
    BY <1>1, Joined
  <2>2. /\ Len(d) = Len(delivered) + Len(sndq)
        /\ \A i \in 1..(Len(delivered) + Len(sndq)) :
             d[i] = IF i <= Len(delivered) THEN delivered[i] ELSE sndq[i - Len(delivered)]
    BY <1>1, <2>1, ConcatProperties
  <2>3. Len(d) <= accepted /\ \A i \in 1..Len(d) : d[i] = i
    BY <1>1, <1>2, <2>1, IotaPrefix
  <2>4. Len(delivered) \in Nat /\ Len(sndq) \in Nat
    BY <1>1, LenProperties
  <2>5. Len(delivered) <= accepted
    BY <1>1, <2>2, <2>3, <2>4
  <2>6. ASSUME NEW i \in 1..Len(delivered) PROVE delivered[i] = i
    <3>1. i \in 1..(Len(delivered) + Len(sndq)) /\ i <= Len(delivered)
      BY <2>4
    <3>2. d[i] = delivered[i]
      BY <2>2, <3>1
    <3>3. d[i] = i
      BY <2>2, <2>3, <3>1
    <3> QED BY <3>2, <3>3
  <2> QED BY <1>1, <2>5, <2>6, IotaPrefix
<1>4. IsPrefix(delivered, Iota(accepted))'
  BY <1>1, <1>3 DEF Iota, IsPrefix
<1>5. sndq' \in Seq(Nat) /\ Len(sndq') <= SndBuf
  BY <1>1, EmptySeq
<1> QED BY <1>1, <1>4, <1>5 DEF StreamInv

\* Everything else leaves the stream alone.
LEMMA StreamFrame ==
  ASSUME StreamInv, UNCHANGED streamVars
  PROVE  StreamInv'
<1>1. Unread' = Unread
  BY DEF streamVars, Unread
<1> QED BY <1>1, StreamGrows DEF streamVars, StreamInv

\* Every step of the loops, of the application and of the peer keeps the stream.
LEMMA StreamStep == StreamInv /\ [Next]_vars => StreamInv'
<1> SUFFICES ASSUME StreamInv, [Next]_vars PROVE StreamInv'
  OBVIOUS
<1> USE DEF streamVars, connVars, sockVars, inVars, histVars
<1>1. CASE MessageSend
  <2>1. CASE state = "kConnected"
    BY <1>1, <2>1, SendKeepsStream DEF MessageSend
  <2>2. CASE state # "kConnected"
    BY <1>1, <2>2, StreamFrame DEF MessageSend
  <2> QED BY <2>1, <2>2
<1>2. CASE RunSend
  <2>1. CASE SendInLoop
    BY <2>1, SendKeepsStream
  <2>2. CASE UNCHANGED <<connVars, sockVars, histVars>>
    BY <2>2, StreamFrame
  <2> QED BY <1>2, <2>1, <2>2 DEF RunSend
<1>3. CASE WriteStage
  <2>1. CASE "OUT" \in revents
    BY <1>3, <2>1, WriteKeepsStream DEF WriteStage
  <2>2. CASE "OUT" \notin revents
    BY <1>3, <2>2, StreamFrame DEF WriteStage
  <2> QED BY <2>1, <2>2
<1>4. CASE PeerReads BY <1>4, PeerReadsKeepsStream
<1>5. CASE PeerResets BY <1>5, PeerResetsKeepsStream
<1>6. CASE PollReturn \/ CloseStage \/ ErrorStage \/ ReadStage \/ ReadEofStage
           \/ ReadErrorStage \/ NoReadStage \/ MessageShutdown \/ MessageDone
  BY <1>6, StreamFrame DEF PollReturn, CloseStage, ErrorStage, ReadStage, ReadEofStage,
     ReadErrorStage, NoReadStage, MessageShutdown, MessageDone, HandleClose
<1>7. CASE SwapFunctors \/ RunEstablished \/ RunShutdown \/ RunCallback \/ RunDestroy
           \/ FunctorsDone
  BY <1>7, StreamFrame DEF SwapFunctors, RunEstablished, RunShutdown, RunCallback, RunDestroy,
     ConnectDestroy, FunctorsDone
<1>8. CASE BaseStep \/ StopStep
  BY <1>8, StreamFrame DEF BaseStep, StopStep, BaseRemove, BaseDestroy, BaseRelease,
     ConnectDestroy, ServerStop, PoolStop, BaseLoopGone
<1>9. ASSUME NEW u \in Users, UserStep(u) PROVE StreamInv'
  BY <1>9, StreamFrame DEF UserStep, UserFinish, UserCall, UserQueueSend, UserSetState,
     UserQueueShutdown, UserRelease
<1>10. CASE PeerSend \/ PeerCloses
  BY <1>10, StreamFrame DEF PeerSend, PeerCloses
<1>11. CASE UNCHANGED vars
  BY <1>11, StreamFrame DEF vars
<1> QED BY <1>1, <1>2, <1>3, <1>4, <1>5, <1>6, <1>7, <1>8, <1>9, <1>10, <1>11
        DEF Next, IoStep, Handle, RunFunctor, PeerStep

\* A new connection has an empty stream.
LEMMA StreamInit == Init => StreamInv
<1> SUFFICES ASSUME Init PROVE StreamInv
  OBVIOUS
<1>1. accepted = 0 /\ delivered = <<>> /\ sndq = <<>> /\ outputBuffer = <<>> /\ reset = FALSE
  BY DEF Init
<1>2. <<>> \in Seq(Nat) /\ Len(<<>>) = 0
  BY EmptySeq
<1>3. Iota(0) \in Seq(Nat) /\ Len(Iota(0)) = 0
  BY IotaFacts
<1>4. Iota(0) = <<>>
  BY <1>3, EmptySeq
<1>5. delivered \o Unread = Iota(accepted)
  BY <1>1, <1>2, <1>4, Joined DEF Unread
<1>6. Len(sndq) <= SndBuf
  BY <1>1, <1>2, SizeAssumption
<1> QED BY <1>1, <1>2, <1>5, <1>6 DEF StreamInv

\* TcpConnection.cc 93-126 and 171-224: for every message length, send buffer and
\* interleaving, the peer reads the bytes sendInLoop() accepted, in order, none
\* twice, and none is lost unless the connection is reset.
THEOREM StreamAlwaysIntact == Spec => []StreamIntact
  BY StreamInit, StreamStep, StreamInvIntact, PTL DEF Spec

-----------------------------------------------------------------------------
(***************************************************************************)
(* The life of the connection.  connectEstablished() is the first functor  *)
(* the io loop gets, and nothing happens to the connection before it has   *)
(* run (EarlyInv); afterwards there is no other one (LateInv).  Once the   *)
(* down callback was made the channel does not ask for input any more;     *)
(* unless shutdown() wrote over kDisconnected it asks for nothing, is not  *)
(* in the epoll set, and stays so, because a functor that would register   *)
(* it again finds kDisconnected (PhaseInv).  Until the down callback       *)
(* somebody is going to make it (OwnerInv).  A handler that has already    *)
(* closed has no IN left in revents_ (TurnInv).                            *)
(***************************************************************************)
Kinds(q) == {q[k] : k \in 1..Len(q)}
Queued == Kinds(pending) \cup Kinds(batch)

(* connectEstablished() is first in the queue and nowhere else.            *)
Fresh(q) ==
  /\ q # <<>> /\ q[1] = "established"
  /\ \A k \in 2..Len(q) : q[k] # "established"

LifeTypes ==
  /\ pending \in Seq(FunctorKinds) /\ batch \in Seq(FunctorKinds)
  /\ upc \in [Users -> UserOps \cup {"idle", "queue"}]
  /\ inMap \in BOOLEAN /\ serverGone \in BOOLEAN /\ overwritten \in BOOLEAN
  /\ ups \in {0, 1} /\ downs \in {0, 1, 2} /\ state \in States

EarlyInv ==
  ups = 0 =>
    /\ state = "kConnecting" /\ index = kNew /\ events = {} /\ downs = 0
    /\ \A u \in Users : upc[u] = "idle"
    /\ \/ pc \in {"poll", "swap"} /\ Fresh(pending)
       \/ pc = "functors" /\ Fresh(batch) /\ "established" \notin Kinds(pending)

LateInv == ups = 1 => "established" \notin Queued /\ state # "kConnecting"

PhaseInv ==
  /\ state = "kDisconnected" => downs # 0
  /\ downs # 0 => "read" \notin events /\ state # "kConnected"
  /\ downs # 0 /\ overwritten = FALSE =>
       downs = 1 /\ events = {} /\ index # kAdded /\ state = "kDisconnected"
  /\ baseQueue # <<>> => downs # 0

OwnerInv ==
  downs = 0 => \/ inMap = TRUE
               \/ serverGone = TRUE /\ ("destroy" \in Queued \/ state = "kDisconnectiong")

TurnInv ==
  /\ pc \in {"close", "error", "read"} => (index = kAdded /\ downs = 0) \/ "IN" \notin revents
  /\ pc = "close" /\ overwritten = FALSE => index = kAdded /\ downs = 0
  /\ pc # "functors" => batch = <<>>

LifeInv ==
  LifeTypes /\ EarlyInv /\ LateInv /\ PhaseInv /\ OwnerInv /\ TurnInv

-----------------------------------------------------------------------------
(* Queues of functors.                                                     *)

\* A functor behind a queue.
LEMMA KindsAppended ==
  ASSUME NEW q \in Seq(FunctorKinds), NEW e \in FunctorKinds
  PROVE  /\ Append(q, e) \in Seq(FunctorKinds)
         /\ Kinds(Append(q, e)) = Kinds(q) \cup {e}
         /\ Fresh(q) /\ e # "established" => Fresh(Append(q, e))
<1> DEFINE r == Append(q, e)
<1>1. /\ r \in Seq(FunctorKinds) /\ Len(r) = Len(q) + 1 /\ Len(q) \in Nat
      /\ \A k \in 1..Len(q) : r[k] = q[k]
      /\ r[Len(q) + 1] = e
  BY AppendProperties, LenProperties
<1> HIDE DEF r
<1>2. ASSUME NEW x \in Kinds(r) PROVE x \in Kinds(q) \cup {e}
  <2>1. PICK k \in 1..Len(r) : x = r[k]
    BY <1>2 DEF Kinds
  <2>2. CASE k = Len(q) + 1
    BY <1>1, <2>1, <2>2
  <2>3. CASE k \in 1..Len(q)
    BY <1>1, <2>1, <2>3 DEF Kinds
  <2> QED BY <1>1, <2>1, <2>2, <2>3
<1>3. ASSUME NEW x \in Kinds(q) \cup {e} PROVE x \in Kinds(r)
  <2>1. CASE x = e
    <3>1. Len(q) + 1 \in 1..Len(r)
      BY <1>1
    <3> QED BY <1>1, <2>1, <3>1 DEF Kinds
  <2>2. CASE x \in Kinds(q)
    <3>1. PICK k \in 1..Len(q) : x = q[k]
      BY <2>2 DEF Kinds
    <3>2. k \in 1..Len(r) /\ r[k] = q[k]
      BY <1>1
    <3> QED BY <3>1, <3>2 DEF Kinds
  <2> QED BY <2>1, <2>2
<1>4. ASSUME Fresh(q), e # "established" PROVE Fresh(r)
  <2>1. Len(q) # 0
    BY <1>4, EmptySeq DEF Fresh
  <2>2. r # <<>> /\ 1 \in 1..Len(q) /\ r[1] = q[1]
    BY <1>1, <2>1
  <2>3. ASSUME NEW k \in 2..Len(r) PROVE r[k] # "established"
    <3>1. CASE k = Len(q) + 1
      BY <1>1, <1>4, <3>1
    <3>2. CASE k \in 2..Len(q)
      BY <1>1, <1>4, <3>2 DEF Fresh
    <3> QED BY <1>1, <3>1, <3>2
  <2> QED BY <1>4, <2>2, <2>3 DEF Fresh
<1>5. Kinds(r) = Kinds(q) \cup {e}
  BY <1>2, <1>3
<1> QED BY <1>1, <1>4, <1>5 DEF r

\* A queue without its first functor.
LEMMA KindsTail ==
  ASSUME NEW q \in Seq(FunctorKinds), q # <<>>
  PROVE  /\ Tail(q) \in Seq(FunctorKinds) /\ Head(q) = q[1] /\ Head(q) \in FunctorKinds
         /\ Kinds(q) = {Head(q)} \cup Kinds(Tail(q))
         /\ Fresh(q) => "established" \notin Kinds(Tail(q))
<1> DEFINE r == Tail(q)
<1>1. /\ r \in Seq(FunctorKinds) /\ Len(r) = Len(q) - 1 /\ Len(q) \in Nat /\ Len(q) # 0
      /\ \A k \in 1..Len(r) : r[k] = q[k + 1]
      /\ Head(q) = q[1] /\ Head(q) \in FunctorKinds
  BY HeadTailProperties, LenProperties, EmptySeq
<1> HIDE DEF r
<1>2. ASSUME NEW x \in Kinds(q) PROVE x \in {Head(q)} \cup Kinds(r)
  <2>1. PICK k \in 1..Len(q) : x = q[k]
    BY <1>2 DEF Kinds
  <2>2. CASE k = 1
    BY <1>1, <2>1, <2>2
  <2>3. CASE k # 1
    <3>1. k - 1 \in 1..Len(r) /\ r[k - 1] = q[k]
      BY <1>1, <2>3
    <3> QED BY <2>1, <3>1 DEF Kinds
  <2> QED BY <2>2, <2>3
<1>3. ASSUME NEW x \in {Head(q)} \cup Kinds(r) PROVE x \in Kinds(q)
  <2>1. CASE x = Head(q)
    <3>1. 1 \in 1..Len(q)
      BY <1>1
    <3> QED BY <1>1, <2>1, <3>1 DEF Kinds
  <2>2. CASE x \in Kinds(r)
    <3>1. PICK k \in 1..Len(r) : x = r[k]
      BY <2>2 DEF Kinds
    <3>2. k + 1 \in 1..Len(q) /\ r[k] = q[k + 1]
      BY <1>1
    <3> QED BY <3>1, <3>2 DEF Kinds
  <2> QED BY <2>1, <2>2
<1>4. ASSUME Fresh(q), "established" \in Kinds(r) PROVE FALSE
  <2>1. PICK k \in 1..Len(r) : r[k] = "established"
    BY <1>4 DEF Kinds
  <2>2. k + 1 \in 2..Len(q) /\ r[k] = q[k + 1]
    BY <1>1
  <2> QED BY <1>4, <2>1, <2>2 DEF Fresh
<1>5. Kinds(q) = {Head(q)} \cup Kinds(r)
  BY <1>2, <1>3
<1> QED BY <1>1, <1>4, <1>5 DEF r

\* The empty queue.
LEMMA KindsEmpty == Kinds(<<>>) = {} /\ <<>> \in Seq(FunctorKinds) /\ ~ Fresh(<<>>)
<1>1. Len(<<>>) = 0 /\ <<>> \in Seq(FunctorKinds)
  BY EmptySeq
<1>2. 1..Len(<<>>) = {}
  BY <1>1
<1> QED BY <1>1, <1>2 DEF Kinds, Fresh

\* connectEstablished() is in a fresh queue.
LEMMA FreshKinds ==
  ASSUME NEW q \in Seq(FunctorKinds), Fresh(q)
  PROVE  "established" \in Kinds(q) /\ q # <<>> /\ Head(q) = "established"
<1>1. q # <<>> /\ q[1] = "established"
  BY DEF Fresh
<1> QED BY <1>1, KindsTail

-----------------------------------------------------------------------------
(* The steps, by what they do to the life of the connection.               *)

\* A step that moves the io thread, or nothing.
LEMMA LifeMove ==
  ASSUME LifeInv, TurnInv',
         UNCHANGED <<state, events, index, ups, downs, pending, batch, inMap, baseQueue,
                     serverGone, upc, overwritten>>,
         ups = 0 => pc' = pc \/ (pc = "poll" /\ pc' = "swap")
  PROVE  LifeInv'
<1>1. Queued' = Queued
  BY DEF Queued
<1>2. LifeTypes'
  BY DEF LifeInv, LifeTypes
<1>3. EarlyInv'
  BY DEF LifeInv, EarlyInv
<1>4. LateInv' /\ PhaseInv' /\ OwnerInv'
  BY <1>1 DEF LifeInv, LateInv, PhaseInv, OwnerInv
<1> QED BY <1>2, <1>3, <1>4 DEF LifeInv

\* The connection is up or was: the place of the io thread says so.
LEMMA Established ==
  ASSUME LifeInv, \/ pc \notin {"poll", "swap", "functors"}
                  \/ pc = "functors" /\ batch = <<>>
                  \/ pc = "functors" /\ batch # <<>> /\ Head(batch) # "established"
  PROVE  ups = 1
<1>1. ASSUME ups = 0 PROVE FALSE
  <2>1. pc = "functors" /\ Fresh(batch)
    BY <1>1 DEF LifeInv, EarlyInv
  <2>2. batch # <<>> /\ Head(batch) = "established"
    BY <2>1, FreshKinds DEF LifeInv, LifeTypes
  <2> QED BY <2>1, <2>2
<1> QED BY <1>1 DEF LifeInv, LifeTypes

\* Output: the channel may be registered while the connection is up, callbacks are queued,
\* functors are run.
LEMMA LifeOutput ==
  ASSUME LifeInv, ups = 1,
         UNCHANGED <<state, ups, downs, inMap, baseQueue, serverGone, upc, overwritten>>,
         downs = 0 \/ overwritten = TRUE \/ UNCHANGED <<events, index>>,
         "read" \in events' => "read" \in events,
         pending' \in Seq(FunctorKinds), batch' \in Seq(FunctorKinds),
         Kinds(pending) \subseteq Kinds(pending'),
         Kinds(pending') \subseteq Kinds(pending) \cup {"complete", "highwater"},
         Kinds(batch') \subseteq Kinds(batch),
         "destroy" \in Kinds(batch) => "destroy" \in Kinds(batch'),
         pc' \notin {"close", "error", "read"},
         pc' # "functors" => batch' = <<>>
  PROVE  LifeInv'
<1>1. /\ Queued' \subseteq Queued \cup {"complete", "highwater"}
      /\ "destroy" \in Queued => "destroy" \in Queued'
  BY DEF Queued
<1>2. LifeTypes'
  BY DEF LifeInv, LifeTypes
<1>3. EarlyInv'
  BY DEF EarlyInv
<1>4. LateInv'
  BY <1>1 DEF LifeInv, LateInv
<1>5. PhaseInv'
  BY DEF LifeInv, LifeTypes, PhaseInv
<1>6. OwnerInv'
  BY <1>1 DEF LifeInv, OwnerInv
<1>7. TurnInv'
  BY DEF TurnInv
<1> QED BY <1>2, <1>3, <1>4, <1>5, <1>6, <1>7 DEF LifeInv

\* The down callback: the channel is taken out, the state is kDisconnected.
LEMMA LifeDown ==
  ASSUME LifeInv, ups = 1, UNCHANGED <<ups, inMap, serverGone, upc, overwritten>>,
         state' = "kDisconnected", events' = {}, downs' \in {1, 2},
         overwritten = FALSE => downs' = 1 /\ index' # kAdded,
         pending' = pending, batch' \in Seq(FunctorKinds), Kinds(batch') \subseteq Kinds(batch),
         TurnInv'
  PROVE  LifeInv'
<1>1. Queued' \subseteq Queued
  BY DEF Queued
<1>2. LifeTypes'
  BY DEF LifeInv, LifeTypes, States
<1>3. EarlyInv'
  BY DEF EarlyInv
<1>4. LateInv'
  BY <1>1 DEF LifeInv, LateInv
<1>5. PhaseInv' /\ OwnerInv'
  BY DEF PhaseInv, OwnerInv
<1> QED BY <1>2, <1>3, <1>4, <1>5, TurnInv' DEF LifeInv

\* sendInLoop() registers the channel only while the connection is up.
LEMMA SendEffect ==
  ASSUME LifeInv, SendInLoop
  PROVE  /\ UNCHANGED <<state, ups, downs>>
         /\ downs = 0 \/ overwritten = TRUE \/ UNCHANGED <<events, index>>
         /\ "read" \in events' => "read" \in events
         /\ pending' \in Seq(FunctorKinds)
         /\ Kinds(pending) \subseteq Kinds(pending')
         /\ Kinds(pending') \subseteq Kinds(pending) \cup {"complete", "highwater"}
<1>1. pending \in Seq(FunctorKinds)
  BY DEF LifeInv, LifeTypes
<1>2. UNCHANGED <<state, ups, downs>>
  BY DEF SendInLoop, connVars
<1>3. /\ downs = 0 \/ overwritten = TRUE \/ UNCHANGED <<events, index>>
      /\ "read" \in events' => "read" \in events
  <2>1. downs = 0 \/ overwritten = TRUE \/ state = "kDisconnected"
    BY DEF LifeInv, LifeTypes, PhaseInv
  <2>2. state = "kDisconnected" => UNCHANGED <<events, index>>
    BY DEF SendInLoop, connVars
  <2>3. events' = events \/ events' = events \cup {"write"}
    BY DEF SendInLoop, WatchOutput, SetEvents, connVars
  <2> QED BY <2>1, <2>2, <2>3
<1>4. \/ pending' = pending \/ pending' = pending \o <<>>
      \/ pending' = pending \o <<"complete">>
      \/ pending' = pending \o <<"highwater">>
  BY Zenon DEF SendInLoop
<1>5. pending \o <<>> = pending
  BY <1>1, ConcatEmptySeq
<1>6. ASSUME NEW k \in {"complete", "highwater"}
      PROVE  pending \o <<k>> = Append(pending, k)
  <2>1. k \in FunctorKinds
    BY DEF FunctorKinds, Owning
  <2> QED BY <1>1, <2>1, AppendIsConcat
<1>7. CASE pending' = pending
  BY <1>1, <1>2, <1>3, <1>7
<1>8. ASSUME NEW k \in {"complete", "highwater"}, pending' = Append(pending, k)
      PROVE  /\ pending' \in Seq(FunctorKinds) /\ Kinds(pending) \subseteq Kinds(pending')
             /\ Kinds(pending') \subseteq Kinds(pending) \cup {"complete", "highwater"}
  <2>1. k \in FunctorKinds
    BY DEF FunctorKinds, Owning
  <2>2. pending' \in Seq(FunctorKinds) /\ Kinds(pending') = Kinds(pending) \cup {k}
    BY <1>1, <1>8, <2>1, KindsAppended
  <2> QED BY <2>2
<1> QED BY <1>2, <1>3, <1>4, <1>5, <1>6, <1>7, <1>8

\* handleWrite(), likewise: a channel that is not watched for writing is left alone.
LEMMA WriteEffect ==
  ASSUME LifeInv, HandleWrite
  PROVE  /\ UNCHANGED state
         /\ downs = 0 \/ overwritten = TRUE \/ UNCHANGED <<events, index>>
         /\ "read" \in events' => "read" \in events
         /\ pending' \in Seq(FunctorKinds)
         /\ Kinds(pending) \subseteq Kinds(pending')
         /\ Kinds(pending') \subseteq Kinds(pending) \cup {"complete", "highwater"}
<1>1. pending \in Seq(FunctorKinds)
  BY DEF LifeInv, LifeTypes
<1>2. UNCHANGED state
  BY DEF HandleWrite, connVars
<1>3. /\ downs = 0 \/ overwritten = TRUE \/ UNCHANGED <<events, index>>
      /\ "read" \in events' => "read" \in events
  <2>1. isWriting(events) => downs = 0 \/ overwritten = TRUE
    BY DEF isWriting, LifeInv, PhaseInv, LifeTypes
  <2>2. events' = events \/ events' = events \ {"read"}
    BY DEF HandleWrite, SetEvents, WithoutWriting, connVars
  <2>3. ~isWriting(events) => UNCHANGED <<events, index>>
    BY DEF HandleWrite, connVars
  <2> QED BY <2>1, <2>2, <2>3
<1>4. pending' = pending \/ pending' = Append(pending, "complete")
  BY DEF HandleWrite
<1>5. "complete" \in FunctorKinds
  BY DEF FunctorKinds, Owning
<1>6. CASE pending' = pending
  BY <1>1, <1>2, <1>3, <1>6
<1>7. CASE pending' = Append(pending, "complete")
  <2>1. pending' \in Seq(FunctorKinds) /\ Kinds(pending') = Kinds(pending) \cup {"complete"}
    BY <1>1, <1>5, <1>7, KindsAppended
  <2> QED BY <1>2, <1>3, <2>1
<1> QED BY <1>4, <1>6, <1>7

-----------------------------------------------------------------------------
(* The io thread.                                                          *)

\* epoll_wait() returns: a handler begins only for a channel in the epoll set.
LEMMA LifePoll ==
  ASSUME LifeInv, PollReturn
  PROVE  LifeInv'
<1>1. UNCHANGED <<state, events, index, ups, downs, pending, batch, inMap, baseQueue,
                  serverGone, upc, overwritten>>
  BY DEF PollReturn, connVars, baseVars, userVars, histVars
<1>2. /\ Ready # {} => index = kAdded
      /\ "IN" \in Ready => index = kAdded /\ "read" \in events
  BY DEF Ready
<1>3. /\ index = kAdded => ups = 1 /\ (downs = 0 \/ overwritten = TRUE)
      /\ "read" \in events => downs = 0
  BY DEF LifeInv, LifeTypes, EarlyInv, PhaseInv, kNew, kAdded
<1>4. pc = "poll" /\ (pc' = IF Ready = {} THEN "swap" ELSE "close") /\ revents' = Ready
  BY DEF PollReturn
<1>5. TurnInv'
  BY <1>1, <1>2, <1>3, <1>4 DEF LifeInv, TurnInv
<1>6. ups = 0 => pc = "poll" /\ pc' = "swap"
  BY <1>2, <1>3, <1>4
<1> QED BY <1>1, <1>5, <1>6, LifeMove

\* The stages of handleEventWrithGuARD() that call nothing of the connection.
LEMMA LifeStages ==
  ASSUME LifeInv, \/ CloseStage /\ ~ ClosesOnHup
                  \/ ErrorStage \/ ReadStage \/ ReadErrorStage \/ NoReadStage \/ MessageDone
  PROVE  LifeInv'
<1>1. UNCHANGED <<state, events, index, ups, downs, pending, batch, inMap, baseQueue,
                  serverGone, upc, overwritten, revents>>
  BY DEF CloseStage, ErrorStage, ReadStage, ReadErrorStage, NoReadStage, MessageDone,
         connVars, baseVars, userVars, histVars
<1>2. /\ pc \in {"close", "error", "read", "message"}
      /\ pc' \in {"error", "read", "message", "write"}
      /\ pc' = "error" => pc = "close"
      /\ pc' = "read" => pc = "error"
  BY DEF CloseStage, ErrorStage, ReadStage, ReadErrorStage, NoReadStage, MessageDone
<1>3. ups = 1
  BY <1>2, Established
<1>4. TurnInv'
  BY <1>1, <1>2 DEF LifeInv, TurnInv
<1> QED BY <1>1, <1>3, <1>4, LifeMove

\* handleClose(), from HUP without IN or from the end of the stream: a second time only for
\* a channel that was registered again.
LEMMA LifeClose ==
  ASSUME LifeInv, (CloseStage /\ ClosesOnHup) \/ ReadEofStage
  PROVE  LifeInv'
<1>1. /\ HandleClose /\ UNCHANGED <<pending, batch, upc, overwritten, revents>>
      /\ \/ pc = "close" /\ pc' = "error" /\ "IN" \notin revents
         \/ pc = "read" /\ pc' = "write" /\ "IN" \in revents
  BY DEF CloseStage, ReadEofStage, ClosesOnHup, userVars
<1>2. overwritten = FALSE => index = kAdded /\ downs = 0
  BY <1>1 DEF LifeInv, TurnInv
<1>3. ups = 1
  BY <1>1, Established
<1>4. /\ state' = "kDisconnected" /\ events' = {} /\ downs' \in {1, 2}
      /\ UNCHANGED <<ups, inMap, serverGone>>
  BY <1>1 DEF HandleClose, SetEvents, DownAgain
<1>5. overwritten = FALSE => downs' = 1 /\ index' # kAdded
  BY <1>1, <1>2 DEF HandleClose, SetEvents, UpdatedIndex, DownAgain, kDeleted, kAdded
<1>6. TurnInv'
  BY <1>1 DEF LifeInv, TurnInv
<1>7. batch' \in Seq(FunctorKinds) /\ Kinds(batch') \subseteq Kinds(batch)
  BY <1>1 DEF LifeInv, LifeTypes
<1> QED BY <1>1, <1>3, <1>4, <1>5, <1>6, <1>7, LifeDown

\* send() by onMessage.
LEMMA LifeMessageSend ==
  ASSUME LifeInv, MessageSend
  PROVE  LifeInv'
<1>1. /\ pc = "message" /\ pc' = pc
      /\ UNCHANGED <<batch, inMap, baseQueue, serverGone, upc, overwritten>>
  BY DEF MessageSend, Calls, baseVars, userVars
<1>2. ups = 1
  BY <1>1, Established
<1>3. batch' \in Seq(FunctorKinds) /\ batch' = <<>> /\ pending \in Seq(FunctorKinds)
  BY <1>1 DEF LifeInv, LifeTypes, TurnInv
<1>4. CASE state = "kConnected"
  <2>1. SendInLoop
    BY <1>4 DEF MessageSend
  <2> QED BY <1>1, <1>2, <1>3, <2>1, SendEffect, LifeOutput
<1>5. CASE state # "kConnected"
  <2>1. UNCHANGED <<state, events, index, ups, downs, pending>>
    BY <1>5 DEF MessageSend, connVars, histVars
  <2> QED BY <1>1, <1>2, <1>3, <2>1, LifeOutput
<1> QED BY <1>4, <1>5

\* handleWrite().
LEMMA LifeWrite ==
  ASSUME LifeInv, WriteStage
  PROVE  LifeInv'
<1>1. /\ pc = "write" /\ pc' = "swap"
      /\ UNCHANGED <<batch, inMap, baseQueue, serverGone, upc, overwritten,
                   ups, downs>>
  BY DEF WriteStage, baseVars, userVars, histVars
<1>2. ups = 1
  BY <1>1, Established
<1>3. batch' \in Seq(FunctorKinds) /\ batch' = <<>> /\ pending \in Seq(FunctorKinds)
  BY <1>1 DEF LifeInv, LifeTypes, TurnInv
<1>4. CASE "OUT" \in revents
  <2>1. HandleWrite
    BY <1>4 DEF WriteStage
  <2> QED BY <1>1, <1>2, <1>3, <2>1, WriteEffect, LifeOutput
<1>5. CASE "OUT" \notin revents
  <2>1. UNCHANGED <<state, events, index, pending>>
    BY <1>5 DEF WriteStage, connVars
  <2> QED BY <1>1, <1>2, <1>3, <2>1, LifeOutput
<1> QED BY <1>4, <1>5

\* shutdown() by onMessage, and the first step of one on another thread, which may come
\* after the down callback: then it writes over kDisconnected.
LEMMA LifeShutdown ==
  ASSUME LifeInv, MessageShutdown \/ \E u \in Users : UserSetState(u)
  PROVE  LifeInv'
<1>1. UNCHANGED <<events, index, ups, downs, pending, batch, inMap, baseQueue, serverGone,
                  pc, revents>>
  BY DEF MessageShutdown, UserSetState, baseVars, histVars, loopVars
<1>2. Queued' = Queued
  BY <1>1 DEF Queued
<1>3. CASE MessageShutdown
  <2>1. upc' = upc /\ overwritten' = overwritten
    BY <1>3 DEF MessageShutdown, userVars
  <2>2. CASE state # "kConnected"
    <3>1. state' = state
      BY <1>3, <2>2 DEF MessageShutdown
    <3>2. TurnInv'
      BY <1>1, <2>1 DEF LifeInv, TurnInv
    <3> QED BY <1>1, <2>1, <3>1, <3>2, LifeMove
  <2>3. CASE state = "kConnected"
    <3>1. state' = "kDisconnectiong" /\ pc = "message"
      BY <1>3, <2>3 DEF MessageShutdown, Calls
    <3>2. ups = 1 /\ downs = 0
      BY <2>3, <3>1, Established DEF LifeInv, PhaseInv, LifeTypes
    <3>3. LifeTypes'
      BY <1>1, <2>1, <3>1 DEF LifeInv, LifeTypes, States
    <3>4. EarlyInv' /\ LateInv'
      BY <1>1, <1>2, <3>1, <3>2 DEF LifeInv, EarlyInv, LateInv
    <3>5. PhaseInv' /\ OwnerInv'
      BY <1>1, <1>2, <3>1, <3>2 DEF LifeInv, PhaseInv, OwnerInv
    <3>6. TurnInv'
      BY <1>1, <2>1 DEF LifeInv, TurnInv
    <3> QED BY <3>3, <3>4, <3>5, <3>6 DEF LifeInv
  <2> QED BY <2>2, <2>3
<1>4. ASSUME NEW u \in Users, UserSetState(u) PROVE LifeInv'
  <2>1. /\ state' = "kDisconnectiong" /\ upc[u] = "shutdown"
        /\ upc' = [upc EXCEPT ![u] = "queue"]
        /\ upc \in [Users -> UserOps \cup {"idle", "queue"}]
        /\ overwritten \in BOOLEAN
        /\ overwritten' = (overwritten \/ state = "kDisconnected")
    BY <1>4 DEF UserSetState, LifeInv, LifeTypes
  <2>2. ups = 1
    BY <2>1 DEF LifeInv, EarlyInv, LifeTypes
  <2>3. /\ overwritten' \in BOOLEAN
        /\ overwritten' = FALSE => overwritten = FALSE /\ state # "kDisconnected"
    <3>1. overwritten' \in BOOLEAN
      BY <2>1, Zenon
    <3>2. overwritten' = FALSE => overwritten = FALSE /\ state # "kDisconnected"
      BY <2>1, Zenon
    <3> QED BY <3>1, <3>2
  <2>4. overwritten' = FALSE => downs = 0
    BY <2>3 DEF LifeInv, PhaseInv
  <2>5. upc' \in [Users -> UserOps \cup {"idle", "queue"}]
    BY <2>1
  <2>6. LifeTypes'
    BY <1>1, <2>1, <2>3, <2>5 DEF LifeInv, LifeTypes, States
  <2>7. EarlyInv' /\ LateInv'
    BY <1>1, <1>2, <2>1, <2>2 DEF LifeInv, EarlyInv, LateInv
  <2>8. PhaseInv' /\ OwnerInv'
    BY <1>1, <1>2, <2>1, <2>4 DEF LifeInv, PhaseInv, OwnerInv
  <2>9. TurnInv'
    BY <1>1, <2>3 DEF LifeInv, TurnInv
  <2> QED BY <2>6, <2>7, <2>8, <2>9 DEF LifeInv
<1> QED BY <1>3, <1>4

-----------------------------------------------------------------------------
(* The functors of the io loop.                                            *)

\* doPendingFunctors() takes the whole vector, into an empty batch.
LEMMA LifeSwap ==
  ASSUME LifeInv, SwapFunctors
  PROVE  LifeInv'
<1>1. /\ UNCHANGED <<state, events, index, ups, downs, inMap, baseQueue, serverGone, upc, overwritten>>
      /\ pc = "swap" /\ pc' = "functors" /\ batch' = pending /\ pending' = <<>>
  BY DEF SwapFunctors, connVars, baseVars, userVars, histVars
<1>2. batch = <<>>
  BY <1>1 DEF LifeInv, TurnInv
<1>3. Queued' = Queued
  BY <1>1, <1>2, KindsEmpty DEF Queued
<1>4. LifeTypes'
  BY <1>1, KindsEmpty DEF LifeInv, LifeTypes
<1>5. EarlyInv'
  <2>1. "established" \notin Kinds(pending')
    BY <1>1, KindsEmpty
  <2> QED BY <1>1, <2>1 DEF LifeInv, EarlyInv
<1>6. LateInv' /\ PhaseInv' /\ OwnerInv'
  BY <1>1, <1>3 DEF LifeInv, LateInv, PhaseInv, OwnerInv
<1>7. TurnInv'
  BY <1>1 DEF TurnInv
<1> QED BY <1>4, <1>5, <1>6, <1>7 DEF LifeInv

\* The end of the batch.
LEMMA LifeFunctorsDone ==
  ASSUME LifeInv, FunctorsDone
  PROVE  LifeInv'
<1>1. /\ UNCHANGED <<state, events, index, ups, downs, pending, batch, inMap, baseQueue,
                     serverGone, upc, overwritten>>
      /\ pc = "functors" /\ batch = <<>> /\ pc' \in {"exited", "poll"}
  BY DEF FunctorsDone, connVars, baseVars, userVars, histVars
<1>2. ups = 1
  BY <1>1, Established
<1>3. TurnInv'
  BY <1>1 DEF TurnInv
<1> QED BY <1>1, <1>2, <1>3, LifeMove

\* connectEstablished(): it runs once.
LEMMA LifeEstablished ==
  ASSUME LifeInv, RunEstablished
  PROVE  LifeInv'
<1>1. /\ pc = "functors" /\ batch # <<>> /\ Head(batch) = "established"
      /\ batch' = Tail(batch) /\ state' = "kConnected" /\ ups' = ups + 1
      /\ UNCHANGED <<pc, pending, inMap, baseQueue, serverGone, upc, overwritten, downs>>
  BY DEF RunEstablished, RunsNext, baseVars
<1>2. batch \in Seq(FunctorKinds)
  BY DEF LifeInv, LifeTypes
<1>3. "established" \in Queued
  BY <1>1, <1>2, KindsTail DEF Queued
<1>4. ups = 0
  BY <1>3 DEF LifeInv, LifeTypes, LateInv
<1>5. /\ downs = 0 /\ Fresh(batch) /\ "established" \notin Kinds(pending)
      /\ \A u \in Users : upc[u] = "idle"
  BY <1>1, <1>4 DEF LifeInv, EarlyInv
<1>6. /\ batch' \in Seq(FunctorKinds) /\ Kinds(batch) = {"established"} \cup Kinds(batch')
      /\ "established" \notin Kinds(batch')
  BY <1>1, <1>2, <1>5, KindsTail
<1>7. Queued' = Queued \ {"established"}
  BY <1>1, <1>5, <1>6 DEF Queued
<1>8. LifeTypes'
  BY <1>1, <1>4, <1>6 DEF LifeInv, LifeTypes, States
<1>9. EarlyInv' /\ LateInv'
  BY <1>1, <1>4, <1>7 DEF EarlyInv, LateInv
<1>10. PhaseInv' /\ OwnerInv'
  BY <1>1, <1>4, <1>5, <1>7 DEF LifeInv, PhaseInv, OwnerInv, EarlyInv
<1>11. TurnInv'
  BY <1>1 DEF LifeInv, TurnInv
<1> QED BY <1>8, <1>9, <1>10, <1>11 DEF LifeInv

\* The functors of send() and shutdown(), and the callbacks.
LEMMA LifeFunctors ==
  ASSUME LifeInv, RunSend \/ RunShutdown \/ RunCallback
  PROVE  LifeInv'
<1>1. /\ pc = "functors" /\ pc' = pc /\ batch # <<>> /\ batch' = Tail(batch)
      /\ Head(batch) \in {"send", "shutdown", "complete", "highwater"}
      /\ UNCHANGED <<inMap, baseQueue, serverGone, upc, overwritten>>
  BY DEF RunSend, RunShutdown, RunCallback, RunsNext, baseVars, userVars
<1>2. ups = 1
  BY <1>1, Established
<1>3. pending \in Seq(FunctorKinds) /\ batch \in Seq(FunctorKinds)
  BY DEF LifeInv, LifeTypes
<1>4. /\ batch' \in Seq(FunctorKinds) /\ Kinds(batch) = {Head(batch)} \cup Kinds(batch')
  BY <1>1, <1>3, KindsTail
<1>5. "destroy" \in Kinds(batch) => "destroy" \in Kinds(batch')
  BY <1>1, <1>4
<1>6. CASE RunSend /\ SendInLoop
  BY <1>1, <1>2, <1>3, <1>4, <1>5, <1>6, SendEffect, LifeOutput
<1>7. CASE UNCHANGED <<state, events, index, ups, downs, pending>>
  BY <1>1, <1>2, <1>3, <1>4, <1>5, <1>7, LifeOutput
<1>8. (RunSend /\ SendInLoop) \/ UNCHANGED <<state, events, index, ups, downs, pending>>
  BY DEF RunSend, RunShutdown, RunCallback, connVars, histVars
<1> QED BY <1>6, <1>7, <1>8

\* connectDestroy() of ~TcpServer(), on the io loop.
LEMMA LifeRunDestroy ==
  ASSUME LifeInv, RunDestroy
  PROVE  LifeInv'
<1>1. /\ pc = "functors" /\ pc' = pc /\ batch # <<>> /\ Head(batch) = "destroy"
      /\ batch' = Tail(batch) /\ ConnectDestroy
      /\ UNCHANGED <<pending, inMap, baseQueue, serverGone, upc, overwritten, ups>>
  BY DEF RunDestroy, RunsNext, baseVars, userVars
<1>2. ups = 1
  BY <1>1, Established
<1>3. batch \in Seq(FunctorKinds)
  BY DEF LifeInv, LifeTypes
<1>4. batch' \in Seq(FunctorKinds) /\ Kinds(batch) = {"destroy"} \cup Kinds(batch')
  BY <1>1, <1>3, KindsTail
<1>5. Queued' \subseteq Queued
  BY <1>1, <1>4 DEF Queued
<1>6. TurnInv'
  BY <1>1 DEF TurnInv
<1>7. index' = kNew /\ kNew # kAdded
  BY <1>1 DEF ConnectDestroy, kNew, kAdded
<1>8. CASE state = "kConnected"
  <2>1. downs = 0
    BY <1>8 DEF LifeInv, LifeTypes, PhaseInv
  <2>2. state' = "kDisconnected" /\ events' = {} /\ downs' = 1
    BY <1>1, <1>8, <2>1 DEF ConnectDestroy, DownAgain
  <2> QED BY <1>1, <1>2, <1>4, <1>6, <1>7, <2>1, <2>2, LifeDown
<1>9. CASE state # "kConnected"
  <2>1. UNCHANGED <<state, events, downs>>
    BY <1>1, <1>9 DEF ConnectDestroy
  <2>2. LifeTypes'
    BY <1>1, <1>4, <2>1 DEF LifeInv, LifeTypes
  <2>3. EarlyInv'
    BY <1>1, <1>2 DEF EarlyInv
  <2>4. LateInv'
    BY <1>1, <1>5, <2>1 DEF LifeInv, LateInv
  <2>5. PhaseInv'
    BY <1>1, <1>7, <2>1 DEF LifeInv, PhaseInv
  <2>6. OwnerInv'
    <3>1. downs = 0 => state = "kDisconnectiong"
      BY <1>2, <1>9 DEF LifeInv, LifeTypes, States, LateInv, PhaseInv
    <3> QED BY <1>1, <2>1, <3>1 DEF LifeInv, OwnerInv
  <2> QED BY <1>6, <2>2, <2>3, <2>4, <2>5, <2>6 DEF LifeInv
<1> QED BY <1>8, <1>9

-----------------------------------------------------------------------------
(* The base thread.                                                        *)

\* removeConnectionInLoop(), connectDestroy() and the end of the base loop: only for a
\* connection that is down.
LEMMA LifeBase ==
  ASSUME LifeInv, BaseRemove \/ BaseDestroy \/ BaseLoopGone
  PROVE  LifeInv'
<1>1. /\ baseQueue # <<>>
      /\ UNCHANGED <<ups, pending, batch, upc, overwritten, serverGone, pc, revents>>
      /\ inMap' \in {inMap, FALSE}
  BY DEF BaseRemove, BaseDestroy, BaseLoopGone, loopVars, userVars, histVars
<1>2. downs # 0 /\ state # "kConnected" /\ ups = 1
  BY <1>1 DEF LifeInv, PhaseInv, EarlyInv, LifeTypes
<1>3. UNCHANGED <<state, events, downs>> /\ index' \in {index, kNew}
  BY <1>2 DEF BaseRemove, BaseDestroy, BaseLoopGone, ConnectDestroy, connVars, histVars
<1>4. Queued' = Queued
  BY <1>1 DEF Queued
<1>5. LifeTypes'
  BY <1>1, <1>3 DEF LifeInv, LifeTypes
<1>6. EarlyInv' /\ LateInv'
  BY <1>1, <1>2, <1>3, <1>4 DEF LifeInv, EarlyInv, LateInv
<1>7. PhaseInv' /\ OwnerInv'
  <2>1. kNew # kAdded
    BY DEF kNew, kAdded
  <2>2. PhaseInv'
    BY <1>1, <1>2, <1>3, <2>1 DEF LifeInv, PhaseInv
  <2>3. OwnerInv'
    BY <1>2, <1>3 DEF OwnerInv
  <2> QED BY <2>2, <2>3
<1>8. TurnInv'
  BY <1>1, <1>2, <1>3 DEF LifeInv, TurnInv
<1> QED BY <1>5, <1>6, <1>7, <1>8 DEF LifeInv

\* ~TcpServer(): a connection of the map is left to a functor.
LEMMA LifeServerStop ==
  ASSUME LifeInv, ServerStop
  PROVE  LifeInv'
<1>1. /\ UNCHANGED <<state, events, index, ups, downs, batch, baseQueue, upc, overwritten, pc,
                     revents>>
      /\ serverGone' = TRUE /\ inMap' = FALSE /\ ~ serverGone
  BY DEF ServerStop, connVars, userVars, histVars
<1>2. pending \in Seq(FunctorKinds) /\ inMap \in BOOLEAN
  BY DEF LifeInv, LifeTypes
<1>3. "destroy" \in FunctorKinds
  BY DEF FunctorKinds, Owning
<1>4. CASE inMap = TRUE
  <2>1. pending' = Append(pending, "destroy")
    BY <1>4 DEF ServerStop
  <2>2. /\ pending' \in Seq(FunctorKinds) /\ Kinds(pending') = Kinds(pending) \cup {"destroy"}
        /\ Fresh(pending) => Fresh(pending')
    BY <1>2, <1>3, <2>1, KindsAppended
  <2>3. Queued' = Queued \cup {"destroy"}
    BY <1>1, <2>2 DEF Queued
  <2>4. LifeTypes'
    BY <1>1, <2>2 DEF LifeInv, LifeTypes
  <2>5. EarlyInv'
    BY <1>1, <2>2 DEF LifeInv, EarlyInv
  <2>6. LateInv'
    BY <1>1, <2>3 DEF LifeInv, LateInv
  <2>7. PhaseInv'
    BY <1>1 DEF LifeInv, PhaseInv
  <2>8. OwnerInv'
    BY <1>1, <2>3 DEF OwnerInv
  <2>9. TurnInv'
    BY <1>1 DEF LifeInv, TurnInv
  <2> QED BY <2>4, <2>5, <2>6, <2>7, <2>8, <2>9 DEF LifeInv
<1>5. CASE inMap = FALSE
  <2>1. pending' = pending
    BY <1>5 DEF ServerStop
  <2>2. Queued' = Queued
    BY <1>1, <2>1 DEF Queued
  <2>3. downs # 0
    <3>1. serverGone # TRUE
      BY <1>1, Zenon
    <3> QED BY <1>5, <3>1 DEF LifeInv, LifeTypes, OwnerInv
  <2>4. LifeTypes'
    BY <1>1, <2>1 DEF LifeInv, LifeTypes
  <2>5. EarlyInv' /\ LateInv'
    BY <1>1, <2>1, <2>2 DEF LifeInv, EarlyInv, LateInv
  <2>6. PhaseInv' /\ OwnerInv'
    BY <1>1, <2>2, <2>3 DEF LifeInv, PhaseInv, OwnerInv
  <2>7. TurnInv'
    BY <1>1 DEF LifeInv, TurnInv
  <2> QED BY <2>4, <2>5, <2>6, <2>7 DEF LifeInv
<1> QED BY <1>2, <1>4, <1>5

-----------------------------------------------------------------------------
(* The threads of the application.                                         *)

\* One of them has a step of its call done; a functor may be queued for it.
LEMMA LifeCaller ==
  ASSUME LifeInv, ups = 1, NEW kind \in {"send", "shutdown"}, NEW u \in Users,
         NEW op \in UserOps \cup {"idle"},
         UNCHANGED <<state, events, index, ups, downs, batch, inMap, baseQueue, serverGone,
                     overwritten, pc, revents>>,
         upc' = [upc EXCEPT ![u] = op],
         pending' = pending \/ pending' = Append(pending, kind)
  PROVE  LifeInv'
<1>1. pending \in Seq(FunctorKinds) /\ upc \in [Users -> UserOps \cup {"idle", "queue"}]
  BY DEF LifeInv, LifeTypes
<1>2. /\ pending' \in Seq(FunctorKinds)
      /\ Kinds(pending) \subseteq Kinds(pending')
      /\ Kinds(pending') \subseteq Kinds(pending) \cup {kind}
  <2>1. kind \in FunctorKinds
    BY DEF FunctorKinds, Owning
  <2>2. CASE pending' = pending
    BY <1>1, <2>2
  <2>3. CASE pending' = Append(pending, kind)
    BY <1>1, <2>1, <2>3, KindsAppended
  <2> QED BY <2>2, <2>3
<1>3. Queued \subseteq Queued' /\ Queued' \subseteq Queued \cup {kind}
  BY <1>2 DEF Queued
<1>4. LifeTypes'
  BY <1>1, <1>2 DEF LifeInv, LifeTypes
<1>5. EarlyInv'
  BY DEF EarlyInv
<1>6. LateInv'
  BY <1>3 DEF LifeInv, LateInv
<1>7. PhaseInv' /\ OwnerInv' /\ TurnInv'
  BY <1>3 DEF LifeInv, PhaseInv, OwnerInv, TurnInv
<1> QED BY <1>4, <1>5, <1>6, <1>7 DEF LifeInv

\* send() and shutdown() of another thread.
LEMMA LifeUser ==
  ASSUME LifeInv, NEW u \in Users,
         \/ \E op \in UserOps : UserCall(u, op)
         \/ UserQueueSend(u) \/ UserQueueShutdown(u)
  PROVE  LifeInv'
<1>1. UNCHANGED <<state, events, index, ups, downs, batch, inMap, baseQueue, serverGone,
                  overwritten, pc, revents>>
  BY DEF UserCall, UserQueueSend, UserQueueShutdown, connVars, loopVars, baseVars, histVars
<1>2. CASE \E op \in UserOps : UserCall(u, op)
  <2>1. PICK op \in UserOps : UserCall(u, op)
    BY <1>2
  <2>2. state = "kConnected" /\ pending' = pending /\ upc' = [upc EXCEPT ![u] = op]
    BY <2>1 DEF UserCall, loopVars
  <2>3. ups = 1
    BY <2>2 DEF LifeInv, EarlyInv, LifeTypes
  <2> QED BY <1>1, <2>2, <2>3, LifeCaller
<1>3. CASE UserQueueSend(u) \/ UserQueueShutdown(u)
  <2>1. PICK kind \in {"send", "shutdown"} :
          /\ upc[u] # "idle" /\ upc' = [upc EXCEPT ![u] = "idle"]
          /\ pending' = pending \/ pending' = Append(pending, kind)
    BY <1>3 DEF UserQueueSend, UserQueueShutdown, UserQueue
  <2>2. ups = 1
    BY <2>1 DEF LifeInv, EarlyInv, LifeTypes
  <2> QED BY <1>1, <2>1, <2>2, LifeCaller
<1> QED BY <1>2, <1>3

-----------------------------------------------------------------------------
(* The life of a connection.                                               *)

\* The steps that only release a reference, and those of the peer.
LEMMA LifeQuiet ==
  ASSUME LifeInv,
         \/ BaseRelease \/ PoolStop \/ PeerStep \/ UNCHANGED vars
         \/ \E u \in Users : UserRelease(u)
  PROVE  LifeInv'
<1>1. UNCHANGED <<state, events, index, ups, downs, pending, batch, inMap, baseQueue,
                  serverGone, upc, overwritten,
                  pc, revents>>
  <2>1. CASE BaseRelease \/ PoolStop \/ UNCHANGED vars
    BY <2>1 DEF BaseRelease, PoolStop, vars, connVars, loopVars, baseVars, userVars, histVars
  <2>2. CASE PeerStep
    BY <2>2 DEF PeerStep, PeerSend, PeerReads, PeerCloses, PeerResets, connVars, loopVars,
                baseVars, userVars, histVars
  <2>3. CASE \E u \in Users : UserRelease(u)
    BY <2>3 DEF UserRelease, connVars, loopVars, baseVars, userVars, histVars
  <2> QED BY <2>1, <2>2, <2>3
<1>2. TurnInv'
  BY <1>1 DEF LifeInv, TurnInv
<1> QED BY <1>1, <1>2, LifeMove

\* A new connection is in the map and has only connectEstablished() before it.
LEMMA LifeInit == Init => LifeInv
<1> SUFFICES ASSUME Init PROVE LifeInv
  OBVIOUS
<1>1. PICK e \in FunctorKinds : e = "established"
  BY DEF FunctorKinds, Owning
<1>2. pending = <<e>> /\ batch = <<>>
  BY <1>1 DEF Init
<1>3. /\ pending \in Seq(FunctorKinds) /\ batch \in Seq(FunctorKinds)
      /\ Len(pending) = 1 /\ pending # <<>> /\ pending[1] = e
  BY <1>2
<1>4. Kinds(pending) = {"established"} /\ Kinds(batch) = {} /\ Fresh(pending)
  BY <1>1, <1>2, <1>3, KindsEmpty DEF Kinds, Fresh
<1>5. LifeTypes
  BY <1>3 DEF Init, LifeTypes, States
<1>6. EarlyInv /\ LateInv /\ PhaseInv /\ OwnerInv /\ TurnInv
  BY <1>4 DEF Init, EarlyInv, LateInv, PhaseInv, OwnerInv, TurnInv, Queued
<1> QED BY <1>5, <1>6 DEF LifeInv

\* Every step keeps the invariant of the life of the connection.
LEMMA LifeStep == LifeInv /\ [Next]_vars => LifeInv'
<1> SUFFICES ASSUME LifeInv, [Next]_vars PROVE LifeInv'
  OBVIOUS
<1>1. CASE Handle
  BY <1>1, LifeStages, LifeClose, LifeMessageSend, LifeWrite, LifeShutdown DEF Handle
<1>2. CASE PollReturn \/ SwapFunctors \/ FunctorsDone
  BY <1>2, LifePoll, LifeSwap, LifeFunctorsDone
<1>3. CASE RunFunctor
  BY <1>3, LifeEstablished, LifeFunctors, LifeRunDestroy DEF RunFunctor
<1>4. CASE BaseStep \/ StopStep
  BY <1>4, LifeBase, LifeServerStop, LifeQuiet DEF BaseStep, StopStep
<1>5. CASE \E u \in Users : UserStep(u)
  BY <1>5, LifeUser, LifeShutdown, LifeQuiet DEF UserStep, UserFinish
<1>6. CASE PeerStep \/ UNCHANGED vars
  BY <1>6, LifeQuiet
<1> QED BY <1>1, <1>2, <1>3, <1>4, <1>5, <1>6 DEF Next, IoStep

\* The inductive invariant of the life of a connection (TcpConnection.cc 52-137), for any
\* number of threads and of calls of each.
THEOREM LifeInvariant == Spec => []LifeInv
<1>1. LifeInv /\ [Next]_vars => LifeInv'
  BY LifeStep
<1> QED BY <1>1, LifeInit, PTL DEF Spec

\* TcpConnection.cc 52-71 and 129-137: one up callback, then at most one down callback, and
\* the channel is not registered again after it, unless shutdown() on another thread set
\* kDisconnectiong over kDisconnected.
THEOREM DownComesOnce == Spec => []UpThenDown
<1>1. LifeInv => UpThenDown
  BY DEF LifeInv, LifeTypes, EarlyInv, PhaseInv, UpThenDown
<1> QED BY <1>1, LifeInvariant, PTL

\* Channel.cc 54-83, TcpConnection.cc 73-92: onMessage is called only between the up and the
\* down callback, whatever came with the data in the same turn.
THEOREM MessagesOnlyWhileUp == Spec => MessageWhileUp
<1>1. LifeInv /\ [Next]_vars => [pc = "read" /\ pc' = "message" => ups = 1 /\ downs = 0]_vars
  <2> SUFFICES ASSUME LifeInv, [Next]_vars, pc = "read", pc' = "message"
               PROVE  ups = 1 /\ downs = 0
    OBVIOUS
  <2>1. ups = 1
    BY Established
  <2>2. "IN" \in revents
    <3>1. CASE IoStep
      BY <3>1 DEF IoStep, PollReturn, Handle, SwapFunctors, RunFunctor, FunctorsDone,
         CloseStage, ErrorStage, ReadStage, ReadEofStage, ReadErrorStage, NoReadStage,
         MessageSend, MessageShutdown, MessageDone, WriteStage, Calls,
         RunEstablished, RunSend, RunShutdown, RunCallback, RunDestroy, RunsNext
    <3>2. CASE BaseStep \/ StopStep
      BY <3>2 DEF BaseStep, StopStep, BaseRemove, BaseDestroy, BaseRelease, ServerStop,
                  PoolStop, BaseLoopGone, loopVars
    <3>3. CASE \E u \in Users : UserStep(u)
      BY <3>3 DEF UserStep, UserFinish, UserCall, UserQueueSend, UserSetState,
                  UserQueueShutdown, UserRelease, loopVars
    <3>4. CASE PeerStep \/ UNCHANGED vars
      BY <3>4 DEF PeerStep, PeerSend, PeerReads, PeerCloses, PeerResets, vars, loopVars
    <3> QED BY <3>1, <3>2, <3>3, <3>4 DEF Next
  <2>3. downs = 0
    BY <2>2 DEF LifeInv, TurnInv
  <2> QED BY <2>1, <2>3
<1> QED BY <1>1, LifeInvariant, PTL DEF Spec, MessageWhileUp

\* TcpServer.cc 30-40 and 87-99: a connection that was up is destroyed after its down
\* callback, but for a shutdown() under way when the server stops and for an io loop that
\* quits before it gets to connectDestroy().
THEOREM DownBeforeDestruction == Spec => []DownForEveryUp
<1>1. LifeInv => DownForEveryUp
  <2> SUFFICES ASSUME LifeInv, ~ Alive, ~ (downs >= ups)
               PROVE  \/ serverGone /\ state = "kDisconnectiong"
                      \/ pc = "exited" /\ \E i \in 1..Len(pending) : pending[i] = "destroy"
    BY DEF DownForEveryUp
  <2>1. ups = 1 /\ downs = 0
    BY DEF LifeInv, LifeTypes, EarlyInv
  <2>2. inMap # TRUE
    BY Zenon DEF Alive
  <2>3. serverGone = TRUE /\ ("destroy" \in Queued \/ state = "kDisconnectiong")
    BY <2>1, <2>2 DEF LifeInv, OwnerInv
  <2>4. CASE "destroy" \in Kinds(batch)
    BY <2>4 DEF Kinds, Alive, Owning
  <2>5. CASE "destroy" \in Kinds(pending)
    BY <2>5 DEF Kinds, Alive, Owning
  <2> QED BY <2>3, <2>4, <2>5 DEF Queued
<1> QED BY <1>1, LifeInvariant, PTL

=============================================================================
