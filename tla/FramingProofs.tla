----------------------------- MODULE FramingProofs -----------------------------
(***************************************************************************)
(* For every length of a header, every set of payload sizes and any number *)
(* of messages: both byte streams of the control socket are channels of    *)
(* whole messages, however the socket splits their bytes.                  *)
(***************************************************************************)
EXTENDS Framing, SequenceTheorems, WellFoundedInduction, TLAPS

-----------------------------------------------------------------------------
(* Induction over a number, as the least element of a set.                 *)

LEMMA LeastElement ==
    ASSUME NEW T \in SUBSET Nat, T # {}
    PROVE  \E x \in T : \A y \in T : x <= y
<1>1. \E x \in T : \A y \in T : ~(<<y, x>> \in OpToRel(<, Nat))
    BY WFMin, NatLessThanWellFounded
<1>2. PICK x \in T : \A y \in T : ~(<<y, x>> \in OpToRel(<, Nat))
    BY <1>1
<1>3. \A y \in T : ~(y < x)
    BY <1>2 DEF OpToRel
<1> QED
    BY <1>3

(* A set of numbers that has zero and with each number the next has all.   *)
LEMMA InductionOnSets ==
    ASSUME NEW S \in SUBSET Nat, 0 \in S, \A k \in S : k + 1 \in S
    PROVE  S = Nat
<1> SUFFICES ASSUME S # Nat PROVE FALSE
    OBVIOUS
<1>1. PICK x \in Nat \ S : \A y \in Nat \ S : x <= y
    BY LeastElement
<1>2. x # 0 /\ x - 1 \in Nat /\ x - 1 \in S
    BY <1>1
<1> QED
    BY <1>1, <1>2

(* And one up to L that has each number all the greater ones of which it has. *)
LEMMA DownwardInduction ==
    ASSUME NEW L \in Nat, NEW S,
           \A o \in 0 .. L : (\A p \in o + 1 .. L : p \in S) => o \in S
    PROVE  \A o \in 0 .. L : o \in S
<1> SUFFICES ASSUME NEW o \in 0 .. L, o \notin S PROVE FALSE
    OBVIOUS
<1> DEFINE T == {x \in Nat : x <= L /\ L - x \notin S}
<1>1. L - o \in T
    <2>1. L - o \in Nat /\ L - o <= L /\ L - (L - o) = o
        OBVIOUS
    <2> QED
        BY <2>1
<1>2. T \in SUBSET Nat /\ T # {}
    BY <1>1
<1>3. PICK x \in T : \A y \in T : x <= y
    BY <1>2, LeastElement, Zenon
<1>4. x \in Nat /\ x <= L /\ L - x \notin S
    OBVIOUS
<1>5. ASSUME NEW p \in L - x + 1 .. L PROVE p \in S
    <2>1. L - p \in Nat /\ L - p <= L /\ L - p < x /\ L - (L - p) = p
        BY <1>4
    <2>2. L - p \notin T
        BY <1>3, <1>4, <2>1
    <2> QED
        BY <2>1, <2>2
<1>6. L - x \in 0 .. L
    BY <1>4
<1> QED
    BY <1>4, <1>5, <1>6

-----------------------------------------------------------------------------
(* The elements of a sequence behind the e-th and up to the f-th. *)
LEMMA PieceOf ==
    ASSUME NEW S, NEW seq \in Seq(S), NEW e \in 0 .. Len(seq), NEW f \in e .. Len(seq)
    PROVE  /\ SubSeq(seq, e + 1, f) \in Seq(S)
           /\ Len(SubSeq(seq, e + 1, f)) = f - e
           /\ \A i \in 1 .. f - e : SubSeq(seq, e + 1, f)[i] = seq[e + i]
<1>1. e \in Nat /\ f \in Nat /\ e <= f /\ f <= Len(seq)
    OBVIOUS
<1>2. \A i \in e + 1 .. f : seq[i] \in S
    BY <1>1
<1>3. /\ SubSeq(seq, e + 1, f) \in Seq(S)
      /\ Len(SubSeq(seq, e + 1, f)) = IF e + 1 <= f THEN f - (e + 1) + 1 ELSE 0
      /\ \A i \in 1 .. f - (e + 1) + 1 : SubSeq(seq, e + 1, f)[i] = seq[e + 1 + i - 1]
    BY <1>1, <1>2, SubSeqProperties
<1>4. f - (e + 1) + 1 = f - e /\ (~(e + 1 <= f) => f - e = 0) /\ \A i \in 1 .. f - e : e + 1 + i - 1 = e + i
    BY <1>1
<1> QED
    BY <1>3, <1>4

LEMMA FirstOf ==
    ASSUME NEW S, NEW seq \in Seq(S), Len(seq) >= 1
    PROVE  SubSeq(seq, 1, 1) = <<seq[1]>>
<1>1. 0 \in 0 .. Len(seq) /\ 1 \in 0 .. Len(seq) /\ 1 \in 1 .. Len(seq) /\ 0 + 1 = 1
    OBVIOUS
<1>2. /\ SubSeq(seq, 0 + 1, 1) \in Seq(S)
      /\ Len(SubSeq(seq, 0 + 1, 1)) = 1 - 0
      /\ \A i \in 1 .. 1 - 0 : SubSeq(seq, 0 + 1, 1)[i] = seq[0 + i]
    BY <1>1, PieceOf
<1> DEFINE first == SubSeq(seq, 1, 1)
<1>3. first \in Seq(S) /\ Len(first) = 1 /\ first[1] = seq[1]
    BY <1>2
<1>4. seq[1] \in S
    BY <1>1
<1> HIDE DEF first
<1>5. first = <<seq[1]>>
    BY <1>3, <1>4
<1> QED
    BY <1>5 DEF first

LEMMA SameStart ==
    ASSUME NEW S, NEW s \in Seq(S), NEW u \in Seq(S), NEW k \in Nat, k <= Len(s), k <= Len(u),
           \A i \in 1 .. k : s[i] = u[i]
    PROVE  SubSeq(s, 1, k) = SubSeq(u, 1, k) /\ SubSeq(s, 1, k) \in Seq(S)
<1>1. 0 \in 0 .. Len(s) /\ 0 \in 0 .. Len(u) /\ k \in 0 .. Len(s) /\ k \in 0 .. Len(u)
      /\ 0 + 1 = 1 /\ k - 0 = k
    OBVIOUS
<1>2. /\ SubSeq(s, 0 + 1, k) \in Seq(S) /\ Len(SubSeq(s, 0 + 1, k)) = k - 0
      /\ \A i \in 1 .. k - 0 : SubSeq(s, 0 + 1, k)[i] = s[0 + i]
    BY <1>1, PieceOf
<1>3. /\ SubSeq(u, 0 + 1, k) \in Seq(S) /\ Len(SubSeq(u, 0 + 1, k)) = k - 0
      /\ \A i \in 1 .. k - 0 : SubSeq(u, 0 + 1, k)[i] = u[0 + i]
    BY <1>1, PieceOf
<1>4. \A i \in 1 .. k : 0 + i = i
    OBVIOUS
<1> DEFINE a == SubSeq(s, 1, k)
           b == SubSeq(u, 1, k)
<1>5. a \in Seq(S) /\ Len(a) = k /\ \A i \in 1 .. k : a[i] = s[i]
    BY <1>1, <1>2, <1>4, Zenon
<1>6. b \in Seq(S) /\ Len(b) = k /\ \A i \in 1 .. k : b[i] = u[i]
    BY <1>1, <1>3, <1>4, Zenon
<1> HIDE DEF a, b
<1>7. a = b
    BY <1>5, <1>6, SeqEqual
<1> QED
    BY <1>5, <1>7 DEF a, b

LEMMA DropFromConcat ==
    ASSUME NEW S, NEW s \in Seq(S), NEW u \in Seq(S), NEW e \in 0 .. Len(s)
    PROVE  SubSeq(s, e + 1, Len(s)) \o u = SubSeq(s \o u, e + 1, Len(s \o u))
<1> DEFINE L == Len(s)
           K == Len(u)
           left == SubSeq(s, e + 1, L)
           right == SubSeq(s \o u, e + 1, Len(s \o u))
<1>1. L \in Nat /\ K \in Nat /\ e \in 0 .. L
    OBVIOUS
<1>2. /\ s \o u \in Seq(S) /\ Len(s \o u) = L + K
      /\ \A i \in 1 .. L + K : (s \o u)[i] = IF i <= L THEN s[i] ELSE u[i - L]
    BY ConcatProperties
<1>3. left \in Seq(S) /\ Len(left) = L - e /\ \A i \in 1 .. L - e : left[i] = s[e + i]
    BY <1>1, PieceOf
<1>4. right \in Seq(S) /\ Len(right) = (L + K) - e /\ \A i \in 1 .. (L + K) - e : right[i] = (s \o u)[e + i]
    <2>1. e \in 0 .. Len(s \o u) /\ Len(s \o u) \in e .. Len(s \o u)
        BY <1>1, <1>2
    <2> QED
        BY <1>2, <2>1, PieceOf
<1> HIDE DEF left, right
<1>5. /\ left \o u \in Seq(S) /\ Len(left \o u) = (L - e) + K
      /\ \A i \in 1 .. (L - e) + K : (left \o u)[i] = IF i <= L - e THEN left[i] ELSE u[i - (L - e)]
    <2>1. /\ left \o u \in Seq(S) /\ Len(left \o u) = Len(left) + K
          /\ \A i \in 1 .. Len(left) + K : (left \o u)[i] = IF i <= Len(left) THEN left[i] ELSE u[i - Len(left)]
        BY <1>3, ConcatProperties
    <2>2. Len(left) = L - e
        BY <1>3
    <2> HIDE DEF L, K
    <2> QED
        BY <2>1, <2>2, Zenon
<1> HIDE DEF L, K
<1>6. (L - e) + K = (L + K) - e
    BY <1>1
<1>7. ASSUME NEW i \in 1 .. (L + K) - e PROVE (left \o u)[i] = right[i]
    <2>1. e + i \in 1 .. L + K /\ i \in 1 .. (L - e) + K
        BY <1>1
    <2>2. CASE i <= L - e
        <3>1. i \in 1 .. L - e /\ e + i <= L
            BY <1>1, <2>2
        <3>2. (left \o u)[i] = left[i]
            BY <1>5, <2>1, <2>2
        <3>3. left[i] = s[e + i]
            BY <1>3, <3>1
        <3>4. (s \o u)[e + i] = s[e + i]
            BY <1>2, <2>1, <3>1
        <3> QED
            BY <1>4, <3>2, <3>3, <3>4
    <2>3. CASE ~(i <= L - e)
        <3>1. ~(e + i <= L) /\ (e + i) - L = i - (L - e)
            BY <1>1, <2>3
        <3>2. (left \o u)[i] = u[i - (L - e)]
            BY <1>5, <2>1, <2>3
        <3>3. (s \o u)[e + i] = u[(e + i) - L]
            BY <1>2, <2>1, <3>1
        <3> QED
            BY <1>4, <3>1, <3>2, <3>3
    <2> QED
        BY <2>2, <2>3
<1>8. left \o u = right
    BY <1>4, <1>5, <1>6, <1>7, SeqEqual
<1> QED
    BY <1>8 DEF left, right, L

LEMMA StartOfConcat ==
    ASSUME NEW S, NEW s \in Seq(S), NEW u \in Seq(S)
    PROVE  /\ s \o u \in Seq(S)
           /\ Len(s) <= Len(s \o u)
           /\ \A i \in 1 .. Len(s) : s[i] = (s \o u)[i]
<1>1. /\ s \o u \in Seq(S)
      /\ Len(s \o u) = Len(s) + Len(u)
      /\ \A i \in 1 .. Len(s) + Len(u) : (s \o u)[i] = IF i <= Len(s) THEN s[i] ELSE u[i - Len(s)]
    BY ConcatProperties
<1>2. Len(s) \in Nat /\ Len(u) \in Nat
    OBVIOUS
<1>3. \A i \in 1 .. Len(s) : i \in 1 .. Len(s) + Len(u) /\ i <= Len(s)
    BY <1>2
<1>4. \A i \in 1 .. Len(s) : s[i] = (s \o u)[i]
    BY <1>1, <1>3
<1> QED
    BY <1>1, <1>2, <1>4

LEMMA MoveOver ==
    ASSUME NEW S, NEW s \in Seq(S), NEW u \in Seq(S), NEW m \in 0 .. Len(u)
    PROVE  /\ SubSeq(u, 1, m) \in Seq(S)
           /\ SubSeq(u, m + 1, Len(u)) \in Seq(S)
           /\ s \o SubSeq(u, 1, m) \in Seq(S)
           /\ (s \o SubSeq(u, 1, m)) \o SubSeq(u, m + 1, Len(u)) = s \o u
<1> DEFINE left == SubSeq(u, 1, m)
           right == SubSeq(u, m + 1, Len(u))
<1>1. /\ m \in Nat /\ Len(u) \in Nat /\ m \in 0 .. Len(u) /\ Len(u) \in m .. Len(u)
      /\ 0 \in 0 .. Len(u) /\ m \in 1 - 1 .. Len(u) /\ 1 \in 1 .. Len(u) + 1
    OBVIOUS
<1>2. right \in Seq(S)
    BY <1>1, PieceOf
<1>3. left \in Seq(S)
    <2>1. SubSeq(u, 0 + 1, m) \in Seq(S)
        BY <1>1, PieceOf
    <2> QED
        BY <2>1
<1>4. left \o right = u
    <2>1. left \o right = SubSeq(u, 1, Len(u))
        BY <1>1, ConcatAdjacentSubSeq
    <2> QED
        BY <2>1, SubSeqFull
<1> HIDE DEF left, right
<1>5. (s \o left) \o right = s \o (left \o right)
    BY <1>2, <1>3, ConcatAssociative
<1>6. s \o left \in Seq(S)
    BY <1>3, ConcatProperties
<1> QED
    BY <1>2, <1>3, <1>4, <1>5, <1>6 DEF left, right

-----------------------------------------------------------------------------
(* Frames and their bytes.                                                 *)

AnyMessage == [id : Nat, size : Nat]

AnyByte == AnyMessage \X Nat

LEMMA MessagesAreAny ==
    ASSUME NEW n \in Nat
    PROVE  MessagesUpTo(n) \subseteq AnyMessage
<1> SUFFICES ASSUME NEW m \in MessagesUpTo(n) PROVE m \in AnyMessage
    OBVIOUS
<1>1. m = [id |-> m.id, size |-> m.size] /\ m.id \in 1 .. n /\ m.size \in Sizes
    BY DEF MessagesUpTo
<1>2. m.id \in Nat /\ m.size \in Nat
    BY <1>1, FramingAssumption
<1> QED
    BY <1>1, <1>2 DEF AnyMessage

LEMMA BytesOfFrame ==
    ASSUME NEW m \in AnyMessage
    PROVE  /\ Bytes(m) \in Seq(AnyByte)
           /\ Len(Bytes(m)) = Header + m.size
           /\ \A j \in 1 .. Header + m.size : Bytes(m)[j] = <<m, j>>
<1>1. Header + m.size \in Nat
    BY FramingAssumption DEF AnyMessage
<1> DEFINE n == Header + m.size
<1>2. ASSUME NEW j \in 1 .. n PROVE <<m, j>> \in AnyByte
    <2>1. j \in Nat
        BY <1>1
    <2> QED
        BY <2>1 DEF AnyByte
<1> HIDE DEF n
<1>3. Bytes(m) = [j \in 1 .. n |-> <<m, j>>]
    BY DEF Bytes, n
<1>4. Bytes(m) \in [1 .. n -> AnyByte] /\ \A j \in 1 .. n : Bytes(m)[j] = <<m, j>>
    BY <1>2, <1>3
<1>5. n \in Nat
    BY <1>1 DEF n
<1>6. Bytes(m) \in Seq(AnyByte) /\ Len(Bytes(m)) = n
    BY <1>4, <1>5, IsASeq, LenProperties
<1> QED
    BY <1>4, <1>6 DEF n

(* What has the bytes of a message is read as it. *)
LEMMA FrameReadsAsMessage ==
    ASSUME NEW m \in AnyMessage, NEW frame \in Seq(AnyByte),
           Len(frame) = Header + m.size,
           \A j \in 1 .. Header + m.size : frame[j] = <<m, j>>
    PROVE  Message(frame) = m
<1>1. Header + m.size \in Nat /\ Header + m.size >= 1
    BY FramingAssumption DEF AnyMessage
<1>2. frame[1] = <<m, 1>> /\ frame # <<>>
    BY <1>1
<1>3. frame = Bytes(m)
    BY <1>1, BytesOfFrame, SeqEqual
<1> QED
    BY <1>2, <1>3 DEF Message

LEMMA LengthIsNatural ==
    ASSUME NEW bytes \in Seq(AnyByte), NEW o \in Nat, o + Header <= Len(bytes)
    PROVE  Length(bytes, o) \in Nat
<1>1. o + 1 \in 1 .. Len(bytes)
    BY FramingAssumption
<1>2. bytes[o + 1] \in AnyByte
    BY <1>1
<1>3. bytes[o + 1][1].size \in Nat
    BY <1>2 DEF AnyByte, AnyMessage
<1> QED
    BY <1>3 DEF Length

(* The length of the frame some bytes start with. *)
LEMMA LengthOfFrame ==
    ASSUME NEW bytes, NEW o \in Nat, NEW m,
           \A j \in 1 .. Header : bytes[o + j] = <<m, j>>
    PROVE  Length(bytes, o) = m.size
<1>1. bytes[o + 1] = <<m, 1>>
    BY FramingAssumption
<1> QED
    BY <1>1 DEF Length

-----------------------------------------------------------------------------
(* Bytes in step with what was sent: those of the messages behind the n-th, *)
(* and nothing else.  Places[i] is where the i-th message ends in them.    *)

EndsAt(bytes, sent, n, ends) ==
    /\ ends \in [n .. Len(sent) -> 0 .. Len(bytes)]
    /\ ends[n] = 0
    /\ ends[Len(sent)] = Len(bytes)
    /\ \A i, j \in n .. Len(sent) : i <= j => ends[i] <= ends[j]
    /\ \A i \in n + 1 .. Len(sent) :
         /\ ends[i] = ends[i - 1] + Header + sent[i].size
         /\ \A j \in 1 .. Header + sent[i].size : bytes[ends[i - 1] + j] = <<sent[i], j>>

InStep(bytes, sent, n) == \E ends : EndsAt(bytes, sent, n, ends)

(* Nothing sent, nothing to come. *)
LEMMA InStepInit == InStep(<<>>, <<>>, 0)
<1> DEFINE ends == [i \in 0 .. 0 |-> 0]
<1>1. EndsAt(<<>>, <<>>, 0, ends)
    BY DEF EndsAt
<1> QED
    BY <1>1 DEF InStep

(* A frame behind the others keeps them in step. *)
LEMMA InStepSend ==
    ASSUME NEW sent \in Seq(AnyMessage), NEW n \in 0 .. Len(sent),
           NEW bytes \in Seq(AnyByte), InStep(bytes, sent, n), NEW m \in AnyMessage
    PROVE  InStep(bytes \o Bytes(m), Append(sent, m), n)
<1>1. PICK ends : EndsAt(bytes, sent, n, ends)
    BY DEF InStep
<1> DEFINE L == Len(bytes)
           k == Len(sent)
           size == Header + m.size
           all == bytes \o Bytes(m)
           more == Append(sent, m)
           new == [i \in n .. k + 1 |-> IF i <= k THEN ends[i] ELSE L + size]
<1>2. L \in Nat /\ k \in Nat /\ size \in Nat /\ size >= 1
    BY FramingAssumption DEF AnyMessage
<1>3. Len(all) = L + size /\ \A i \in 1 .. L + size : all[i] = IF i <= L THEN bytes[i] ELSE <<m, i - L>>
    <2> DEFINE frame == Bytes(m)
    <2>1. frame \in Seq(AnyByte) /\ Len(frame) = size /\ \A j \in 1 .. size : frame[j] = <<m, j>>
        BY BytesOfFrame
    <2> HIDE DEF frame, size
    <2>2. Len(bytes \o frame) = L + size
        BY <2>1, ConcatProperties
    <2>3. ASSUME NEW i \in 1 .. L + size PROVE (bytes \o frame)[i] = IF i <= L THEN bytes[i] ELSE <<m, i - L>>
        <3>1. (bytes \o frame)[i] = IF i <= L THEN bytes[i] ELSE frame[i - L]
            BY <2>1
        <3>2. ~(i <= L) => i - L \in 1 .. size
            BY <1>2
        <3> QED
            BY <2>1, <3>1, <3>2
    <2> QED
        BY <2>2, <2>3 DEF frame
<1>4. Len(more) = k + 1 /\ more[k + 1] = m /\ \A i \in 1 .. k : more[i] = sent[i]
    BY <1>2, AppendProperties
<1> HIDE DEF L, k, size, all, more
<1>5. /\ ends \in [n .. k -> 0 .. L] /\ ends[n] = 0 /\ ends[k] = L
      /\ \A i, j \in n .. k : i <= j => ends[i] <= ends[j]
      /\ \A i \in n + 1 .. k :
           /\ ends[i] = ends[i - 1] + Header + sent[i].size
           /\ \A j \in 1 .. Header + sent[i].size : bytes[ends[i - 1] + j] = <<sent[i], j>>
    BY <1>1 DEF EndsAt, L, k
<1>6. n \in Nat /\ n <= k
    BY DEF k
<1>7. /\ new \in [n .. k + 1 -> 0 .. L + size] /\ new[k + 1] = L + size
      /\ \A i \in n .. k : new[i] = ends[i]
    <2>1. \A i \in n .. k + 1 : (IF i <= k THEN ends[i] ELSE L + size) \in 0 .. L + size
        BY <1>2, <1>5, <1>6
    <2>2. new \in [n .. k + 1 -> 0 .. L + size]
        BY <2>1
    <2>3. k + 1 \in n .. k + 1 /\ ~(k + 1 <= k) /\ \A i \in n .. k : i \in n .. k + 1 /\ i <= k
        BY <1>2, <1>6
    <2> QED
        BY <2>2, <2>3
<1> HIDE DEF new
<1>8. ASSUME NEW i \in n .. k + 1, NEW j \in n .. k + 1, i <= j PROVE new[i] <= new[j]
    <2>1. CASE j <= k
        <3>1. i \in n .. k /\ j \in n .. k
            BY <1>2, <1>6, <1>8, <2>1
        <3> QED
            BY <1>5, <1>7, <1>8, <3>1
    <2>2. CASE ~(j <= k)
        <3>1. j = k + 1
            BY <1>2, <1>6, <2>2
        <3>2. new[i] \in 0 .. L + size
            BY <1>7
        <3> QED
            BY <1>2, <1>7, <3>1, <3>2
    <2> QED
        BY <2>1, <2>2
<1>9. ASSUME NEW i \in n + 1 .. k + 1
      PROVE  /\ new[i] = new[i - 1] + Header + more[i].size
             /\ \A j \in 1 .. Header + more[i].size : all[new[i - 1] + j] = <<more[i], j>>
    <2>1. CASE i = k + 1
        <3>1. new[i - 1] = L /\ new[i] = L + size /\ more[i] = m
            <4>1. i - 1 = k /\ k \in n .. k
                BY <1>2, <1>6, <2>1
            <4> QED
                BY <1>4, <1>5, <1>7, <2>1, <4>1
        <3>2. Header + m.size = size /\ Header \in Nat /\ m.size \in Nat
            BY FramingAssumption DEF size, AnyMessage
        <3>3. ASSUME NEW j \in 1 .. size PROVE all[L + j] = <<m, j>>
            <4>1. L + j \in 1 .. L + size /\ ~(L + j <= L) /\ (L + j) - L = j
                BY <1>2
            <4> QED
                BY <1>3, <4>1
        <3>4. new[i - 1] + Header + more[i].size = new[i]
            <4> DEFINE s == m.size
            <4>1. more[i].size = s /\ s \in Nat /\ Header + s = size
                BY <3>1, <3>2
            <4> HIDE DEF s
            <4> QED
                BY <1>2, <3>1, <3>2, <4>1
        <3> QED
            BY <3>1, <3>2, <3>3, <3>4, Zenon
    <2>2. CASE i # k + 1
        <3>1. i \in n + 1 .. k /\ i - 1 \in n .. k /\ i \in n .. k /\ i \in 1 .. k
            BY <1>2, <1>6, <2>2
        <3>2. new[i] = ends[i] /\ new[i - 1] = ends[i - 1] /\ more[i] = sent[i]
            BY <1>4, <1>7, <3>1
        <3>3. ends[i] = ends[i - 1] + Header + sent[i].size /\ ends[i] \in 0 .. L /\ ends[i - 1] \in 0 .. L
            BY <1>5, <3>1
        <3>4. Header \in Nat /\ sent[i].size \in Nat
            <4>1. sent[i] \in AnyMessage
                BY <3>1 DEF k
            <4> QED
                BY <4>1, FramingAssumption DEF AnyMessage
        <3>5. ASSUME NEW j \in 1 .. Header + sent[i].size PROVE all[ends[i - 1] + j] = <<sent[i], j>>
            <4>1. ends[i - 1] + j \in 1 .. L
                <5> DEFINE e == ends[i - 1]
                           s == sent[i].size
                <5>1. e \in Nat /\ s \in Nat /\ Header \in Nat /\ e + Header + s <= L /\ j \in 1 .. Header + s
                    BY <1>2, <3>3, <3>4
                <5> HIDE DEF e, s
                <5>2. e + j \in 1 .. L
                    BY <1>2, <5>1
                <5> QED
                    BY <5>2 DEF e
            <4>2. all[ends[i - 1] + j] = bytes[ends[i - 1] + j]
                BY <1>2, <1>3, <4>1
            <4> QED
                BY <1>5, <3>1, <4>2
        <3> QED
            BY <3>2, <3>3, <3>5
    <2> QED
        BY <2>1, <2>2
<1>10. new[n] = 0
    BY <1>2, <1>5, <1>6, <1>7
<1>11. EndsAt(all, more, n, new)
    BY <1>3, <1>4, <1>7, <1>8, <1>9, <1>10 DEF EndsAt
<1> QED
    BY <1>11 DEF InStep, all, more

(* What is left behind the end of a message is in step with those after it. *)
LEMMA InStepDrop ==
    ASSUME NEW sent \in Seq(AnyMessage), NEW n \in 0 .. Len(sent),
           NEW bytes \in Seq(AnyByte), NEW ends, EndsAt(bytes, sent, n, ends),
           NEW k \in n .. Len(sent)
    PROVE  InStep(SubSeq(bytes, ends[k] + 1, Len(bytes)), sent, k)
<1> DEFINE L == Len(bytes)
           N == Len(sent)
           rest == SubSeq(bytes, ends[k] + 1, L)
           new == [i \in k .. N |-> ends[i] - ends[k]]
<1>1. /\ ends \in [n .. N -> 0 .. L] /\ ends[N] = L
      /\ \A i, j \in n .. N : i <= j => ends[i] <= ends[j]
      /\ \A i \in n + 1 .. N :
           /\ ends[i] = ends[i - 1] + Header + sent[i].size
           /\ \A j \in 1 .. Header + sent[i].size : bytes[ends[i - 1] + j] = <<sent[i], j>>
    BY DEF EndsAt
<1>2. L \in Nat /\ N \in Nat /\ n \in Nat /\ k \in n .. N /\ k <= N /\ k \in Nat
    OBVIOUS
<1>3. ends[k] \in 0 .. L
    BY <1>1, <1>2
<1>4. Len(rest) = L - ends[k] /\ \A i \in 1 .. L - ends[k] : rest[i] = bytes[ends[k] + i]
    BY <1>3, PieceOf
<1> HIDE DEF L, N, rest
<1>5. \A i \in k .. N : i \in n .. N /\ ends[i] \in 0 .. L /\ ends[k] <= ends[i]
    BY <1>1, <1>2
<1>6. /\ new \in [k .. N -> 0 .. L - ends[k]]
      /\ \A i \in k .. N : new[i] = ends[i] - ends[k]
    BY <1>2, <1>3, <1>5
<1> HIDE DEF new
<1>7. new[k] = 0 /\ new[N] = L - ends[k]
    <2>1. k \in k .. N /\ N \in k .. N
        BY <1>2
    <2> QED
        BY <1>1, <1>3, <1>6, <2>1
<1>8. ASSUME NEW i \in k .. N, NEW j \in k .. N, i <= j PROVE new[i] <= new[j]
    <2>1. ends[i] <= ends[j]
        BY <1>1, <1>5, <1>8
    <2> QED
        BY <1>2, <1>3, <1>5, <1>6, <2>1
<1>9. ASSUME NEW i \in k + 1 .. N
      PROVE  /\ new[i] = new[i - 1] + Header + sent[i].size
             /\ \A j \in 1 .. Header + sent[i].size : rest[new[i - 1] + j] = <<sent[i], j>>
    <2> DEFINE s == sent[i].size
               a == ends[k]
               b == ends[i - 1]
    <2>1. i \in n + 1 .. N /\ i \in k .. N /\ i - 1 \in k .. N /\ i \in 1 .. N
        BY <1>2
    <2>2. s \in Nat /\ Header \in Nat
        <3>1. sent[i] \in AnyMessage
            BY <2>1 DEF N
        <3> QED
            BY <3>1, FramingAssumption DEF AnyMessage
    <2>3. ends[i] = b + Header + s /\ \A j \in 1 .. Header + s : bytes[b + j] = <<sent[i], j>>
        BY <1>1, <2>1
    <2>4. b + Header + s \in 0 .. L /\ a \in 0 .. L /\ b \in 0 .. L /\ a <= b
        BY <1>3, <1>5, <2>1, <2>3
    <2>5. new[i] = (b + Header + s) - a /\ new[i - 1] = b - a
        BY <1>6, <2>1, <2>3
    <2> HIDE DEF s, a, b
    <2>6. (b + Header + s) - a = (b - a) + Header + s
        BY <1>2, <2>2, <2>4
    <2>7. ASSUME NEW j \in 1 .. Header + s PROVE rest[(b - a) + j] = <<sent[i], j>>
        <3>1. (b - a) + j \in 1 .. L - a /\ a + ((b - a) + j) = b + j
            BY <1>2, <2>2, <2>4
        <3>2. rest[(b - a) + j] = bytes[a + ((b - a) + j)]
            BY <1>4, <3>1 DEF a
        <3> QED
            BY <2>3, <3>1, <3>2
    <2> QED
        BY <2>5, <2>6, <2>7 DEF s
<1>10. EndsAt(rest, sent, k, new)
    BY <1>4, <1>6, <1>7, <1>8, <1>9 DEF EndsAt, N
<1> QED
    BY <1>10 DEF InStep, rest, L

-----------------------------------------------------------------------------
(* Cutting: CutsFrom is defined by recursion on the bytes left, and a cut   *)
(* walks from frame to frame until what is left is not whole.              *)

LEMMA NextFrameIsBehind ==
    ASSUME NEW bytes \in Seq(AnyByte), NEW o \in 0 .. Len(bytes), WholeFrame(bytes, o)
    PROVE  NextFrame(bytes, o) \in o + 1 .. Len(bytes)
<1> DEFINE s == Length(bytes, o)
<1>1. o + Header <= Len(bytes) /\ o + Header + s <= Len(bytes)
    BY DEF WholeFrame, NextFrame
<1>2. s \in Nat
    BY <1>1, LengthIsNatural
<1> HIDE DEF s
<1>3. o + Header + s \in o + 1 .. Len(bytes)
    BY <1>1, <1>2, FramingAssumption
<1> QED
    BY <1>3 DEF NextFrame, s

CutsFit(bytes, o, f) ==
    f = [p \in o .. Len(bytes) |->
            IF WholeFrame(bytes, p) THEN <<p>> \o f[NextFrame(bytes, p)] ELSE <<p>>]

LEMMA CutsExist ==
    ASSUME NEW bytes \in Seq(AnyByte)
    PROVE  \E f : CutsFit(bytes, 0, f)
<1> DEFINE L == Len(bytes)
           S == {o \in 0 .. L : \E f : CutsFit(bytes, o, f)}
<1>1. L \in Nat
    OBVIOUS
<1>2. ASSUME NEW o \in 0 .. L, \A p \in o + 1 .. L : p \in S PROVE o \in S
    <2>1. CASE o = L
        <3> DEFINE f == [p \in o .. L |-> <<p>>]
        <3>1. \A p \in o .. L : ~WholeFrame(bytes, p)
            BY <1>1, <2>1, FramingAssumption DEF WholeFrame
        <3>2. CutsFit(bytes, o, f)
            BY <3>1 DEF CutsFit
        <3> QED
            BY <3>2
    <2>2. CASE o # L
        <3>1. o + 1 \in S
            BY <1>1, <1>2, <2>2
        <3>2. PICK f : CutsFit(bytes, o + 1, f)
            BY <3>1
        <3> DEFINE g == [p \in o .. L |->
                            IF WholeFrame(bytes, p) THEN <<p>> \o f[NextFrame(bytes, p)] ELSE <<p>>]
        <3>3. \A p \in o + 1 .. L :
                f[p] = IF WholeFrame(bytes, p) THEN <<p>> \o f[NextFrame(bytes, p)] ELSE <<p>>
            BY <3>2 DEF CutsFit
        <3>4. \A p \in o .. L : g[p] = IF WholeFrame(bytes, p) THEN <<p>> \o f[NextFrame(bytes, p)] ELSE <<p>>
            OBVIOUS
        <3>5. \A p \in o + 1 .. L : p \in o .. L
            BY <1>1
        <3>6. \A p \in o + 1 .. L : g[p] = f[p]
            BY <3>3, <3>4, <3>5
        <3>7. ASSUME NEW p \in o .. L, WholeFrame(bytes, p) PROVE g[NextFrame(bytes, p)] = f[NextFrame(bytes, p)]
            <4>1. p \in 0 .. L
                BY <1>1
            <4>2. NextFrame(bytes, p) \in p + 1 .. L
                BY <3>7, <4>1, NextFrameIsBehind
            <4>3. NextFrame(bytes, p) \in o + 1 .. L
                BY <1>1, <4>1, <4>2
            <4> QED
                BY <3>6, <4>3
        <3> HIDE DEF S
        <3>8. g = [p \in o .. L |->
                    IF WholeFrame(bytes, p) THEN <<p>> \o g[NextFrame(bytes, p)] ELSE <<p>>]
            BY <3>7, Zenon
        <3> HIDE DEF g
        <3>9. CutsFit(bytes, o, g)
            BY <3>8 DEF CutsFit
        <3> QED
            BY <3>9 DEF S
    <2> QED
        BY <2>1, <2>2
<1> HIDE DEF S, L
<1>3. \A o \in 0 .. L : o \in S
    BY <1>1, <1>2, DownwardInduction, Zenon
<1>4. 0 \in 0 .. L
    BY <1>1
<1> QED
    BY <1>3, <1>4 DEF S

LEMMA CutsDefined ==
    ASSUME NEW bytes \in Seq(AnyByte), NEW o \in 0 .. Len(bytes)
    PROVE  CutsFrom(bytes)[o] =
             IF WholeFrame(bytes, o) THEN <<o>> \o CutsFrom(bytes)[NextFrame(bytes, o)] ELSE <<o>>
<1>1. CutsFrom(bytes) = CHOOSE f : CutsFit(bytes, 0, f)
    BY DEF CutsFrom, CutsFit
<1>2. CutsFit(bytes, 0, CutsFrom(bytes))
    BY <1>1, CutsExist, Zenon
<1> QED
    BY <1>2 DEF CutsFit

Walk(bytes, o, cut) ==
    /\ cut \in Seq(0 .. Len(bytes))
    /\ cut # <<>>
    /\ cut[1] = o
    /\ \A i \in 1 .. Len(cut) - 1 :
         /\ WholeFrame(bytes, cut[i])
         /\ cut[i + 1] = NextFrame(bytes, cut[i])
    /\ ~WholeFrame(bytes, cut[Len(cut)])

(* Whatever the bytes, addChunk's loop ends, begins at their first, goes from *)
(* each whole frame to the byte behind it, and leaves no whole frame uncut.  *)
THEOREM CutWalks ==
    ASSUME NEW bytes \in Seq(AnyByte)
    PROVE  Walk(bytes, 0, Cut(bytes))
<1> DEFINE L == Len(bytes)
           cuts == CutsFrom(bytes)
           S == {o \in 0 .. L : Walk(bytes, o, cuts[o])}
<1>1. L \in Nat
    OBVIOUS
<1>2. ASSUME NEW o \in 0 .. L, \A p \in o + 1 .. L : p \in S PROVE o \in S
    <2>1. CASE WholeFrame(bytes, o)
        <3> DEFINE next == NextFrame(bytes, o)
                   rest == cuts[next]
                   cut == <<o>> \o rest
        <3>1. next \in o + 1 .. L
            BY <2>1, NextFrameIsBehind
        <3>2. Walk(bytes, next, rest)
            BY <1>2, <3>1
        <3>3. cuts[o] = cut
            BY <2>1, CutsDefined
        <3> HIDE DEF cuts, next, rest
        <3>4. rest \in Seq(0 .. L) /\ Len(rest) \in Nat /\ Len(rest) >= 1 /\ <<o>> \in Seq(0 .. L) /\ Len(<<o>>) = 1
            BY <3>2 DEF Walk
        <3>5. /\ cut \in Seq(0 .. L)
              /\ Len(cut) = 1 + Len(rest)
              /\ \A i \in 1 .. 1 + Len(rest) : cut[i] = IF i <= 1 THEN <<o>>[i] ELSE rest[i - 1]
            BY <3>4, ConcatProperties
        <3>6. cut[1] = o /\ \A i \in 1 .. Len(rest) : cut[i + 1] = rest[i]
            <4>1. 1 \in 1 .. 1 + Len(rest) /\ <<o>>[1] = o
                BY <3>4
            <4>2. \A i \in 1 .. Len(rest) : i + 1 \in 1 .. 1 + Len(rest) /\ ~(i + 1 <= 1) /\ (i + 1) - 1 = i
                BY <3>4
            <4> QED
                BY <3>5, <4>1, <4>2
        <3> HIDE DEF cut
        <3>7. ASSUME NEW i \in 1 .. Len(cut) - 1
              PROVE  WholeFrame(bytes, cut[i]) /\ cut[i + 1] = NextFrame(bytes, cut[i])
            <4>1. CASE i = 1
                <5>1. cut[i] = o /\ cut[i + 1] = rest[1] /\ rest[1] = next
                    <6>1. 1 \in 1 .. Len(rest)
                        BY <3>4
                    <6> QED
                        BY <3>2, <3>6, <4>1, <6>1 DEF Walk
                <5> QED
                    BY <2>1, <5>1 DEF next
            <4>2. CASE i # 1
                <5>1. i - 1 \in 1 .. Len(rest) - 1 /\ i - 1 \in 1 .. Len(rest) /\ i \in 1 .. Len(rest) /\ (i - 1) + 1 = i
                    BY <3>4, <3>5, <4>2
                <5>2. cut[i] = rest[i - 1] /\ cut[i + 1] = rest[i]
                    BY <3>6, <5>1
                <5>3. WholeFrame(bytes, rest[i - 1]) /\ rest[(i - 1) + 1] = NextFrame(bytes, rest[i - 1])
                    BY <3>2, <5>1 DEF Walk
                <5> QED
                    BY <5>1, <5>2, <5>3
            <4> QED
                BY <4>1, <4>2
        <3>8. cut[Len(cut)] = rest[Len(rest)]
            <4>1. Len(rest) \in 1 .. Len(rest) /\ Len(rest) + 1 = Len(cut)
                BY <3>4, <3>5
            <4> QED
                BY <3>6, <4>1
        <3>9. cut # <<>>
            BY <3>4, <3>5
        <3>10. Walk(bytes, o, cut)
            BY <3>2, <3>5, <3>6, <3>7, <3>8, <3>9 DEF Walk
        <3> QED
            BY <3>3, <3>10
    <2>2. CASE ~WholeFrame(bytes, o)
        <3>1. cuts[o] = <<o>>
            BY <2>2, CutsDefined
        <3>2. Walk(bytes, o, <<o>>)
            BY <2>2 DEF Walk
        <3> QED
            BY <3>1, <3>2
    <2> QED
        BY <2>1, <2>2
<1> HIDE DEF S, L
<1>3. \A o \in 0 .. L : o \in S
    BY <1>1, <1>2, DownwardInduction, Zenon
<1>4. 0 \in 0 .. L
    BY <1>1
<1> QED
    BY <1>3, <1>4 DEF S, Cut

-----------------------------------------------------------------------------
(* Where the bytes are in step with what was sent, the frames cut from the *)
(* first of them are the messages, in order.                               *)

StartsWith(all, bytes) ==
    Len(bytes) <= Len(all) /\ \A i \in 1 .. Len(bytes) : bytes[i] = all[i]

LEMMA FrameFollows ==
    ASSUME NEW sent \in Seq(AnyMessage), NEW n \in 0 .. Len(sent),
           NEW all \in Seq(AnyByte), NEW ends, EndsAt(all, sent, n, ends),
           NEW bytes \in Seq(AnyByte), StartsWith(all, bytes),
           NEW k \in n .. Len(sent), WholeFrame(bytes, ends[k])
    PROVE  /\ k < Len(sent)
           /\ NextFrame(bytes, ends[k]) = ends[k + 1]
           /\ Message(SubSeq(bytes, ends[k] + 1, ends[k + 1])) = sent[k + 1]
<1> DEFINE e == ends[k]
           m == sent[k + 1]
           N == Len(sent)
           L == Len(bytes)
<1>1. N \in Nat /\ L \in Nat /\ Len(all) \in Nat /\ L <= Len(all) /\ k \in Nat /\ k <= N /\ n \in Nat /\ n <= k
    BY DEF StartsWith
<1>2. e \in 0 .. Len(all)
    BY <1>1 DEF EndsAt
<1>3. e + Header <= L /\ NextFrame(bytes, e) <= L
    BY DEF WholeFrame
<1>4. k # N
    <2>1. SUFFICES ASSUME k = N PROVE FALSE
        OBVIOUS
    <2>2. e = Len(all)
        BY <2>1 DEF EndsAt
    <2> QED
        BY <1>1, <1>2, <1>3, <2>2, FramingAssumption
<1>5. k + 1 \in n + 1 .. N /\ (k + 1) - 1 = k /\ k + 1 \in 1 .. N
    BY <1>1, <1>4
<1>6. m \in AnyMessage
    BY <1>5
<1>7. /\ ends[k + 1] = e + Header + m.size
      /\ \A j \in 1 .. Header + m.size : all[e + j] = <<m, j>>
    <2>1. \A i \in n + 1 .. N :
             /\ ends[i] = ends[i - 1] + Header + sent[i].size
             /\ \A j \in 1 .. Header + sent[i].size : all[ends[i - 1] + j] = <<sent[i], j>>
        BY DEF EndsAt
    <2> QED
        BY <1>5, <2>1
<1>8. m.size \in Nat /\ Header \in Nat /\ Header >= 1
    BY <1>6, FramingAssumption DEF AnyMessage
<1>9. L <= Len(all) /\ \A i \in 1 .. L : bytes[i] = all[i]
    BY DEF StartsWith
<1>10. bytes \in Seq(AnyByte)
    OBVIOUS
<1> DEFINE s == m.size
<1> HIDE DEF e, m, N, L, s
<1>11. ASSUME NEW j \in 1 .. Header PROVE bytes[e + j] = <<m, j>>
    <2>1. e + j \in 1 .. L /\ j \in 1 .. Header + s
        BY <1>1, <1>2, <1>3, <1>8 DEF s
    <2> QED
        BY <1>7, <1>9, <2>1 DEF s
<1>12. Length(bytes, e) = s
    <2>1. e \in Nat
        BY <1>1, <1>2
    <2>2. \A j \in 1 .. Header : bytes[e + j] = <<m, j>>
        BY <1>11
    <2>3. Length(bytes, e) = m.size
        BY <2>1, <2>2, LengthOfFrame, Zenon
    <2> QED
        BY <2>3 DEF s
<1>13. NextFrame(bytes, e) = ends[k + 1] /\ ends[k + 1] = e + Header + s
    BY <1>7, <1>12 DEF NextFrame, s
<1>14. e + Header + s \in e .. L /\ (e + Header + s) - e = Header + s /\ e \in 0 .. L
    BY <1>1, <1>2, <1>3, <1>8, <1>13 DEF s
<1> DEFINE frame == SubSeq(bytes, e + 1, e + Header + s)
<1>15. frame \in Seq(AnyByte) /\ Len(frame) = Header + s /\ \A j \in 1 .. Header + s : frame[j] = bytes[e + j]
    <2>1. e + Header + s \in e .. Len(bytes) /\ e \in 0 .. Len(bytes)
        BY <1>14 DEF L
    <2> QED
        BY <1>10, <1>14, <2>1, PieceOf
<1> HIDE DEF frame
<1>16. ASSUME NEW j \in 1 .. Header + s PROVE frame[j] = <<m, j>>
    <2>1. e + j \in 1 .. L
        BY <1>1, <1>2, <1>8, <1>14 DEF s
    <2> QED
        BY <1>7, <1>9, <1>15, <2>1 DEF s
<1>17. Message(frame) = m
    BY <1>6, <1>15, <1>16, FrameReadsAsMessage DEF s
<1> QED
    BY <1>1, <1>4, <1>13, <1>17 DEF frame, e, m, N

Follows(cut, bytes, sent, n, ends) ==
    LET c == Len(cut) - 1
    IN  /\ c \in 0 .. Len(sent) - n
        /\ cut[Len(cut)] = ends[n + c]
        /\ \A i \in 1 .. c : Message(SubSeq(bytes, cut[i] + 1, cut[i + 1])) = sent[n + i]

LEMMA CutFollows ==
    ASSUME NEW sent \in Seq(AnyMessage), NEW n \in 0 .. Len(sent),
           NEW all \in Seq(AnyByte), NEW ends, EndsAt(all, sent, n, ends),
           NEW bytes \in Seq(AnyByte), StartsWith(all, bytes),
           NEW cut, Walk(bytes, 0, cut)
    PROVE  Follows(cut, bytes, sent, n, ends)
<1> DEFINE c == Len(cut) - 1
<1>1. Walk(bytes, 0, cut)
    OBVIOUS
<1>2. Len(cut) \in Nat /\ Len(cut) >= 1 /\ c \in Nat /\ c + 1 = Len(cut)
    <2>1. cut \in Seq(0 .. Len(bytes)) /\ cut # <<>>
        BY <1>1 DEF Walk
    <2> QED
        BY <2>1, EmptySeq
<1> HIDE DEF c
<1> DEFINE N == Len(sent)
           S == {i \in Nat : i <= c => n + i <= N /\ cut[i + 1] = ends[n + i]}
<1>3. N \in Nat /\ n \in Nat /\ n <= N
    OBVIOUS
<1>4. 0 \in S
    <2>1. cut[1] = 0 /\ ends[n] = 0
        BY <1>1 DEF Walk, EndsAt
    <2> QED
        BY <1>3, <2>1
<1>5. ASSUME NEW i \in Nat, i + 1 <= c, n + i <= N, cut[i + 1] = ends[n + i]
      PROVE  /\ n + (i + 1) <= N
             /\ cut[(i + 1) + 1] = ends[n + (i + 1)]
             /\ Message(SubSeq(bytes, cut[i + 1] + 1, cut[(i + 1) + 1])) = sent[n + (i + 1)]
    <2>1. i + 1 \in 1 .. Len(cut) - 1
        BY <1>2, <1>5
    <2>2. WholeFrame(bytes, cut[i + 1]) /\ cut[(i + 1) + 1] = NextFrame(bytes, cut[i + 1])
        BY <1>1, <2>1 DEF Walk
    <2>3. n + i \in n .. Len(sent)
        BY <1>3, <1>5
    <2>4. WholeFrame(bytes, ends[n + i])
        BY <1>5, <2>2
    <2>5. /\ n + i < Len(sent)
          /\ NextFrame(bytes, ends[n + i]) = ends[(n + i) + 1]
          /\ Message(SubSeq(bytes, ends[n + i] + 1, ends[(n + i) + 1])) = sent[(n + i) + 1]
        BY <2>3, <2>4, FrameFollows
    <2>6. (n + i) + 1 = n + (i + 1) /\ n + (i + 1) <= N
        BY <1>3, <2>5
    <2>7. cut[(i + 1) + 1] = ends[n + (i + 1)]
        BY <1>5, <2>2, <2>5, <2>6
    <2> QED
        BY <1>5, <2>5, <2>6, <2>7
<1>6. ASSUME NEW i \in S PROVE i + 1 \in S
    <2>1. SUFFICES ASSUME i + 1 <= c PROVE n + (i + 1) <= N /\ cut[(i + 1) + 1] = ends[n + (i + 1)]
        OBVIOUS
    <2>2. i <= c
        BY <1>2, <2>1
    <2> QED
        BY <1>5, <2>1, <2>2
<1>7. S \in SUBSET Nat
    OBVIOUS
<1> HIDE DEF S
<1>8. S = Nat
    BY <1>4, <1>6, <1>7, InductionOnSets
<1>9. \A i \in Nat : i <= c => n + i <= N /\ cut[i + 1] = ends[n + i]
    BY <1>8 DEF S
<1>10. n + c <= N /\ cut[c + 1] = ends[n + c]
    BY <1>2, <1>9
<1>11. ASSUME NEW i \in 1 .. c PROVE Message(SubSeq(bytes, cut[i] + 1, cut[i + 1])) = sent[n + i]
    <2>1. i - 1 \in Nat /\ (i - 1) + 1 <= c /\ i - 1 <= c /\ (i - 1) + 1 = i
        BY <1>2
    <2> QED
        BY <1>5, <1>9, <2>1
<1>12. c \in 0 .. Len(sent) - n
    BY <1>2, <1>3, <1>10
<1>13. cut[Len(cut)] = ends[n + c]
    BY <1>2, <1>10
<1> QED
    BY <1>11, <1>12, <1>13 DEF Follows, c

LEMMA TakenFrames ==
    ASSUME NEW frames \in Seq(AnyMessage), NEW c, c = Len(frames), c >= 1
    PROVE  \E k \in 1 .. c :
             /\ Taken(frames) = SubSeq(frames, 1, k)
             /\ \A i \in 1 .. k - 1 : frames[i].size \notin Malformed
             /\ k = c \/ frames[k].size \in Malformed
<1> DEFINE bad == {i \in 1 .. Len(frames) : frames[i].size \in Malformed}
<1>1. c \in Nat
    OBVIOUS
<1>2. CASE bad = {}
    <2>1. Taken(frames) = frames
        BY <1>2 DEF Taken
    <2>2. SubSeq(frames, 1, c) = frames
        BY SubSeqFull
    <2>3. \A i \in 1 .. c - 1 : frames[i].size \notin Malformed
        BY <1>1, <1>2
    <2>4. c \in 1 .. c
        BY <1>1
    <2> QED
        BY <2>1, <2>2, <2>3, <2>4
<1>3. CASE bad # {}
    <2> DEFINE k == CHOOSE i \in bad : \A j \in bad : i <= j
    <2>1. bad \in SUBSET Nat
        BY <1>1
    <2>2. \E i \in bad : \A j \in bad : i <= j
        BY <1>3, <2>1, LeastElement, Zenon
    <2>3. k \in bad /\ \A j \in bad : k <= j
        BY <2>2, Zenon
    <2>4. Taken(frames) = SubSeq(frames, 1, k)
        BY <1>3 DEF Taken
    <2> HIDE DEF k
    <2>5. k \in 1 .. c /\ frames[k].size \in Malformed
        BY <2>3
    <2>6. ASSUME NEW i \in 1 .. k - 1 PROVE frames[i].size \notin Malformed
        <3>1. i \in 1 .. Len(frames) /\ ~(k <= i)
            BY <1>1, <2>5
        <3> QED
            BY <2>3, <3>1
    <2> QED
        BY <2>4, <2>5, <2>6
<1> QED
    BY <1>2, <1>3

(* What a cut leaves is less than a frame. *)
LEMMA RestIsShort ==
    ASSUME NEW bytes \in Seq(AnyByte), NEW e \in 0 .. Len(bytes), ~WholeFrame(bytes, e),
           NEW rest \in Seq(AnyByte), Len(rest) = Len(bytes) - e,
           \A i \in 1 .. Len(bytes) - e : rest[i] = bytes[e + i]
    PROVE  Len(rest) < Header \/ Len(rest) < Header + Length(rest, 0)
<1> SUFFICES ASSUME ~(Len(rest) < Header) PROVE Len(rest) < Header + Length(rest, 0)
    OBVIOUS
<1> DEFINE L == Len(bytes)
           s == Length(bytes, e)
<1>1. L \in Nat /\ e \in Nat /\ e <= L /\ Header \in Nat /\ Header >= 1
    BY FramingAssumption
<1>2. Len(rest) = L - e
    OBVIOUS
<1> HIDE DEF L
<1>3. e + Header <= L
    BY <1>1, <1>2
<1>4. \A i \in 1 .. Header : rest[i] = bytes[e + i]
    <2>1. \A i \in 1 .. Header : i \in 1 .. L - e
        BY <1>1, <1>3
    <2> QED
        BY <2>1 DEF L
<1>5. Length(rest, 0) = s
    <2>1. 1 \in 1 .. Header /\ 0 + 1 = 1
        BY <1>1
    <2>2. rest[0 + 1] = bytes[e + 1]
        BY <1>4, <2>1
    <2>3. \A i \in 1 .. Header : rest[0 + i] = bytes[e + i]
        <3>1. \A i \in 1 .. Header : 0 + i = i
            OBVIOUS
        <3> QED
            BY <1>4, <3>1
    <2> QED
        BY <2>2, <2>3 DEF Length
<1>6. s \in Nat
    BY <1>1, <1>3, LengthIsNatural DEF L
<1>7. ~(e + Header + s <= L)
    BY <1>3 DEF WholeFrame, NextFrame, L
<1> HIDE DEF s
<1>8. L - e < Header + s
    BY <1>1, <1>6, <1>7
<1> QED
    BY <1>2, <1>5, <1>8

(* A cut leaves less than a frame, and gives the next messages: what is     *)
(* left, with the bytes to come, is in step with those behind them.         *)
CutInStep(bytes, later, sent, n) ==
    LET cut == Cut(bytes)
        rest == SubSeq(bytes, cut[Len(cut)] + 1, Len(bytes))
    IN  /\ rest \in Seq(AnyByte)
        /\ Len(rest) < Header \/ Len(rest) < Header + Length(rest, 0)
        /\ \E c \in 0 .. Len(sent) - n :
             /\ Len(cut) - 1 = c
             /\ InStep(rest \o later, sent, n + c)
             /\ \A i \in 1 .. c :
                  Message(SubSeq(bytes, cut[i] + 1, cut[i + 1])) = sent[n + i]

LEMMA ChunkIsCut ==
    ASSUME NEW sent \in Seq(AnyMessage), NEW n \in 0 .. Len(sent),
           NEW bytes \in Seq(AnyByte), NEW later \in Seq(AnyByte),
           InStep(bytes \o later, sent, n)
    PROVE  CutInStep(bytes, later, sent, n)
<1> DEFINE cut == Cut(bytes)
<1> DEFINE all == bytes \o later
           c == Len(cut) - 1
           e == cut[Len(cut)]
           rest == SubSeq(bytes, e + 1, Len(bytes))
<1>1. PICK ends : EndsAt(all, sent, n, ends)
    BY DEF InStep
<1>2. all \in Seq(AnyByte) /\ StartsWith(all, bytes)
    <2>1. Len(bytes) <= Len(all) /\ \A i \in 1 .. Len(bytes) : bytes[i] = all[i]
        BY StartOfConcat
    <2>2. all \in Seq(AnyByte)
        BY StartOfConcat
    <2> QED
        BY <2>1, <2>2 DEF StartsWith
<1> HIDE DEF all
<1>3. Walk(bytes, 0, cut)
    BY CutWalks
<1> HIDE DEF cut
<1>4. /\ c \in 0 .. Len(sent) - n
      /\ e = ends[n + c]
      /\ \A i \in 1 .. c : Message(SubSeq(bytes, cut[i] + 1, cut[i + 1])) = sent[n + i]
    <2>1. Follows(cut, bytes, sent, n, ends)
        BY <1>1, <1>2, <1>3, CutFollows
    <2> QED
        BY <2>1, Zenon DEF Follows
<1>5. e \in 0 .. Len(bytes) /\ ~WholeFrame(bytes, e)
    <2>2. cut \in Seq(0 .. Len(bytes)) /\ cut # <<>>
        BY <1>3 DEF Walk
    <2>3. Len(cut) \in 1 .. Len(cut)
        BY <2>2, EmptySeq
    <2> QED
        BY <1>3, <2>2, <2>3 DEF Walk
<1> HIDE DEF c, e
<1>6. /\ rest \in Seq(AnyByte) /\ Len(rest) = Len(bytes) - e
      /\ \A i \in 1 .. Len(bytes) - e : rest[i] = bytes[e + i]
    <2>1. Len(bytes) \in e .. Len(bytes)
        BY <1>5
    <2> QED
        BY <1>5, <2>1, PieceOf
<1>7. InStep(rest \o later, sent, n + c)
    <2>1. n + c \in n .. Len(sent)
        BY <1>4
    <2>2. InStep(SubSeq(all, e + 1, Len(all)), sent, n + c)
        BY <1>1, <1>2, <1>4, <2>1, InStepDrop
    <2>3. rest \o later = SubSeq(bytes \o later, e + 1, Len(bytes \o later))
        BY <1>5, DropFromConcat
    <2> QED
        BY <2>2, <2>3 DEF all
<1> HIDE DEF rest
<1>8. Len(rest) < Header \/ Len(rest) < Header + Length(rest, 0)
    BY <1>5, <1>6, RestIsShort
<1>9. \E d \in 0 .. Len(sent) - n :
        /\ Len(cut) - 1 = d
        /\ InStep(rest \o later, sent, n + d)
        /\ \A i \in 1 .. d : Message(SubSeq(bytes, cut[i] + 1, cut[i + 1])) = sent[n + i]
    BY <1>4, <1>7, Zenon DEF c
<1> QED
    BY <1>6, <1>8, <1>9, Zenon DEF CutInStep, rest, e, cut

(* The number of the message whose bytes come first tells what is in step. *)
LEMMA FirstByteTells ==
    ASSUME NEW sent \in Seq(AnyMessage), \A i \in 1 .. Len(sent) : sent[i].id = i,
           NEW n \in 0 .. Len(sent), NEW bytes \in Seq(AnyByte), InStep(bytes, sent, n)
    PROVE  n = IF bytes = <<>> THEN Len(sent) ELSE bytes[1][1].id - 1
<1> DEFINE N == Len(sent)
<1>1. PICK ends : EndsAt(bytes, sent, n, ends)
    BY DEF InStep
<1>2. N \in Nat /\ n \in Nat /\ n <= N /\ Len(bytes) \in Nat
    OBVIOUS
<1>3. ends[n] = 0 /\ ends[N] = Len(bytes) /\ \A i, j \in n .. N : i <= j => ends[i] <= ends[j]
    BY <1>1 DEF EndsAt
<1>4. CASE n = N
    <2>1. Len(bytes) = 0
        BY <1>3, <1>4
    <2>2. bytes = <<>>
        BY <2>1, EmptySeq
    <2> QED
        BY <1>4, <2>2
<1>5. CASE n # N
    <2> DEFINE m == sent[n + 1]
    <2>1. n + 1 \in n + 1 .. N /\ (n + 1) - 1 = n /\ n + 1 \in 1 .. N /\ n + 1 \in n .. N /\ N \in n .. N /\ n + 1 <= N
        BY <1>2, <1>5
    <2>2. ends[n + 1] = 0 + Header + m.size /\ \A j \in 1 .. Header + m.size : bytes[0 + j] = <<m, j>>
        <3>1. \A i \in n + 1 .. N :
                 /\ ends[i] = ends[i - 1] + Header + sent[i].size
                 /\ \A j \in 1 .. Header + sent[i].size : bytes[ends[i - 1] + j] = <<sent[i], j>>
            BY <1>1 DEF EndsAt
        <3> QED
            BY <1>3, <2>1, <3>1
    <2>3. m \in AnyMessage /\ m.id = n + 1
        BY <2>1
    <2>4. m.size \in Nat
        BY <2>3 DEF AnyMessage
    <2>5. ends[n + 1] <= Len(bytes)
        BY <1>3, <2>1
    <2> HIDE DEF m
    <2>6. 1 \in 1 .. Header + m.size /\ 0 + 1 = 1 /\ 0 + Header + m.size >= 1
        <3> DEFINE s == m.size
        <3> HIDE DEF s
        <3>1. 1 \in 1 .. Header + s /\ 0 + Header + s >= 1
            BY <2>4, FramingAssumption DEF s
        <3> QED
            BY <3>1 DEF s
    <2>7. bytes[1] = <<m, 1>>
        BY <2>2, <2>6
    <2>8. bytes # <<>>
        <3>1. ends[n + 1] >= 1
            BY <2>2, <2>6
        <3>2. ends[n + 1] \in 0 .. Len(bytes)
            BY <1>1, <2>1 DEF EndsAt
        <3>3. Len(bytes) # 0
            BY <1>2, <3>1, <3>2
        <3> QED
            BY <3>3, EmptySeq
    <2> QED
        BY <1>2, <2>3, <2>7, <2>8
<1> QED
    BY <1>4, <1>5

-----------------------------------------------------------------------------
(* The queue of a channel: the messages behind the n-th.                    *)

LEMMA QueueOf ==
    ASSUME NEW M, NEW sent \in Seq(M), NEW n \in 0 .. Len(sent)
    PROVE  /\ After(sent, n) \in Seq(M)
           /\ Len(After(sent, n)) = Len(sent) - n
           /\ \A i \in 1 .. Len(sent) - n : After(sent, n)[i] = sent[n + i]
<1>1. Len(sent) \in n .. Len(sent)
    OBVIOUS
<1> QED
    BY <1>1, PieceOf DEF After

LEMMA QueueGrows ==
    ASSUME NEW M, NEW sent \in Seq(M), NEW n \in 0 .. Len(sent), NEW m \in M
    PROVE  After(Append(sent, m), n) = Append(After(sent, n), m)
<1> DEFINE N == Len(sent)
           more == Append(sent, m)
           queue == After(sent, n)
           long == After(more, n)
<1>1. N \in Nat /\ n \in Nat /\ n <= N
    OBVIOUS
<1>2. more \in Seq(M) /\ Len(more) = N + 1 /\ more[N + 1] = m /\ \A i \in 1 .. N : more[i] = sent[i]
    BY AppendProperties
<1>3. queue \in Seq(M) /\ Len(queue) = N - n /\ \A i \in 1 .. N - n : queue[i] = sent[n + i]
    BY QueueOf
<1> HIDE DEF more, queue
<1>4. long \in Seq(M) /\ Len(long) = (N + 1) - n /\ \A i \in 1 .. (N + 1) - n : long[i] = more[n + i]
    <2>1. n \in 0 .. Len(more)
        BY <1>1, <1>2
    <2>2. /\ long \in Seq(M) /\ Len(long) = Len(more) - n
          /\ \A i \in 1 .. Len(more) - n : long[i] = more[n + i]
        BY <1>2, <2>1, QueueOf
    <2> QED
        BY <1>2, <2>2, Zenon
<1> HIDE DEF long
<1>5. /\ Append(queue, m) \in Seq(M) /\ Len(Append(queue, m)) = (N - n) + 1
      /\ Append(queue, m)[(N - n) + 1] = m
      /\ \A i \in 1 .. N - n : Append(queue, m)[i] = queue[i]
    <2>1. /\ Append(queue, m) \in Seq(M) /\ Len(Append(queue, m)) = Len(queue) + 1
          /\ Append(queue, m)[Len(queue) + 1] = m
          /\ \A i \in 1 .. Len(queue) : Append(queue, m)[i] = queue[i]
        BY <1>3, AppendProperties
    <2> QED
        BY <1>3, <2>1, Zenon
<1> HIDE DEF N
<1>6. ASSUME NEW i \in 1 .. (N + 1) - n PROVE long[i] = Append(queue, m)[i]
    <2>1. CASE i <= N - n
        <3>1. i \in 1 .. N - n /\ n + i \in 1 .. N
            BY <1>1, <2>1
        <3> QED
            BY <1>2, <1>3, <1>4, <1>5, <3>1
    <2>2. CASE ~(i <= N - n)
        <3>1. i = (N - n) + 1 /\ n + i = N + 1
            BY <1>1, <2>2
        <3> QED
            BY <1>2, <1>4, <1>5, <3>1
    <2> QED
        BY <2>1, <2>2
<1>7. (N + 1) - n = (N - n) + 1
    BY <1>1
<1>8. long = Append(queue, m)
    BY <1>4, <1>5, <1>6, <1>7, SeqEqual
<1> QED
    BY <1>8 DEF long, queue, more

LEMMA QueueMoves ==
    ASSUME NEW M, NEW sent \in Seq(M), NEW n \in 0 .. Len(sent), NEW c \in 0 .. Len(sent) - n
    PROVE  After(sent, n + c) = SubSeq(After(sent, n), c + 1, Len(After(sent, n)))
<1> DEFINE N == Len(sent)
           queue == After(sent, n)
           short == After(sent, n + c)
           rest == SubSeq(queue, c + 1, Len(queue))
<1>1. N \in Nat /\ n \in Nat /\ n <= N /\ c \in Nat /\ c <= N - n
    OBVIOUS
<1>2. queue \in Seq(M) /\ Len(queue) = N - n /\ \A i \in 1 .. N - n : queue[i] = sent[n + i]
    BY QueueOf
<1>3. short \in Seq(M) /\ Len(short) = N - (n + c) /\ \A i \in 1 .. N - (n + c) : short[i] = sent[(n + c) + i]
    <2>1. n + c \in 0 .. Len(sent)
        BY <1>1
    <2> QED
        BY <2>1, QueueOf
<1> HIDE DEF queue, short
<1>4. rest \in Seq(M) /\ Len(rest) = (N - n) - c /\ \A i \in 1 .. (N - n) - c : rest[i] = queue[c + i]
    <2>1. c \in 0 .. Len(queue) /\ Len(queue) \in c .. Len(queue)
        BY <1>1, <1>2
    <2>2. /\ rest \in Seq(M) /\ Len(rest) = Len(queue) - c
          /\ \A i \in 1 .. Len(queue) - c : rest[i] = queue[c + i]
        BY <1>2, <2>1, PieceOf
    <2> QED
        BY <1>2, <2>2, Zenon
<1> HIDE DEF rest, N
<1>5. N - (n + c) = (N - n) - c
    BY <1>1
<1>6. ASSUME NEW i \in 1 .. N - (n + c) PROVE short[i] = rest[i]
    <2>1. c + i \in 1 .. N - n /\ n + (c + i) = (n + c) + i /\ i \in 1 .. (N - n) - c
        BY <1>1
    <2>2. rest[i] = queue[c + i] /\ queue[c + i] = sent[n + (c + i)]
        BY <1>2, <1>4, <2>1
    <2> QED
        BY <1>3, <2>1, <2>2
<1>7. short = rest
    BY <1>3, <1>4, <1>5, <1>6, SeqEqual
<1> QED
    BY <1>7 DEF short, rest, queue

(* The next message is one of those the channel carries. *)
LEMMA NextIsMessage ==
    ASSUME NEW max \in Nat, NEW sent \in Seq(MessagesUpTo(max)), Len(sent) < max, NEW s \in Sizes
    PROVE  /\ NextAfter(sent, s) \in MessagesUpTo(max)
           /\ NextAfter(sent, s) \in AnyMessage
           /\ NextAfter(sent, s).id = Len(sent) + 1
<1>1. Len(sent) + 1 \in 1 .. max
    OBVIOUS
<1>2. NextAfter(sent, s) \in MessagesUpTo(max)
    BY <1>1 DEF NextAfter, MessagesUpTo
<1>3. NextAfter(sent, s).id = Len(sent) + 1
    BY DEF NextAfter
<1> QED
    BY <1>2, <1>3, MessagesAreAny

LEMMA SentAreAny ==
    ASSUME NEW max \in Nat, NEW sent \in Seq(MessagesUpTo(max))
    PROVE  sent \in Seq(AnyMessage)
BY MessagesAreAny, SeqMonotonic

(* What behind the n-th is followed by one more. *)
LEMMA SendKeepsInStep ==
    ASSUME NEW sent \in Seq(AnyMessage), NEW n \in 0 .. Len(sent),
           NEW before \in Seq(AnyByte), NEW after \in Seq(AnyByte),
           InStep(before \o after, sent, n), NEW m \in AnyMessage
    PROVE  /\ after \o Bytes(m) \in Seq(AnyByte)
           /\ InStep(before \o (after \o Bytes(m)), Append(sent, m), n)
<1> DEFINE frame == Bytes(m)
<1>1. frame \in Seq(AnyByte)
    BY BytesOfFrame
<1> HIDE DEF frame
<1>2. before \o after \in Seq(AnyByte) /\ after \o frame \in Seq(AnyByte)
    BY <1>1, ConcatProperties
<1>3. InStep((before \o after) \o frame, Append(sent, m), n)
    BY <1>2, InStepSend DEF frame
<1>4. (before \o after) \o frame = before \o (after \o frame)
    BY <1>1, ConcatAssociative
<1> QED
    BY <1>2, <1>3, <1>4 DEF frame

-----------------------------------------------------------------------------
(* The read loop: what it holds is never more than a frame, and a whole one *)
(* is the next message.                                                    *)

LEMMA ReadKeepsShort ==
    ASSUME NEW before \in Seq(AnyByte), NEW chunk \in Seq(AnyByte),
           Len(chunk) <= IF Len(before) < Header
                         THEN Header - Len(before)
                         ELSE Header + Length(before, 0) - Len(before),
           NEW now, now = before \o chunk
    PROVE  Len(now) < Header \/ Len(now) <= Header + Length(now, 0)
<1> DEFINE B == Len(before)
           C == Len(chunk)
           s == Length(before, 0)
           t == Length(now, 0)
<1>1. now \in Seq(AnyByte) /\ Len(now) = B + C
    BY ConcatProperties
<1>2. B \in Nat /\ C \in Nat /\ Header \in Nat /\ Header >= 1
    BY FramingAssumption
<1>3. CASE B < Header
    <2> SUFFICES ASSUME ~(Len(now) < Header) PROVE Len(now) <= Header + t
        OBVIOUS
    <2>1. B + C <= Header /\ ~(B + C < Header)
        BY <1>1, <1>2, <1>3
    <2>2. 0 + Header <= Len(now)
        BY <1>1, <1>2, <2>1
    <2>3. t \in Nat
        BY <1>1, <2>2, LengthIsNatural
    <2> HIDE DEF t, B, C
    <2> QED
        BY <1>1, <1>2, <2>1, <2>3
<1>4. CASE ~(B < Header)
    <2>1. \A i \in 1 .. B : before[i] = now[i]
        BY StartOfConcat
    <2>2. \A i \in 1 .. Header : 0 + i \in 1 .. B
        BY <1>2, <1>4
    <2>3. \A i \in 1 .. Header : before[0 + i] = now[0 + i]
        BY <2>1, <2>2
    <2>4. before[0 + 1] = now[0 + 1]
        <3>1. 0 + 1 \in 1 .. B
            BY <1>2, <1>4
        <3> QED
            BY <2>1, <3>1, Zenon
    <2>5. s = t
        BY <2>3, <2>4 DEF Length
    <2>6. 0 + Header <= Len(before)
        BY <1>2, <1>4
    <2>7. s \in Nat
        BY <2>6, LengthIsNatural
    <2>8. C <= Header + s - B
        BY <1>4
    <2> HIDE DEF s, t, B, C
    <2>9. B + C <= Header + t
        BY <1>2, <2>5, <2>7, <2>8
    <2> QED
        BY <1>1, <2>9, Zenon DEF t
<1> QED
    BY <1>3, <1>4

LEMMA WholeFrameIsNext ==
    ASSUME NEW sent \in Seq(AnyMessage), NEW n \in 0 .. Len(sent),
           NEW frame \in Seq(AnyByte), NEW later \in Seq(AnyByte),
           InStep(frame \o later, sent, n),
           Len(frame) >= Header, Len(frame) = Header + Length(frame, 0)
    PROVE  /\ n < Len(sent)
           /\ Message(frame) = sent[n + 1]
           /\ InStep(later, sent, n + 1)
<1> DEFINE all == frame \o later
           L == Len(frame)
           s == Length(frame, 0)
<1>1. PICK ends : EndsAt(all, sent, n, ends)
    BY DEF InStep
<1>2. all \in Seq(AnyByte) /\ StartsWith(all, frame)
    <2>1. L <= Len(all) /\ \A i \in 1 .. L : frame[i] = all[i]
        BY StartOfConcat
    <2>2. all \in Seq(AnyByte)
        BY StartOfConcat
    <2> QED
        BY <2>1, <2>2 DEF StartsWith
<1>3. ends[n] = 0
    BY <1>1 DEF EndsAt
<1>4. L \in Nat /\ Header \in Nat /\ s \in Nat
    <2>1. L \in Nat /\ Header \in Nat
        BY FramingAssumption
    <2>2. 0 + Header <= L
        BY <2>1
    <2> QED
        BY <2>1, <2>2, LengthIsNatural
<1>5. NextFrame(frame, 0) = L /\ WholeFrame(frame, 0)
    <2>1. Header + s = L /\ Header <= L
        OBVIOUS
    <2> HIDE DEF L, s
    <2>2. 0 + Header + s = L /\ 0 + Header <= L /\ L <= L
        BY <1>4, <2>1
    <2> QED
        BY <2>2 DEF NextFrame, WholeFrame, L, s
<1> HIDE DEF all
<1>6. /\ n < Len(sent)
      /\ NextFrame(frame, ends[n]) = ends[n + 1]
      /\ Message(SubSeq(frame, ends[n] + 1, ends[n + 1])) = sent[n + 1]
    <2>1. n \in n .. Len(sent)
        OBVIOUS
    <2>2. WholeFrame(frame, ends[n])
        BY <1>3, <1>5
    <2> QED
        BY <1>1, <1>2, <2>1, <2>2, FrameFollows
<1>7. ends[n + 1] = L
    BY <1>3, <1>5, <1>6
<1>8. Message(frame) = sent[n + 1]
    <2>1. SubSeq(frame, 1, L) = frame
        BY SubSeqFull
    <2>2. Message(SubSeq(frame, 0 + 1, L)) = sent[n + 1]
        BY <1>3, <1>6, <1>7
    <2>3. 0 + 1 = 1
        OBVIOUS
    <2> QED
        BY <2>1, <2>2, <2>3, Zenon
<1>9. InStep(later, sent, n + 1)
    <2>1. n + 1 \in n .. Len(sent)
        BY <1>6
    <2>2. InStep(SubSeq(all, L + 1, Len(all)), sent, n + 1)
        BY <1>1, <1>2, <1>7, <2>1, InStepDrop
    <2>3. L \in 0 .. Len(frame)
        BY <1>4
    <2>4. SubSeq(frame, L + 1, L) \o later = SubSeq(all, L + 1, Len(all))
        BY <2>3, DropFromConcat DEF all
    <2>5. SubSeq(frame, L + 1, L) = <<>>
        BY <1>4, SubSeqEmpty
    <2>6. <<>> \o later = later
        BY ConcatEmptySeq
    <2> QED
        BY <2>2, <2>4, <2>5, <2>6
<1> QED
    BY <1>6, <1>8, <1>9

-----------------------------------------------------------------------------
(* The requests: the bytes the read loop holds and those of the socket are  *)
(* in step with what the app sent, behind what was handed over.            *)

RequestInv ==
    /\ asked \in Seq(MessagesUpTo(MaxRequests))
    /\ served \in Seq(MessagesUpTo(MaxRequests))
    /\ toDaemon \in Seq(AnyByte)
    /\ held \in Seq(AnyByte)
    /\ Len(held) < Header \/ Len(held) <= Header + Length(held, 0)
    /\ Len(served) + Len(handed) \in 0 .. Len(asked)
    /\ handed = <<>> \/ handed = <<asked[Len(served) + 1]>>
    /\ InStep(held \o toDaemon, asked, Len(served) + Len(handed))

RequestMoves == [RequestChannel!Send \/ RequestChannel!Arrive]_(RequestChannel!vars)

LEMMA RequestInvInit == Init => RequestInv /\ RequestChannel!Init
<1> SUFFICES ASSUME Init PROVE RequestInv /\ RequestChannel!Init
    OBVIOUS
<1>1. asked = <<>> /\ served = <<>> /\ toDaemon = <<>> /\ held = <<>> /\ handed = <<>>
    BY DEF Init
<1>2. InStep(held \o toDaemon, asked, Len(served) + Len(handed))
    <2>1. held \o toDaemon = <<>> /\ Len(served) + Len(handed) = 0
        BY <1>1
    <2> QED
        BY <1>1, <2>1, InStepInit
<1>3. Len(held) < Header
    BY <1>1, FramingAssumption
<1>4. RequestInv
    BY <1>1, <1>2, <1>3 DEF RequestInv
<1>5. After(asked, Len(served)) = <<>>
    BY <1>1 DEF After
<1> QED
    BY <1>1, <1>4, <1>5 DEF RequestChannel!Init

LEMMA AppSendsKeeps == RequestInv /\ AppSends => RequestInv' /\ RequestMoves
<1> SUFFICES ASSUME RequestInv, AppSends PROVE RequestInv' /\ RequestMoves
    OBVIOUS
<1>1. PICK s \in Sizes :
        /\ asked' = Append(asked, NextAfter(asked, s))
        /\ toDaemon' = toDaemon \o Bytes(NextAfter(asked, s))
    BY DEF AppSends
<1>2. UNCHANGED <<held, handed, served>> /\ Len(asked) < MaxRequests
    BY DEF AppSends
<1> DEFINE m == NextAfter(asked, s)
           N == Len(served) + Len(handed)
<1>3. m \in MessagesUpTo(MaxRequests) /\ m \in AnyMessage
    BY <1>2, NextIsMessage, FramingAssumption DEF RequestInv
<1>4. asked \in Seq(AnyMessage)
    BY SentAreAny, FramingAssumption DEF RequestInv
<1> HIDE DEF m, N
<1>5. N \in 0 .. Len(asked) /\ N' = N /\ Len(asked') = Len(asked) + 1
    BY <1>1, <1>2, <1>3 DEF RequestInv, N, m
<1>6. /\ toDaemon' \in Seq(AnyByte)
      /\ InStep(held \o toDaemon', asked', N)
    BY <1>1, <1>3, <1>4, <1>5, SendKeepsInStep DEF RequestInv, N, m
<1>7. asked' \in Seq(MessagesUpTo(MaxRequests)) /\ \A i \in 1 .. Len(asked) : asked'[i] = asked[i]
    BY <1>1, <1>3, AppendProperties DEF RequestInv, m
<1>8. handed' = <<>> \/ handed' = <<asked'[Len(served) + 1]>>
    <2>1. CASE handed = <<asked[Len(served) + 1]>>
        <3>1. Len(served) + 1 \in 1 .. Len(asked)
            BY <1>5, <2>1 DEF RequestInv, N
        <3> QED
            BY <1>2, <1>7, <2>1, <3>1
    <2> QED
        BY <1>2, <2>1 DEF RequestInv
<1>9. N' \in 0 .. Len(asked')
    BY <1>5
<1>10. RequestInv'
    BY <1>2, <1>5, <1>6, <1>7, <1>8, <1>9 DEF RequestInv, N
<1>11. RequestChannel!Send
    <2>1. Len(served) \in 0 .. Len(asked)
        <3>1. Len(handed) \in Nat /\ Len(served) \in Nat
            BY DEF RequestInv
        <3> QED
            BY <1>5, <3>1 DEF RequestInv, N
    <2>2. After(asked', Len(served)) = Append(After(asked, Len(served)), m)
        BY <1>1, <1>3, <2>1, QueueGrows DEF RequestInv, m
    <2> QED
        BY <1>2, <1>3, <2>2 DEF RequestChannel!Send
<1> QED
    BY <1>10, <1>11 DEF RequestMoves

LEMMA ReadBytesKeeps == RequestInv /\ ReadBytes => RequestInv' /\ RequestMoves
<1> SUFFICES ASSUME RequestInv, ReadBytes PROVE RequestInv' /\ RequestMoves
    OBVIOUS
<1>1. PICK n \in 1 .. Missing :
        /\ n <= Len(toDaemon)
        /\ held' = held \o SubSeq(toDaemon, 1, n)
        /\ toDaemon' = SubSeq(toDaemon, n + 1, Len(toDaemon))
    BY DEF ReadBytes
<1>2. UNCHANGED <<asked, handed, served>>
    BY DEF ReadBytes
<1>3. held \in Seq(AnyByte) /\ toDaemon \in Seq(AnyByte)
    BY DEF RequestInv
<1> DEFINE chunk == SubSeq(toDaemon, 1, n)
<1>4. n \in 0 .. Len(toDaemon) /\ n \in Nat
    BY <1>1, <1>3
<1>5. chunk \in Seq(AnyByte) /\ held' \in Seq(AnyByte) /\ toDaemon' \in Seq(AnyByte)
      /\ held' \o toDaemon' = held \o toDaemon
    <2> DEFINE rest == SubSeq(toDaemon, n + 1, Len(toDaemon))
    <2>1. /\ chunk \in Seq(AnyByte) /\ rest \in Seq(AnyByte) /\ held \o chunk \in Seq(AnyByte)
          /\ (held \o chunk) \o rest = held \o toDaemon
        <3>1. n \in 0 .. Len(toDaemon)
            BY <1>4
        <3>2. chunk \in Seq(AnyByte)
            BY <1>3, <3>1, MoveOver
        <3>3. rest \in Seq(AnyByte)
            BY <1>3, <3>1, MoveOver
        <3>4. held \o chunk \in Seq(AnyByte)
            BY <1>3, <3>1, MoveOver
        <3>5. (held \o chunk) \o rest = held \o toDaemon
            BY <1>3, <3>1, MoveOver, ZenonT(30)
        <3> QED
            BY <3>2, <3>3, <3>4, <3>5
    <2>2. held' = held \o chunk /\ toDaemon' = rest
        BY <1>1
    <2> HIDE DEF chunk, rest
    <2> QED
        BY <2>1, <2>2, Zenon
<1>6. Len(chunk) = n
    BY <1>3, <1>4
<1> HIDE DEF chunk
<1>7. held' = held \o chunk
    BY <1>1 DEF chunk
<1>8. Len(chunk) <= IF Len(held) < Header THEN Header - Len(held) ELSE Header + Length(held, 0) - Len(held)
    <2>1. n <= Missing
        BY <1>1
    <2> QED
        BY <1>6, <2>1 DEF Missing
<1>9. Len(held') < Header \/ Len(held') <= Header + Length(held', 0)
    BY <1>3, <1>5, <1>7, <1>8, ReadKeepsShort
<1>10. RequestInv'
    BY <1>2, <1>5, <1>9 DEF RequestInv
<1>11. UNCHANGED RequestChannel!vars
    BY <1>2 DEF RequestChannel!vars
<1> QED
    BY <1>10, <1>11 DEF RequestMoves

LEMMA HandOverKeeps == RequestInv /\ HandOver => RequestInv' /\ RequestMoves
<1> SUFFICES ASSUME RequestInv, HandOver PROVE RequestInv' /\ RequestMoves
    OBVIOUS
<1>1. /\ Missing = 0 /\ handed = <<>> /\ handed' = <<Message(held)>> /\ held' = <<>>
      /\ UNCHANGED <<asked, toDaemon, served>>
    BY DEF HandOver
<1>2. held \in Seq(AnyByte) /\ toDaemon \in Seq(AnyByte) /\ asked \in Seq(AnyMessage)
    BY SentAreAny, FramingAssumption DEF RequestInv
<1> DEFINE n == Len(served)
<1>3. n \in 0 .. Len(asked) /\ n + Len(handed) = n
    BY <1>1 DEF RequestInv
<1>4. Len(held) >= Header /\ Len(held) = Header + Length(held, 0)
    <2> DEFINE L == Len(held)
               s == Length(held, 0)
    <2>1. L \in Nat /\ Header \in Nat
        BY <1>2, FramingAssumption
    <2>2. (IF L < Header THEN Header - L ELSE Header + s - L) = 0
        BY <1>1 DEF Missing
    <2>3. L >= Header
        <3> HIDE DEF L, s
        <3> QED
            BY <2>1, <2>2
    <2>4. s \in Nat
        <3>1. 0 + Header <= Len(held)
            BY <2>1, <2>3
        <3> QED
            BY <1>2, <3>1, LengthIsNatural
    <2> HIDE DEF L, s
    <2>5. L >= Header /\ L = Header + s
        BY <2>1, <2>2, <2>3, <2>4
    <2> QED
        BY <2>5 DEF L, s
<1>5. InStep(held \o toDaemon, asked, n)
    BY <1>3 DEF RequestInv
<1> HIDE DEF n
<1>6. n < Len(asked) /\ Message(held) = asked[n + 1] /\ InStep(toDaemon, asked, n + 1)
    BY <1>2, <1>3, <1>4, <1>5, WholeFrameIsNext
<1>7. held' \in Seq(AnyByte) /\ held' \o toDaemon' = toDaemon /\ Len(held') < Header
    <2>1. <<>> \o toDaemon = toDaemon
        BY <1>2, ConcatEmptySeq
    <2>2. <<>> \in Seq(AnyByte) /\ Len(<<>>) = 0
        BY EmptySeq
    <2> QED
        BY <1>1, <2>1, <2>2, FramingAssumption
<1>8. n + Len(handed') = n + 1 /\ n + 1 \in 0 .. Len(asked)
    BY <1>1, <1>3, <1>6
<1>9. RequestInv'
    BY <1>1, <1>6, <1>7, <1>8 DEF RequestInv, n
<1>10. UNCHANGED RequestChannel!vars
    BY <1>1 DEF RequestChannel!vars
<1> QED
    BY <1>9, <1>10 DEF RequestMoves

LEMMA ServeKeeps == RequestInv /\ Serve => RequestInv' /\ RequestMoves
<1> SUFFICES ASSUME RequestInv, Serve PROVE RequestInv' /\ RequestMoves
    OBVIOUS
<1> DEFINE n == Len(served)
           m == asked[n + 1]
           queue == After(asked, n)
<1>1. handed # <<>> /\ UNCHANGED <<asked, toDaemon, held>>
    BY DEF Serve
<1>2. handed = <<m>>
    BY <1>1 DEF RequestInv
<1>3. served' = Append(served, m) /\ handed' = <<>>
    BY <1>2 DEF Serve
<1>4. n \in Nat /\ n + 1 \in 0 .. Len(asked) /\ n + Len(handed) = n + 1
    BY <1>2 DEF RequestInv
<1>5. m \in MessagesUpTo(MaxRequests)
    <2>1. n + 1 \in 1 .. Len(asked)
        BY <1>4
    <2> QED
        BY <2>1 DEF RequestInv
<1> HIDE DEF m
<1>6. served' \in Seq(MessagesUpTo(MaxRequests)) /\ Len(served') = n + 1
    BY <1>3, <1>5, AppendProperties DEF RequestInv
<1>7. Len(served') + Len(handed') = n + 1
    BY <1>3, <1>4, <1>6
<1>8. RequestInv'
    BY <1>1, <1>3, <1>4, <1>6, <1>7 DEF RequestInv
<1>9. /\ queue \in Seq(MessagesUpTo(MaxRequests)) /\ Len(queue) = Len(asked) - n
      /\ queue[1] = m /\ Len(queue) >= 1
    <2>1. n \in 0 .. Len(asked) /\ asked \in Seq(MessagesUpTo(MaxRequests))
        BY <1>4 DEF RequestInv
    <2>2. 1 \in 1 .. Len(asked) - n /\ Len(asked) - n >= 1
        BY <1>4
    <2> QED
        BY <2>1, <2>2, QueueOf DEF m
<1>10. After(asked, n + 1) = SubSeq(queue, 1 + 1, Len(queue))
    <2>1. n \in 0 .. Len(asked) /\ 1 \in 0 .. Len(asked) - n /\ asked \in Seq(MessagesUpTo(MaxRequests))
        BY <1>4 DEF RequestInv
    <2> QED
        BY <2>1, QueueMoves
<1>11. 1 \in 1 .. Len(queue)
    BY <1>4, <1>9
<1> HIDE DEF queue, n
<1>12. served' = served \o SubSeq(queue, 1, 1)
    <2>1. SubSeq(queue, 1, 1) = <<m>>
        BY <1>9, FirstOf
    <2> QED
        BY <1>3, <1>5, <2>1, AppendIsConcat DEF RequestInv
<1>13. RequestChannel!Arrive
    <2>1. \A i \in 1 .. 1 - 1 : queue[i] \notin {}
        OBVIOUS
    <2>2. After(asked', Len(served')) = SubSeq(queue, 1 + 1, Len(queue))
        BY <1>1, <1>6, <1>10
    <2> QED
        BY <1>11, <1>12, <2>1, <2>2 DEF RequestChannel!Arrive, queue, n
<1> QED
    BY <1>8, <1>13 DEF RequestMoves

(* Nothing else touches the requests. *)
LEMMA RequestInvStep == RequestInv /\ [FramingNext]_vars => RequestInv' /\ RequestMoves
<1> SUFFICES ASSUME RequestInv, [FramingNext]_vars PROVE RequestInv' /\ RequestMoves
    OBVIOUS
<1>1. CASE UNCHANGED requestVars
    <2>1. RequestInv'
        BY <1>1 DEF RequestInv, requestVars
    <2>2. UNCHANGED RequestChannel!vars
        BY <1>1 DEF RequestChannel!vars, requestVars
    <2> QED
        BY <2>1, <2>2 DEF RequestMoves
<1>2. (Tick \/ Write \/ OnChunk \/ UNCHANGED vars) => UNCHANGED requestVars
    BY DEF Tick, Write, OnChunk, vars
<1> QED
    BY <1>1, <1>2, AppSendsKeeps, ReadBytesKeeps, HandOverKeeps, ServeKeeps
       DEF FramingNext, ReadLoop, ServeLoop

-----------------------------------------------------------------------------
(* The events: the reader's unfinished frame and the bytes of the socket    *)
(* are in step with what the daemon sent, behind what the app has taken.    *)

EventInv ==
    /\ told \in Seq(MessagesUpTo(MaxEvents))
    /\ \A i \in 1 .. Len(told) : told[i].id = i
    /\ got \in Seq(MessagesUpTo(MaxEvents))
    /\ toApp \in Seq(AnyByte)
    /\ pending \in Seq(AnyByte)
    /\ Len(pending) < Header \/ Len(pending) < Header + Length(pending, 0)
    /\ owed \in 0 .. 2
    /\ Len(told) + owed <= MaxEvents
    /\ Cutoff \in 0 .. Len(told)
    /\ InStep(pending \o toApp, told, Cutoff)

EventMoves == [EventChannel!Send \/ EventChannel!Arrive]_(EventChannel!vars)

LEMMA EventInvInit == Init => EventInv /\ EventChannel!Init
<1> SUFFICES ASSUME Init PROVE EventInv /\ EventChannel!Init
    OBVIOUS
<1>1. told = <<>> /\ toApp = <<>> /\ pending = <<>> /\ got = <<>> /\ owed = 0
    BY DEF Init
<1>2. pending \o toApp = <<>> /\ Len(told) = 0
    BY <1>1
<1>3. Cutoff = 0
    BY <1>2 DEF Cutoff
<1>4. InStep(pending \o toApp, told, Cutoff)
    BY <1>1, <1>2, <1>3, InStepInit
<1>5. Len(pending) < Header
    BY <1>1, FramingAssumption
<1>6. EventInv
    BY <1>1, <1>2, <1>3, <1>4, <1>5, FramingAssumption DEF EventInv
<1>7. After(told, Cutoff) = <<>>
    BY <1>1, <1>3 DEF After
<1> QED
    BY <1>1, <1>6, <1>7 DEF EventChannel!Init

LEMMA WriteKeeps == EventInv /\ Write => EventInv' /\ EventMoves
<1> SUFFICES ASSUME EventInv, Write PROVE EventInv' /\ EventMoves
    OBVIOUS
<1>1. PICK s \in Sizes :
        /\ told' = Append(told, NextAfter(told, s))
        /\ toApp' = toApp \o Bytes(NextAfter(told, s))
    BY DEF Write
<1>2. UNCHANGED <<pending, got>> /\ owed > 0 /\ owed' = owed - 1
    BY DEF Write
<1> DEFINE m == NextAfter(told, s)
           n == Cutoff
<1>3. Len(told) < MaxEvents /\ MaxEvents \in Nat
    BY <1>2, FramingAssumption DEF EventInv
<1>4. m \in MessagesUpTo(MaxEvents) /\ m \in AnyMessage /\ m.id = Len(told) + 1
    BY <1>3, NextIsMessage DEF EventInv
<1>5. told \in Seq(AnyMessage) /\ n \in 0 .. Len(told)
    BY <1>3, SentAreAny DEF EventInv
<1> HIDE DEF m, n
<1>6. toApp' \in Seq(AnyByte) /\ InStep(pending \o toApp', told', n)
    BY <1>1, <1>4, <1>5, SendKeepsInStep DEF EventInv, n, m
<1>7. /\ told' \in Seq(MessagesUpTo(MaxEvents)) /\ Len(told') = Len(told) + 1
      /\ told'[Len(told) + 1] = m /\ \A i \in 1 .. Len(told) : told'[i] = told[i]
    BY <1>1, <1>4, AppendProperties DEF EventInv, m
<1>8. ASSUME NEW i \in 1 .. Len(told') PROVE told'[i].id = i
    <2>1. CASE i = Len(told) + 1
        BY <1>4, <1>7, <2>1
    <2>2. CASE i # Len(told) + 1
        <3>1. i \in 1 .. Len(told)
            BY <1>7, <2>2
        <3> QED
            BY <1>7, <3>1 DEF EventInv
    <2> QED
        BY <2>1, <2>2
<1>9. told' \in Seq(AnyMessage) /\ n \in 0 .. Len(told') /\ pending' \o toApp' \in Seq(AnyByte)
    <2>1. told' \in Seq(AnyMessage)
        BY <1>3, <1>7, SentAreAny
    <2>2. pending' \in Seq(AnyByte)
        BY <1>2 DEF EventInv
    <2> QED
        BY <1>5, <1>6, <1>7, <2>1, <2>2, ConcatProperties
<1>10. Cutoff' = n
    <2>1. InStep(pending' \o toApp', told', n)
        BY <1>2, <1>6
    <2>2. n = IF pending' \o toApp' = <<>> THEN Len(told') ELSE (pending' \o toApp')[1][1].id - 1
        BY <1>8, <1>9, <2>1, FirstByteTells
    <2> QED
        BY <2>2 DEF Cutoff
<1>11. owed' \in 0 .. 2 /\ Len(told') + owed' <= MaxEvents
    <2> DEFINE N == Len(told)
    <2>1. N \in Nat /\ owed \in 0 .. 2 /\ N + owed <= MaxEvents /\ Len(told') = N + 1
        BY <1>7 DEF EventInv
    <2> HIDE DEF N
    <2> QED
        BY <1>2, <1>3, <2>1
<1>12. EventInv'
    BY <1>2, <1>6, <1>7, <1>8, <1>9, <1>10, <1>11 DEF EventInv
<1>13. EventChannel!Send
    <2>1. After(told', n) = Append(After(told, n), m)
        BY <1>1, <1>4, <1>5, QueueGrows DEF EventInv, m
    <2>2. After(told', Cutoff') = Append(After(told, Cutoff), m)
        BY <1>10, <2>1 DEF n
    <2> QED
        BY <1>2, <1>4, <2>2 DEF EventChannel!Send
<1> QED
    BY <1>12, <1>13 DEF EventMoves

LEMMA OnChunkKeeps == EventInv /\ OnChunk => EventInv' /\ EventMoves
<1> SUFFICES ASSUME EventInv, OnChunk PROVE EventInv' /\ EventMoves
    OBVIOUS
<1> DEFINE n == Cutoff
           M == MessagesUpTo(MaxEvents)
           cutOf(bytes) == Cut(bytes)
           restOf(bytes) == SubSeq(bytes, Cut(bytes)[Len(Cut(bytes))] + 1, Len(bytes))
           framesOf(bytes) == [i \in 1 .. Len(Cut(bytes)) - 1 |->
                                 Message(SubSeq(bytes, Cut(bytes)[i] + 1, Cut(bytes)[i + 1]))]
<1>1. PICK b \in 1 .. Len(toApp) :
        /\ toApp' = SubSeq(toApp, b + 1, Len(toApp))
        /\ pending' = restOf(pending \o SubSeq(toApp, 1, b))
        /\ got' = got \o Taken(framesOf(pending \o SubSeq(toApp, 1, b)))
    BY DEF OnChunk, AddChunk
<1>2. UNCHANGED <<owed, told>>
    BY DEF OnChunk
<1> DEFINE bytes == pending \o SubSeq(toApp, 1, b)
           later == SubSeq(toApp, b + 1, Len(toApp))
           cut == Cut(bytes)
           frames == framesOf(bytes)
           rest == restOf(bytes)
<1>3. /\ pending \in Seq(AnyByte) /\ toApp \in Seq(AnyByte) /\ told \in Seq(M)
      /\ got \in Seq(M) /\ n \in 0 .. Len(told) /\ InStep(pending \o toApp, told, n)
    BY DEF EventInv
<1>4. told \in Seq(AnyMessage) /\ MaxEvents \in Nat
    BY <1>3, SentAreAny, FramingAssumption
<1>5. later \in Seq(AnyByte) /\ bytes \in Seq(AnyByte) /\ bytes \o later = pending \o toApp
    <2>1. b \in 0 .. Len(toApp)
        OBVIOUS
    <2>2. later \in Seq(AnyByte)
        BY <1>3, <2>1, MoveOver
    <2>3. bytes \in Seq(AnyByte)
        BY <1>3, <2>1, MoveOver
    <2>4. bytes \o later = pending \o toApp
        <3>1. pending \in Seq(AnyByte)
            BY <1>3
        <3>2. toApp \in Seq(AnyByte)
            BY <1>3
        <3> QED
            BY <2>1, <3>1, <3>2, MoveOver, ZenonT(30)
    <2> QED
        BY <2>2, <2>3, <2>4
<1>6. toApp' = later /\ pending' = rest /\ got' = got \o Taken(frames)
    BY <1>1
<1> HIDE DEF bytes, later, n, M
<1>7. /\ rest \in Seq(AnyByte)
      /\ Len(rest) < Header \/ Len(rest) < Header + Length(rest, 0)
      /\ \E c \in 0 .. Len(told) - n :
           /\ Len(cut) - 1 = c
           /\ InStep(rest \o later, told, n + c)
           /\ \A i \in 1 .. c : Message(SubSeq(bytes, cut[i] + 1, cut[i + 1])) = told[n + i]
    <2>1. InStep(bytes \o later, told, n)
        BY <1>3, <1>5
    <2>2. CutInStep(bytes, later, told, n)
        BY <1>3, <1>4, <1>5, <2>1, ChunkIsCut
    <2> QED
        BY <2>2, Zenon DEF CutInStep
<1>8. PICK c \in 0 .. Len(told) - n :
        /\ Len(cut) - 1 = c
        /\ InStep(rest \o later, told, n + c)
        /\ \A i \in 1 .. c : Message(SubSeq(bytes, cut[i] + 1, cut[i + 1])) = told[n + i]
    BY <1>7
<1>9. frames = [i \in 1 .. c |-> told[n + i]]
    BY <1>8
<1> HIDE DEF rest, frames, cut
<1>10. n \in Nat /\ c \in Nat /\ n + c \in 0 .. Len(told) /\ n <= Len(told) /\ c <= Len(told) - n
    BY <1>3, <1>8
<1>11. Cutoff' = n + c
    <2>1. rest \o later \in Seq(AnyByte)
        BY <1>5, <1>7, ConcatProperties
    <2>2. \A i \in 1 .. Len(told) : told[i].id = i
        BY DEF EventInv
    <2>3. n + c = IF rest \o later = <<>> THEN Len(told) ELSE (rest \o later)[1][1].id - 1
        BY <1>4, <1>8, <1>10, <2>1, <2>2, FirstByteTells
    <2> QED
        BY <1>2, <1>6, <2>3 DEF Cutoff
<1> DEFINE queue == After(told, n)
<1>12. /\ queue \in Seq(M) /\ Len(queue) = Len(told) - n
       /\ \A i \in 1 .. Len(told) - n : queue[i] = told[n + i]
    BY <1>3, QueueOf
<1>13. frames \in Seq(M) /\ Len(frames) = c /\ \A i \in 1 .. c : frames[i] = queue[i]
    <2>1. \A i \in 1 .. c : told[n + i] \in M /\ i \in 1 .. Len(told) - n
        BY <1>3, <1>10
    <2>2. frames \in [1 .. c -> M]
        BY <1>9, <2>1
    <2>3. frames \in Seq(M) /\ Len(frames) = c
        BY <1>10, <2>2
    <2> QED
        BY <1>9, <1>12, <2>1, <2>3
<1> HIDE DEF queue
<1>14. frames \in Seq(AnyMessage)
    BY <1>4, <1>13, SentAreAny DEF M
<1>15. ASSUME got' \in Seq(M) PROVE EventInv'
    <2>1. told' = told /\ owed' = owed /\ toApp' \in Seq(AnyByte) /\ pending' \in Seq(AnyByte)
        BY <1>2, <1>5, <1>6, <1>7
    <2>2. Len(pending') < Header \/ Len(pending') < Header + Length(pending', 0)
        BY <1>6, <1>7
    <2>3. Cutoff' \in 0 .. Len(told') /\ InStep(pending' \o toApp', told', Cutoff')
        BY <1>6, <1>8, <1>10, <1>11, <2>1
    <2> QED
        BY <1>15, <2>1, <2>2, <2>3 DEF EventInv, M
<1>16. CASE c = 0
    <2>1. Taken(frames) = <<>>
        <3>1. Len(frames) = 0 /\ frames = <<>>
            BY <1>13, <1>16, EmptySeq
        <3>2. {i \in 1 .. Len(frames) : frames[i].size \in Malformed} = {}
            BY <3>1
        <3> QED
            BY <3>1, <3>2 DEF Taken
    <2>2. got' = got
        BY <1>3, <1>6, <2>1, ConcatEmptySeq
    <2>3. Cutoff' = Cutoff
        BY <1>10, <1>11, <1>16 DEF n
    <2>4. UNCHANGED EventChannel!vars
        BY <1>2, <2>2, <2>3 DEF EventChannel!vars
    <2> QED
        BY <1>3, <1>15, <2>2, <2>4 DEF EventMoves
<1>17. CASE c # 0
    <2>1. c >= 1 /\ c \in 1 .. Len(queue)
        BY <1>10, <1>12, <1>17
    <2>2. PICK k \in 1 .. c :
            /\ Taken(frames) = SubSeq(frames, 1, k)
            /\ \A i \in 1 .. k - 1 : frames[i].size \notin Malformed
            /\ k = c \/ frames[k].size \in Malformed
        BY <1>13, <1>14, <2>1, TakenFrames
    <2>3. k \in Nat /\ k <= c /\ k <= Len(frames) /\ k <= Len(queue) /\ k \in 1 .. Len(queue)
        BY <1>13, <2>1
    <2>4. SubSeq(frames, 1, k) = SubSeq(queue, 1, k) /\ SubSeq(frames, 1, k) \in Seq(M)
        <3>1. \A i \in 1 .. k : frames[i] = queue[i]
            BY <1>13, <2>3
        <3> QED
            BY <1>12, <1>13, <2>3, <3>1, SameStart
    <2>5. got' = got \o SubSeq(queue, 1, k)
        BY <1>6, <2>2, <2>4
    <2>6. got' \in Seq(M)
        BY <1>3, <1>6, <2>2, <2>4, ConcatProperties
    <2> DEFINE Breaking == {m \in M : m.size \in Malformed}
    <2>7. \A i \in 1 .. k - 1 : queue[i] \notin Breaking
        <3>1. \A i \in 1 .. k - 1 : i \in 1 .. c
            BY <2>3
        <3> QED
            BY <1>13, <2>2, <3>1
    <2>8. k = c \/ queue[k] \in Breaking
        BY <1>12, <1>13, <2>2, <2>3
    <2>9. After(told', Cutoff') = SubSeq(queue, c + 1, Len(queue))
        BY <1>2, <1>3, <1>8, <1>11, QueueMoves DEF queue
    <2>10. EventChannel!Arrive
        BY <2>1, <2>3, <2>5, <2>7, <2>8, <2>9 DEF EventChannel!Arrive, queue, n, M
    <2> QED
        BY <1>15, <2>6, <2>10 DEF EventMoves
<1> QED
    BY <1>16, <1>17

(* Serve and Tick only promise events. *)
LEMMA EventInvStep == EventInv /\ [FramingNext]_vars => EventInv' /\ EventMoves
<1> SUFFICES ASSUME EventInv, [FramingNext]_vars PROVE EventInv' /\ EventMoves
    OBVIOUS
<1>1. ASSUME UNCHANGED eventVars, owed' \in 0 .. 2, Len(told) + owed' <= MaxEvents
      PROVE  EventInv' /\ EventMoves
    <2>1. Cutoff' = Cutoff
        BY <1>1 DEF Cutoff, eventVars
    <2>2. EventInv'
        BY <1>1, <2>1 DEF EventInv, eventVars
    <2>3. UNCHANGED EventChannel!vars
        BY <1>1, <2>1 DEF EventChannel!vars, eventVars
    <2> QED
        BY <2>2, <2>3 DEF EventMoves
<1>2. CASE UNCHANGED <<eventVars, owed>>
    BY <1>1, <1>2 DEF EventInv, eventVars
<1>3. CASE Serve
    BY <1>1, <1>3 DEF Serve
<1>4. CASE Tick
    <2>1. Len(told) < MaxEvents /\ owed' = 1 /\ Len(told) \in Nat /\ MaxEvents \in Nat
        BY <1>4, FramingAssumption DEF Tick, EventInv
    <2> QED
        BY <1>1, <1>4, <2>1 DEF Tick
<1>5. (AppSends \/ ReadLoop \/ UNCHANGED vars) => UNCHANGED <<eventVars, owed>>
    BY DEF AppSends, ReadLoop, ReadBytes, HandOver, vars
<1> QED
    BY <1>2, <1>3, <1>4, <1>5, WriteKeeps, OnChunkKeeps DEF FramingNext, ServeLoop

-----------------------------------------------------------------------------
(* Theorems. *)

(* The inductive invariants of the two directions hold of every run.        *)
THEOREM RequestInvariance == FramingSpec => []RequestInv
BY RequestInvInit, RequestInvStep, PTL DEF FramingSpec

(* And of the events (the daemon's write half and the app's FrameReader).   *)
THEOREM EventInvariance == FramingSpec => []EventInv
BY EventInvInit, EventInvStep, PTL DEF FramingSpec

LEMMA TickedOrNot == FramingSpec => [](ticked \in BOOLEAN)
<1>1. Init => ticked \in BOOLEAN
    BY DEF Init
<1>2. ticked \in BOOLEAN /\ [FramingNext]_vars => (ticked \in BOOLEAN)'
    BY DEF FramingNext, vars, AppSends, ReadLoop, ReadBytes, HandOver, ServeLoop, Serve, Write,
           Tick, OnChunk
<1> QED
    BY <1>1, <1>2, PTL DEF FramingSpec

(* Types: neither reader ever holds more than one frame, the channel never  *)
(* more than one either, and what is served or given to the app's listeners *)
(* is a message that was sent.                                              *)
THEOREM FramingTypes == FramingSpec => []FramingTypeOK
<1>1. RequestInv /\ EventInv /\ ticked \in BOOLEAN => FramingTypeOK
    <2> SUFFICES ASSUME RequestInv, EventInv, ticked \in BOOLEAN PROVE FramingTypeOK
        OBVIOUS
    <2>1. Len(handed) <= 1
        <3>1. handed = <<>> \/ handed = <<asked[Len(served) + 1]>>
            BY DEF RequestInv
        <3> DEFINE m == asked[Len(served) + 1]
        <3> HIDE DEF m
        <3>2. CASE handed = <<>>
            BY <3>2
        <3>3. CASE handed = <<m>>
            BY <3>3
        <3> QED
            BY <3>1, <3>2, <3>3 DEF m
    <2> QED
        BY <2>1 DEF RequestInv, EventInv, FramingTypeOK
<1> QED
    BY <1>1, RequestInvariance, EventInvariance, TickedOrNot, PTL

(* What the serve loop has taken is the beginning of what the app sent.     *)
InOrder == served = SubSeq(asked, 1, Len(served))

LEMMA InOrderStep == RequestInv /\ InOrder /\ [FramingNext]_vars => InOrder'
<1> SUFFICES ASSUME RequestInv, InOrder, [FramingNext]_vars PROVE InOrder'
    OBVIOUS
<1> DEFINE n == Len(served)
           M == MessagesUpTo(MaxRequests)
<1>1. asked \in Seq(M) /\ served \in Seq(M) /\ n \in Nat /\ n <= Len(asked)
    <2>1. n + Len(handed) \in 0 .. Len(asked) /\ n \in Nat
        BY DEF RequestInv
    <2>2. Len(handed) \in Nat
        BY DEF RequestInv
    <2>3. n <= Len(asked)
        <3> DEFINE h == Len(handed)
        <3> HIDE DEF n, h
        <3>1. n + h \in 0 .. Len(asked) /\ n \in Nat /\ h \in Nat /\ Len(asked) \in Nat
            BY <2>1, <2>2 DEF h, RequestInv
        <3> QED
            BY <3>1
    <2> QED
        BY <2>1, <2>3 DEF RequestInv
<1>2. CASE AppSends
    <2>1. PICK m : asked' = Append(asked, m) /\ m \in M
        <3>1. PICK s \in Sizes : asked' = Append(asked, NextAfter(asked, s))
            BY <1>2 DEF AppSends
        <3>2. NextAfter(asked, s) \in M
            BY <1>1, <1>2, NextIsMessage, FramingAssumption DEF AppSends
        <3> QED
            BY <3>1, <3>2
    <2>2. asked' \in Seq(M) /\ Len(asked') = Len(asked) + 1 /\ \A i \in 1 .. Len(asked) : asked'[i] = asked[i]
        BY <1>1, <2>1, AppendProperties
    <2>3. n <= Len(asked') /\ \A i \in 1 .. n : asked[i] = asked'[i]
        BY <1>1, <2>2
    <2>4. SubSeq(asked, 1, n) = SubSeq(asked', 1, n)
        BY <1>1, <2>2, <2>3, SameStart
    <2>5. served' = served
        BY <1>2 DEF AppSends
    <2> QED
        BY <2>4, <2>5 DEF InOrder
<1>3. CASE Serve
    <2> DEFINE m == asked[n + 1]
    <2>1. handed = <<m>>
        BY <1>3 DEF Serve, RequestInv
    <2>2. served' = Append(served, m) /\ asked' = asked
        BY <1>3, <2>1 DEF Serve
    <2>3. n + 1 \in 1 .. Len(asked)
        BY <1>1, <2>1 DEF RequestInv
    <2>4. m \in M
        BY <1>1, <2>3
    <2> HIDE DEF m
    <2>5. Len(served') = n + 1 /\ Append(served, m) = served \o <<m>>
        BY <1>1, <2>2, <2>4, AppendProperties, AppendIsConcat
    <2>6. SubSeq(asked, 1, n + 1) = SubSeq(asked, 1, n) \o <<m>>
        <3>1. 1 \in 1 .. Len(asked) /\ n + 1 \in 1 .. Len(asked) /\ (n + 1) - 1 = n
            BY <1>1, <2>3
        <3>2. SubSeq(asked, 1, n + 1) = SubSeq(asked, 1, (n + 1) - 1) \o <<asked[n + 1]>>
            BY <1>1, <3>1, SubSeqRecursiveSecond
        <3> QED
            BY <3>1, <3>2 DEF m
    <2>7. served = SubSeq(asked, 1, n)
        BY DEF InOrder
    <2> QED
        BY <2>2, <2>5, <2>6, <2>7 DEF InOrder
<1>4. (ReadLoop \/ Write \/ Tick \/ OnChunk \/ UNCHANGED vars) => UNCHANGED <<asked, served>>
    BY DEF ReadLoop, ReadBytes, HandOver, Write, Tick, OnChunk, requestVars, vars
<1>5. CASE UNCHANGED <<asked, served>>
    BY <1>5 DEF InOrder
<1> QED
    BY <1>2, <1>3, <1>4, <1>5 DEF FramingNext, ServeLoop

(* No request is served twice, out of its turn or torn (serve_connection).  *)
THEOREM RequestsInOrder == FramingSpec => []InOrder
<1>1. Init => InOrder
    <2> SUFFICES ASSUME Init PROVE InOrder
        OBVIOUS
    <2>1. served = <<>> /\ Len(served) = 0
        BY DEF Init
    <2>2. SubSeq(asked, 1, 0) = <<>>
        BY SubSeqEmpty
    <2> QED
        BY <2>1, <2>2 DEF InOrder
<1> QED
    BY <1>1, InOrderStep, RequestInvariance, PTL DEF FramingSpec

(* However many bytes come at a time, both directions deliver each message  *)
(* once, whole and in order: every step of the bytes is a step, or none, of *)
(* the channel of messages (serve_connection's read loop and                *)
(* FrameReader.addChunk with DaemonClient._onChunk).                        *)
THEOREM FramesAreWhole == FramingSpec => FramesArriveWhole
<1>1. FramingSpec => RequestChannel!Spec
    <2>1. RequestInv /\ [FramingNext]_vars => [RequestChannel!Send \/ RequestChannel!Arrive]_(RequestChannel!vars)
        BY RequestInvStep DEF RequestMoves
    <2> QED
        BY <2>1, RequestInvInit, RequestInvariance, PTL DEF FramingSpec, RequestChannel!Spec
<1>2. FramingSpec => EventChannel!Spec
    <2>1. EventInv /\ [FramingNext]_vars => [EventChannel!Send \/ EventChannel!Arrive]_(EventChannel!vars)
        BY EventInvStep DEF EventMoves
    <2> QED
        BY <2>1, EventInvInit, EventInvariance, PTL DEF FramingSpec, EventChannel!Spec
<1> QED
    BY <1>1, <1>2, PTL DEF FramesArriveWhole

=============================================================================
