------------------------ MODULE FrameDecoder_proofs -------------------------
(***************************************************************************)
(* Proofs about the decoder, for every sequence of pieces: how the stream  *)
(* was split leaves no trace in what is cut out of it, and what is kept    *)
(* between two pieces is less than a frame.                                *)
(***************************************************************************)
EXTENDS FrameDecoder, SequenceTheorems, WellFoundedInduction, TLAPS

(***************************************************************************)
(* The inductive invariant says of the buffer, byte by byte, that it is    *)
(* the part of the stream behind what was consumed, and of the items that  *)
(* they are the chain of cuts up to there.                                 *)
(***************************************************************************)
Suffix ==
    /\ consumed \in 0..Len(received)
    /\ \A k \in 1..Len(buf) : buf[k] = received[consumed + k]
IsCut(i) ==
    /\ items[i].from = (IF i = 1 THEN 0 ELSE items[i - 1].to)
    /\ CanCut(received, items[i].from)
    /\ items[i] = CutItem(received, items[i].from)
Chain == \A i \in DOMAIN items : IsCut(i)
Reached == consumed = (IF items = <<>> THEN 0 ELSE items[Len(items)].to)
AtRest == ~draining => ~Headless(buf) /\ ~Complete(buf)
Inv == TypeOK /\ Suffix /\ Chain /\ Reached /\ AtRest

\* A byte as a number.
LEMMA ByteIsNat == \A b \in Byte : b \in Nat /\ b <= 255
BY DEF Byte

\* A number that is small enough is a byte.
LEMMA SmallIsByte == \A n \in Nat : n <= 255 => n \in Byte
BY DEF Byte

\* A cut stays where it is when more bytes follow.
LEMMA CutStable ==
    ASSUME NEW s \in Seq(Byte), NEW t \in Seq(Byte), NEW p \in Nat, CanCut(s, p)
    PROVE  /\ CanCut(s \o t, p)
           /\ CutItem(s \o t, p) = CutItem(s, p)
           /\ CutEnd(s, p) \in (p + 1)..Len(s)
<1>1. /\ s \o t \in Seq(Byte)
      /\ Len(s \o t) = Len(s) + Len(t)
      /\ \A i \in 1..Len(s) : (s \o t)[i] = s[i]
  BY ConcatProperties, LenProperties
<1>2. Len(s) \in Nat /\ Len(t) \in Nat /\ \A i \in 1..Len(s) : s[i] \in Byte
  BY LenProperties, ElementOfSeq
<1>3. p + 1 \in 1..Len(s) /\ (s \o t)[p + 1] = s[p + 1]
  BY <1>1, <1>2 DEF CanCut
<1>4. ASSUME s[p + 1] \in RxHeads
      PROVE  /\ p + 2 \in 1..Len(s)
             /\ (s \o t)[p + 2] = s[p + 2]
             /\ s[p + 2] \in Nat
             /\ p + s[p + 2] + Overhead <= Len(s)
  <2>1. p + 2 <= Len(s) /\ p + s[p + 2] + Overhead <= Len(s)
    BY <1>4 DEF CanCut
  <2>2. p + 2 \in 1..Len(s)
    BY <1>2, <2>1
  <2>3. s[p + 2] \in Byte
    BY <1>2, <2>2
  <2> QED BY <1>1, <2>1, <2>2, <2>3, ByteIsNat
<1>5. CanCut(s \o t, p)
  <2>1. CASE s[p + 1] \in RxHeads
    <3>1. (s \o t)[p + 2] = s[p + 2] /\ (s \o t)[p + 2] \in Nat /\ s[p + 2] \in Nat
      BY <1>4, <2>1
    <3>2. /\ p < Len(s \o t) /\ p + 2 <= Len(s \o t)
          /\ p + (s \o t)[p + 2] + Overhead <= Len(s \o t)
      BY <1>1, <1>2, <1>3, <1>4, <2>1, <3>1 DEF Overhead
    <3> QED BY <3>2 DEF CanCut
  <2>2. CASE s[p + 1] \notin RxHeads
    BY <1>1, <1>2, <1>3, <2>2 DEF CanCut
  <2> QED BY <2>1, <2>2
<1>6. CutEnd(s \o t, p) = CutEnd(s, p)
  BY <1>3, <1>4 DEF CutEnd
<1>7. CutEnd(s, p) \in (p + 1)..Len(s)
  <2>1. CASE s[p + 1] \in RxHeads
    <3>1. CutEnd(s, p) = p + s[p + 2] + Overhead
      BY <2>1 DEF CutEnd
    <3> QED BY <1>2, <1>4, <2>1, <3>1 DEF Overhead
  <2>2. CASE s[p + 1] \notin RxHeads
    BY <1>2, <1>3, <2>2 DEF CutEnd
  <2> QED BY <2>1, <2>2
<1>8. SubSeq(s \o t, p + 1, CutEnd(s, p)) = SubSeq(s, p + 1, CutEnd(s, p))
  <2>1. CutEnd(s, p) \in 1..Len(s)
    BY <1>7, <1>2
  <2> QED BY <1>3, <2>1, SubSeqOfConcat1
<1>9. CutKind(s \o t, p) = CutKind(s, p)
  BY <1>3, <1>6, <1>8 DEF CutKind
<1> QED BY <1>5, <1>6, <1>7, <1>9 DEF CutItem

\* The buffer as a whole.
LEMMA BufferIsSuffix ==
    ASSUME TypeOK, Suffix
    PROVE  buf = SubSeq(received, consumed + 1, Len(received))
<1>1. received \in Seq(Byte) /\ buf \in Seq(Byte) /\ Len(received) \in Nat /\ Len(buf) \in Nat
  BY LenProperties DEF TypeOK
<1>2. consumed \in 0..Len(received) /\ consumed = Len(received) - Len(buf)
  BY DEF Suffix, consumed
<1> DEFINE rest == SubSeq(received, consumed + 1, Len(received))
<1>3. \A i \in (consumed + 1)..Len(received) : received[i] \in Byte
  BY <1>1, <1>2, ElementOfSeq
<1>4. /\ rest \in Seq(Byte)
      /\ Len(rest) = IF consumed + 1 <= Len(received)
                     THEN Len(received) - (consumed + 1) + 1 ELSE 0
      /\ \A i \in 1..(Len(received) - (consumed + 1) + 1) :
             rest[i] = received[(consumed + 1) + i - 1]
  <2>1. consumed + 1 \in Int /\ Len(received) \in Int
    BY <1>1, <1>2
  <2> QED BY <1>3, <2>1, SubSeqProperties
<1>5. Len(rest) = Len(buf)
  BY <1>1, <1>2, <1>4
<1>6. \A i \in 1..Len(buf) : buf[i] = rest[i]
  BY <1>1, <1>2, <1>4 DEF Suffix
<1> QED BY <1>1, <1>4, <1>5, <1>6, SeqEqual

\* What the extraction sees in the buffer is what the stream has there.
LEMMA BufferSees ==
    ASSUME TypeOK, Suffix
    PROVE  /\ Headless(buf) =>
                /\ CanCut(received, consumed)
                /\ CutItem(received, consumed)
                     = [kind |-> "unexpected_head", from |-> consumed, to |-> consumed + 1]
                /\ 1 \in 1..Len(buf)
           /\ Complete(buf) =>
                /\ CanCut(received, consumed)
                /\ CutItem(received, consumed)
                     = [kind |-> IF verify_checksum(SubSeq(buf, 1, Total(buf)))
                                 THEN "frame" ELSE "checksum",
                        from |-> consumed, to |-> consumed + Total(buf)]
                /\ Total(buf) \in 1..Len(buf)
           /\ CanCut(received, consumed) => Headless(buf) \/ Complete(buf)
<1>1. received \in Seq(Byte) /\ buf \in Seq(Byte) /\ Len(received) \in Nat /\ Len(buf) \in Nat
  BY LenProperties DEF TypeOK
<1>2. consumed \in 0..Len(received) /\ consumed = Len(received) - Len(buf)
  BY DEF Suffix, consumed
<1>3. buf # <<>> <=> 1 <= Len(buf)
  BY <1>1, EmptySeq
<1>4. 1 <= Len(buf) => buf[1] = received[consumed + 1] /\ buf[1] \in Byte
  BY <1>1, ElementOfSeq DEF Suffix
<1>5. 2 <= Len(buf) => buf[2] = received[consumed + 2] /\ buf[2] \in Byte
  BY <1>1, ElementOfSeq DEF Suffix
<1>6. consumed < Len(received) <=> 1 <= Len(buf)
  BY <1>1, <1>2
<1>7. consumed + 2 <= Len(received) <=> 2 <= Len(buf)
  BY <1>1, <1>2
<1>8. ASSUME Headless(buf)
      PROVE  /\ CanCut(received, consumed)
             /\ CutItem(received, consumed)
                  = [kind |-> "unexpected_head", from |-> consumed, to |-> consumed + 1]
             /\ 1 \in 1..Len(buf)
  BY <1>1, <1>3, <1>4, <1>6, <1>8 DEF Headless, CanCut, CutItem, CutKind, CutEnd
<1>9. ASSUME Complete(buf)
      PROVE  /\ CanCut(received, consumed)
             /\ CutItem(received, consumed)
                  = [kind |-> IF verify_checksum(SubSeq(buf, 1, Total(buf)))
                              THEN "frame" ELSE "checksum",
                     from |-> consumed, to |-> consumed + Total(buf)]
             /\ Total(buf) \in 1..Len(buf)
  <2>1. received[consumed + 1] \in RxHeads /\ 2 <= Len(buf)
    BY <1>3, <1>4, <1>9 DEF Complete
  <2>0. buf[2] = received[consumed + 2] /\ buf[2] \in Nat /\ received[consumed + 2] \in Nat
    BY <1>5, <2>1, ByteIsNat
  <2>2. Total(buf) = received[consumed + 2] + Overhead /\ Total(buf) \in 1..Len(buf)
    <3>1. Len(buf) >= buf[2] + Overhead
      BY <1>9 DEF Complete, Total
    <3> QED BY <1>1, <2>0, <3>1 DEF Total, Overhead
  <2>3. CutEnd(received, consumed) = consumed + Total(buf)
    <3>1. CutEnd(received, consumed) = consumed + received[consumed + 2] + Overhead
      BY <2>1 DEF CutEnd
    <3> QED BY <1>1, <1>2, <2>0, <2>2, <3>1 DEF Overhead
  <2>4. CanCut(received, consumed)
    <3>1. /\ consumed < Len(received) /\ consumed + 2 <= Len(received)
          /\ consumed + received[consumed + 2] + Overhead <= Len(received)
      BY <1>1, <1>2, <2>0, <2>1, <2>2 DEF Overhead
    <3> QED BY <3>1 DEF CanCut
  <2>5. SubSeq(buf, 1, Total(buf)) = SubSeq(received, consumed + 1, consumed + Total(buf))
    <3>1. /\ consumed + 1 \in 1..Len(received) /\ Len(received) \in 1..Len(received)
          /\ 1 \in 1..(Len(received) - (consumed + 1) + 1)
          /\ Total(buf) \in 1..(Len(received) - (consumed + 1) + 1)
      BY <1>1, <1>2, <2>2
    <3> DEFINE i == consumed + 1
               n == Total(buf)
    <3>2. SubSeq(SubSeq(received, i, Len(received)), 1, n)
            = SubSeq(received, i + 1 - 1, i + n - 1)
      <4>1. /\ i \in 1..Len(received) /\ Len(received) \in 1..Len(received)
            /\ 1 \in 1..(Len(received) - i + 1) /\ n \in 1..(Len(received) - i + 1)
        BY <3>1
      <4> HIDE DEF i, n
      <4>2. \A s \in Seq(Byte) : \A a, b \in 1..Len(s) : \A c, d \in 1..(b - a + 1) :
              SubSeq(SubSeq(s, a, b), c, d) = SubSeq(s, a + c - 1, a + d - 1)
        BY SubSeqOfSubSeq
      <4> QED BY <1>1, <4>1, <4>2
    <3>3. /\ (consumed + 1) + 1 - 1 = consumed + 1
          /\ (consumed + 1) + Total(buf) - 1 = consumed + Total(buf)
      BY <1>1, <1>2, <2>2
    <3> QED BY <3>2, <3>3, BufferIsSuffix
  <2> QED BY <2>1, <2>2, <2>3, <2>4, <2>5 DEF CutItem, CutKind
<1>10. ASSUME CanCut(received, consumed)
       PROVE  Headless(buf) \/ Complete(buf)
  <2>1. 1 <= Len(buf) /\ buf # <<>> /\ buf[1] = received[consumed + 1]
    BY <1>3, <1>4, <1>6, <1>10 DEF CanCut
  <2>2. CASE buf[1] \notin RxHeads
    BY <2>1, <2>2 DEF Headless
  <2>3. CASE buf[1] \in RxHeads
    <3>1. /\ consumed + 2 <= Len(received)
          /\ consumed + received[consumed + 2] + Overhead <= Len(received)
      BY <1>10, <2>1, <2>3 DEF CanCut
    <3>2. /\ 2 <= Len(buf) /\ buf[2] = received[consumed + 2]
          /\ buf[2] \in Nat /\ received[consumed + 2] \in Nat
      BY <1>5, <1>7, <3>1, ByteIsNat
    <3>3. Len(buf) >= buf[2] + Overhead /\ Len(buf) >= 2
      BY <1>1, <1>2, <3>1, <3>2 DEF Overhead
    <3> QED BY <2>1, <2>3, <3>3 DEF Complete, Total
  <2> QED BY <2>2, <2>3
<1> QED BY <1>8, <1>9, <1>10

LEMMA InitInv == Init => Inv
<1> SUFFICES ASSUME Init PROVE Inv
  OBVIOUS
<1>1. <<>> \in Seq(Byte) /\ <<>> \in Seq(Item) /\ Len(<<>>) = 0
  BY EmptySeq
<1>2. TypeOK
  BY <1>1 DEF Init, TypeOK
<1> QED BY <1>1, <1>2
        DEF Init, Inv, Suffix, Chain, Reached, AtRest, consumed, Headless, Complete

\* A cut at the place the buffer begins keeps the invariant.
LEMMA ConsumeKeeps ==
    ASSUME Inv, NEW n \in 1..Len(buf), NEW kind \in Kind, Consume(n, kind), draining,
           CanCut(received, consumed),
           CutItem(received, consumed) = [kind |-> kind, from |-> consumed, to |-> consumed + n]
    PROVE  Inv'
<1> DEFINE it == [kind |-> kind, from |-> consumed, to |-> consumed + n]
<1>1. /\ received \in Seq(Byte) /\ buf \in Seq(Byte) /\ items \in Seq(Item)
      /\ Len(received) \in Nat /\ Len(buf) \in Nat /\ Len(items) \in Nat
  BY LenProperties DEF Inv, TypeOK
<1>2. consumed \in 0..Len(received) /\ consumed = Len(received) - Len(buf)
  BY DEF Inv, Suffix, consumed
<1>3. /\ buf' = SubSeq(buf, n + 1, Len(buf)) /\ items' = Append(items, it)
      /\ received' = received /\ draining' = draining
  BY DEF Consume
<1>4. it \in Item
  BY <1>1, <1>2 DEF Item
<1>5. /\ buf' \in Seq(Byte) /\ Len(buf') = Len(buf) - n
      /\ \A k \in 1..Len(buf') : buf'[k] = buf[n + k]
  <2>1. \A i \in (n + 1)..Len(buf) : buf[i] \in Byte
    BY <1>1, ElementOfSeq
  <2>2. n + 1 \in Int /\ Len(buf) \in Int
    BY <1>1
  <2>3. /\ SubSeq(buf, n + 1, Len(buf)) \in Seq(Byte)
        /\ Len(SubSeq(buf, n + 1, Len(buf)))
             = IF n + 1 <= Len(buf) THEN Len(buf) - (n + 1) + 1 ELSE 0
        /\ \A i \in 1..(Len(buf) - (n + 1) + 1) :
               SubSeq(buf, n + 1, Len(buf))[i] = buf[(n + 1) + i - 1]
    BY <2>1, <2>2, SubSeqProperties
  <2>4. Len(buf') = Len(buf) - n
    BY <1>1, <1>3, <2>3
  <2>5. ASSUME NEW k \in 1..Len(buf') PROVE buf'[k] = buf[n + k]
    <3>1. k \in 1..(Len(buf) - (n + 1) + 1) /\ (n + 1) + k - 1 = n + k
      BY <1>1, <2>4
    <3> QED BY <1>3, <2>3, <3>1
  <2> QED BY <1>3, <2>3, <2>4, <2>5
<1>6. /\ items' \in Seq(Item) /\ Len(items') = Len(items) + 1 /\ items' # <<>>
      /\ \A i \in 1..Len(items) : items'[i] = items[i]
      /\ items'[Len(items) + 1] = it
  <2> HIDE DEF it
  <2> QED BY <1>1, <1>3, <1>4, AppendProperties
<1>7. consumed' = consumed + n
  <2>1. consumed' = Len(received') - Len(buf')
    BY DEF consumed
  <2> QED BY <1>1, <1>2, <1>3, <1>5, <2>1
<1>8. TypeOK'
  BY <1>1, <1>3, <1>5, <1>6 DEF Inv, TypeOK
<1>9. Suffix'
  <2>1. consumed' \in 0..Len(received')
    BY <1>1, <1>2, <1>3, <1>7
  <2>2. ASSUME NEW k \in 1..Len(buf') PROVE buf'[k] = received'[consumed' + k]
    <3>1. n + k \in 1..Len(buf) /\ consumed + (n + k) = consumed' + k
      BY <1>1, <1>2, <1>5, <1>7
    <3> QED BY <1>3, <1>5, <3>1 DEF Inv, Suffix
  <2> QED BY <2>1, <2>2 DEF Suffix
<1>10. Chain'
  <2>1. DOMAIN items' = 1..(Len(items) + 1) /\ DOMAIN items = 1..Len(items)
    BY <1>1, <1>6, LenProperties
  <2>2. ASSUME NEW i \in 1..Len(items) PROVE IsCut(i)'
    <3>1. IsCut(i) /\ i \in 1..Len(items)
      BY <2>1 DEF Inv, Chain
    <3>2. i # 1 => i - 1 \in 1..Len(items)
      BY <1>1
    <3> QED BY <1>3, <1>6, <3>1, <3>2 DEF IsCut
  <2>3. \A i : i = Len(items) + 1 => IsCut(i)'
    <3>1. it.from = (IF Len(items) + 1 = 1 THEN 0 ELSE items[Len(items)].to)
      BY <1>1, EmptySeq DEF Inv, Reached
    <3>2. Len(items) + 1 # 1 => /\ (Len(items) + 1) - 1 \in 1..Len(items)
                                /\ (Len(items) + 1) - 1 = Len(items)
      BY <1>1
    <3>3. (Len(items) + 1) - 1 = Len(items)
      BY <1>1
    <3>4. it.from = (IF Len(items) + 1 = 1 THEN 0 ELSE items'[(Len(items) + 1) - 1].to)
      BY <1>6, <3>1, <3>2
    <3>5. CanCut(received, it.from) /\ it = CutItem(received, it.from)
      OBVIOUS
    <3>6. items'[Len(items) + 1] = it /\ received' = received
      BY <1>3, <1>6
    <3> HIDE DEF it
    <3>7. \A i : i = Len(items) + 1 => IsCut(i)'
      BY <3>4, <3>5, <3>6 DEF IsCut
    <3> QED BY <3>7
  <2>4. ASSUME NEW i \in DOMAIN items' PROVE IsCut(i)'
    <3>1. CASE i \in 1..Len(items)
      BY <2>2, <3>1
    <3>2. CASE i \notin 1..Len(items)
      <4>1. i = Len(items) + 1
        BY <1>1, <2>1, <3>2
      <4> QED BY <2>3, <4>1
    <3> QED BY <3>1, <3>2
  <2> QED BY <2>4 DEF Chain
<1>11. Reached'
  BY <1>6, <1>7 DEF Reached
<1>12. AtRest'
  BY <1>3 DEF AtRest
<1> QED BY <1>8, <1>9, <1>10, <1>11, <1>12 DEF Inv

LEMMA PushKeeps ==
    ASSUME Inv, NEW bytes \in Seq(Byte), Push(bytes)
    PROVE  Inv'
<1>1. /\ received \in Seq(Byte) /\ buf \in Seq(Byte) /\ items \in Seq(Item)
      /\ Len(received) \in Nat /\ Len(buf) \in Nat /\ Len(bytes) \in Nat
  BY LenProperties DEF Inv, TypeOK
<1>2. /\ received' = received \o bytes /\ buf' = buf \o bytes
      /\ draining' = TRUE /\ items' = items
  BY DEF Push
<1>3. /\ received' \in Seq(Byte) /\ Len(received') = Len(received) + Len(bytes)
      /\ \A i \in 1..(Len(received) + Len(bytes)) :
            received'[i] = IF i <= Len(received) THEN received[i] ELSE bytes[i - Len(received)]
  BY <1>1, <1>2, ConcatProperties
<1>4. /\ buf' \in Seq(Byte) /\ Len(buf') = Len(buf) + Len(bytes)
      /\ \A i \in 1..(Len(buf) + Len(bytes)) :
            buf'[i] = IF i <= Len(buf) THEN buf[i] ELSE bytes[i - Len(buf)]
  BY <1>1, <1>2, ConcatProperties
<1>5. consumed \in 0..Len(received) /\ consumed = Len(received) - Len(buf)
  BY DEF Inv, Suffix, consumed
<1>6. consumed' = consumed
  BY <1>1, <1>3, <1>4, <1>5 DEF consumed
<1>7. TypeOK'
  BY <1>2, <1>3, <1>4 DEF Inv, TypeOK
<1>8. Suffix'
  <2>1. consumed' \in 0..Len(received')
    BY <1>1, <1>3, <1>5, <1>6
  <2>2. ASSUME NEW k \in 1..Len(buf') PROVE buf'[k] = received'[consumed' + k]
    <3>1. k \in 1..(Len(buf) + Len(bytes)) /\ consumed + k \in 1..(Len(received) + Len(bytes))
      BY <1>1, <1>4, <1>5
    <3>2. CASE k <= Len(buf)
      <4>1. consumed + k <= Len(received) /\ k \in 1..Len(buf)
        BY <1>1, <1>5, <3>1, <3>2
      <4>2. buf[k] = received[consumed + k]
        BY <4>1 DEF Inv, Suffix
      <4> QED BY <1>3, <1>4, <1>6, <3>1, <3>2, <4>1, <4>2
    <3>3. CASE ~(k <= Len(buf))
      <4>1. ~(consumed + k <= Len(received)) /\ (consumed + k) - Len(received) = k - Len(buf)
        BY <1>1, <1>5, <3>1, <3>3
      <4>2. buf'[k] = bytes[k - Len(buf)]
        BY <1>4, <3>1, <3>3
      <4>3. received'[consumed + k] = bytes[k - Len(buf)]
        <5>1. consumed + k \in 1..(Len(received) + Len(bytes))
          BY <3>1
        <5>2. \A j \in 1..(Len(received) + Len(bytes)) : \A m :
                ~(j <= Len(received)) /\ j - Len(received) = m => received'[j] = bytes[m]
          BY <1>3
        <5> QED BY <4>1, <5>1, <5>2, Zenon
      <4> QED BY <1>6, <4>2, <4>3
    <3> QED BY <3>2, <3>3
  <2> QED BY <2>1, <2>2 DEF Suffix
<1>9. Chain'
  <2>1. ASSUME NEW i \in DOMAIN items PROVE IsCut(i)'
    <3>1. IsCut(i) /\ items[i] \in Item
      BY <1>1, LenProperties, ElementOfSeq DEF Inv, Chain
    <3>2. items[i].from \in Nat
      BY <3>1 DEF Item
    <3>3. /\ CanCut(received \o bytes, items[i].from)
          /\ CutItem(received \o bytes, items[i].from) = CutItem(received, items[i].from)
      BY <1>1, <3>1, <3>2, CutStable DEF IsCut
    <3> QED BY <1>2, <3>1, <3>3 DEF IsCut
  <2> QED BY <1>2, <2>1 DEF Chain
<1>10. Reached'
  BY <1>2, <1>6 DEF Inv, Reached
<1>11. AtRest'
  BY <1>2 DEF AtRest
<1> QED BY <1>7, <1>8, <1>9, <1>10, <1>11 DEF Inv

LEMMA RenewKeeps == Inv /\ Renew => Inv'
<1> SUFFICES ASSUME Inv, Renew PROVE Inv'
  OBVIOUS
<1>1. <<>> \in Seq(Byte) /\ <<>> \in Seq(Item) /\ Len(<<>>) = 0
  BY EmptySeq
<1>2. TypeOK'
  BY <1>1 DEF Renew, Inv, TypeOK
<1> QED BY <1>1, <1>2
        DEF Renew, Inv, Suffix, Chain, Reached, AtRest, consumed, Headless, Complete

LEMMA NextInv == Inv /\ [Next]_decoder => Inv'
<1> SUFFICES ASSUME Inv, [Next]_decoder PROVE Inv'
  OBVIOUS
<1>1. ASSUME NEW bytes \in Chunk, Push(bytes) PROVE Inv'
  <2>1. bytes \in Seq(Byte)
    BY ChunkAssumption
  <2> QED BY <1>1, <2>1, PushKeeps
<1>2. CASE DropHead
  <2>1. Headless(buf) /\ draining /\ Consume(1, "unexpected_head")
    BY <1>2 DEF DropHead
  <2>2. /\ CanCut(received, consumed) /\ 1 \in 1..Len(buf)
        /\ CutItem(received, consumed)
             = [kind |-> "unexpected_head", from |-> consumed, to |-> consumed + 1]
    BY <2>1, BufferSees DEF Inv
  <2> QED BY <2>1, <2>2, ConsumeKeeps DEF Kind
<1>3. CASE TakeFrame
  <2> DEFINE kind == IF verify_checksum(SubSeq(buf, 1, Total(buf))) THEN "frame" ELSE "checksum"
  <2>1. Complete(buf) /\ draining /\ Consume(Total(buf), kind) /\ kind \in Kind
    BY <1>3 DEF TakeFrame, Kind
  <2>2. /\ CanCut(received, consumed) /\ Total(buf) \in 1..Len(buf)
        /\ CutItem(received, consumed)
             = [kind |-> kind, from |-> consumed, to |-> consumed + Total(buf)]
    BY <2>1, BufferSees DEF Inv
  <2> QED BY <2>1, <2>2, ConsumeKeeps
<1>4. CASE NeedMore
  BY <1>4 DEF NeedMore, Inv, TypeOK, Suffix, Chain, IsCut, Reached, AtRest, consumed
<1>5. CASE Renew
  BY <1>5, RenewKeeps
<1>6. CASE UNCHANGED decoder
  BY <1>6 DEF decoder, Inv, TypeOK, Suffix, Chain, IsCut, Reached, AtRest, consumed
<1> QED BY <1>1, <1>2, <1>3, <1>4, <1>5, <1>6 DEF Next, Extract

LEMMA Invariant == Spec => []Inv
BY InitInv, NextInv, PTL DEF Spec

\* The decoder keeps bytes, and cuts them into frames, bad frames and stray
\* bytes (packet.rs:115).
THEOREM TypeCorrect == Spec => []TypeOK
<1>1. Inv => TypeOK
  BY DEF Inv
<1> QED BY <1>1, Invariant, PTL

LEMMA InvCuts == Inv => CutsIgnoreChunks
<1> SUFFICES ASSUME Inv PROVE CutsIgnoreChunks
  OBVIOUS
<1>1. buf = SubSeq(received, consumed + 1, Len(received))
  BY BufferIsSuffix DEF Inv
<1>2. ~draining => ~CanCut(received, consumed)
  BY BufferSees DEF Inv, AtRest
<1> QED BY <1>1, <1>2 DEF Inv, CutsIgnoreChunks, Chain, IsCut, Reached

\* However the bytes of a stream are split on their way, the items are the cuts
\* that the stream alone determines, made as far as it allows (packet.rs:128).
THEOREM SplittingIsInvisible == Spec => []CutsIgnoreChunks
BY InvCuts, Invariant, PTL

\* Between two pieces the decoder holds at most 258 bytes, false heads included
\* (packet.rs:154).
THEOREM BufferBounded == Spec => []HoldsLessThanAFrame
<1>1. Inv => HoldsLessThanAFrame
  <2> SUFFICES ASSUME Inv, ~draining PROVE Len(buf) <= 258
    BY DEF HoldsLessThanAFrame
  <2>1. buf \in Seq(Byte) /\ Len(buf) \in Nat
    BY LenProperties DEF Inv, TypeOK
  <2>2. ~Headless(buf) /\ ~Complete(buf)
    BY DEF Inv, AtRest
  <2>3. CASE buf = <<>>
    BY <2>3, EmptySeq
  <2>4. CASE buf # <<>> /\ Len(buf) < 2
    BY <2>1, <2>4
  <2>5. CASE buf # <<>> /\ ~(Len(buf) < 2)
    <3>1. buf[2] \in Nat /\ buf[2] <= 255
      <4>1. 2 \in 1..Len(buf)
        BY <2>1, <2>5
      <4>2. buf[2] \in Byte
        BY <2>1, <4>1, ElementOfSeq
      <4> QED BY <4>2, ByteIsNat
    <3>2. ~(Len(buf) >= buf[2] + 4)
      BY <2>1, <2>2, <2>5 DEF Headless, Complete, Total, Overhead
    <3> QED BY <2>1, <3>1, <3>2
  <2> QED BY <2>3, <2>4, <2>5
<1> QED BY <1>1, Invariant, PTL

-----------------------------------------------------------------------------
(***************************************************************************)
(* The checksum.  Induction over the naturals is stated for a set, which   *)
(* is all the provers need: a set that holds 0 and with every n its        *)
(* successor holds them all, since the least number it lacks has a         *)
(* predecessor.                                                            *)
(***************************************************************************)

\* A set that is closed under counting contains every natural number.
LEMMA SetInduction ==
    ASSUME NEW X, 0 \in X, \A n \in Nat : n \in X => n + 1 \in X
    PROVE  Nat \subseteq X
<1> DEFINE Out == {n \in Nat : n \notin X}
           less == OpToRel(<, Nat)
<1>1. SUFFICES ASSUME Out # {} PROVE FALSE
  OBVIOUS
<1>2. IsWellFoundedOn(less, Nat)
  BY NatLessThanWellFounded
<1>3. \A k, n \in Nat : k < n => <<k, n>> \in less
  BY DEF OpToRel
<1>4. Out \subseteq Nat
  OBVIOUS
<1> HIDE DEF less, Out
<1>5. PICK n \in Out : \A k \in Out : ~(<<k, n>> \in less)
  BY <1>1, <1>2, <1>4, WFMin
<1> USE DEF Out
<1>6. n \in Nat /\ n \notin X /\ n # 0
  OBVIOUS
<1>7. n - 1 \in Nat /\ n - 1 < n /\ (n - 1) + 1 = n
  BY <1>6
<1>8. n - 1 \in X
  BY <1>3, <1>5, <1>6, <1>7
<1> QED BY <1>6, <1>7, <1>8

\* So does a part of them from 0 on that is closed under counting up to N.
LEMMA CountingUp ==
    ASSUME NEW N \in Nat, NEW X, 0 \in X, \A n \in 0..N : n < N /\ n \in X => n + 1 \in X
    PROVE  0..N \subseteq X
<1> DEFINE Y == {n \in Nat : n <= N => n \in X}
<1>1. 0 \in Y
  OBVIOUS
<1>2. ASSUME NEW n \in Nat, n \in Y
      PROVE  n + 1 \in Y
  <2>1. CASE n + 1 <= N
    <3>1. n \in 0..N /\ n < N /\ n \in X
      BY <1>2, <2>1
    <3> QED BY <3>1
  <2>2. CASE ~(n + 1 <= N)
    BY <2>2
  <2> QED BY <2>1, <2>2
<1> HIDE DEF Y
<1>3. Nat \subseteq Y
  BY <1>1, <1>2, SetInduction
<1>4. \A n \in 0..N : n \in Nat /\ n <= N
  OBVIOUS
<1> QED BY <1>3, <1>4 DEF Y

\* A first value and a step that stays in A define a function on 0..N.
Closed(step, A, N) == \A i \in 1..N : \A x \in A : step[<<i, x>>] \in A
Recursive(g, a, step, N) == g[0] = a /\ \A i \in 1..N : g[i] = step[<<i, g[i - 1]>>]

LEMMA Recursion ==
    ASSUME NEW A, NEW a \in A, NEW N \in Nat, NEW step, Closed(step, A, N)
    PROVE  \E g \in [0..N -> A] : Recursive(g, a, step, N)
<1> DEFINE Upto(n) == {g \in [0..n -> A] :
                         g[0] = a /\ \A i \in 1..n : g[i] = step[<<i, g[i - 1]>>]}
           X == {n \in 0..N : Upto(n) # {}}
<1>1. 0 \in X
  <2> DEFINE g == [i \in 0..0 |-> a]
  <2>1. g \in [0..0 -> A] /\ g[0] = a /\ 1..0 = {}
    OBVIOUS
  <2> HIDE DEF g
  <2>2. g \in Upto(0)
    BY <2>1
  <2>3. 0 \in 0..N
    OBVIOUS
  <2> QED BY <2>2, <2>3
<1>2. ASSUME NEW n \in 0..N, n < N, n \in X
      PROVE  n + 1 \in X
  <2>1. PICK g \in [0..n -> A] : g[0] = a /\ \A i \in 1..n : g[i] = step[<<i, g[i - 1]>>]
    BY <1>2
  <2>2. /\ n + 1 \in 1..N /\ n + 1 \in 0..N /\ n \in 0..n /\ n \in Nat
        /\ 0 \in 0..(n + 1) /\ 0 # n + 1
    BY <1>2
  <2>3. PICK next \in A : next = step[<<n + 1, g[n]>>]
    <3>1. g[n] \in A
      BY <2>1, <2>2
    <3>2. step[<<n + 1, g[n]>>] \in A
      BY <2>2, <3>1 DEF Closed
    <3> QED BY <3>2
  <2> DEFINE h == [i \in 0..(n + 1) |-> IF i = n + 1 THEN next ELSE g[i]]
  <2>4. h \in [0..(n + 1) -> A]
    BY <2>1, <2>2
  <2>5. h[n + 1] = next /\ \A i \in 0..n : h[i] = g[i]
    BY <2>2
  <2> HIDE DEF h
  <2>6. h[0] = a
    BY <2>1, <2>2, <2>5
  <2>7. ASSUME NEW i \in 1..(n + 1)
        PROVE  h[i] = step[<<i, h[i - 1]>>]
    <3>1. CASE i = n + 1
      <4>1. i - 1 = n
        BY <2>2, <3>1
      <4>2. h[i - 1] = g[n]
        BY <2>2, <2>5, <4>1
      <4> QED BY <2>3, <2>5, <3>1, <4>2
    <3>2. CASE i \in 1..n
      <4>1. i \in 0..n /\ i - 1 \in 0..n
        BY <2>2, <3>2
      <4>2. h[i] = g[i] /\ h[i - 1] = g[i - 1]
        BY <2>5, <4>1
      <4> QED BY <2>1, <3>2, <4>2
    <3>3. i = n + 1 \/ i \in 1..n
      BY <2>2
    <3> QED BY <3>1, <3>2, <3>3
  <2>8. h \in Upto(n + 1)
    BY <2>4, <2>6, <2>7
  <2> QED BY <2>2, <2>8
<1> HIDE DEF X
<1>3. 0..N \subseteq X
  BY <1>1, <1>2, CountingUp
<1>4. N \in X
  BY <1>3
<1>5. PICK g \in Upto(N) : TRUE
  BY <1>4 DEF X
<1> QED BY <1>5 DEF Recursive

\* Two functions that agree at first, and wherever they agreed before, agree.
Alike(g, h, N) == g[0] = h[0] /\ \A i \in 1..N : g[i - 1] = h[i - 1] => g[i] = h[i]

LEMMA AlikeEqual ==
    ASSUME NEW N \in Nat, NEW g, NEW h, Alike(g, h, N)
    PROVE  \A i \in 0..N : g[i] = h[i]
<1> DEFINE X == {i \in 0..N : g[i] = h[i]}
<1>1. 0 \in X
  BY DEF Alike
<1>2. ASSUME NEW n \in 0..N, n < N, n \in X
      PROVE  n + 1 \in X
  <2>1. n + 1 \in 1..N /\ n + 1 \in 0..N /\ (n + 1) - 1 = n
    BY <1>2
  <2>2. g[n] = h[n]
    BY <1>2
  <2>3. g[(n + 1) - 1] = h[(n + 1) - 1]
    BY <2>1, <2>2
  <2>4. g[n + 1] = h[n + 1]
    BY <2>1, <2>3 DEF Alike
  <2> QED BY <2>1, <2>4
<1> HIDE DEF X
<1>3. 0..N \subseteq X
  BY <1>1, <1>2, CountingUp
<1> QED BY <1>3 DEF X

\* Numbers of 16 bits.
Word == {n \in Nat : n < 65536}

\* A word and a byte wrap around to a word.
LEMMA AddsToWord ==
    ASSUME NEW a \in Word, NEW b \in Byte
    PROVE  wrapping_add(a, b) \in Word
<1>1. a \in Nat /\ b \in Nat
  BY DEF Word, Byte
<1>2. PICK n \in Nat : n = a + b
  BY <1>1
<1>3. n % 65536 \in Nat /\ n % 65536 < 65536
  BY Z3
<1>4. wrapping_add(a, b) = n % 65536
  BY <1>2, SMT DEF wrapping_add
<1> QED BY <1>3, <1>4, SMT DEF Word

\* g is the function checksum defines: the sums of 0, 1, 2, ... bytes.
Sums(g, bytes) ==
    g = [i \in 0..Len(bytes) |->
            IF i = 0 THEN CHECKSUM_INIT ELSE wrapping_add(g[i - 1], bytes[i])]

\* The checksum of bytes is a word.
LEMMA ChecksumRange ==
    ASSUME NEW bytes \in Seq(Byte)
    PROVE  checksum(bytes) \in Word
<1> DEFINE N == Len(bytes)
           step == [x \in (1..N) \X Word |-> wrapping_add(x[2], bytes[x[1]])]
           sum == CHOOSE g : Sums(g, bytes)
<1>1. N \in Nat /\ \A i \in 1..N : bytes[i] \in Byte
  BY LenProperties, ElementOfSeq
<1>2. CHECKSUM_INIT \in Word
  BY SMT DEF CHECKSUM_INIT, Word
<1>3. \A i \in 1..N : \A w \in Word : step[<<i, w>>] = wrapping_add(w, bytes[i])
  OBVIOUS
<1>4. \A i \in 1..N : \A w \in Word : step[<<i, w>>] \in Word
  BY <1>1, <1>3, AddsToWord
<1> HIDE DEF step
<1>5. PICK g \in [0..N -> Word] :
        g[0] = CHECKSUM_INIT /\ \A i \in 1..N : g[i] = step[<<i, g[i - 1]>>]
  <2> HIDE DEF N
  <2>1. Closed(step, Word, N)
    BY <1>4 DEF Closed
  <2>2. \E g \in [0..N -> Word] : Recursive(g, CHECKSUM_INIT, step, N)
    BY <1>1, <1>2, <2>1, Recursion
  <2> QED BY <2>2 DEF Recursive
<1>6. Sums(g, bytes)
  <2>1. ASSUME NEW i \in 0..N
        PROVE  g[i] = IF i = 0 THEN CHECKSUM_INIT ELSE wrapping_add(g[i - 1], bytes[i])
    <3>1. CASE i = 0
      BY <1>5, <3>1
    <3>2. CASE i # 0
      <4>1. i \in 1..N /\ i - 1 \in 0..N
        BY <1>1, <3>2
      <4> HIDE DEF N
      <4> QED BY <1>3, <1>5, <3>2, <4>1
    <3> QED BY <3>1, <3>2
  <2> QED BY <1>5, <2>1 DEF Sums
<1>7. Sums(sum, bytes)
  BY <1>6, Zenon
<1>8. checksum(bytes) = sum[N]
  BY DEF checksum, Sums
<1> HIDE DEF sum
<1>9. \A i \in 0..N : sum[i] = g[i]
  <2>1. sum[0] = g[0]
    BY <1>1, <1>5, <1>7 DEF Sums
  <2>2. ASSUME NEW i \in 1..N, sum[i - 1] = g[i - 1]
        PROVE  sum[i] = g[i]
    <3>1. i \in 0..N /\ i # 0
      BY <1>1
    <3>2. sum[i] = wrapping_add(sum[i - 1], bytes[i]) /\ g[i] = wrapping_add(g[i - 1], bytes[i])
      BY <1>6, <1>7, <3>1 DEF Sums
    <3> QED BY <2>2, <3>2
  <2>3. \A i \in 1..N : sum[i - 1] = g[i - 1] => sum[i] = g[i]
    BY <2>2
  <2> HIDE DEF N
  <2>4. Alike(sum, g, N)
    BY <2>1, <2>3 DEF Alike
  <2> QED BY <1>1, <2>4, AlikeEqual
<1>10. N \in 0..N
  BY <1>1
<1> QED BY <1>5, <1>8, <1>9, <1>10

\* A number is made of its high and its low byte.
LEMMA HighAndLow ==
    ASSUME NEW c \in Nat, NEW hi \in Nat, NEW lo \in Nat, hi = c \div 256, lo = c % 256
    PROVE  256 * hi + lo = c
BY SMT

\* What carries its checksum is bytes again, and passes the verification.
LEMMA AppendedVerifies ==
    ASSUME NEW bytes \in Seq(Byte)
    PROVE  /\ append_checksum(bytes) \in Seq(Byte)
           /\ Len(append_checksum(bytes)) = Len(bytes) + 2
           /\ \A i \in 1..Len(bytes) : append_checksum(bytes)[i] = bytes[i]
           /\ verify_checksum(append_checksum(bytes))
<1> DEFINE n == Len(bytes)
           whole == append_checksum(bytes)
<1>1. n \in Nat
  BY LenProperties
<1>2. PICK c \in Nat : c = checksum(bytes) /\ c < 65536
  BY ChecksumRange, SMT DEF Word
<1>3. PICK hi \in Byte, lo \in Byte : hi = c \div 256 /\ lo = c % 256
  <2>1. c \div 256 \in Nat /\ c \div 256 <= 255
    BY <1>2, Z3
  <2>2. c % 256 \in Nat /\ c % 256 <= 255
    BY <1>2, Z3
  <2>3. c \div 256 \in Byte /\ c % 256 \in Byte
    BY <2>1, <2>2, SMT DEF Byte
  <2> QED BY <2>3
<1>4. 256 * hi + lo = checksum(bytes)
  <2>1. hi \in Nat /\ lo \in Nat
    BY ByteIsNat
  <2> QED BY <1>2, <1>3, <2>1, HighAndLow
<1>5. whole = bytes \o <<hi, lo>>
  BY <1>2, <1>3 DEF append_checksum
<1>6. /\ <<hi, lo>> \in Seq(Byte) /\ Len(<<hi, lo>>) = 2
      /\ <<hi, lo>>[1] = hi /\ <<hi, lo>>[2] = lo
  OBVIOUS
<1> HIDE DEF n, whole
<1>7. /\ whole \in Seq(Byte) /\ Len(whole) = n + 2
      /\ \A i \in 1..(n + 2) : whole[i] = IF i <= n THEN bytes[i] ELSE <<hi, lo>>[i - n]
  BY <1>5, <1>6, ConcatProperties DEF n
<1>8. /\ \A i \in 1..n : whole[i] = bytes[i]
      /\ whole[n + 1] = hi /\ whole[n + 2] = lo
  <2>1. ~(n + 1 <= n) /\ ~(n + 2 <= n) /\ (n + 1) - n = 1 /\ (n + 2) - n = 2
    BY <1>1
  <2>2. n + 1 \in 1..(n + 2) /\ n + 2 \in 1..(n + 2) /\ \A i \in 1..n : i \in 1..(n + 2) /\ i <= n
    BY <1>1
  <2> QED BY <1>6, <1>7, <2>1, <2>2
<1>9. SubSeq(whole, 1, Len(whole) - 2) = bytes
  <2> DEFINE front == SubSeq(whole, 1, n)
  <2>1. Len(whole) - 2 = n
    BY <1>1, <1>7
  <2>2. \A i \in 1..n : whole[i] \in Byte
    BY <1>8, ElementOfSeq DEF n
  <2>3. /\ front \in Seq(Byte)
        /\ Len(front) = IF 1 <= n THEN n - 1 + 1 ELSE 0
        /\ \A i \in 1..(n - 1 + 1) : front[i] = whole[1 + i - 1]
    BY <1>1, <2>2, SubSeqProperties
  <2> HIDE DEF front
  <2>4. Len(front) = n /\ \A i \in 1..n : front[i] = bytes[i]
    BY <1>1, <1>8, <2>3
  <2>5. front = bytes
    BY <2>3, <2>4, SeqEqual DEF n
  <2> QED BY <2>1, <2>5 DEF front
<1>10. verify_checksum(whole)
  <2>1. Len(whole) >= 2 /\ Len(whole) - 1 = n + 1 /\ Len(whole) = n + 2
    BY <1>1, <1>7
  <2>2. whole[Len(whole) - 1] = hi /\ whole[Len(whole)] = lo
    BY <1>8, <2>1
  <2>3. checksum(bytes) = 256 * whole[Len(whole) - 1] + whole[Len(whole)]
    BY <1>4, <2>2
  <2> QED BY <1>9, <2>1, <2>3 DEF verify_checksum
<1> QED BY <1>7, <1>8, <1>10 DEF n, whole

\* A frame of a body: bytes with a head, the length and a checksum that verifies.
IsFrame(frame, head, body) ==
    /\ frame \in Seq(Byte)
    /\ Len(frame) = Len(body) + Overhead
    /\ frame[1] = head /\ frame[2] = Len(body)
    /\ \A i \in 1..Len(body) : frame[i + 2] = body[i]
    /\ verify_checksum(frame)

\* A head, the length of a body and the body, with their checksum, are one.
LEMMA Sealed ==
    ASSUME NEW head \in Byte, NEW body \in Seq(Byte), Len(body) <= 255
    PROVE  IsFrame(append_checksum(<<head, Len(body)>> \o body), head, body)
<1> DEFINE frame == append_checksum(<<head, Len(body)>> \o body)
<1>1. PICK n \in Byte : n = Len(body)
  <2>1. Len(body) \in Nat
    BY LenProperties
  <2> QED BY <2>1, SmallIsByte
<1>2. n \in Nat /\ n + 2 \in Nat /\ 1 \in 1..(2 + n) /\ 2 \in 1..(2 + n)
  BY ByteIsNat
<1>3. PICK start \in Seq(Byte) : /\ start = <<head, n>> /\ Len(start) = 2
                               /\ start[1] = head /\ start[2] = n
  <2>1. <<head, n>> \in Seq(Byte)
    OBVIOUS
  <2>2. \A x, y : Len(<<x, y>>) = 2 /\ <<x, y>>[1] = x /\ <<x, y>>[2] = y
    OBVIOUS
  <2> QED BY <2>1, <2>2
<1>4. PICK bytes \in Seq(Byte) :
        /\ bytes = start \o body
        /\ Len(bytes) = Len(start) + Len(body)
        /\ \A i \in 1..(Len(start) + Len(body)) :
              bytes[i] = IF i <= Len(start) THEN start[i] ELSE body[i - Len(start)]
  <2> DEFINE bytes == start \o body
  <2>1. /\ bytes \in Seq(Byte) /\ Len(bytes) = Len(start) + Len(body)
        /\ \A i \in 1..(Len(start) + Len(body)) :
              bytes[i] = IF i <= Len(start) THEN start[i] ELSE body[i - Len(start)]
    BY ConcatProperties
  <2>2. bytes = start \o body
    OBVIOUS
  <2> HIDE DEF bytes
  <2> QED BY <2>1, <2>2
<1>5. Len(bytes) = 2 + n /\ bytes[1] = head /\ bytes[2] = n
  BY <1>1, <1>2, <1>3, <1>4
<1>6. frame = append_checksum(bytes)
  BY <1>1, <1>3, <1>4
<1> HIDE DEF frame
<1>7. /\ frame \in Seq(Byte) /\ Len(frame) = Len(bytes) + 2
      /\ \A i \in 1..Len(bytes) : frame[i] = bytes[i]
      /\ verify_checksum(frame)
  BY <1>6, AppendedVerifies
<1>8. Len(frame) = Len(body) + Overhead
  BY <1>1, <1>2, <1>5, <1>7 DEF Overhead
<1>9. frame[1] = head /\ frame[2] = n
  BY <1>2, <1>5, <1>7
<1>10. \A i \in 1..n : frame[i + 2] = body[i]
  <2> SUFFICES ASSUME NEW i \in 1..n PROVE frame[i + 2] = body[i]
    OBVIOUS
  <2>1. i + 2 \in 1..(2 + n) /\ ~(i + 2 <= 2) /\ (i + 2) - 2 = i
    BY <1>2
  <2>2. bytes[i + 2] = body[i]
    BY <1>1, <1>3, <1>4, <2>1
  <2> QED BY <1>5, <1>7, <2>1, <2>2
<1>11. IsFrame(frame, head, body)
  BY <1>1, <1>7, <1>8, <1>9, <1>10 DEF IsFrame
<1> QED BY <1>11 DEF frame

\* Every command with a body of up to 255 bytes makes a frame of bytes with the
\* head, the length and the checksum a headset looks for (packet.rs:53).
THEOREM FramesAreSealed ==
    ASSUME NEW body \in Seq(Byte), Len(body) <= 255
    PROVE  /\ encode_tx(body) \in Seq(Byte)
           /\ Len(encode_tx(body)) = Len(body) + Overhead
           /\ encode_tx(body)[1] = TX_HEAD
           /\ encode_tx(body)[2] = Len(body)
           /\ verify_checksum(encode_tx(body))
<1>1. TX_HEAD \in Byte
  BY SmallIsByte DEF TX_HEAD
<1>2. encode_tx(body) = append_checksum(<<TX_HEAD, Len(body)>> \o body)
  BY DEF encode_tx
<1> QED BY <1>1, <1>2, Sealed DEF IsFrame
=============================================================================
