---------------------------- MODULE FrameDecoder ----------------------------
(***************************************************************************)
(* The decoder that cuts the bytes of a headset into frames (packet.rs).   *)
(*                                                                         *)
(* A frame is head, length n, n bytes of body and a checksum of two bytes. *)
(* Bytes arrive in pieces that have nothing to do with frames; push adds a *)
(* piece to the buffer and then extracts until it needs more, one action   *)
(* per extraction here.  What an extraction returns is recorded as the     *)
(* part of the stream it consumed, so that the body of a frame is          *)
(* SubSeq(received, from + 3, to - 2).                                     *)
(***************************************************************************)
EXTENDS Integers, Sequences, SequencesExt

CONSTANT Chunk   \* what a transport may hand over at once

Byte == 0..255
ASSUME ChunkAssumption == Chunk \subseteq Seq(Byte) \ {<<>>}

TX_HEAD == 170
RX_HEAD_BB == 187
RX_HEAD_CC == 204
RxHeads == {RX_HEAD_BB, RX_HEAD_CC}
CHECKSUM_INIT == 8217
Overhead == 4    \* head, length and checksum

VARIABLES
    received,    \* every byte pushed since the decoder is new (history)
    buf,         \* the bytes not consumed yet
    draining,    \* whether push is in its loop
    items        \* what push returned so far

decoder == <<received, buf, draining, items>>

Kind == {"frame", "unexpected_head", "checksum"}
Item == [kind: Kind, from: Nat, to: Nat]

TypeOK ==
    /\ received \in Seq(Byte)
    /\ buf \in Seq(Byte)
    /\ draining \in BOOLEAN
    /\ items \in Seq(Item)

Init ==
    /\ received = <<>> /\ buf = <<>>
    /\ draining = FALSE /\ items = <<>>

-----------------------------------------------------------------------------
\* Addition of words of 16 bits.
wrapping_add(a, b) == (a + b) % 65536

checksum(bytes) ==
    LET sum[i \in 0..Len(bytes)] ==
            IF i = 0 THEN CHECKSUM_INIT ELSE wrapping_add(sum[i - 1], bytes[i])
    IN  sum[Len(bytes)]

\* bytes, followed by their checksum, high byte first.
append_checksum(bytes) == bytes \o <<checksum(bytes) \div 256, checksum(bytes) % 256>>

\* A command to the headset, unless its body is too long.
encode_tx(body) == append_checksum(<<TX_HEAD, Len(body)>> \o body)

\* The last two bytes are the checksum of the others.
verify_checksum(frame) ==
    /\ Len(frame) >= 2
    /\ LET body == SubSeq(frame, 1, Len(frame) - 2)
       IN checksum(body) = 256 * frame[Len(frame) - 1] + frame[Len(frame)]

-----------------------------------------------------------------------------
\* try_extract, case by case, on a buffer b.
Headless(b) == b # <<>> /\ b[1] \notin RxHeads
Total(b) == b[2] + Overhead

Complete(b) ==
    /\ b # <<>> /\ b[1] \in RxHeads
    /\ Len(b) >= 2
    /\ Len(b) >= Total(b)

consumed == Len(received) - Len(buf)

\* Consume n bytes and return what became of them.
Consume(n, kind) ==
    /\ buf' = SubSeq(buf, n + 1, Len(buf))
    /\ items' = Append(items, [kind |-> kind, from |-> consumed, to |-> consumed + n])
    /\ UNCHANGED <<received, draining>>

\* The decoder of a new link.
Renew ==
    /\ ~draining
    /\ received' = <<>> /\ buf' = <<>> /\ items' = <<>>
    /\ UNCHANGED draining

\* Mutant: a push that arrives when a frame is incomplete starts afresh.
PushFresh(bytes) ==
    /\ ~draining
    /\ received' = received \o bytes
    /\ buf' = IF Len(buf) = 1 THEN bytes ELSE buf \o bytes
    /\ draining' = TRUE
    /\ UNCHANGED items

Push(bytes) ==
    /\ ~draining
    /\ received' = received \o bytes
    /\ buf' = buf \o bytes
    /\ draining' = TRUE
    /\ UNCHANGED items

\* Mutant: an unexpected head throws the whole buffer away.
DropAll ==
    /\ draining /\ Headless(buf)
    /\ Consume(Len(buf), "unexpected_head")

\* One byte that starts no frame.
DropHead ==
    /\ draining /\ Headless(buf)
    /\ Consume(1, "unexpected_head")

\* A whole frame, good or not: a bad one is consumed as far as its length says.
TakeFrame ==
    /\ draining /\ Complete(buf)
    /\ Consume(Total(buf), IF verify_checksum(SubSeq(buf, 1, Total(buf)))
                           THEN "frame" ELSE "checksum")

NeedMore ==
    /\ draining
    /\ ~Headless(buf) /\ ~Complete(buf)
    /\ draining' = FALSE
    /\ UNCHANGED <<received, buf, items>>

Extract == DropHead \/ TakeFrame \/ NeedMore

Next == (\E bytes \in Chunk : Push(bytes)) \/ Extract \/ Renew

Spec == Init /\ [][Next]_decoder

-----------------------------------------------------------------------------
(***************************************************************************)
(* The reference: a stream is cut by looking at it as a whole, from one    *)
(* position to the next, however it was split on the way.                  *)
(***************************************************************************)

\* Whether the bytes behind position p are enough to cut there, and the next
\* position if they are.
CanCut(s, p) ==
    /\ p < Len(s)
    /\ s[p + 1] \in RxHeads =>
         p + 2 <= Len(s) /\ p + s[p + 2] + Overhead <= Len(s)

CutEnd(s, p) == IF s[p + 1] \in RxHeads THEN p + s[p + 2] + Overhead ELSE p + 1

CutKind(s, p) ==
    IF s[p + 1] \notin RxHeads THEN "unexpected_head"
    ELSE IF verify_checksum(SubSeq(s, p + 1, CutEnd(s, p))) THEN "frame"
    ELSE "checksum"

CutItem(s, p) == [kind |-> CutKind(s, p), from |-> p, to |-> CutEnd(s, p)]

\* Every byte is consumed once and in order, and every cut is where the stream
\* alone says it is: the items so far are a chain of cuts from the beginning
\* to what is in the buffer, and a decoder at rest has made every cut it can.
\* Nothing depends on the pieces the bytes came in (packet.rs:127).
CutsIgnoreChunks ==
    /\ buf = SubSeq(received, consumed + 1, Len(received))
    /\ \A i \in DOMAIN items :
         /\ items[i].from = (IF i = 1 THEN 0 ELSE items[i - 1].to)
         /\ CanCut(received, items[i].from)
         /\ items[i] = CutItem(received, items[i].from)
    /\ consumed = (IF items = <<>> THEN 0 ELSE items[Len(items)].to)
    /\ ~draining => ~CanCut(received, consumed)

\* A decoder at rest holds less than one frame, whatever it was sent: at most
\* 258 bytes, a false head included (packet.rs:152).
HoldsLessThanAFrame == ~draining => Len(buf) <= 258
=============================================================================
