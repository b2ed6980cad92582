------------------------------ MODULE WicProofs ------------------------------
(***************************************************************************)
(* Theorems about wic.c for every size of its buffers, every width of a    *)
(* size, every set of frames and payloads and every order of calls.  There *)
(* is one invariant for each of the specifications of WicRx, MCWic and     *)
(* WicTx:                                                                  *)
(*                                                                         *)
(*   the receiving half   RxInv == TypeOK /\ HeaderInv /\ ControlFrameFits *)
(*   the strings of both  StringInv: each automaton's state is that of     *)
(*                        all the bytes it was given (Utf8Proofs!Tracks)   *)
(*   the sending half     TxInv == TxTypeOK /\ SentInv /\ PeerInv          *)
(*                                                                         *)
(* ControlFrameFits speaks of the payload; that it holds when a payload    *)
(* begins rests on what HeaderInv keeps through the header.                *)
(***************************************************************************)
EXTENDS MCWic, Utf8Proofs, SequenceTheorems, TLAPS

RxInv == TypeOK /\ HeaderInv /\ ControlFrameFits

----------------------------------------------------------------------------
\* Lemmas about the operators.

\* The automaton stays among its nine states (utf8_parse).
LEMMA Utf8Closed ==
    ASSUME NEW q, NEW b
    PROVE  utf8_parse(q, b) \in Utf8State
<1>1. \A m \in utf8d : m[4] \in Utf8State
    BY DEF utf8d, Utf8State
<1>2. CASE MovesOf(utf8d, q, b) = {}
    BY <1>2 DEF utf8_parse, Utf8State
<1>3. CASE MovesOf(utf8d, q, b) # {}
    <2>1. (CHOOSE m \in MovesOf(utf8d, q, b) : TRUE) \in MovesOf(utf8d, q, b)
        BY <1>3
    <2>2. \A m \in MovesOf(utf8d, q, b) : m \in utf8d
        BY DEF MovesOf
    <2>. QED
        BY <1>1, <1>3, <2>1, <2>2 DEF utf8_parse
<1>. QED
    BY <1>2, <1>3

\* Unmasking a byte gives a byte (stream_put_u8_masked).
LEMMA XorByte ==
    ASSUME NEW x \in Byte, NEW y \in Byte
    PROVE  Xor(x, y) \in Byte
<1>1. \A w \in Byte : Differ(x, y, w) \in {0, w}
    BY DEF Differ
<1>2. /\ Differ(x, y, 1) \in {0, 1} /\ Differ(x, y, 2) \in {0, 2}
      /\ Differ(x, y, 4) \in {0, 4} /\ Differ(x, y, 8) \in {0, 8}
      /\ Differ(x, y, 16) \in {0, 16} /\ Differ(x, y, 32) \in {0, 32}
      /\ Differ(x, y, 64) \in {0, 64} /\ Differ(x, y, 128) \in {0, 128}
    BY <1>1 DEF Byte
<1>. QED
    BY <1>2 DEF Xor, Byte

\* What is left of a sequence of bytes after the first is one too.
LEMMA BytesTail ==
    ASSUME NEW s \in Seq(Byte), s # <<>>
    PROVE  Head(s) \in Byte /\ Tail(s) \in Seq(Byte)
BY HeadTailProperties

\* Bytes are numbers.
LEMMA BytesAreNumbers ==
    ASSUME NEW s \in Seq(Byte)
    PROVE  s \in Seq(Nat)
<1>1. \A i \in 1..Len(s) : s[i] \in Byte
    BY ElementOfSeq
<1>2. \A b \in Byte : b \in Nat
    BY DEF Byte
<1>3. \A i \in 1..Len(s) : s[i] \in Nat
    BY <1>1, <1>2
<1>. QED
    BY <1>3, SeqDef

----------------------------------------------------------------------------
\* Types of the shared steps.

LEMMA KeepType ==
    ASSUME TypeOK, chunk # <<>>, NEW r \in RxFrame, Keep(r)
    PROVE  TypeOK' /\ rx' = r /\ wic' = wic
BY BytesTail DEF Keep, TypeOK, delivery

LEMMA CloseType ==
    ASSUME TypeOK, NEW code \in Nat, NEW reason \in Seq(Byte), close_with_reason(code, reason)
    PROVE  TypeOK' /\ rx' = rx /\ wic' = "CLOSED"
<1>1. code \div 256 \in Nat /\ code % 256 \in Nat
    OBVIOUS
<1>2. <<code \div 256, code % 256>> \o reason \in Seq(Nat)
    <2>1. <<code \div 256, code % 256>> \in Seq(Nat)
        BY <1>1
    <2>2. reason \in Seq(Nat)
        BY BytesAreNumbers
    <2>. QED
        BY <2>1, <2>2, ConcatProperties
<1>3. replies' \in Seq(Reply)
    BY <1>2, AppendProperties DEF close_with_reason, TypeOK, Reply, Control
<1>4. taken' \in Nat /\ chunk' \in Seq(Byte)
    BY DEF close_with_reason, TypeOK
<1>. QED
    BY <1>3, <1>4 DEF close_with_reason, TypeOK, delivery

LEMMA MessageType ==
    ASSUME TypeOK, NEW fin \in BOOLEAN, NEW data \in Seq(Byte), on_message_handler(fin, data)
    PROVE  message_buffer' \in Seq(Byte) /\ messages' \in Seq(Seq(Byte))
<1>1. message_buffer \o data \in Seq(Byte)
    BY ConcatProperties DEF TypeOK
<1>2. Append(messages, message_buffer \o data) \in Seq(Seq(Byte))
    BY <1>1, AppendProperties DEF TypeOK
<1>3. CASE fin /\ messages' = Append(messages, message_buffer \o data) /\ message_buffer' = <<>>
    BY <1>2, <1>3, EmptySeq
<1>4. CASE message_buffer' = message_buffer \o data /\ messages' = messages
    BY <1>1, <1>4 DEF TypeOK
<1>. QED
    BY <1>3, <1>4 DEF on_message_handler

\* A session is refused, or left, without a reason (wic.c closes so in the
\* middle of any frame).
LEMMA RefuseType ==
    ASSUME TypeOK, NEW code \in Nat, close_with_reason(code, <<>>)
    PROVE  TypeOK' /\ rx' = rx /\ wic' = "CLOSED"
BY CloseType, EmptySeq

\* The answer to a close frame whose two bytes of code have arrived.
LEMMA CloseWithType ==
    ASSUME TypeOK, NEW r \in RxFrame, NEW code \in Nat, CloseWith(r, code)
    PROVE  TypeOK' /\ rx' = rx /\ wic' = "CLOSED"
<1>1. SubSeq(r.s, 3, Len(r.s)) \in Seq(Byte)
    BY SubSeqProperties DEF RxFrame
<1>2. ASSUME close_with_reason(code, SubSeq(r.s, 3, Len(r.s)))
      PROVE  TypeOK' /\ rx' = rx /\ wic' = "CLOSED"
    BY <1>1, <1>2, CloseType
<1>3. ASSUME close_with_reason(1000, <<>>)
      PROVE  TypeOK' /\ rx' = rx /\ wic' = "CLOSED"
    BY <1>3, RefuseType
<1>4. ASSUME close_with_reason(1002, <<>>)
      PROVE  TypeOK' /\ rx' = rx /\ wic' = "CLOSED"
    BY <1>4, RefuseType
<1>. QED
    BY <1>2, <1>3, <1>4 DEF CloseWith

LEMMA CloseDoneType ==
    ASSUME TypeOK, NEW r \in RxFrame, Len(r.s) >= 2, CloseDone(r)
    PROVE  TypeOK' /\ rx' = rx /\ wic' = "CLOSED"
<1>1. r.s[1] \in Byte /\ r.s[2] \in Byte
    BY ElementOfSeq DEF RxFrame
<1>2. \A x, y \in Byte : 256 * x + y \in Nat
    BY DEF Byte
<1>3. 256 * r.s[1] + r.s[2] \in Nat
    BY <1>1, <1>2
<1>4. CloseWith(r, 256 * r.s[1] + r.s[2])
    BY DEF CloseDone
<1>. QED
    BY <1>3, <1>4, CloseWithType

\* The end of a frame: the next byte is an opcode, or the session is closed.
LEMMA FinishType ==
    ASSUME TypeOK, NEW r \in RxFrame, NEW rest \in Seq(Byte), Finish(r, rest),
           r.opcode = CLOSE => Len(r.s) >= 2
    PROVE  /\ TypeOK'
           /\ (rx' = rx /\ wic' = "CLOSED") \/ rx'.state = "OPCODE"
<1>1. CASE DataDone(r, rest)
    <2>. DEFINE q == [r EXCEPT !.frag = IF r.fin THEN CONTINUE ELSE MessageOpcode(r)]
    <2>1. q \in RxFrame
        BY <1>1 DEF DataDone, RxFrame, CONTINUE, TEXT, BINARY
    <2>2. rx' \in RxFrame /\ rx'.state = "OPCODE"
        BY <1>1, <2>1 DEF DataDone, FrameDone, RxFrame
    <2>3. message_buffer' \in Seq(Byte) /\ messages' \in Seq(Seq(Byte))
        BY <1>1, MessageType DEF DataDone, RxFrame
    <2>4. utf8_rx' \in Utf8State
        BY <1>1 DEF DataDone, RxFrame, TypeOK
    <2>. QED
        BY <1>1, <2>2, <2>3, <2>4 DEF DataDone, FrameDone, TypeOK
<1>2. CASE UnfinishedText(r)
    <2>1. close_with_reason(1007, <<>>)
        BY <1>2 DEF UnfinishedText
    <2>2. TypeOK' /\ rx' = rx /\ wic' = "CLOSED"
        BY <2>1, RefuseType
    <2>. QED
        BY <2>2
<1>3. CASE PongDone(r, rest)
    <2>1. rx' \in RxFrame /\ rx'.state = "OPCODE"
        BY <1>3 DEF PongDone, FrameDone, RxFrame
    <2>. QED
        BY <1>3, <2>1 DEF PongDone, FrameDone, TypeOK
<1>4. CASE PingDone(r, rest)
    <2>1. rx' \in RxFrame /\ rx'.state = "OPCODE"
        BY <1>4 DEF PingDone, FrameDone, RxFrame
    <2>2. [opcode |-> PONG, payload |-> r.s] \in Reply
        BY BytesAreNumbers DEF RxFrame, Reply, Control, PONG
    <2>3. replies' \in Seq(Reply)
        BY <1>4, <2>2, AppendProperties DEF PingDone, TypeOK
    <2>. QED
        BY <1>4, <2>1, <2>3 DEF PingDone, FrameDone, TypeOK
<1>5. CASE CloseDone(r)
    <2>1. Len(r.s) >= 2
        BY <1>5 DEF CloseDone
    <2>. QED
        BY <1>5, <2>1, CloseDoneType
<1>. QED
    BY <1>1, <1>2, <1>3, <1>4, <1>5 DEF Finish

----------------------------------------------------------------------------
\* The invariant after the two ways a step can leave the frame alone.

\* A closed session says nothing of the payload of its last frame.
LEMMA InvClosed ==
    ASSUME RxInv, TypeOK', rx' = rx, wic' = "CLOSED"
    PROVE  RxInv'
BY DEF RxInv, HeaderInv, ControlFrameFits

\* Between frames nothing is required of the header.
LEMMA InvBetween ==
    ASSUME TypeOK', rx'.state = "OPCODE"
    PROVE  RxInv'
BY DEF RxInv, HeaderInv, ControlFrameFits

LEMMA InvRefuse ==
    ASSUME RxInv, NEW code \in Nat, close_with_reason(code, <<>>)
    PROVE  RxInv'
<1>1. TypeOK
    BY DEF RxInv
<1>2. TypeOK' /\ rx' = rx /\ wic' = "CLOSED"
    BY <1>1, RefuseType
<1>. QED
    BY <1>2, InvClosed

LEMMA InvFinish ==
    ASSUME RxInv, NEW r \in RxFrame, NEW rest \in Seq(Byte), Finish(r, rest),
           r.opcode = CLOSE => Len(r.s) >= 2
    PROVE  RxInv'
<1>1. TypeOK
    BY DEF RxInv
<1>2. TypeOK' /\ ((rx' = rx /\ wic' = "CLOSED") \/ rx'.state = "OPCODE")
    BY <1>1, FinishType
<1>. QED
    BY <1>2, InvClosed, InvBetween

\* The byte stored in the receive buffer: one more there, one less to come.
LEMMA StoredType ==
    ASSUME TypeOK, HeaderInv, rx.state = "DATA", rx.size > 0, NEW b \in Byte
    PROVE  /\ Stored(b) \in RxFrame
           /\ Stored(b).state = "DATA" /\ Stored(b).opcode = rx.opcode
           /\ Stored(b).masked = rx.masked /\ Stored(b).mask = rx.mask
           /\ Stored(b).size = rx.size - 1 /\ Len(Stored(b).s) = Len(rx.s) + 1
<1>. DEFINE u == IF rx.masked THEN Xor(b, rx.mask[(Len(rx.s) % 4) + 1]) ELSE b
<1>1. rx \in RxFrame /\ rx.s \in Seq(Byte) /\ Len(rx.s) \in Nat
    BY DEF TypeOK, RxFrame
<1>2. u \in Byte
    <2>1. ASSUME rx.masked
          PROVE  Xor(b, rx.mask[(Len(rx.s) % 4) + 1]) \in Byte
        <3>1. Len(rx.mask) = 4 /\ rx.mask \in Seq(Byte)
            BY <1>1, <2>1 DEF HeaderInv, RxFrame
        <3>2. (Len(rx.s) % 4) + 1 \in 1..4
            <4>1. \A n \in Nat : (n % 4) + 1 \in 1..4
                OBVIOUS
            <4>. QED
                BY <1>1, <4>1
        <3>3. rx.mask[(Len(rx.s) % 4) + 1] \in Byte
            BY <3>1, <3>2, ElementOfSeq
        <3>. QED
            BY <3>3, XorByte
    <2>. QED
        BY <2>1
<1>3. Append(rx.s, u) \in Seq(Byte) /\ Len(Append(rx.s, u)) = Len(rx.s) + 1
    <2>. HIDE DEF u
    <2>. QED
        BY <1>1, <1>2, AppendProperties
<1>4. utf8_parse(rx.utf8, u) \in Utf8State
    BY Utf8Closed
<1>5. rx.size - 1 \in Nat
    BY <1>1 DEF RxFrame
<1>6. \E v \in Utf8State :
        Stored(b) = [rx EXCEPT !.size = rx.size - 1, !.s = Append(rx.s, u), !.utf8 = v]
    BY <1>1, <1>4 DEF Stored, RxFrame
<1>. HIDE DEF u
<1>. QED
    BY <1>1, <1>3, <1>5, <1>6 DEF RxFrame

----------------------------------------------------------------------------
\* The steps.

LEMMA InitInv == Init => RxInv
<1>. SUFFICES ASSUME Init
              PROVE  RxInv
    OBVIOUS
<1>1. wire \in Seq(Byte)
    BY InputsAssumption DEF Init
<1>2. rx \in RxFrame
    BY EmptySeq DEF Init, RxFrame, CONTINUE, TEXT, BINARY, Utf8State
<1>3. TypeOK
    BY <1>1, <1>2, EmptySeq DEF Init, TypeOK, Utf8State
<1>. QED
    BY <1>3 DEF Init, RxInv, HeaderInv, ControlFrameFits

LEMMA RecvInv ==
    ASSUME RxInv, transport_recv
    PROVE  RxInv'
<1>1. wire' \in Seq(Byte) /\ chunk' \in Seq(Byte)
    BY SubSeqProperties DEF transport_recv, RxInv, TypeOK
<1>2. TypeOK'
    BY <1>1 DEF transport_recv, RxInv, TypeOK, delivery
<1>. QED
    BY <1>2 DEF transport_recv, RxInv, HeaderInv, ControlFrameFits

LEMMA EndsInv ==
    ASSUME RxInv, ConnectionEnds
    PROVE  RxInv'
<1>1. TypeOK' /\ rx' = rx /\ wic' = "CLOSED"
    BY DEF ConnectionEnds, RxInv, TypeOK, delivery
<1>. QED
    BY <1>1, InvClosed

LEMMA OpcodeInv ==
    ASSUME RxInv, parse_opcode
    PROVE  RxInv'
<1>. DEFINE b == Head(chunk)
            r == [rx EXCEPT !.state = "SIZE", !.s = <<>>, !.fin = b >= 128,
                            !.opcode = b % 16, !.utf8 = CarriedUtf8(b % 16)]
<1>1. TypeOK /\ chunk # <<>>
    BY DEF RxInv, parse_opcode, Turn
<1>2. Keep(r) \/ close_with_reason(1002, <<>>)
    BY DEF parse_opcode
<1>3. rx \in RxFrame
    BY <1>1 DEF TypeOK
<1>4. r \in RxFrame
    <2>1. b \in Byte
        BY <1>1, BytesTail DEF TypeOK
    <2>2. b % 16 \in 0..15
        BY <2>1 DEF Byte
    <2>3. CarriedUtf8(b % 16) \in Utf8State
        BY <1>1 DEF CarriedUtf8, TypeOK, Utf8State
    <2>4. (b >= 128) \in BOOLEAN /\ <<>> \in Seq(Byte)
        BY EmptySeq
    <2>. HIDE DEF b
    <2>. QED
        BY <1>3, <2>2, <2>3, <2>4 DEF RxFrame
<1>5. r.state = "SIZE" /\ r.s = <<>>
    BY <1>3 DEF RxFrame
<1>6. CASE Keep(r)
    <2>1. TypeOK' /\ rx' = r
        BY <1>1, <1>4, <1>6, KeepType
    <2>. QED
        BY <1>5, <2>1 DEF RxInv, HeaderInv, ControlFrameFits
<1>. QED
    BY <1>2, <1>6, InvRefuse

\* The header state after the byte that holds the short size.
LEMMA SizedType ==
    ASSUME rx \in RxFrame, rx.s = <<>>, NEW masked \in BOOLEAN, NEW n \in 0..127
    PROVE  /\ Sized(masked, n) \in RxFrame
           /\ Sized(masked, n).s = <<>> /\ Sized(masked, n).mask = <<>>
           /\ Sized(masked, n).opcode = rx.opcode /\ Sized(masked, n).masked = masked
           /\ Sized(masked, n).state = IF n < 126 THEN AfterSize(masked) ELSE "EXT"
           /\ Sized(masked, n).size = IF n < 126 THEN n ELSE 0
           /\ n >= 126 => Sized(masked, n).ext > 0
<1>1. AfterSize(masked) \in {"MASK", "DATA"} /\ <<>> \in Seq(Byte)
    BY EmptySeq DEF AfterSize
<1>2. (IF n < 126 THEN n ELSE 0) \in Nat
      /\ (IF n = 126 THEN 2 ELSE IF n = 127 THEN 8 ELSE 0) \in 0..8
    OBVIOUS
<1>3. \E st \in {"MASK", "DATA", "EXT"}, size \in Nat, ext \in 0..8 :
        /\ Sized(masked, n) = [rx EXCEPT !.masked = masked, !.mask = <<>>, !.size = size,
                                         !.ext = ext, !.state = st]
        /\ st = IF n < 126 THEN AfterSize(masked) ELSE "EXT"
        /\ size = IF n < 126 THEN n ELSE 0
        /\ n >= 126 => ext > 0
    <2>. DEFINE st == IF n < 126 THEN AfterSize(masked) ELSE "EXT"
                size == IF n < 126 THEN n ELSE 0
                ext == IF n = 126 THEN 2 ELSE IF n = 127 THEN 8 ELSE 0
    <2>1. st \in {"MASK", "DATA", "EXT"}
        BY <1>1
    <2>2. n >= 126 => ext > 0
        OBVIOUS
    <2>3. Sized(masked, n) = [rx EXCEPT !.masked = masked, !.mask = <<>>, !.size = size,
                                        !.ext = ext, !.state = st]
        BY DEF Sized
    <2>4. size \in Nat /\ ext \in 0..8 /\ size = (IF n < 126 THEN n ELSE 0)
          /\ st = (IF n < 126 THEN AfterSize(masked) ELSE "EXT")
        BY <1>2
    <2>. HIDE DEF st, size, ext
    <2>. QED
        BY <2>1, <2>2, <2>3, <2>4
<1>4. PICK st \in {"MASK", "DATA", "EXT"}, size \in Nat, ext \in 0..8 :
        /\ Sized(masked, n) = [rx EXCEPT !.masked = masked, !.mask = <<>>, !.size = size,
                                         !.ext = ext, !.state = st]
        /\ st = IF n < 126 THEN AfterSize(masked) ELSE "EXT"
        /\ size = IF n < 126 THEN n ELSE 0
        /\ n >= 126 => ext > 0
    BY <1>3
<1>5. Sized(masked, n) \in RxFrame
    BY <1>1, <1>4 DEF RxFrame
<1>6. /\ Sized(masked, n).s = <<>> /\ Sized(masked, n).mask = <<>>
      /\ Sized(masked, n).opcode = rx.opcode /\ Sized(masked, n).masked = masked
      /\ Sized(masked, n).state = st /\ Sized(masked, n).size = size
      /\ Sized(masked, n).ext = ext
    BY <1>4 DEF RxFrame
<1>. QED
    BY <1>4, <1>5, <1>6

LEMMA SizeInv ==
    ASSUME RxInv, parse_size
    PROVE  RxInv'
<1>. DEFINE masked == Head(chunk) >= 128
            n == Head(chunk) % 128
            r == Sized(masked, n)
<1>1. TypeOK /\ chunk # <<>> /\ rx \in RxFrame /\ rx.s = <<>>
    BY DEF RxInv, HeaderInv, TypeOK, parse_size, Turn
<1>2. n \in 0..127 /\ masked \in BOOLEAN
    <2>1. Head(chunk) \in Byte
        BY <1>1, BytesTail DEF TypeOK
    <2>. QED
        BY <2>1 DEF Byte
<1>3. /\ r \in RxFrame
      /\ r.s = <<>> /\ r.mask = <<>> /\ r.opcode = rx.opcode /\ r.masked = masked
      /\ r.state = (IF n < 126 THEN AfterSize(masked) ELSE "EXT")
      /\ r.size = (IF n < 126 THEN n ELSE 0)
      /\ n >= 126 => r.ext > 0
    <2>. HIDE DEF n, masked
    <2>. QED
        BY <1>1, <1>2, SizedType
<1>4. \/ close_with_reason(1002, <<>>)
      \/ close_with_reason(1000, <<>>)
      \/ close_with_reason(1009, <<>>)
      \/ /\ rx.opcode \in Control => n <= 125 /\ n <= RxMax
         /\ rx.opcode = CLOSE => n # 0 /\ n # 1
         /\ Keep(r)
    <2>. HIDE DEF r
    <2>1. n <= 125 \/ n > 125
        BY <1>2
    <2>. QED
        BY <2>1 DEF parse_size, r
<1>5. ASSUME rx.opcode \in Control => n <= 125 /\ n <= RxMax,
             rx.opcode = CLOSE => n # 0 /\ n # 1,
             Keep(r)
      PROVE  RxInv'
    <2>. HIDE DEF r, masked, n
    <2>1. TypeOK' /\ rx' = r
        BY <1>1, <1>3, <1>5, KeepType
    <2>2. Len(<<>>) = 0
        OBVIOUS
    <2>3. HeaderInv'
        BY ONLY <1>2, <1>3, <1>5, <2>1, <2>2 DEF HeaderInv, AfterSize
    <2>4. ControlFrameFits'
        BY ONLY <1>2, <1>3, <1>5, <2>1, <2>2, WicRxAssumption DEF ControlFrameFits, AfterSize, Control
    <2>. QED
        BY <2>1, <2>3, <2>4 DEF RxInv
<1>6. ASSUME close_with_reason(1002, <<>>) PROVE RxInv'
    BY <1>6, InvRefuse
<1>7. ASSUME close_with_reason(1000, <<>>) PROVE RxInv'
    BY <1>7, InvRefuse
<1>8. ASSUME close_with_reason(1009, <<>>) PROVE RxInv'
    BY <1>8, InvRefuse
<1>. HIDE DEF r, masked, n
<1>. QED
    BY <1>4, <1>5, <1>6, <1>7, <1>8

LEMMA ExtendedInv ==
    ASSUME RxInv, parse_extended_size
    PROVE  RxInv'
<1>. DEFINE r == [rx EXCEPT !.size = 256 * rx.size + Head(chunk), !.ext = rx.ext - 1,
                            !.state = IF rx.ext > 1 THEN "EXT" ELSE AfterSize(rx.masked)]
<1>1. TypeOK /\ chunk # <<>> /\ rx \in RxFrame /\ Keep(r)
    BY DEF RxInv, TypeOK, parse_extended_size, Turn
<1>2. rx.s = <<>> /\ rx.opcode \notin Control /\ rx.ext > 0 /\ rx.mask = <<>>
    BY DEF RxInv, HeaderInv, parse_extended_size, Turn
<1>3. 256 * rx.size + Head(chunk) \in Nat
    <2>1. Head(chunk) \in Byte /\ rx.size \in Nat
        BY <1>1, BytesTail DEF TypeOK, RxFrame
    <2>2. \A m \in Nat, b \in Byte : 256 * m + b \in Nat
        BY DEF Byte
    <2>. QED
        BY <2>1, <2>2
<1>4. rx.ext - 1 \in 0..8 /\ (rx.ext > 1 => rx.ext - 1 > 0)
    BY <1>1, <1>2 DEF RxFrame
<1>5. /\ r \in RxFrame /\ r.s = <<>> /\ r.mask = <<>> /\ r.opcode = rx.opcode
      /\ r.masked = rx.masked /\ r.ext = rx.ext - 1
      /\ r.state = (IF rx.ext > 1 THEN "EXT" ELSE AfterSize(rx.masked))
    <2>. DEFINE size == 256 * rx.size + Head(chunk)
                st == IF rx.ext > 1 THEN "EXT" ELSE AfterSize(rx.masked)
                ext == rx.ext - 1
    <2>1. st \in {"EXT", "MASK", "DATA"}
        BY DEF AfterSize
    <2>2. r = [rx EXCEPT !.size = size, !.ext = ext, !.state = st] /\ size \in Nat /\ ext \in 0..8
        BY <1>3, <1>4
    <2>3. /\ r \in RxFrame /\ r.s = <<>> /\ r.mask = <<>> /\ r.opcode = rx.opcode
          /\ r.masked = rx.masked /\ r.ext = ext /\ r.state = st
        <3>. HIDE DEF r, size, st, ext
        <3>. QED
            BY <1>1, <1>2, <2>1, <2>2 DEF RxFrame
    <2>. QED
        BY <2>3
<1>. HIDE DEF r
<1>6. TypeOK' /\ rx' = r
    BY <1>1, <1>5, KeepType
<1>7. Len(<<>>) = 0
    OBVIOUS
<1>8. HeaderInv'
    BY <1>2, <1>4, <1>5, <1>6, <1>7 DEF HeaderInv, AfterSize
<1>9. ControlFrameFits'
    BY <1>2, <1>5, <1>6 DEF ControlFrameFits
<1>. QED
    BY <1>6, <1>8, <1>9 DEF RxInv

LEMMA MaskInv ==
    ASSUME RxInv, parse_mask
    PROVE  RxInv'
<1>. DEFINE r == [rx EXCEPT !.mask = Append(rx.mask, Head(chunk)),
                            !.state = IF Len(rx.mask) < 3 THEN "MASK" ELSE "DATA"]
<1>1. TypeOK /\ chunk # <<>> /\ rx \in RxFrame /\ rx.state = "MASK" /\ wic = "OPEN" /\ Keep(r)
    BY DEF RxInv, TypeOK, parse_mask, Turn
<1>2. rx.s = <<>> /\ rx.masked /\ Len(rx.mask) < 4 /\ rx.mask \in Seq(Byte)
    BY <1>1 DEF RxInv, HeaderInv, RxFrame
<1>3. /\ Append(rx.mask, Head(chunk)) \in Seq(Byte)
      /\ Len(Append(rx.mask, Head(chunk))) = Len(rx.mask) + 1
    <2>1. Head(chunk) \in Byte
        BY <1>1, BytesTail DEF TypeOK
    <2>. QED
        BY <1>2, <2>1, AppendProperties
<1>4. /\ r \in RxFrame /\ r.s = rx.s /\ r.masked = rx.masked
      /\ r.opcode = rx.opcode /\ r.size = rx.size
      /\ r.state = (IF Len(rx.mask) < 3 THEN "MASK" ELSE "DATA")
      /\ Len(r.mask) = Len(rx.mask) + 1
    BY <1>1, <1>3 DEF RxFrame
<1>. HIDE DEF r
<1>5. TypeOK' /\ rx' = r /\ wic' = wic
    BY <1>1, <1>4, KeepType
<1>6. Len(rx.mask) \in Nat
    BY <1>2
<1>7. HeaderInv'
    <2>1. CASE Len(rx.mask) < 3
        <3>1. rx'.state = "MASK" /\ rx'.s = <<>> /\ rx'.masked
            BY <1>2, <1>4, <1>5, <2>1
        <3>2. Len(rx'.mask) < 4
            BY <1>4, <1>5, <1>6, <2>1
        <3>. QED
            BY <3>1, <3>2 DEF HeaderInv
    <2>2. CASE ~(Len(rx.mask) < 3)
        <3>1. rx'.state = "DATA"
            BY <1>4, <1>5, <2>2
        <3>2. Len(rx'.mask) = 4
            <4>1. \A m \in Nat : m < 4 /\ ~(m < 3) => m + 1 = 4
                OBVIOUS
            <4>2. Len(rx.mask) + 1 = 4
                BY <1>2, <1>6, <2>2, <4>1
            <4>. QED
                BY <1>4, <1>5, <4>2
        <3>. QED
            BY <3>1, <3>2 DEF HeaderInv
    <2>. QED
        BY <2>1, <2>2
<1>8. ControlFrameFits'
    BY <1>1, <1>4, <1>5 DEF ControlFrameFits, RxInv
<1>. QED
    BY <1>5, <1>7, <1>8 DEF RxInv

\* The payload handed over early: of a message, or for nothing.
LEMMA FlushInv ==
    ASSUME RxInv, Flush
    PROVE  RxInv'
<1>1. TypeOK /\ rx \in RxFrame /\ rx.s \in Seq(Byte) /\ Len(rx.s) \in Nat
    BY DEF RxInv, TypeOK, RxFrame
<1>2. /\ rx.state = "DATA" /\ rx.size > 0 /\ Len(rx.s) = RxMax /\ wic = "OPEN"
      /\ rx' = [rx EXCEPT !.s = <<>>]
      /\ UNCHANGED <<wire, chunk, wic, utf8_rx, replies, input, taken>>
    BY DEF Flush
<1>3. rx' \in RxFrame /\ \A f \in DOMAIN rx : f # "s" => rx'[f] = rx[f]
    BY <1>1, <1>2, EmptySeq DEF RxFrame
<1>4. /\ message_buffer' \in Seq(Byte) /\ messages' \in Seq(Seq(Byte)) /\ flushed' \in Nat
    <2>1. ASSUME on_message_handler(FALSE, rx.s), flushed' = flushed + Len(rx.s)
          PROVE  /\ message_buffer' \in Seq(Byte) /\ messages' \in Seq(Seq(Byte))
                 /\ flushed' \in Nat
        <3>1. message_buffer' \in Seq(Byte) /\ messages' \in Seq(Seq(Byte))
            BY <1>1, <2>1, MessageType
        <3>2. flushed' \in Nat
            BY <1>1, <2>1 DEF TypeOK
        <3>. QED
            BY <3>1, <3>2
    <2>2. ASSUME UNCHANGED delivery
          PROVE  /\ message_buffer' \in Seq(Byte) /\ messages' \in Seq(Seq(Byte))
                 /\ flushed' \in Nat
        BY <1>1, <2>2 DEF TypeOK, delivery
    <2>. QED
        BY <2>1, <2>2 DEF Flush
<1>5. TypeOK'
    BY <1>1, <1>2, <1>3, <1>4 DEF TypeOK
\* A control frame never gets here: it fits.
<1>6. rx.opcode \notin Control
    <2>1. rx.size \in Nat /\ RxMax \in Nat
        BY <1>1, WicRxAssumption DEF RxFrame
    <2>. QED
        BY <1>2, <2>1 DEF RxInv, ControlFrameFits
<1>7. rx'.state = rx.state /\ rx'.opcode = rx.opcode /\ rx'.mask = rx.mask /\ rx'.masked = rx.masked
    BY <1>1, <1>2 DEF RxFrame
<1>8. HeaderInv' /\ ControlFrameFits'
    BY <1>2, <1>6, <1>7 DEF RxInv, HeaderInv, ControlFrameFits
<1>. QED
    BY <1>5, <1>8 DEF RxInv

LEMMA DataByteInv ==
    ASSUME RxInv, DataByte
    PROVE  RxInv'
<1>. DEFINE r == Stored(Head(chunk))
<1>1. /\ TypeOK /\ HeaderInv /\ ControlFrameFits /\ rx \in RxFrame
      /\ rx.state = "DATA" /\ rx.size > 0 /\ chunk # <<>> /\ wic = "OPEN"
    BY DEF RxInv, TypeOK, DataByte, Turn
<1>2. Head(chunk) \in Byte /\ Tail(chunk) \in Seq(Byte)
    BY <1>1, BytesTail DEF TypeOK
<1>3. /\ r \in RxFrame
      /\ r.state = "DATA" /\ r.opcode = rx.opcode
      /\ r.masked = rx.masked /\ r.mask = rx.mask
      /\ r.size = rx.size - 1 /\ Len(r.s) = Len(rx.s) + 1
    BY <1>1, <1>2, StoredType
<1>4. \/ close_with_reason(1007, <<>>)
      \/ Keep(r)
      \/ r.size = 0 /\ Finish(r, Tail(chunk))
    BY DEF DataByte
<1>5. Len(rx.s) + rx.size = Len(r.s) + r.size /\ Len(r.s) \in Nat
    <2>1. \A m, n \in Nat : m + n = (m + 1) + (n - 1)
        OBVIOUS
    <2>2. Len(rx.s) \in Nat /\ rx.size \in Nat /\ Len(r.s) \in Nat
        BY <1>1, <1>3 DEF RxFrame
    <2>. QED
        BY <1>3, <2>1, <2>2
<1>6. CLOSE \in Control
    BY DEF Control
<1>. HIDE DEF r
<1>7. ASSUME close_with_reason(1007, <<>>) PROVE RxInv'
    BY <1>7, InvRefuse
<1>8. ASSUME Keep(r) PROVE RxInv'
    <2>1. TypeOK' /\ rx' = r /\ wic' = wic
        BY <1>1, <1>3, <1>8, KeepType
    <2>2. HeaderInv'
        BY <1>1, <1>3, <2>1 DEF HeaderInv
    <2>3. ControlFrameFits'
        BY <1>1, <1>3, <1>5, <2>1 DEF ControlFrameFits
    <2>. QED
        BY <2>1, <2>2, <2>3 DEF RxInv
<1>9. ASSUME r.size = 0, Finish(r, Tail(chunk)) PROVE RxInv'
    <2>1. r.opcode = CLOSE => Len(r.s) + r.size >= 2
        BY <1>1, <1>3, <1>5, <1>6 DEF ControlFrameFits
    <2>2. r.opcode = CLOSE => Len(r.s) >= 2
        BY <1>5, <1>9, <2>1
    <2>. QED
        BY <1>2, <1>3, <1>9, <2>2, InvFinish
<1>. QED
    BY <1>4, <1>7, <1>8, <1>9

LEMMA EmptyFrameInv ==
    ASSUME RxInv, EmptyFrame
    PROVE  RxInv'
<1>1. rx \in RxFrame /\ chunk \in Seq(Byte) /\ Finish(rx, chunk)
    BY DEF RxInv, TypeOK, EmptyFrame
<1>2. rx.opcode = CLOSE => Len(rx.s) >= 2
    <2>1. Len(rx.s) \in Nat
        BY <1>1 DEF RxFrame
    <2>2. rx.opcode = CLOSE => Len(rx.s) + rx.size >= 2
        BY DEF RxInv, ControlFrameFits, EmptyFrame, Control
    <2>. QED
        BY <2>1, <2>2 DEF EmptyFrame
<1>. QED
    BY <1>1, <1>2, InvFinish

LEMMA StutterInv ==
    ASSUME RxInv, UNCHANGED vars
    PROVE  RxInv'
BY DEF RxInv, TypeOK, HeaderInv, ControlFrameFits, vars, delivery

----------------------------------------------------------------------------
\* The invariant holds in every state (wic_parse fed by transport_recv).
THEOREM RxInvariant == Spec => []RxInv
<1>1. RxInv /\ [Next]_vars => RxInv'
    <2>. SUFFICES ASSUME RxInv, [Next]_vars
                  PROVE  RxInv'
        OBVIOUS
    <2>1. CASE transport_recv
        BY <2>1, RecvInv
    <2>2. CASE ConnectionEnds
        BY <2>2, EndsInv
    <2>3. CASE parse_opcode
        BY <2>3, OpcodeInv
    <2>4. CASE parse_size
        BY <2>4, SizeInv
    <2>5. CASE parse_extended_size
        BY <2>5, ExtendedInv
    <2>6. CASE parse_mask
        BY <2>6, MaskInv
    <2>7. CASE Flush
        BY <2>7, FlushInv
    <2>8. CASE DataByte
        BY <2>8, DataByteInv
    <2>9. CASE EmptyFrame
        BY <2>9, EmptyFrameInv
    <2>10. CASE UNCHANGED vars
        BY <2>10, StutterInv
    <2>. QED
        BY <2>1, <2>2, <2>3, <2>4, <2>5, <2>6, <2>7, <2>8, <2>9, <2>10
        DEF Next, wic_parse, parse_data
<1>. QED
    BY InitInv, <1>1, PTL DEF Spec

\* wic_inst and the buffers around it keep their types: the extended size has
\* at most eight bytes, the mask is bytes, the text automaton stays in range.
THEOREM RxTypeCorrect == Spec => []TypeOK
<1>1. RxInv => TypeOK
    BY DEF RxInv
<1>. QED
    BY RxInvariant, <1>1, PTL

\* For every size of the receive buffer and however the stream is cut,
\* a control frame is never handed over in part, and the two bytes of a close
\* code are in the buffer when parse_data reads them.
THEOREM ControlFramesFit == Spec => []ControlFrameFits
<1>1. RxInv => ControlFrameFits
    BY DEF RxInv
<1>. QED
    BY RxInvariant, <1>1, PTL

-----------------------------------------------------------------------------
\* What the calls make frames of.
Frames == [opcode : Opcodes, fin : BOOLEAN, code : Nat,
           payload : Seq(Byte), whole : Seq(Byte)]

\* Pieces of a frame put together, whatever they are of.
LEMMA Joined ==
    ASSUME NEW s \in Seq(Int), NEW r \in Seq(Int)
    PROVE  s \o r \in Seq(Int) /\ Len(s \o r) = Len(s) + Len(r)
  BY ConcatProperties

\* A size is one byte, or three.
LEMMA SizeFieldLength ==
    ASSUME NEW n \in Nat
    PROVE  /\ SizeField(n) \in Seq(Int)
           /\ Len(SizeField(n)) = IF n > 125 THEN 3 ELSE 1
<1>1. CASE n <= 125
  BY <1>1 DEF SizeField
<1>2. CASE n > 125
  <2>1. <<128 + 126>> \in Seq(Int) /\ Len(<<128 + 126>>) = 1
    OBVIOUS
  <2>2. U16(n) \in Seq(Int) /\ Len(U16(n)) = 2
    BY DEF U16
  <2>3. SizeField(n) = <<128 + 126>> \o U16(n)
    BY <1>2 DEF SizeField
  <2>4. /\ <<128 + 126>> \o U16(n) \in Seq(Int)
        /\ Len(<<128 + 126>> \o U16(n)) = Len(<<128 + 126>>) + Len(U16(n))
    BY ONLY <2>1, <2>2, Joined
  <2> QED  BY <1>2, <2>1, <2>2, <2>3, <2>4
<1> QED  BY <1>1, <1>2

\* A mask changes no length.
LEMMA MaskedLength ==
    ASSUME NEW s \in Seq(Int)
    PROVE  Masked(s) \in Seq(Int) /\ Len(Masked(s)) = Len(s)
<1>1. ASSUME NEW x, NEW y
      PROVE  Xor(x, y) \in Int
  BY DEF Xor, Differ
<1>2. Masked(s) \in [1 .. Len(s) -> Int]
  BY <1>1 DEF Masked
<1> QED  BY <1>2 DEF Masked

LEMMA FourJoined ==
    ASSUME NEW s \in Seq(Int), NEW r \in Seq(Int), NEW q \in Seq(Int), NEW p \in Seq(Int)
    PROVE  Len(s \o r \o q \o p) = Len(s) + Len(r) + Len(q) + Len(p)
<1>1. s \o r \in Seq(Int) /\ Len(s \o r) = Len(s) + Len(r)
  BY Joined
<1>2. (s \o r) \o q \in Seq(Int) /\ Len((s \o r) \o q) = Len(s \o r) + Len(q)
  BY <1>1, ConcatProperties
<1>3. Len(((s \o r) \o q) \o p) = Len((s \o r) \o q) + Len(p)
  BY <1>2, ConcatProperties
<1> QED  BY <1>1, <1>2, <1>3

LEMMA BytesAreInts ==
    ASSUME NEW s \in Seq(Byte)
    PROVE  s \in Seq(Int) /\ Len(s) \in Nat
<1>1. s \in [1 .. Len(s) -> Byte] /\ Len(s) \in Nat
  OBVIOUS
<1>2. ASSUME NEW b \in Byte
      PROVE  b \in Int
  BY DEF Byte
<1>3. s \in [1 .. Len(s) -> Int]
  BY <1>1, <1>2
<1> QED  BY <1>1, <1>3

\* The code of a close frame comes before its reason.
LEMMA BodyLength ==
    ASSUME NEW f \in Frames, NEW code,
           code = IF f.opcode = CLOSE THEN U16(f.code) ELSE <<>>
    PROVE  /\ code \o f.payload \in Seq(Int)
           /\ Len(code \o f.payload) = PayloadSize(f)
           /\ PayloadSize(f) \in Nat
<1>1. f.payload \in Seq(Int) /\ Len(f.payload) \in Nat
  BY BytesAreInts DEF Frames
<1>2. code \in Seq(Int) /\ Len(code) = IF f.opcode = CLOSE THEN 2 ELSE 0
  <2>1. f.code \in Int
    BY DEF Frames
  <2> QED  BY <2>1 DEF U16
<1>3. code \o f.payload \in Seq(Int) /\ Len(code \o f.payload) = Len(code) + Len(f.payload)
  BY ONLY <1>1, <1>2, Joined
<1>4. PayloadSize(f) = Len(code) + Len(f.payload)
  <2>1. CASE f.opcode = CLOSE
    BY ONLY <1>1, <1>2, <2>1 DEF PayloadSize
  <2>2. CASE f.opcode # CLOSE
    BY ONLY <1>1, <1>2, <2>2 DEF PayloadSize
  <2> QED  BY <2>1, <2>2
<1>5. PayloadSize(f) \in Nat
  <2>1. Len(code) \in Nat
    BY ONLY <1>2
  <2> QED  BY ONLY <1>1, <1>4, <2>1
<1>6. Len(code \o f.payload) = PayloadSize(f)
  BY ONLY <1>3, <1>4, Zenon
<1> QED  BY ONLY <1>3, <1>5, <1>6, Zenon

\* The layout and the size are counted alike.
LEMMA FrameLength ==
    ASSUME NEW f \in Frames
    PROVE  Len(stream_put_frame(f)) = min_frame_size(f)
<1>1. PICK first : first = <<(IF f.fin THEN 128 ELSE 0) + f.opcode>>
  OBVIOUS
<1>2. PICK size : size = SizeField(PayloadSize(f))
  OBVIOUS
<1>3. PICK body : body = (IF f.opcode = CLOSE THEN U16(f.code) ELSE <<>>) \o f.payload
  OBVIOUS
<1>4. first \in Seq(Int) /\ Len(first) = 1
  <2>1. f.opcode \in Int /\ f.fin \in BOOLEAN
    BY DEF Frames, Opcodes, CONTINUE, TEXT, BINARY, CLOSE, PING, PONG
  <2> QED  BY <1>1, <2>1
<1>5. body \in Seq(Int) /\ Len(body) = PayloadSize(f) /\ PayloadSize(f) \in Nat
  BY <1>3, BodyLength
<1>6. size \in Seq(Int) /\ Len(size) = IF PayloadSize(f) > 125 THEN 3 ELSE 1
  BY <1>2, <1>5, SizeFieldLength
<1>7. init_mask \in Seq(Int) /\ Len(init_mask) = 4
  BY DEF init_mask
<1>8. Masked(body) \in Seq(Int) /\ Len(Masked(body)) = PayloadSize(f)
  BY <1>5, MaskedLength
<1>9. stream_put_frame(f) = first \o size \o init_mask \o Masked(body)
  BY <1>1, <1>2, <1>3 DEF stream_put_frame
<1>10. Len(first \o size \o init_mask \o Masked(body))
         = Len(first) + Len(size) + Len(init_mask) + Len(Masked(body))
  <2>1. first \in Seq(Int)
    BY <1>4
  <2>2. size \in Seq(Int)
    BY <1>6
  <2>3. init_mask \in Seq(Int)
    BY <1>7
  <2>4. Masked(body) \in Seq(Int)
    BY <1>8
  <2> QED  BY ONLY <2>1, <2>2, <2>3, <2>4, FourJoined, ZenonT(30)
<1> QED  BY <1>4, <1>5, <1>6, <1>7, <1>8, <1>9, <1>10 DEF min_frame_size

-----------------------------------------------------------------------------
\* What uint16_t leaves of a payload is a payload.
LEMMA CutIsBytes ==
    ASSUME NEW data \in Seq(Byte)
    PROVE  Cut(data) \in Seq(Byte)
<1>1. PICK n : n = Len(data) % SizeModulus
  OBVIOUS
<1>2. n \in Nat /\ n <= Len(data)
  BY <1>1, WicTxAssumption
<1>3. \A i \in 1 .. n : data[i] \in Byte
  BY <1>2
<1>4. SubSeq(data, 1, n) \in Seq(Byte)
  BY <1>2, <1>3, SubSeqProperties
<1> QED  BY <1>1, <1>4 DEF Cut

LEMMA FramesOfCalls ==
    ASSUME NEW op \in Opcodes, NEW fin \in BOOLEAN, NEW code \in Nat,
           NEW data \in Seq(Byte)
    PROVE  TxFrame(op, fin, code, data) \in Frames
  BY CutIsBytes DEF TxFrame, Frames

\* The buffer is as long as what is written into it, so that only a frame
\* that is too large is refused.
LEMMA PutFits ==
    ASSUME NEW f \in Frames
    PROVE  /\ PutStatus(f) \in {"SUCCESS", "TOO_LARGE"}
           /\ PutStatus(f) = "SUCCESS" => Len(stream_put_frame(f)) <= TxMax
<1>1. Len(stream_put_frame(f)) = min_frame_size(f) /\ min_frame_size(f) \in Nat
  <2>1. PayloadSize(f) \in Nat
    <3>1. PICK code : code = IF f.opcode = CLOSE THEN U16(f.code) ELSE <<>>
      OBVIOUS
    <3> QED  BY <3>1, BodyLength
  <2> QED  BY <2>1, FrameLength DEF min_frame_size
<1>2. TxMax \in Nat
  BY WicTxAssumption
<1> QED  BY <1>1, <1>2 DEF PutStatus

\* A call that writes, or is refused, leaves a frame that fits.
LEMMA WrittenFits ==
    ASSUME NEW f \in Frames, Written(f)
    PROVE  FrameFits'
<1>1. status' = "SUCCESS" /\ frame' = stream_put_frame(f) /\ call' = f
      /\ PutStatus(f) = "SUCCESS"
  BY DEF Written
<1>2. Len(frame') <= TxMax /\ Len(frame') = min_frame_size(call')
  BY <1>1, PutFits, FrameLength
<1> QED  BY <1>1, <1>2 DEF FrameFits, min_frame_size, PayloadSize

LEMMA RefusedFits ==
    ASSUME NEW f, NEW why, why # "WOULD_BLOCK", Refused(f, why)
    PROVE  FrameFits'
<1>1. status' # "WOULD_BLOCK" /\ frame' = <<>>
  BY DEF Refused
<1>2. Len(frame') <= TxMax
  BY <1>1, WicTxAssumption
<1> QED  BY <1>1, <1>2 DEF FrameFits

LEMMA NotBufferedFits ==
    ASSUME NEW f \in Frames, NotOpen(f) \/ NoBuffer(f)
    PROVE  FrameFits'
<1>1. CASE NotOpen(f)
  BY <1>1, RefusedFits DEF NotOpen
<1>2. CASE NoBuffer(f)
  <2>1. PutStatus(f) # "WOULD_BLOCK"
    BY PutFits
  <2> QED  BY <1>2, <2>1, RefusedFits DEF NoBuffer
<1> QED  BY <1>1, <1>2

LEMMA OpcodesOfCalls ==
    /\ \A op \in {TEXT, BINARY} : Opcode(op) \in Opcodes
    /\ {PING, PONG, CLOSE} \subseteq Opcodes
  BY DEF Opcode, Opcodes

LEMMA FramesFitStep ==
    ASSUME FrameFits, [TxNext]_txVars
    PROVE  FrameFits'
<1>1. ASSUME NEW fin \in BOOLEAN, NEW data \in Payloads, wic_send_text(fin, data)
      PROVE  FrameFits'
  <2>1. PICK f : f = TxFrame(Opcode(TEXT), fin, 0, data)
    OBVIOUS
  <2>2. f \in Frames
    BY <2>1, FramesOfCalls, OpcodesOfCalls, WicTxAssumption
  <2>3. NotOpen(f) \/ NoBuffer(f) \/ Written(f)
          \/ Refused(f, "BAD_STATE") \/ Refused(f, "BAD_INPUT")
    BY ONLY <1>1, <2>1, Zenon DEF wic_send_text, WrittenData
  <2> QED  BY <2>2, <2>3, WrittenFits, NotBufferedFits, RefusedFits
<1>2. ASSUME NEW fin \in BOOLEAN, NEW data \in Payloads, wic_send_binary(fin, data)
      PROVE  FrameFits'
  <2>1. PICK f : f = TxFrame(Opcode(BINARY), fin, 0, data)
    OBVIOUS
  <2>2. f \in Frames
    BY <2>1, FramesOfCalls, OpcodesOfCalls, WicTxAssumption
  <2>3. NotOpen(f) \/ NoBuffer(f) \/ Written(f) \/ Refused(f, "BAD_STATE")
    BY ONLY <1>2, <2>1, Zenon DEF wic_send_binary, WrittenData
  <2> QED  BY <2>2, <2>3, WrittenFits, NotBufferedFits, RefusedFits
<1>3. ASSUME NEW op \in {PING, PONG}, NEW data \in ControlPayloads, SendControl(op, data)
      PROVE  FrameFits'
  <2>1. PICK f : f = TxFrame(op, TRUE, 0, data)
    OBVIOUS
  <2>2. f \in Frames
    <3>1. data \in Seq(Byte) /\ op \in Opcodes
      BY OpcodesOfCalls, WicTxAssumption
    <3> QED  BY <2>1, <3>1, FramesOfCalls
  <2>3. NotOpen(f) \/ NoBuffer(f) \/ Written(f)
    BY ONLY <1>3, <2>1, Zenon DEF SendControl, WrittenControl
  <2> QED  BY <2>2, <2>3, WrittenFits, NotBufferedFits
<1>4. ASSUME NEW code \in Codes, NEW reason \in ControlPayloads,
             wic_close_with_reason(code, reason)
      PROVE  FrameFits'
  <2>1. PICK data : data = IF utf8_is_complete(utf8_parse_string(0, Cut(reason)))
                           THEN reason ELSE <<>>
    OBVIOUS
  <2>2. PICK f : f = TxFrame(CLOSE, TRUE, code, data)
    OBVIOUS
  <2>3. f \in Frames
    <3>1. reason \in Seq(Byte) /\ code \in Nat
      BY WicTxAssumption
    <3>2. data \in Seq(Byte)
      BY <2>1, <3>1
    <3> QED  BY <2>2, <3>1, <3>2, FramesOfCalls, OpcodesOfCalls
  <2>4. Refused(f, status) \/ NoBuffer(f) \/ Written(f)
    BY ONLY <1>4, <2>1, <2>2, Zenon DEF wic_close_with_reason, WrittenControl
  <2>5. status # "WOULD_BLOCK"
    BY DEF FrameFits
  <2> QED  BY <2>3, <2>4, <2>5, WrittenFits, NotBufferedFits, RefusedFits
<1>5. CASE UNCHANGED txVars
  BY <1>5 DEF txVars, FrameFits, min_frame_size, PayloadSize
<1>6. CASE TxNext
  BY <1>6, <1>1, <1>2, <1>3, <1>4
     DEF TxNext, wic_send_ping_with_payload, send_pong_with_payload
<1> QED  BY <1>5, <1>6

\* Whatever is called in whatever order, with whatever it is given, every
\* frame is as long as the buffer it was given, which is not too large:
\* stream_put_frame never runs out of the room min_frame_size has asked for.
THEOREM FramesFit == TxSpec => []FrameFits
<1>1. TxInit => FrameFits
  BY WicTxAssumption DEF TxInit, FrameFits
<1>2. FrameFits /\ [TxNext]_txVars => FrameFits'
  BY FramesFitStep
<1> QED  BY <1>1, <1>2, PTL DEF TxSpec

----------------------------------------------------------------------------
(***************************************************************************)
(* Strings.  The recursive function run of utf8_parse_string exists,       *)
(* whatever the bytes are: it says where a walk of the automaton ends.     *)
(***************************************************************************)

\* g are the states on the way over n bytes from the i-th on.
Walk(data, u, i, n, g) ==
    /\ g \in [0..n -> Utf8State] /\ g[0] = u
    /\ \A j \in 1..n : g[j] = utf8_parse(g[j - 1], data[i + j - 1])

WalkEnd(data, u, i, n, q) == \E g : Walk(data, u, i, n, g) /\ g[n] = q

LEMMA WalkNowhere ==
    ASSUME NEW data, NEW u \in Utf8State, NEW i \in Nat
    PROVE  WalkEnd(data, u, i, 0, u)
<1> DEFINE g == [j \in 0..0 |-> u]
<1>1. Walk(data, u, i, 0, g) /\ g[0] = u
  BY DEF Walk
<1> HIDE DEF g
<1> QED  BY <1>1 DEF WalkEnd

LEMMA WalkOneMore ==
    ASSUME NEW data, NEW u \in Utf8State, NEW i \in Nat, NEW n \in Nat,
           NEW q \in Utf8State, WalkEnd(data, u, i, n, q)
    PROVE  WalkEnd(data, u, i, n + 1, utf8_parse(q, data[i + n]))
<1> DEFINE p == utf8_parse(q, data[i + n])
<1>0. p \in Utf8State
  BY Utf8Closed
<1>1. PICK g : Walk(data, u, i, n, g) /\ g[n] = q
  BY DEF WalkEnd
<1> HIDE DEF p
<1> DEFINE h == [j \in 0..(n + 1) |-> IF j = n + 1 THEN p ELSE g[j]]
<1>2. /\ g \in [0..n -> Utf8State] /\ g[0] = u
      /\ \A j \in 1..n : g[j] = utf8_parse(g[j - 1], data[i + j - 1])
  BY <1>1 DEF Walk
<1>3. h \in [0..(n + 1) -> Utf8State] /\ h[0] = u /\ h[n + 1] = p /\ \A j \in 0..n : h[j] = g[j]
  BY <1>0, <1>2
<1> HIDE DEF h
<1>4. ASSUME NEW j \in 1..(n + 1) PROVE h[j] = utf8_parse(h[j - 1], data[i + j - 1])
  <2>1. CASE j = n + 1
    <3>1. j - 1 = n /\ i + j - 1 = i + n
      BY <2>1
    <3>2. h[n] = q
      BY <1>1, <1>3
    <3> QED  BY <1>3, <2>1, <3>1, <3>2 DEF p
  <2>2. CASE j # n + 1
    <3>1. j \in 1..n /\ j - 1 \in 0..n /\ j \in 0..n
      BY <2>2
    <3> QED  BY <1>2, <1>3, <3>1
  <2> QED  BY <2>1, <2>2
<1>5. Walk(data, u, i, n + 1, h)
  BY <1>3, <1>4 DEF Walk
<1> QED  BY <1>3, <1>5 DEF WalkEnd, p

\* A walk ends in one state.
LEMMA WalkEnds ==
    ASSUME NEW data, NEW u \in Utf8State, NEW i \in Nat, NEW n \in Nat
    PROVE  /\ \E q \in Utf8State : WalkEnd(data, u, i, n, q)
           /\ \A q, p : WalkEnd(data, u, i, n, q) /\ WalkEnd(data, u, i, n, p) => q = p
           /\ \A q : WalkEnd(data, u, i, n, q) => q \in Utf8State
<1> DEFINE S == {m \in Nat : \E q \in Utf8State : WalkEnd(data, u, i, m, q)}
<1>1. Nat \subseteq S
  <2>1. ASSUME NEW m \in Nat, \A k \in 0 .. (m - 1) : k \in S
        PROVE  m \in S
    <3>1. CASE m = 0
      BY <3>1, WalkNowhere
    <3>2. CASE m # 0
      <4>1. m - 1 \in Nat /\ m - 1 \in 0 .. (m - 1) /\ (m - 1) + 1 = m
        BY <3>2
      <4>2. PICK q \in Utf8State : WalkEnd(data, u, i, m - 1, q)
        BY <2>1, <4>1
      <4>3. WalkEnd(data, u, i, (m - 1) + 1, utf8_parse(q, data[i + (m - 1)]))
        BY <4>1, <4>2, WalkOneMore
      <4> QED  BY <4>1, <4>3, Utf8Closed
    <3> QED  BY <3>1, <3>2
  <2> HIDE DEF S
  <2> QED  BY <2>1, StrongInduction
<1>2. \E q \in Utf8State : WalkEnd(data, u, i, n, q)
  BY <1>1
<1>3. ASSUME NEW g, NEW h, Walk(data, u, i, n, g), Walk(data, u, i, n, h)
      PROVE  g[n] = h[n]
  <2> DEFINE T == {m \in Nat : m <= n => g[m] = h[m]}
  <2>0. /\ g[0] = h[0]
        /\ \A j \in 1..n : /\ g[j] = utf8_parse(g[j - 1], data[i + j - 1])
                           /\ h[j] = utf8_parse(h[j - 1], data[i + j - 1])
    BY <1>3 DEF Walk
  <2>1. ASSUME NEW m \in Nat, \A k \in 0 .. (m - 1) : k \in T
        PROVE  m \in T
    <3>1. CASE m = 0
      BY <2>0, <3>1
    <3>2. CASE m # 0
      <4>1. m - 1 \in 0 .. (m - 1)
        BY <3>2
      <4>2. ASSUME m <= n PROVE g[m] = h[m]
        <5>1. m \in 1..n /\ m - 1 <= n
          BY <3>2, <4>2
        <5>2. g[m - 1] = h[m - 1]
          BY <2>1, <4>1, <5>1
        <5> QED  BY <2>0, <5>1, <5>2
      <4> QED  BY <4>2
    <3> QED  BY <3>1, <3>2
  <2>2. Nat \subseteq T
    <3> HIDE DEF T
    <3> QED  BY <2>1, StrongInduction
  <2>3. n \in T
    BY <2>2
  <2> QED  BY <2>3
<1>4. ASSUME NEW q, WalkEnd(data, u, i, n, q) PROVE q \in Utf8State
  <2>1. PICK g : Walk(data, u, i, n, g) /\ g[n] = q
    BY <1>4 DEF WalkEnd
  <2>2. n \in 0..n
    OBVIOUS
  <2> QED  BY <2>1, <2>2 DEF Walk
<1> QED  BY <1>2, <1>3, <1>4 DEF WalkEnd

\* A walk over a bytes and one over b more are one over all.
LEMMA WalksJoin ==
    ASSUME NEW data, NEW u \in Utf8State, NEW i \in Nat, NEW m \in Nat, NEW n \in Nat,
           NEW q, WalkEnd(data, u, i, m, q), NEW p, WalkEnd(data, q, i + m, n, p)
    PROVE  WalkEnd(data, u, i, m + n, p)
<1>1. PICK g : Walk(data, u, i, m, g) /\ g[m] = q
  BY DEF WalkEnd
<1>2. PICK h : Walk(data, q, i + m, n, h) /\ h[n] = p
  BY DEF WalkEnd
<1> DEFINE f == [j \in 0..(m + n) |-> IF j <= m THEN g[j] ELSE h[j - m]]
<1>3. /\ g \in [0..m -> Utf8State] /\ g[0] = u
      /\ \A j \in 1..m : g[j] = utf8_parse(g[j - 1], data[i + j - 1])
  BY <1>1 DEF Walk
<1>4. /\ h \in [0..n -> Utf8State] /\ h[0] = q
      /\ \A j \in 1..n : h[j] = utf8_parse(h[j - 1], data[(i + m) + j - 1])
  BY <1>2 DEF Walk
<1>5. /\ f \in [0..(m + n) -> Utf8State]
      /\ \A j \in 0..m : f[j] = g[j]
  <2>1. ASSUME NEW j \in 0..(m + n) PROVE f[j] \in Utf8State
    <3>1. j <= m => j \in 0..m
      OBVIOUS
    <3>2. ~(j <= m) => j - m \in 0..n
      OBVIOUS
    <3> QED  BY <1>3, <1>4, <3>1, <3>2
  <2> QED  BY <2>1
<1>6. ASSUME NEW k \in 0..n PROVE f[m + k] = h[k]
  <2>1. m + k \in 0..(m + n) /\ (m + k) - m = k
    OBVIOUS
  <2>2. CASE k = 0
    BY <1>1, <1>4, <1>5, <2>2
  <2>3. CASE k # 0
    <3>1. ~(m + k <= m)
      BY <2>3
    <3> QED  BY <2>1, <3>1
  <2> QED  BY <2>2, <2>3
<1> HIDE DEF f
<1>7. ASSUME NEW j \in 1..(m + n) PROVE f[j] = utf8_parse(f[j - 1], data[i + j - 1])
  <2>1. CASE j <= m
    <3>1. j \in 1..m /\ j \in 0..m /\ j - 1 \in 0..m
      BY <2>1
    <3> QED  BY <1>3, <1>5, <3>1
  <2>2. CASE ~(j <= m)
    <3>1. PICK k \in 1..n : j = m + k
      <4>1. j - m \in 1..n /\ j = m + (j - m)
        BY <2>2
      <4> QED  BY <4>1
    <3>2. k \in 0..n /\ k - 1 \in 0..n /\ j - 1 = m + (k - 1) /\ (i + m) + k - 1 = i + j - 1
      BY <3>1
    <3>3. f[j] = h[k] /\ f[j - 1] = h[k - 1]
      BY <1>6, <3>1, <3>2
    <3> QED  BY <1>4, <3>2, <3>3
  <2> QED  BY <2>1, <2>2
<1>8. f[0] = u /\ f[m + n] = p
  BY <1>2, <1>3, <1>5, <1>6
<1>9. Walk(data, u, i, m + n, f)
  BY <1>5, <1>7, <1>8 DEF Walk
<1> QED  BY <1>8, <1>9 DEF WalkEnd

IsRun(data, f) ==
    f = [w \in Utf8State \X Nat \X Nat |->
            IF w[3] = 0 THEN w[1]
            ELSE IF w[3] = 1 THEN utf8_parse(w[1], data[w[2]])
            ELSE LET firsts == w[3] \div 2
                 IN  f[<<f[<<w[1], w[2], firsts>>], w[2] + firsts, w[3] - firsts>>]]

Run(data, f, u, i, n) ==
    f[<<u, i, n>>] = IF n = 0 THEN u
                     ELSE IF n = 1 THEN utf8_parse(u, data[i])
                     ELSE f[<<f[<<u, i, n \div 2>>], i + n \div 2, n - n \div 2>>]

LEMMA RunIs ==
    ASSUME NEW data, NEW f
    PROVE  IsRun(data, f) <=>
             /\ f = [w \in Utf8State \X Nat \X Nat |-> f[w]]
             /\ \A u \in Utf8State : \A i, n \in Nat : Run(data, f, u, i, n)
<1> DEFINE W == Utf8State \X Nat \X Nat
           next(w) == IF w[3] = 0 THEN w[1]
                      ELSE IF w[3] = 1 THEN utf8_parse(w[1], data[w[2]])
                      ELSE f[<<f[<<w[1], w[2], w[3] \div 2>>], w[2] + w[3] \div 2, w[3] - w[3] \div 2>>]
<1>1. IsRun(data, f) <=> f = [w \in W |-> next(w)]
  BY DEF IsRun
<1>2. ASSUME NEW w \in W PROVE w = <<w[1], w[2], w[3]>> /\ w[1] \in Utf8State /\ w[2] \in Nat /\ w[3] \in Nat
  OBVIOUS
<1>3. ASSUME NEW u \in Utf8State, NEW i \in Nat, NEW n \in Nat
      PROVE  <<u, i, n>> \in W /\ (Run(data, f, u, i, n) <=> f[<<u, i, n>>] = next(<<u, i, n>>))
  BY DEF Run
<1> HIDE DEF next
<1>4. (\A u \in Utf8State : \A i, n \in Nat : Run(data, f, u, i, n)) <=> \A w \in W : f[w] = next(w)
  <2>1. ASSUME \A u \in Utf8State : \A i, n \in Nat : Run(data, f, u, i, n), NEW w \in W
        PROVE  f[w] = next(w)
    <3>1. PICK u \in Utf8State, i \in Nat, n \in Nat : w = <<u, i, n>>
      BY <1>2
    <3>2. Run(data, f, u, i, n)
      BY <2>1
    <3> QED  BY <1>3, <3>1, <3>2
  <2>2. ASSUME \A w \in W : f[w] = next(w), NEW u \in Utf8State, NEW i \in Nat, NEW n \in Nat
        PROVE  Run(data, f, u, i, n)
    <3> HIDE DEF W
    <3> QED  BY <1>3, <2>2
  <2> QED  BY <2>1, <2>2
<1>5. ASSUME f = [w \in W |-> next(w)]
      PROVE  f = [w \in W |-> f[w]] /\ \A w \in W : f[w] = next(w)
  <2> HIDE DEF W
  <2> QED  BY <1>5
<1>6. ASSUME f = [w \in W |-> f[w]], \A w \in W : f[w] = next(w)
      PROVE  f = [w \in W |-> next(w)]
  <2> HIDE DEF W
  <2> QED  BY <1>6
<1> QED  BY <1>1, <1>4, <1>5, <1>6

LEMMA RunExists == ASSUME NEW data PROVE \E f : IsRun(data, f)
<1> DEFINE end(u, i, n) == CHOOSE q \in Utf8State : WalkEnd(data, u, i, n, q)
           f == [w \in Utf8State \X Nat \X Nat |-> end(w[1], w[2], w[3])]
<1>1. ASSUME NEW u \in Utf8State, NEW i \in Nat, NEW n \in Nat
      PROVE  /\ end(u, i, n) \in Utf8State /\ WalkEnd(data, u, i, n, end(u, i, n))
             /\ f[<<u, i, n>>] = end(u, i, n)
             /\ \A q : WalkEnd(data, u, i, n, q) => q = end(u, i, n)
  <2>1. /\ end(u, i, n) \in Utf8State /\ WalkEnd(data, u, i, n, end(u, i, n))
        /\ \A q : WalkEnd(data, u, i, n, q) => q = end(u, i, n)
    BY WalkEnds
  <2> HIDE DEF end
  <2>2. f[<<u, i, n>>] = end(u, i, n)
    OBVIOUS
  <2> QED  BY <2>1, <2>2
<1> HIDE DEF end
<1>2. ASSUME NEW u \in Utf8State, NEW i \in Nat, NEW n \in Nat
      PROVE  Run(data, f, u, i, n)
  <2> HIDE DEF f
  <2> USE DEF Run
  <2>1. CASE n = 0
    <3>1. u = end(u, i, n)
      BY <1>1, <2>1, WalkNowhere
    <3> QED  BY <1>1, <2>1, <3>1
  <2>2. CASE n = 1
    <3>1. WalkEnd(data, u, i, 0, u)
      BY WalkNowhere
    <3>2. WalkEnd(data, u, i, 0 + 1, utf8_parse(u, data[i + 0]))
      BY <3>1, WalkOneMore
    <3>3. WalkEnd(data, u, i, n, utf8_parse(u, data[i]))
      BY <2>2, <3>2
    <3> QED  BY <1>1, <2>2, <3>3
  <2>3. CASE n # 0 /\ n # 1
    <3>1. PICK m \in Nat, k \in Nat : m = n \div 2 /\ k = n - n \div 2 /\ n = m + k
      <4>1. n \div 2 \in Nat /\ n - n \div 2 \in Nat /\ n = n \div 2 + (n - n \div 2)
        OBVIOUS
      <4> QED  BY <4>1
    <3>2. PICK q : q = f[<<u, i, m>>]
      OBVIOUS
    <3>3. q \in Utf8State /\ WalkEnd(data, u, i, m, q)
      BY <1>1, <3>2
    <3>4. i + m \in Nat
      OBVIOUS
    <3>5. WalkEnd(data, q, i + m, k, f[<<q, i + m, k>>])
      BY <1>1, <3>3, <3>4
    <3>6. WalkEnd(data, u, i, m + k, f[<<q, i + m, k>>])
      BY <3>3, <3>5, WalksJoin
    <3>7. f[<<q, i + m, k>>] = end(u, i, n)
      <4>1. WalkEnd(data, u, i, n, f[<<q, i + m, k>>])
        BY ONLY <3>1, <3>6
      <4> QED  BY <1>1, <4>1
    <3> QED  BY <1>1, <2>3, <3>1, <3>2, <3>7
  <2> QED  BY <2>1, <2>2, <2>3
<1>3. f = [w \in Utf8State \X Nat \X Nat |-> f[w]]
  OBVIOUS
<1> HIDE DEF f
<1>4. IsRun(data, f)
  BY <1>2, <1>3, RunIs
<1> QED  BY <1>4

\* The end of a walk tracks what was read before and on the way.
LEMMA WalkTracks ==
    ASSUME NEW data \in Seq(Byte), NEW t \in Seq(Byte), NEW u, Tracks(u, t),
           NEW n \in 0..Len(data), NEW q, WalkEnd(data, u, 1, n, q)
    PROVE  Tracks(q, t \o SubSeq(data, 1, n))
<1>1. PICK g : Walk(data, u, 1, n, g) /\ g[n] = q
  BY DEF WalkEnd
<1>2. /\ g[0] = u
      /\ \A j \in 1..n : g[j] = utf8_parse(g[j - 1], data[1 + j - 1])
  BY <1>1 DEF Walk
<1> DEFINE S == {m \in Nat : m <= n => Tracks(g[m], t \o SubSeq(data, 1, m))}
<1>3. ASSUME NEW m \in Nat, \A k \in 0 .. (m - 1) : k \in S
      PROVE  m \in S
  <2>1. CASE m = 0
    <3>1. t \o SubSeq(data, 1, m) = t
      BY <2>1
    <3> QED  BY <1>2, <2>1, <3>1
  <2>2. CASE m # 0
    <3> SUFFICES ASSUME m <= n PROVE Tracks(g[m], t \o SubSeq(data, 1, m))
      OBVIOUS
    <3>1. m - 1 \in 0 .. (m - 1) /\ m - 1 <= n /\ m \in 1..n /\ 1 + m - 1 = m /\ m \in 1..Len(data)
      BY <2>2
    <3> DEFINE s == t \o SubSeq(data, 1, m - 1)
    <3>2. Tracks(g[m - 1], s)
      BY <1>3, <3>1
    <3>3. data[m] \in Byte /\ g[m] = utf8_parse(g[m - 1], data[m])
      BY <1>2, <3>1
    <3>4. SubSeq(data, 1, m - 1) \in Seq(Byte) /\ s \in Seq(Byte)
      <4>1. SubSeq(data, 1, m - 1) \in Seq(Byte)
        BY <3>1
      <4> QED  BY <4>1
    <3>5. t \o SubSeq(data, 1, m) = Append(s, data[m])
      <4>1. SubSeq(data, 1, m) = Append(SubSeq(data, 1, m - 1), data[m])
        BY <3>1
      <4>2. t \o Append(SubSeq(data, 1, m - 1), data[m]) = Append(s, data[m])
        BY <3>3, <3>4
      <4> QED  BY <4>1, <4>2
    <3> HIDE DEF s
    <3>6. Tracks(utf8_parse(g[m - 1], data[m]), Append(s, data[m]))
      BY <3>2, <3>3, <3>4, TracksByte
    <3> QED  BY <3>3, <3>5, <3>6
  <2> QED  BY <2>1, <2>2
<1>4. Nat \subseteq S
  <2> HIDE DEF S
  <2> QED  BY <1>3, StrongInduction
<1>5. n \in S
  BY <1>4
<1> QED  BY <1>1, <1>5

\* What utf8_parse_string returns tracks the string.
LEMMA ParseTracks ==
    ASSUME NEW data \in Seq(Byte), NEW t \in Seq(Byte), NEW u, Tracks(u, t)
    PROVE  Tracks(utf8_parse_string(u, data), t \o data)
<1> DEFINE f == CHOOSE g : IsRun(data, g)
<1>1. utf8_parse_string(u, data) = f[<<u, 1, Len(data)>>]
  BY DEF utf8_parse_string, IsRun
<1>2. IsRun(data, f)
  BY RunExists
<1> HIDE DEF f
<1>3. ASSUME NEW v \in Utf8State, NEW i \in Nat, NEW n \in Nat
      PROVE  /\ n = 0 => f[<<v, i, n>>] = v
             /\ n = 1 => f[<<v, i, n>>] = utf8_parse(v, data[i])
             /\ n # 0 /\ n # 1 =>
                  f[<<v, i, n>>] = f[<<f[<<v, i, n \div 2>>], i + n \div 2, n - n \div 2>>]
  <2>1. Run(data, f, v, i, n)
    BY <1>2, RunIs
  <2> QED  BY <2>1 DEF Run
<1> DEFINE S == {n \in Nat : \A v \in Utf8State : \A i \in Nat : WalkEnd(data, v, i, n, f[<<v, i, n>>])}
<1>4. ASSUME NEW n \in Nat, \A k \in 0 .. (n - 1) : k \in S
      PROVE  n \in S
  <2> SUFFICES ASSUME NEW v \in Utf8State, NEW i \in Nat
               PROVE  WalkEnd(data, v, i, n, f[<<v, i, n>>])
    OBVIOUS
  <2>1. CASE n = 0
    <3>1. f[<<v, i, n>>] = v
      BY <1>3, <2>1
    <3> QED  BY <2>1, <3>1, WalkNowhere
  <2>2. CASE n = 1
    <3>1. WalkEnd(data, v, i, 0, v)
      BY WalkNowhere
    <3>2. WalkEnd(data, v, i, 0 + 1, utf8_parse(v, data[i + 0]))
      BY <3>1, WalkOneMore
    <3>3. f[<<v, i, n>>] = utf8_parse(v, data[i])
      <4>1. Run(data, f, v, i, 1)
        BY <1>2, RunIs
      <4> QED  BY <2>2, <4>1 DEF Run
    <3>4. i + 0 = i /\ 0 + 1 = n
      BY <2>2
    <3> QED  BY <3>2, <3>3, <3>4
  <2>3. CASE n # 0 /\ n # 1
    <3>1. PICK m \in 0 .. (n - 1), k \in 0 .. (n - 1) :
             m = n \div 2 /\ k = n - n \div 2 /\ n = m + k
      <4>1. n >= 2
        BY <2>3
      <4>2. /\ n \div 2 \in 0 .. (n - 1) /\ n - n \div 2 \in 0 .. (n - 1)
            /\ n = n \div 2 + (n - n \div 2)
        BY <4>1
      <4> QED  BY <4>2
    <3>2. PICK q : q = f[<<v, i, m>>]
      OBVIOUS
    <3>3. WalkEnd(data, v, i, m, q) /\ q \in Utf8State
      BY <1>4, <3>2, WalkEnds
    <3>4. i + m \in Nat /\ m \in Nat /\ k \in Nat
      OBVIOUS
    <3>5. WalkEnd(data, q, i + m, k, f[<<q, i + m, k>>])
      BY <1>4, <3>3, <3>4
    <3>6. WalkEnd(data, v, i, m + k, f[<<q, i + m, k>>])
      BY <3>3, <3>4, <3>5, WalksJoin
    <3>7. f[<<v, i, n>>] = f[<<q, i + m, k>>]
      <4>1. f[<<v, i, n>>] = f[<<f[<<v, i, n \div 2>>], i + n \div 2, n - n \div 2>>]
        BY <1>3, <2>3
      <4> QED  BY ONLY <3>1, <3>2, <4>1
    <3> QED  BY <3>1, <3>6, <3>7
  <2> QED  BY <2>1, <2>2, <2>3
<1>5. Nat \subseteq S
  <2> HIDE DEF S
  <2> QED  BY <1>4, StrongInduction
<1>6. Len(data) \in S /\ u \in Utf8State /\ Len(data) \in 0..Len(data)
  BY <1>5 DEF Tracks
<1>7. WalkEnd(data, u, 1, Len(data), f[<<u, 1, Len(data)>>])
  BY <1>6
<1>8. SubSeq(data, 1, Len(data)) = data
  OBVIOUS
<1>9. Tracks(f[<<u, 1, Len(data)>>], t \o SubSeq(data, 1, Len(data)))
  BY <1>6, <1>7, WalkTracks
<1> QED  BY <1>1, <1>8, <1>9

\* The string that is read, and the state it leads to.
StringInv == text \in Seq(Byte) /\ Tracks(state, text)

LEMMA StringInvariant == MCSpec => []StringInv
<1>1. MCInit => StringInv
  BY TracksNothing DEF MCInit, StringInv
<1>2. StringInv /\ [MCNext]_allVars => StringInv'
  <2> SUFFICES ASSUME StringInv, [MCNext]_allVars PROVE StringInv'
    OBVIOUS
  <2>1. CASE utf8_parse_string_step
    <3>1. PICK b \in Bytes : text' = Append(text, b) /\ state' = utf8_parse(state, b)
      BY <2>1 DEF utf8_parse_string_step
    <3>2. b \in Byte
      BY MCWicAssumption
    <3>3. text' \in Seq(Byte)
      BY <3>1, <3>2 DEF StringInv
    <3>4. Tracks(utf8_parse(state, b), Append(text, b))
      BY <3>2, TracksByte DEF StringInv
    <3> QED  BY <3>1, <3>3, <3>4 DEF StringInv
  <2>2. CASE UNCHANGED stringVars
    BY <2>2 DEF stringVars, StringInv
  <2>3. utf8_parse_string_step \/ UNCHANGED stringVars
    BY DEF MCNext, allVars
  <2> QED  BY <2>1, <2>2, <2>3
<1> QED  BY <1>1, <1>2, PTL DEF MCSpec

\* Whatever bytes are read, and however many: the state is "complete"
\* exactly when they are a UTF-8 text (utf8_parse, utf8_is_complete).
THEOREM CompleteMeansText == MCSpec => []CompleteIsText
<1>1. StringInv => CompleteIsText
  BY CompleteTracks DEF StringInv, CompleteIsText
<1> QED  BY <1>1, StringInvariant, PTL

\* And "invalid" exactly when nothing that could follow makes a text of them
\* (utf8_parse, utf8_is_invalid).
THEOREM InvalidMeansHopeless == MCSpec => []InvalidIsHopeless
<1>1. StringInv => InvalidIsHopeless
  BY InvalidTracks DEF StringInv, InvalidIsHopeless
<1> QED  BY <1>1, StringInvariant, PTL

-----------------------------------------------------------------------------
(***************************************************************************)
(* What the sending half promises: the frames are those that were asked    *)
(* for, and a receiver finds no fault in them.  The invariant is           *)
(*                                                                         *)
(*     TxInv == TxTypeOK /\ SentInv /\ PeerInv                             *)
(*                                                                         *)
(* PeerAccepts alone is not inductive: that a fragment is accepted rests   *)
(* on utf8_tx being the state of the automaton after the bytes that the    *)
(* receiver has kept of the fragments before.                              *)
(***************************************************************************)

\* The last frame is the bytes of the call that made it.
SentInv == frame # <<>> =>
    /\ call \in Frames /\ call.payload = Cut(call.whole)
    /\ call.opcode = CLOSE => Len(call.whole) <= 123
    /\ frame = stream_put_frame(call)

PeerInv ==
    /\ peer.kind = frag /\ peer.ok /\ peer.part \in Seq(Byte)
    /\ IF frag = TEXT THEN Tracks(utf8_tx, peer.part) ELSE peer.part = <<>>

TxInv == TxTypeOK /\ SentInv /\ PeerInv

\* The bytes of a character that has not ended lead to the same state again.
LEMMA UnfinishedTracks ==
    ASSUME NEW s \in Seq(Byte), NEW q, Tracks(q, s), q # 1
    PROVE  Unfinished(s) \in Seq(Byte) /\ Tracks(q, Unfinished(s))
<1> DEFINE lengths == {k \in 0..3 : k <= Len(s) /\ IsText(SubSeq(s, 1, Len(s) - k))}
<1>1. PICK k \in 0..3 : Splits(s, k, q)
  BY DEF Tracks
<1>2. k \in lengths /\ \A j \in lengths : j \in 0..3
  BY <1>1 DEF Splits, Beginning
<1>3. ASSUME NEW j \in lengths PROVE k <= j
  BY <1>1, SplitLeavesLeast DEF Beginning
<1>4. (CHOOSE i \in lengths : \A j \in lengths : i <= j) = k
  <2>1. \A i \in lengths : (\A j \in lengths : i <= j) => i = k
    BY <1>2, <1>3
  <2> HIDE DEF lengths
  <2> QED  BY <1>2, <1>3, <2>1
<1>5. Unfinished(s) = SubSeq(s, Len(s) + 1 - k, Len(s))
  BY <1>2, <1>4 DEF Unfinished
<1>6. Len(s) + 1 - k = Len(s) - k + 1
  OBVIOUS
<1>7. Unfinished(s) = Ending(s, k)
  BY <1>5, <1>6 DEF Ending
<1> QED  BY <1>1, <1>7, EndingTracks

LEMMA BytesJoined ==
    ASSUME NEW s \in Seq(Byte), NEW r \in Seq(Byte)
    PROVE  s \o r \in Seq(Byte)
  BY ConcatProperties

LEMMA U16IsBytes ==
    ASSUME NEW n \in Nat
    PROVE  U16(n) \in Seq(Byte) /\ Len(U16(n)) = 2
<1>1. (n \div 256) % 256 \in Byte /\ n % 256 \in Byte
  BY DEF Byte
<1> QED  BY <1>1 DEF U16

LEMMA MaskedIsBytes ==
    ASSUME NEW s \in Seq(Byte)
    PROVE  Masked(s) \in Seq(Byte)
<1>1. ASSUME NEW i \in 1..Len(s) PROVE Xor(s[i], init_mask[((i - 1) % 4) + 1]) \in Byte
  <2>1. s[i] \in Byte
    OBVIOUS
  <2>2. PICK m \in 1..4 : m = ((i - 1) % 4) + 1
    <3>1. ((i - 1) % 4) + 1 \in 1..4
      OBVIOUS
    <3> QED  BY <3>1
  <2>3. init_mask[m] \in Byte
    <3>1. init_mask[1] = 170 /\ init_mask[2] = 170 /\ init_mask[3] = 170 /\ init_mask[4] = 170
      BY DEF init_mask
    <3>2. 170 \in Byte
      BY DEF Byte
    <3>3. m = 1 \/ m = 2 \/ m = 3 \/ m = 4
      OBVIOUS
    <3> QED  BY <3>1, <3>2, <3>3
  <2> QED  BY <2>1, <2>2, <2>3, XorByte
<1>2. Masked(s) \in [1 .. Len(s) -> Byte] /\ Len(s) \in Nat
  BY <1>1 DEF Masked
<1> QED  BY <1>2

\* What is written are bytes.
LEMMA FrameIsBytes ==
    ASSUME NEW f \in Frames
    PROVE  stream_put_frame(f) \in Seq(Byte)
<1>1. PICK first : first = <<(IF f.fin THEN 128 ELSE 0) + f.opcode>>
  OBVIOUS
<1>2. PICK size : size = SizeField(PayloadSize(f))
  OBVIOUS
<1>3. PICK code : code = IF f.opcode = CLOSE THEN U16(f.code) ELSE <<>>
  OBVIOUS
<1>4. first \in Seq(Byte)
  <2>1. f.opcode \in 0..10 /\ f.fin \in BOOLEAN
    BY DEF Frames, Opcodes, CONTINUE, TEXT, BINARY, CLOSE, PING, PONG
  <2>2. (IF f.fin THEN 128 ELSE 0) + f.opcode \in Byte
    BY <2>1 DEF Byte
  <2> QED  BY <1>1, <2>2
<1>5. size \in Seq(Byte)
  <2>1. PICK n \in Nat : n = PayloadSize(f)
    BY <1>3, BodyLength
  <2>2. CASE n <= 125
    <3>1. 128 + n \in Byte
      BY <2>2 DEF Byte
    <3> QED  BY <1>2, <2>1, <2>2, <3>1 DEF SizeField
  <2>3. CASE ~(n <= 125)
    <3>1. <<128 + 126>> \in Seq(Byte)
      BY DEF Byte
    <3>2. size = <<128 + 126>> \o U16(n)
      BY <1>2, <2>1, <2>3 DEF SizeField
    <3> QED  BY <3>1, <3>2, U16IsBytes, BytesJoined
  <2> QED  BY <2>2, <2>3
<1>6. init_mask \in Seq(Byte)
  BY DEF init_mask, Byte
<1>7. Masked(code \o f.payload) \in Seq(Byte)
  <2>1. code \in Seq(Byte) /\ f.payload \in Seq(Byte)
    <3>1. f.code \in Nat /\ f.payload \in Seq(Byte)
      BY DEF Frames
    <3> QED  BY <1>3, <3>1, U16IsBytes
  <2>2. code \o f.payload \in Seq(Byte)
    BY <2>1, BytesJoined
  <2> QED  BY <2>2, MaskedIsBytes
<1>8. stream_put_frame(f) = first \o size \o init_mask \o Masked(code \o f.payload)
  BY <1>1, <1>2, <1>3 DEF stream_put_frame
<1>9. first \o size \o init_mask \o Masked(code \o f.payload) \in Seq(Byte)
  <2>1. first \o size \in Seq(Byte)
    BY ONLY <1>4, <1>5, BytesJoined
  <2>2. (first \o size) \o init_mask \in Seq(Byte)
    BY ONLY <1>6, <2>1, BytesJoined
  <2> QED  BY ONLY <1>7, <2>2, BytesJoined
<1> QED  BY <1>8, <1>9

\* A frame that a caller could ask for, and its layout in RFC 6455.
Asked(f) ==
    [opcode |-> f.opcode, fin |-> f.fin, rsv |-> 0,
     form |-> IF PayloadSize(f) <= 125 THEN "short" ELSE "16",
     mask |-> init_mask,
     payload |-> (IF f.opcode = CLOSE THEN U16(f.code) ELSE <<>>) \o f.whole]

LEMMA CutOfAll ==
    ASSUME NEW s \in Seq(Byte), Len(s) < SizeModulus
    PROVE  Cut(s) = s
<1>1. Len(s) \in Nat /\ SizeModulus \in Nat \ {0}
  BY WicTxAssumption
<1>2. \A n, m \in Nat : n < m => n % m = n
  OBVIOUS
<1>3. Len(s) % SizeModulus = Len(s)
  BY <1>1, <1>2
<1>4. SubSeq(s, 1, Len(s)) = s
  OBVIOUS
<1> QED  BY <1>3, <1>4 DEF Cut

LEMMA ThreeInARow ==
    ASSUME NEW x, NEW y, NEW z
    PROVE  <<x>> \o <<y, z>> = <<x, y, z>>
<1> DEFINE S == {x, y, z}
           t == <<x>> \o <<y, z>>
<1>1. <<x>> \in Seq(S) /\ <<y, z>> \in Seq(S) /\ Len(<<x>>) = 1 /\ Len(<<y, z>>) = 2
  OBVIOUS
<1>2. /\ t \in Seq(S) /\ Len(t) = 3
      /\ t[1] = x /\ t[2] = y /\ t[3] = z
  <2> HIDE DEF S
  <2>1. /\ t \in Seq(S) /\ Len(t) = 1 + 2
        /\ \A i \in 1..(1 + 2) : t[i] = IF i <= 1 THEN <<x>>[i] ELSE <<y, z>>[i - 1]
    BY <1>1, ConcatProperties
  <2>2. 1 \in 1..(1 + 2) /\ 2 \in 1..(1 + 2) /\ 3 \in 1..(1 + 2)
    OBVIOUS
  <2>3. <<x>>[1] = x /\ <<y, z>>[2 - 1] = y /\ <<y, z>>[3 - 1] = z
    OBVIOUS
  <2> HIDE DEF t
  <2> QED  BY <2>1, <2>2, <2>3
<1> HIDE DEF t
<1>3. t = <<x, y, z>>
  BY <1>2
<1> QED  BY <1>3 DEF t

LEMMA FrameAsAsked ==
    ASSUME NEW f \in Frames, f.payload = Cut(f.whole), Len(f.whole) < SizeModulus,
           f.opcode = CLOSE => Len(f.whole) <= 123
    PROVE  stream_put_frame(f) = FrameBytes(Asked(f))
<1>1. PICK body : body = (IF f.opcode = CLOSE THEN U16(f.code) ELSE <<>>) \o f.payload
  OBVIOUS
<1>2. f.payload = f.whole
  <2>1. f.whole \in Seq(Byte)
    BY DEF Frames
  <2> QED  BY <2>1, CutOfAll
<1>3. PICK n \in Nat : n = PayloadSize(f) /\ n = Len(body) /\ body \in Seq(Int)
  <2>1. PICK code : code = IF f.opcode = CLOSE THEN U16(f.code) ELSE <<>>
    OBVIOUS
  <2> QED  BY <1>1, <2>1, BodyLength
<1>4. n < 65536
  <2>1. Len(f.whole) \in Nat /\ Len(f.whole) < 65536 /\ (f.opcode = CLOSE => Len(f.whole) <= 123)
    <3>1. f.whole \in Seq(Byte)
      BY DEF Frames
    <3>2. SizeModulus \in Nat /\ SizeModulus <= 65536
      BY WicTxAssumption
    <3>3. Len(f.whole) \in Nat
      BY <3>1
    <3> QED  BY <3>2, <3>3
  <2>2. n = Len(f.whole) + (IF f.opcode = CLOSE THEN 2 ELSE 0)
    BY <1>2, <1>3 DEF PayloadSize
  <2>3. CASE f.opcode = CLOSE
    BY <2>1, <2>2, <2>3
  <2>4. CASE f.opcode # CLOSE
    BY <2>1, <2>2, <2>4
  <2> QED  BY <2>3, <2>4
<1> DEFINE g == Asked(f)
<1>5. /\ g.opcode = f.opcode /\ g.fin = f.fin /\ g.rsv = 0 /\ g.mask = init_mask
      /\ g.form = IF n <= 125 THEN "short" ELSE "16"
      /\ g.payload = body
  BY <1>1, <1>2, <1>3 DEF Asked
<1> HIDE DEF g
<1>6. SizeBytes(g) = SizeField(n)
  <2>1. init_mask # <<>> /\ Len(g.payload) = n
    BY <1>3, <1>5 DEF init_mask
  <2>2. CASE n <= 125
    BY <1>5, <2>1, <2>2 DEF SizeBytes, SizeField
  <2>3. CASE ~(n <= 125)
    <3>1. n \div 256 < 256
      BY <1>4
    <3>2. (n \div 256) % 256 = n \div 256
      BY <3>1
    <3>3. SizeField(n) = <<128 + 126>> \o <<n \div 256, n % 256>>
      BY <2>3, <3>2 DEF SizeField, U16
    <3>4. SizeBytes(g) = <<128 + 126, n \div 256, n % 256>>
      BY <1>5, <2>1, <2>3 DEF SizeBytes
    <3> QED  BY <3>3, <3>4, ThreeInARow
  <2> QED  BY <2>2, <2>3
<1>7. Masked(body) = [i \in 1..Len(g.payload) |->
                        IF g.mask = <<>> THEN g.payload[i]
                        ELSE Xor(g.payload[i], g.mask[((i - 1) % 4) + 1])]
  <2>1. init_mask # <<>>
    BY DEF init_mask
  <2> QED  BY <1>5, <2>1 DEF Masked
<1>8. (IF g.fin THEN 128 ELSE 0) + 16 * g.rsv + g.opcode = (IF f.fin THEN 128 ELSE 0) + f.opcode
  <2>1. f.opcode \in Int
    BY DEF Frames, Opcodes, CONTINUE, TEXT, BINARY, CLOSE, PING, PONG
  <2> QED  BY <1>5, <2>1
<1>9. stream_put_frame(f)
        = <<(IF f.fin THEN 128 ELSE 0) + f.opcode>> \o SizeField(n) \o init_mask \o Masked(body)
  BY <1>1, <1>3 DEF stream_put_frame
<1>10. FrameBytes(g)
        = <<(IF g.fin THEN 128 ELSE 0) + 16 * g.rsv + g.opcode>> \o SizeBytes(g) \o g.mask
          \o [i \in 1..Len(g.payload) |->
                        IF g.mask = <<>> THEN g.payload[i]
                        ELSE Xor(g.payload[i], g.mask[((i - 1) % 4) + 1])]
  BY ONLY DEF FrameBytes
<1>11. g.mask = init_mask
  BY <1>5
<1>12. stream_put_frame(f) = FrameBytes(g)
  BY ONLY <1>6, <1>7, <1>8, <1>9, <1>10, <1>11
<1> QED  BY <1>12 DEF g

-----------------------------------------------------------------------------
\* What the calls have in common keeps the invariant.

\* What a call makes a frame of.
Made(f) == /\ f \in Frames /\ f.payload = Cut(f.whole)
           /\ f.opcode = CLOSE => Len(f.whole) <= 123

LEMMA MadeByCalls ==
    ASSUME NEW op \in Opcodes, NEW fin \in BOOLEAN, NEW code \in Nat,
           NEW data \in Seq(Byte), op = CLOSE => Len(data) <= 123
    PROVE  /\ Made(TxFrame(op, fin, code, data))
           /\ TxFrame(op, fin, code, data).opcode = op /\ TxFrame(op, fin, code, data).fin = fin
  BY FramesOfCalls DEF Made, TxFrame

LEMMA RefusedInv ==
    ASSUME TxInv, NEW f, NEW why, Refused(f, why),
           why \in {"SUCCESS", "NOT_OPEN", "BAD_STATE", "BAD_INPUT", "TOO_LARGE", "WOULD_BLOCK"},
           tx_state' \in {"READY", "OPEN", "CLOSED"}, calls' \in 0..MaxCalls
    PROVE  TxInv'
<1>1. TxTypeOK'
  BY DEF TxInv, TxTypeOK, Refused
<1>2. SentInv'
  BY DEF SentInv, Refused
<1>3. PeerInv'
  BY DEF TxInv, PeerInv, Refused
<1> QED  BY <1>1, <1>2, <1>3 DEF TxInv

LEMMA NotBufferedInv ==
    ASSUME TxInv, NEW f, Made(f), NotOpen(f) \/ NoBuffer(f),
           tx_state' \in {"READY", "OPEN", "CLOSED"}, calls' \in 0..MaxCalls
    PROVE  TxInv'
<1>1. CASE NotOpen(f)
  BY <1>1, RefusedInv DEF NotOpen
<1>2. CASE NoBuffer(f)
  <2>1. PutStatus(f) \in {"SUCCESS", "TOO_LARGE"}
    BY PutFits DEF Made
  <2> QED  BY <1>2, <2>1, RefusedInv DEF NoBuffer
<1> QED  BY <1>1, <1>2

LEMMA WrittenInv ==
    ASSUME NEW f, Made(f), Written(f)
    PROVE  SentInv' /\ frame' \in Seq(Byte) /\ status' = "SUCCESS"
<1>1. frame' = stream_put_frame(f) /\ call' = f /\ status' = "SUCCESS"
  BY DEF Written
<1>2. stream_put_frame(f) \in Seq(Byte)
  BY FrameIsBytes DEF Made
<1>3. SentInv'
  <2> SUFFICES /\ call' \in Frames /\ call'.payload = Cut(call'.whole)
               /\ call'.opcode = CLOSE => Len(call'.whole) <= 123
               /\ frame' = stream_put_frame(call')
    BY DEF SentInv, stream_put_frame, PayloadSize, SizeField, Masked, init_mask
  <2> QED  BY <1>1 DEF Made
<1> QED  BY <1>1, <1>2, <1>3

LEMMA WrittenControlInv ==
    ASSUME TxInv, NEW f, Made(f), WrittenControl(f),
           tx_state' \in {"READY", "OPEN", "CLOSED"}, calls' \in 0..MaxCalls
    PROVE  TxInv'
<1>1. SentInv' /\ frame' \in Seq(Byte) /\ status' = "SUCCESS"
  BY WrittenInv DEF WrittenControl
<1>2. TxTypeOK'
  BY <1>1 DEF TxInv, TxTypeOK, WrittenControl
<1>3. PeerInv'
  BY DEF TxInv, PeerInv, WrittenControl
<1> QED  BY <1>1, <1>2, <1>3 DEF TxInv

\* A fragment of a text, which leads from the state q before it to u.
LEMMA WrittenTextInv ==
    ASSUME TxInv, frag # BINARY, NEW f, Made(f), f.opcode = Opcode(TEXT), f.fin \in BOOLEAN,
           NEW u, u = utf8_parse_string(IF frag = CONTINUE THEN 0 ELSE utf8_tx, f.payload),
           u # 1, f.fin => u = 0, WrittenData(f, TEXT, u),
           tx_state' \in {"READY", "OPEN", "CLOSED"}, calls' \in 0..MaxCalls
    PROVE  TxInv'
<1>1. SentInv' /\ frame' \in Seq(Byte) /\ status' = "SUCCESS"
  BY WrittenInv DEF WrittenData
<1>2. frag \in {CONTINUE, TEXT} /\ peer.kind = frag /\ peer.ok /\ peer.part \in Seq(Byte)
  BY DEF TxInv, TxTypeOK, PeerInv
<1>3. KindFor(f) = TEXT /\ (f.opcode = CONTINUE <=> peer.kind # CONTINUE)
  BY <1>2 DEF KindFor, Opcode, CONTINUE, TEXT
<1> DEFINE soFar == peer.part \o f.payload
<1>4. f.payload \in Seq(Byte)
  BY DEF Made, Frames
<1>5. soFar \in Seq(Byte)
  BY <1>2, <1>4, BytesJoined
<1>6. Tracks(u, soFar)
  <2>1. Tracks(IF frag = CONTINUE THEN 0 ELSE utf8_tx, peer.part)
    <3>1. CASE frag = CONTINUE
      BY <3>1, TracksNothing DEF TxInv, PeerInv, CONTINUE, TEXT
    <3>2. CASE frag = TEXT
      BY <3>2 DEF TxInv, PeerInv, CONTINUE, TEXT
    <3> QED  BY <1>2, <3>1, <3>2
  <2> QED  BY <1>2, <1>4, <2>1, ParseTracks
<1> HIDE DEF soFar
<1>7. f.fin => IsText(soFar)
  BY <1>5, <1>6, CompleteTracks DEF utf8_is_complete
<1>8. StartsText(soFar)
  BY <1>5, <1>6, InvalidTracks DEF utf8_is_invalid
<1>9. Unfinished(soFar) \in Seq(Byte) /\ Tracks(u, Unfinished(soFar))
  BY <1>5, <1>6, UnfinishedTracks
<1>10. /\ peer' = [kind |-> IF f.fin THEN CONTINUE ELSE KindFor(f),
                   part |-> IF KindFor(f) = TEXT /\ ~f.fin THEN Unfinished(soFar) ELSE <<>>,
                   ok   |-> /\ peer.ok
                            /\ f.opcode = CONTINUE <=> peer.kind # CONTINUE
                            /\ KindFor(f) = TEXT => IF f.fin THEN IsText(soFar)
                                                    ELSE StartsText(soFar)]
       /\ frag' = IF f.fin THEN CONTINUE ELSE TEXT
       /\ utf8_tx' = u
  BY DEF WrittenData, PeerTakes, soFar
<1>11. /\ peer'.kind = frag'
       /\ peer'.part = IF f.fin THEN <<>> ELSE Unfinished(soFar)
       /\ peer'.ok
  <2>1. /\ peer'.kind = (IF f.fin THEN CONTINUE ELSE KindFor(f))
        /\ peer'.part = (IF KindFor(f) = TEXT /\ ~f.fin THEN Unfinished(soFar) ELSE <<>>)
        /\ peer'.ok = (/\ peer.ok
                       /\ f.opcode = CONTINUE <=> peer.kind # CONTINUE
                       /\ KindFor(f) = TEXT => IF f.fin THEN IsText(soFar) ELSE StartsText(soFar))
    BY <1>10
  <2> QED  BY <1>2, <1>3, <1>7, <1>8, <1>10, <2>1
<1>12. PeerInv'
  <2>1. CASE f.fin
    BY <1>10, <1>11, <2>1 DEF PeerInv, CONTINUE, TEXT
  <2>2. CASE ~f.fin
    BY <1>9, <1>10, <1>11, <2>2 DEF PeerInv, CONTINUE, TEXT
  <2> QED  BY <2>1, <2>2
<1>13. TxTypeOK'
  <2>1. u \in Utf8State \ {1}
    BY <1>6 DEF Tracks
  <2>2. frag' \in {CONTINUE, TEXT, BINARY}
    BY <1>10
  <2> QED  BY <1>1, <1>10, <2>1, <2>2 DEF TxTypeOK
<1> QED  BY <1>1, <1>12, <1>13 DEF TxInv

LEMMA WrittenBinaryInv ==
    ASSUME TxInv, frag # TEXT, NEW f, Made(f), f.opcode = Opcode(BINARY), f.fin \in BOOLEAN,
           WrittenData(f, BINARY, utf8_tx),
           tx_state' \in {"READY", "OPEN", "CLOSED"}, calls' \in 0..MaxCalls
    PROVE  TxInv'
<1>1. SentInv' /\ frame' \in Seq(Byte) /\ status' = "SUCCESS"
  BY WrittenInv DEF WrittenData
<1>2. frag \in {CONTINUE, BINARY} /\ peer.kind = frag /\ peer.ok
  BY DEF TxInv, TxTypeOK, PeerInv
<1>3. KindFor(f) = BINARY /\ (f.opcode = CONTINUE <=> peer.kind # CONTINUE)
  BY <1>2 DEF KindFor, Opcode, CONTINUE, BINARY
<1> DEFINE soFar == peer.part \o f.payload
<1>4. /\ peer' = [kind |-> IF f.fin THEN CONTINUE ELSE KindFor(f),
                  part |-> IF KindFor(f) = TEXT /\ ~f.fin THEN Unfinished(soFar) ELSE <<>>,
                  ok   |-> /\ peer.ok
                           /\ f.opcode = CONTINUE <=> peer.kind # CONTINUE
                           /\ KindFor(f) = TEXT => IF f.fin THEN IsText(soFar)
                                                   ELSE StartsText(soFar)]
      /\ frag' = IF f.fin THEN CONTINUE ELSE BINARY
      /\ utf8_tx' = utf8_tx
  BY DEF WrittenData, PeerTakes
<1> HIDE DEF soFar
<1>5. BINARY # TEXT /\ CONTINUE # TEXT
  BY DEF CONTINUE, TEXT, BINARY
<1>6. peer'.kind = frag' /\ peer'.part = <<>> /\ peer'.ok
  <2>1. /\ peer'.kind = (IF f.fin THEN CONTINUE ELSE KindFor(f))
        /\ peer'.part = (IF KindFor(f) = TEXT /\ ~f.fin THEN Unfinished(soFar) ELSE <<>>)
        /\ peer'.ok = (/\ peer.ok
                       /\ f.opcode = CONTINUE <=> peer.kind # CONTINUE
                       /\ KindFor(f) = TEXT => IF f.fin THEN IsText(soFar) ELSE StartsText(soFar))
    BY <1>4
  <2> QED  BY <1>2, <1>3, <1>4, <1>5, <2>1
<1>7. PeerInv'
  <2>1. frag' # TEXT
    BY <1>4, <1>5
  <2>2. <<>> \in Seq(Byte)
    OBVIOUS
  <2> QED  BY <1>6, <2>1, <2>2 DEF PeerInv
<1>8. TxTypeOK'
  <2>1. frag' \in {CONTINUE, TEXT, BINARY}
    BY <1>4
  <2> QED  BY <1>1, <1>4, <2>1 DEF TxTypeOK, TxInv
<1> QED  BY <1>1, <1>7, <1>8 DEF TxInv

-----------------------------------------------------------------------------
\* The calls.

LEMMA CalledInv ==
    ASSUME TxInv, Called
    PROVE  calls' \in 0..MaxCalls
<1>1. calls \in 0..MaxCalls /\ MaxCalls \in Nat
  BY WicTxAssumption DEF TxInv, TxTypeOK
<1> QED  BY <1>1 DEF Called

LEMMA StatesOfCalls ==
    ASSUME TxInv
    PROVE  /\ allowed_to_send => tx_state' \in {"READY", "OPEN", "CLOSED"}
           /\ \A f : NotOpen(f) => tx_state' \in {"READY", "OPEN", "CLOSED"}
<1>1. allowed_to_send => tx_state' \in {"READY", "OPEN", "CLOSED"}
  BY DEF allowed_to_send
<1>2. \A f : NotOpen(f) => tx_state' \in {"READY", "OPEN", "CLOSED"}
  BY DEF NotOpen
<1> QED  BY <1>1, <1>2

LEMMA SendTextInv ==
    ASSUME TxInv, NEW fin \in BOOLEAN, NEW data \in Payloads, wic_send_text(fin, data)
    PROVE  TxInv'
<1>1. PICK f : f = TxFrame(Opcode(TEXT), fin, 0, data)
  OBVIOUS
<1>2. PICK u : u = utf8_parse_string(IF frag = CONTINUE THEN 0 ELSE utf8_tx, f.payload)
  OBVIOUS
<1>3. Made(f) /\ f.opcode = Opcode(TEXT) /\ f.fin = fin
  <2>1. Opcode(TEXT) \in Opcodes /\ Opcode(TEXT) # CLOSE
    BY OpcodesOfCalls DEF Opcode, TEXT, CLOSE, CONTINUE
  <2>2. data \in Seq(Byte) /\ 0 \in Nat
    BY WicTxAssumption
  <2> QED  BY <1>1, <2>1, <2>2, MadeByCalls
<1>4. calls' \in 0..MaxCalls
  BY CalledInv DEF wic_send_text
<1>5. \/ NotOpen(f)
      \/ allowed_to_send /\ frag = BINARY /\ Refused(f, "BAD_STATE")
      \/ allowed_to_send /\ Refused(f, "BAD_INPUT")
      \/ allowed_to_send /\ NoBuffer(f)
      \/ /\ allowed_to_send /\ frag # BINARY /\ ~utf8_is_invalid(u)
         /\ fin => utf8_is_complete(u)
         /\ WrittenData(f, TEXT, u)
  BY ONLY <1>1, <1>2, wic_send_text(fin, data), Zenon DEF wic_send_text
<1>6. CASE NotOpen(f)
  BY <1>3, <1>4, <1>6, NotBufferedInv, StatesOfCalls
<1>7. CASE allowed_to_send /\ frag = BINARY /\ Refused(f, "BAD_STATE")
  BY <1>4, <1>7, RefusedInv, StatesOfCalls
<1>8. CASE allowed_to_send /\ Refused(f, "BAD_INPUT")
  BY <1>4, <1>8, RefusedInv, StatesOfCalls
<1>9. CASE allowed_to_send /\ NoBuffer(f)
  BY <1>3, <1>4, <1>9, NotBufferedInv, StatesOfCalls
<1>10. CASE /\ allowed_to_send /\ frag # BINARY /\ ~utf8_is_invalid(u)
            /\ fin => utf8_is_complete(u)
            /\ WrittenData(f, TEXT, u)
  <2>1. u # 1 /\ (f.fin => u = 0)
    BY <1>3, <1>10 DEF utf8_is_invalid, utf8_is_complete
  <2> QED  BY <1>2, <1>3, <1>4, <1>10, <2>1, WrittenTextInv, StatesOfCalls
<1> QED  BY <1>5, <1>6, <1>7, <1>8, <1>9, <1>10

LEMMA SendBinaryInv ==
    ASSUME TxInv, NEW fin \in BOOLEAN, NEW data \in Payloads, wic_send_binary(fin, data)
    PROVE  TxInv'
<1>1. PICK f : f = TxFrame(Opcode(BINARY), fin, 0, data)
  OBVIOUS
<1>2. Made(f) /\ f.opcode = Opcode(BINARY) /\ f.fin = fin
  <2>1. Opcode(BINARY) \in Opcodes /\ Opcode(BINARY) # CLOSE
    BY OpcodesOfCalls DEF Opcode, BINARY, CLOSE, CONTINUE
  <2>2. data \in Seq(Byte) /\ 0 \in Nat
    BY WicTxAssumption
  <2> QED  BY <1>1, <2>1, <2>2, MadeByCalls
<1>3. calls' \in 0..MaxCalls
  BY CalledInv DEF wic_send_binary
<1>4. \/ NotOpen(f)
      \/ allowed_to_send /\ Refused(f, "BAD_STATE")
      \/ allowed_to_send /\ NoBuffer(f)
      \/ allowed_to_send /\ frag # TEXT /\ WrittenData(f, BINARY, utf8_tx)
  BY ONLY <1>1, wic_send_binary(fin, data), Zenon DEF wic_send_binary
<1>5. CASE NotOpen(f)
  BY <1>2, <1>3, <1>5, NotBufferedInv, StatesOfCalls
<1>6. CASE allowed_to_send /\ Refused(f, "BAD_STATE")
  BY <1>3, <1>6, RefusedInv, StatesOfCalls
<1>7. CASE allowed_to_send /\ NoBuffer(f)
  BY <1>2, <1>3, <1>7, NotBufferedInv, StatesOfCalls
<1>8. CASE allowed_to_send /\ frag # TEXT /\ WrittenData(f, BINARY, utf8_tx)
  BY <1>2, <1>3, <1>8, WrittenBinaryInv, StatesOfCalls
<1> QED  BY <1>4, <1>5, <1>6, <1>7, <1>8

LEMMA SendControlInv ==
    ASSUME TxInv, NEW op \in {PING, PONG}, NEW data \in ControlPayloads, SendControl(op, data)
    PROVE  TxInv'
<1>1. PICK f : f = TxFrame(op, TRUE, 0, data)
  OBVIOUS
<1>2. Made(f)
  <2>1. op \in Opcodes /\ op # CLOSE
    BY DEF Opcodes, PING, PONG, CLOSE
  <2>2. data \in Seq(Byte) /\ 0 \in Nat
    BY WicTxAssumption
  <2> QED  BY <1>1, <2>1, <2>2, MadeByCalls
<1>3. calls' \in 0..MaxCalls
  BY CalledInv DEF SendControl
<1>4. NotOpen(f) \/ (allowed_to_send /\ NoBuffer(f)) \/ (allowed_to_send /\ WrittenControl(f))
  BY ONLY <1>1, SendControl(op, data), Zenon DEF SendControl
<1>5. CASE NotOpen(f)
  BY <1>2, <1>3, <1>5, NotBufferedInv, StatesOfCalls
<1>6. CASE allowed_to_send /\ NoBuffer(f)
  BY <1>2, <1>3, <1>6, NotBufferedInv, StatesOfCalls
<1>7. CASE allowed_to_send /\ WrittenControl(f)
  BY <1>2, <1>3, <1>7, WrittenControlInv, StatesOfCalls
<1> QED  BY <1>4, <1>5, <1>6, <1>7

LEMMA CloseInv ==
    ASSUME TxInv, NEW code \in Codes, NEW reason \in ControlPayloads,
           wic_close_with_reason(code, reason)
    PROVE  TxInv'
<1>1. PICK data : data = IF utf8_is_complete(utf8_parse_string(0, Cut(reason)))
                         THEN reason ELSE <<>>
  OBVIOUS
<1>2. PICK f : f = TxFrame(CLOSE, TRUE, code, data)
  OBVIOUS
<1>3. Made(f)
  <2>1. reason \in Seq(Byte) /\ Len(reason) <= 123 /\ code \in Nat
    BY WicTxAssumption
  <2>2. data \in Seq(Byte) /\ Len(data) <= 123
    BY <1>1, <2>1
  <2>3. CLOSE \in Opcodes
    BY OpcodesOfCalls
  <2> QED  BY <1>2, <2>1, <2>2, <2>3, MadeByCalls
<1>4. calls' \in 0..MaxCalls /\ tx_state' \in {"READY", "OPEN", "CLOSED"}
  BY CalledInv DEF wic_close_with_reason
<1>5. Refused(f, status) \/ NoBuffer(f) \/ WrittenControl(f)
  BY ONLY <1>1, <1>2, wic_close_with_reason(code, reason), Zenon DEF wic_close_with_reason
<1>6. CASE Refused(f, status)
  BY <1>4, <1>6, RefusedInv DEF TxInv, TxTypeOK
<1>7. CASE NoBuffer(f)
  BY <1>3, <1>4, <1>7, NotBufferedInv
<1>8. CASE WrittenControl(f)
  BY <1>3, <1>4, <1>8, WrittenControlInv
<1> QED  BY <1>5, <1>6, <1>7, <1>8

LEMMA TxInvStep ==
    ASSUME TxInv, [TxNext]_txVars
    PROVE  TxInv'
<1>1. CASE UNCHANGED txVars
  <2>1. TxTypeOK'
    BY <1>1 DEF TxInv, TxTypeOK, txVars
  <2>2. SentInv'
    BY <1>1 DEF TxInv, SentInv, txVars
  <2>3. PeerInv'
    BY <1>1 DEF TxInv, PeerInv, txVars
  <2> QED  BY <2>1, <2>2, <2>3 DEF TxInv
<1>2. CASE TxNext
  BY <1>2, SendTextInv, SendBinaryInv, SendControlInv, CloseInv
     DEF TxNext, wic_send_ping_with_payload, send_pong_with_payload
<1> QED  BY <1>1, <1>2

\* The invariant holds in every state, whatever is called in whatever order
\* (wic_send_text, wic_send_binary, the control frames and the close).
THEOREM TxInvariant == TxSpec => []TxInv
<1>1. TxInit => TxInv
  <2>1. ASSUME TxInit PROVE TxTypeOK
    <3>1. 0 \in Utf8State \ {1} /\ <<>> \in Seq(Byte) /\ 0 \in 0..MaxCalls
      BY WicTxAssumption DEF Utf8State
    <3> QED  BY <2>1, <3>1 DEF TxInit, TxTypeOK
  <2>2. TxInit => SentInv
    BY DEF TxInit, SentInv
  <2>3. ASSUME TxInit PROVE PeerInv
    <3>1. frag = CONTINUE /\ peer = [kind |-> CONTINUE, part |-> <<>>, ok |-> TRUE]
      BY <2>3 DEF TxInit
    <3>2. <<>> \in Seq(Byte) /\ CONTINUE # TEXT
      BY DEF CONTINUE, TEXT
    <3> QED  BY <3>1, <3>2 DEF PeerInv
  <2> QED  BY <2>1, <2>2, <2>3 DEF TxInv
<1>2. TxInv /\ [TxNext]_txVars => TxInv'
  BY TxInvStep
<1> QED  BY <1>1, <1>2, PTL DEF TxSpec

\* Type correctness: what is given to on_send are bytes, and the state of the
\* automaton that is kept for the next fragment is never "invalid".
THEOREM TxTypes == TxSpec => []TxTypeOK
<1>1. TxInv => TxTypeOK
  BY DEF TxInv
<1> QED  BY <1>1, TxInvariant, PTL

\* Every frame is the one of RFC 6455 for what the caller gave, if its size
\* is one that uint16_t can say (stream_put_frame).
THEOREM FramesAreAsAsked == TxSpec => []WrittenAsAsked
<1>1. TxInv => WrittenAsAsked
  <2> SUFFICES ASSUME TxInv, frame # <<>>, Len(call.whole) < SizeModulus
               PROVE  frame = FrameBytes(Asked(call))
    BY DEF WrittenAsAsked, Asked
  <2>1. /\ call \in Frames /\ call.payload = Cut(call.whole)
        /\ call.opcode = CLOSE => Len(call.whole) <= 123
        /\ frame = stream_put_frame(call)
    BY DEF TxInv, SentInv
  <2> QED  BY <2>1, FrameAsAsked
<1> QED  BY <1>1, TxInvariant, PTL

\* And a receiver finds no fault in the frames, however texts and binary data
\* are fragmented and whatever comes between the fragments (wic_send_text,
\* wic_send_binary, utf8_parse_string).
THEOREM ThePeerAccepts == TxSpec => []PeerAccepts
<1>1. TxInv => PeerAccepts
  BY DEF TxInv, PeerInv, PeerAccepts
<1> QED  BY <1>1, TxInvariant, PTL

=============================================================================
