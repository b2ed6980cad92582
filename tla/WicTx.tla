------------------------------- MODULE WicTx -------------------------------
(***************************************************************************)
(* The sending half of wic.c, in the client role: wic_send_text and the    *)
(* other calls that write a frame, min_frame_size, stream_put_frame and    *)
(* the buffer of on_buffer_handler.  One step is one call.  (The races of  *)
(* several callers are in ObsWs.)                                          *)
(*                                                                         *)
(* libobsws.c sends whole texts; the calls that send binary data, pings    *)
(* and fragments are the same library's, and are here because they share   *)
(* `frag` and `utf8_tx` with it.                                           *)
(***************************************************************************)
EXTENDS Integers, Sequences, Utf8, Utf8Text, WsFrames

CONSTANTS
    Payloads,       \* what may be sent
    ControlPayloads,\* what a ping, a pong or the reason of a close may be
    Codes,          \* of a close frame
    TxMax,          \* size of the transmit buffer (16384 in on_buffer_handler)
    SizeModulus,    \* sizes are uint16_t: 65536
    MaxCalls        \* bound

ASSUME WicTxAssumption ==
    /\ Payloads \subseteq Seq(Byte) /\ Codes \subseteq {c \in Nat : c < 65536}
    /\ ControlPayloads \subseteq {p \in Seq(Byte) : Len(p) <= 123}
    /\ TxMax \in Nat /\ SizeModulus \in Nat \ {0} /\ SizeModulus <= 65536
    /\ MaxCalls \in Nat

VARIABLES
    tx_state,   \* wic_inst.state: the handshake has been done
    frag,       \* the opcode of the message being sent, CONTINUE if none
    utf8_tx,    \* the UTF-8 state after its last fragment
    frame,      \* what the last call gave to on_send
    status,     \* what it, or stream_put_frame, returned
    call,       \* history: its frame as it was asked for
    peer,       \* history: what a receiver has made of the frames so far: the
                \* message it is in, the character it is in, and whether all
                \* was legal
    calls       \* bound

txVars == <<tx_state, frag, utf8_tx, frame, status, call, peer, calls>>

\* wic_tx_frame, without the flags that are never set.  `whole` is what the
\* caller gave, and `payload` what uint16_t leaves of it.
Cut(data) == SubSeq(data, 1, Len(data) % SizeModulus)
TxFrame(opcode, fin, code, data) ==
    [opcode |-> opcode, fin |-> fin, code |-> code, payload |-> Cut(data), whole |-> data]

\* init_mask: obs_ws_main gives wic no random numbers.
init_mask == <<170, 170, 170, 170>>

PayloadSize(f) == Len(f.payload) + (IF f.opcode = CLOSE THEN 2 ELSE 0)

\* Variant: the mask is not counted.
MinFrameSizeUnmasked(f) == PayloadSize(f) + (IF PayloadSize(f) > 125 THEN 2 ELSE 0) + 2

min_frame_size(f) == PayloadSize(f) + (IF PayloadSize(f) > 125 THEN 2 ELSE 0) + 2 + 4

\* What stream_put_u16 writes of a number.
U16(n) == <<(n \div 256) % 256, n % 256>>

\* Variant: the short form is used up to 126.
SizeFieldShort(n) == IF n <= 126 THEN <<128 + n>> ELSE <<128 + 126>> \o U16(n)

SizeField(n) == IF n <= 125 THEN <<128 + n>> ELSE <<128 + 126>> \o U16(n)

Masked(bytes) == [i \in 1..Len(bytes) |-> Xor(bytes[i], init_mask[((i - 1) % 4) + 1])]

\* The bytes stream_put_frame writes.
stream_put_frame(f) ==
    <<(IF f.fin THEN 128 ELSE 0) + f.opcode>> \o SizeField(PayloadSize(f)) \o init_mask
    \o Masked((IF f.opcode = CLOSE THEN U16(f.code) ELSE <<>>) \o f.payload)

\* What it returns: the buffer is asked for min_frame_size, and a stream of
\* that size takes no byte more.
PutStatus(f) ==
    IF min_frame_size(f) > TxMax THEN "TOO_LARGE"
    ELSE IF Len(stream_put_frame(f)) > min_frame_size(f) THEN "WOULD_BLOCK"
    ELSE "SUCCESS"

\* The state after data; run takes w[3] bytes from the w[2]-th on in two
\* halves, which is not so deep a recursion as one by one.
utf8_parse_string(s, data) ==
    LET run[w \in Utf8State \X Nat \X Nat] ==
            IF w[3] = 0 THEN w[1]
            ELSE IF w[3] = 1 THEN utf8_parse(w[1], data[w[2]])
            ELSE LET firsts == w[3] \div 2
                 IN  run[<<run[<<w[1], w[2], firsts>>], w[2] + firsts, w[3] - firsts>>]
    IN  run[<<s, 1, Len(data)>>]

TxInit ==
    /\ tx_state = "READY" /\ frag = CONTINUE /\ utf8_tx = 0
    /\ frame = <<>> /\ status = "SUCCESS" /\ calls = 0
    /\ peer = [kind |-> CONTINUE, part |-> <<>>, ok |-> TRUE]
    /\ call = TxFrame(CONTINUE, FALSE, 0, <<>>)

-----------------------------------------------------------------------------
Called == calls < MaxCalls /\ calls' = calls + 1

\* allowed_to_send promotes READY to OPEN, whatever is done then.
allowed_to_send == tx_state \in {"READY", "OPEN"} /\ tx_state' = "OPEN"

\* A call that writes nothing.
Refused(f, why) ==
    /\ status' = why /\ frame' = <<>> /\ call' = f
    /\ UNCHANGED <<frag, utf8_tx, peer>>
NotOpen(f)  == tx_state = "CLOSED" /\ UNCHANGED tx_state /\ Refused(f, "NOT_OPEN")
NoBuffer(f) == PutStatus(f) # "SUCCESS" /\ Refused(f, PutStatus(f))

\* The bytes at the end of s that begin a character.
Unfinished(s) ==
    LET lengths == {k \in 0..3 : k <= Len(s) /\ IsText(SubSeq(s, 1, Len(s) - k))}
    IN  IF lengths = {} THEN <<>>
        ELSE SubSeq(s, Len(s) + 1 - (CHOOSE k \in lengths : \A j \in lengths : k <= j), Len(s))

\* What a receiver makes of a data frame (WsReceiver).
KindFor(f)  == IF f.opcode = CONTINUE THEN peer.kind ELSE f.opcode
PeerTakes(f) ==
    LET soFar == peer.part \o f.payload
        text  == KindFor(f) = TEXT IN
    peer' = [kind |-> IF f.fin THEN CONTINUE ELSE KindFor(f),
             part |-> IF text /\ ~f.fin THEN Unfinished(soFar) ELSE <<>>,
             ok   |-> /\ peer.ok
                      /\ f.opcode = CONTINUE <=> peer.kind # CONTINUE
                      /\ text => IF f.fin THEN IsText(soFar) ELSE StartsText(soFar)]

\* A frame is written and given to on_send.
Written(f) ==
    /\ PutStatus(f) = "SUCCESS"
    /\ status' = "SUCCESS" /\ frame' = stream_put_frame(f) /\ call' = f
WrittenControl(f) == Written(f) /\ UNCHANGED <<frag, utf8_tx, peer>>

\* The message of kind op goes on, or ends, with the frame f.
WrittenData(f, op, u) ==
    /\ Written(f) /\ PeerTakes(f)
    /\ frag' = IF f.fin THEN CONTINUE ELSE op
    /\ utf8_tx' = u

Opcode(op) == IF frag = op THEN CONTINUE ELSE op

wic_send_binary(fin, data) ==
    LET f == TxFrame(Opcode(BINARY), fin, 0, data) IN
    /\ Called
    /\ \/ NotOpen(f)
       \/ allowed_to_send /\ frag = TEXT /\ Refused(f, "BAD_STATE")
       \/ allowed_to_send /\ frag # TEXT /\ (NoBuffer(f) \/ WrittenData(f, BINARY, utf8_tx))

\* Variant: every fragment is taken for the start of a text.
SendTextAfresh(fin, data) ==
    LET f == TxFrame(Opcode(TEXT), fin, 0, data)
        u == utf8_parse_string(0, f.payload)
        bad == utf8_is_invalid(u) \/ (fin /\ ~utf8_is_complete(u)) IN
    /\ Called
    /\ \/ NotOpen(f)
       \/ allowed_to_send /\ frag = BINARY /\ Refused(f, "BAD_STATE")
       \/ allowed_to_send /\ frag # BINARY /\ bad /\ Refused(f, "BAD_INPUT")
       \/ allowed_to_send /\ frag # BINARY /\ ~bad
          /\ (NoBuffer(f) \/ WrittenData(f, TEXT, u))

\* Variant: only the end of a text is looked at.
SendTextUnchecked(fin, data) ==
    LET f == TxFrame(Opcode(TEXT), fin, 0, data)
        u == utf8_parse_string(IF frag = CONTINUE THEN 0 ELSE utf8_tx, f.payload)
        bad == fin /\ ~utf8_is_complete(u) IN
    /\ Called
    /\ \/ NotOpen(f)
       \/ allowed_to_send /\ frag = BINARY /\ Refused(f, "BAD_STATE")
       \/ allowed_to_send /\ frag # BINARY /\ bad /\ Refused(f, "BAD_INPUT")
       \/ allowed_to_send /\ frag # BINARY /\ ~bad
          /\ (NoBuffer(f) \/ WrittenData(f, TEXT, u))

wic_send_text(fin, data) ==
    LET f == TxFrame(Opcode(TEXT), fin, 0, data)
        u == utf8_parse_string(IF frag = CONTINUE THEN 0 ELSE utf8_tx, f.payload)
        bad == utf8_is_invalid(u) \/ (fin /\ ~utf8_is_complete(u)) IN
    /\ Called
    /\ \/ NotOpen(f)
       \/ allowed_to_send /\ frag = BINARY /\ Refused(f, "BAD_STATE")
       \/ allowed_to_send /\ frag # BINARY /\ bad /\ Refused(f, "BAD_INPUT")
       \/ allowed_to_send /\ frag # BINARY /\ ~bad
          /\ (NoBuffer(f) \/ WrittenData(f, TEXT, u))

\* wic_send_ping_with_payload, and send_pong_with_payload for a ping.
SendControl(op, data) ==
    LET f == TxFrame(op, TRUE, 0, data) IN
    /\ Called
    /\ \/ NotOpen(f)
       \/ allowed_to_send /\ (NoBuffer(f) \/ WrittenControl(f))
wic_send_ping_with_payload(data) == SendControl(PING, data)
send_pong_with_payload(data)     == SendControl(PONG, data)

\* The codes for which nothing is written.
Unwritten == {1005, 1006, 1015}

\* close_with_reason of an open session: a reason that is no text is left
\* out.  It returns nothing.
wic_close_with_reason(code, reason) ==
    LET text == utf8_is_complete(utf8_parse_string(0, Cut(reason)))
        f    == TxFrame(CLOSE, TRUE, code, IF text THEN reason ELSE <<>>) IN
    /\ Called /\ tx_state' = "CLOSED"
    /\ \/ (tx_state = "CLOSED" \/ code \in Unwritten) /\ Refused(f, status)
       \/ /\ tx_state # "CLOSED" /\ code \notin Unwritten
          /\ NoBuffer(f) \/ WrittenControl(f)

TxNext ==
    \/ \E fin \in BOOLEAN, data \in Payloads : wic_send_text(fin, data) \/ wic_send_binary(fin, data)
    \/ \E data \in ControlPayloads :
         wic_send_ping_with_payload(data) \/ send_pong_with_payload(data)
    \/ \E code \in Codes, reason \in ControlPayloads : wic_close_with_reason(code, reason)

TxSpec == TxInit /\ [][TxNext]_txVars

-----------------------------------------------------------------------------
TxTypeOK ==
    /\ tx_state \in {"READY", "OPEN", "CLOSED"} /\ frag \in {CONTINUE, TEXT, BINARY}
    /\ utf8_tx \in Utf8State \ {1}
    /\ frame \in Seq(Byte)
    /\ status \in {"SUCCESS", "NOT_OPEN", "BAD_STATE", "BAD_INPUT", "TOO_LARGE", "WOULD_BLOCK"}
    /\ calls \in 0 .. MaxCalls

\* A frame is exactly as long as min_frame_size has asked the buffer for: it
\* never passes the end of tx, and is never given up half written because
\* the layout and the size were counted differently.
FrameFits == /\ status # "WOULD_BLOCK"
             /\ Len(frame) <= TxMax
             /\ frame # <<>> => Len(frame) = min_frame_size(call)

\* What goes out is the frame of RFC 6455 for what the caller gave: whole,
\* masked, with its size in the shortest form.  It needs a size that
\* uint16_t can say: a longer text is cut at the call, and what is left of
\* it sent as if it were all.
WrittenAsAsked == frame # <<>> /\ Len(call.whole) < SizeModulus =>
    frame = FrameBytes([opcode |-> call.opcode, fin |-> call.fin, rsv |-> 0,
                        form |-> IF PayloadSize(call) <= 125 THEN "short" ELSE "16",
                        mask |-> init_mask,
                        payload |-> (IF call.opcode = CLOSE THEN U16(call.code) ELSE <<>>)
                                        \o call.whole])

\* Whatever is called in whatever order, a receiver finds no fault in the
\* frames: fragments follow the message they belong to and texts are UTF-8
\* across their fragments.
PeerAccepts == peer.ok

=============================================================================
