------------------------------- MODULE WicRx -------------------------------
(***************************************************************************)
(* The receiving half of wic.c: wic_parse and the state machine behind it  *)
(* (parse_opcode, parse_size, parse_extended_size, parse_mask, parse_data) *)
(* fed by transport_recv with whatever part of the stream recv() returns,  *)
(* and on_message_handler of libobsws.c, which puts messages together.     *)
(*                                                                         *)
(* One thread runs all of it.  One step is one turn of the loop in         *)
(* wic_parse.  parse_mask returns an uninitialised "blocked", which may    *)
(* end that loop early: transport_recv then calls wic_parse again with the *)
(* bytes that are left, so the outcome is the same and the model needs no  *)
(* choice there.                                                           *)
(***************************************************************************)
EXTENDS Integers, Sequences, Utf8, WsFrames

CONSTANTS
    Inputs,   \* what the peer may send in a session: sequences of frames
    RxMax,    \* size of the receive buffer (16384 in obs_ws_main)
    RecvMax   \* size of the buffer given to recv() (1000 in transport_recv)

\* stream_put_u8_masked counts the mask from the start of the receive buffer,
\* and parse_data rewinds the buffer in the middle of a frame: a size that is
\* no multiple of four would shift the mask.
ASSUME WicRxAssumption == RxMax \in Nat \ {0} /\ RxMax % 4 = 0 /\ RecvMax \in Nat \ {0}

VARIABLES
    wire,            \* bytes on their way
    chunk,           \* bytes received and not parsed yet
    wic,             \* wic_inst.state
    rx,              \* wic_inst.rx
    utf8_rx,         \* the UTF-8 state at the end of the last fragment
    message_buffer,  \* what on_message_handler has gathered
    messages,        \* the messages it has handed to the JSON parser
    replies,         \* control frames sent in reply
    input,           \* history: the frames of this session
    taken,           \* history: how many are finished or refused
    flushed          \* history: bytes of the current frame handed over early

delivery == <<message_buffer, messages, flushed>>
vars     == <<wire, chunk, wic, rx, utf8_rx, replies, input, taken, delivery>>

\* wic_rx_frame.  "EXT" stands for the states SIZE_0 .. SIZE_9, of which ext
\* are still to come, and "MASK" for MASK_0 .. MASK_3.
RxFrame == [state : {"OPCODE", "SIZE", "EXT", "MASK", "DATA"},
            fin : BOOLEAN, opcode : 0..15, frag : {CONTINUE, TEXT, BINARY},
            masked : BOOLEAN, mask : Seq(Byte), ext : 0..8, size : Nat,
            utf8 : Utf8State, s : Seq(Byte)]

Reply == [opcode : Control, payload : Seq(Nat)]

TypeOK ==
    /\ wire \in Seq(Byte) /\ chunk \in Seq(Byte)
    /\ wic \in {"OPEN", "CLOSED"}
    /\ rx \in RxFrame
    /\ utf8_rx \in Utf8State
    /\ message_buffer \in Seq(Byte) /\ messages \in Seq(Seq(Byte))
    /\ replies \in Seq(Reply)
    /\ taken \in Nat /\ flushed \in Nat

----------------------------------------------------------------------------
ASSUME InputsAssumption == \A frames \in Inputs : StreamOf(frames) \in Seq(Byte)

\* wic_init clears the instance; the handshake has opened the session.
Init ==
    /\ input \in Inputs
    /\ wire = StreamOf(input) /\ chunk = <<>>
    /\ wic = "OPEN"
    /\ rx = [state |-> "OPCODE", fin |-> FALSE, opcode |-> CONTINUE, frag |-> CONTINUE,
             masked |-> FALSE, mask |-> <<>>, ext |-> 0, size |-> 0, utf8 |-> 0, s |-> <<>>]
    /\ utf8_rx = 0
    /\ message_buffer = <<>> /\ messages = <<>> /\ replies = <<>>
    /\ taken = 0 /\ flushed = 0

----------------------------------------------------------------------------
(***************************************************************************)
(* transport_recv.                                                         *)
(***************************************************************************)

\* parse_data has something to do that needs no byte.
NeedsNoByte == rx.state = "DATA" /\ (rx.size = 0 \/ Len(rx.s) = RxMax)

\* The loop of wic_parse is blocked, and transport_recv waits in recv().
Blocked == wic = "OPEN" /\ chunk = <<>> /\ ~NeedsNoByte

transport_recv ==
    /\ Blocked
    /\ \E n \in 1..Len(wire) :
        /\ n <= RecvMax
        /\ chunk' = SubSeq(wire, 1, n) /\ wire' = SubSeq(wire, n + 1, Len(wire))
    /\ UNCHANGED <<wic, rx, utf8_rx, replies, input, taken, delivery>>

\* recv() returns 0 or fails, whatever was still on its way:
\* wic_close_with_reason(ABNORMAL_2), for which no frame is written.
ConnectionEnds ==
    /\ Blocked
    /\ wic' = "CLOSED"
    /\ UNCHANGED <<wire, chunk, rx, utf8_rx, replies, input, taken, delivery>>

----------------------------------------------------------------------------
(***************************************************************************)
(* What the parse functions share.                                         *)
(***************************************************************************)

\* close_with_reason: a close frame is written and the session is over.
\* wic_parse then drops the bytes it has been given, and nothing looks at
\* rx again before wic_init clears it.
close_with_reason(code, reason) ==
    /\ wic' = "CLOSED" /\ chunk' = <<>>
    /\ replies' = Append(replies,
            [opcode |-> CLOSE, payload |-> <<code \div 256, code % 256>> \o reason])
    /\ taken' = taken + 1
    /\ UNCHANGED <<wire, rx, utf8_rx, input, delivery>>

\* on_message_handler: fragments are gathered until the final one.
on_message_handler(fin, data) ==
    \/ /\ fin
       /\ messages' = Append(messages, message_buffer \o data)
       /\ message_buffer' = <<>>
    \/ /\ ~fin
       /\ message_buffer' = message_buffer \o data
       /\ UNCHANGED messages

\* The opcode of the message a frame belongs to.
MessageOpcode(r) == IF r.opcode = CONTINUE THEN r.frag ELSE r.opcode

Turn(state) == wic = "OPEN" /\ rx.state = state /\ chunk # <<>>

\* The byte stream_get_u8 takes, and a step that stores the new frame state.
Keep(r) ==
    /\ rx' = r /\ chunk' = Tail(chunk)
    /\ UNCHANGED <<wire, wic, utf8_rx, replies, input, taken, delivery>>

----------------------------------------------------------------------------
(***************************************************************************)
(* The header of a frame.                                                  *)
(***************************************************************************)

\* Variant: a continuation starts with no character pending.
CarryNothing(op) == 0

\* A continuation goes on in the middle of a character.
CarriedUtf8(op) == IF op = CONTINUE THEN utf8_rx ELSE 0

parse_opcode ==
    LET b     == Head(chunk)
        op    == b % 16
        fin   == b >= 128
        legal == /\ (b \div 16) % 8 = 0
                 /\ op \in Opcodes
                 /\ op \in Control => fin
                 /\ op = CONTINUE => rx.frag # CONTINUE
                 /\ op \in {TEXT, BINARY} => rx.frag = CONTINUE
    IN  /\ Turn("OPCODE")
        /\ \/ /\ legal
              /\ Keep([rx EXCEPT !.state = "SIZE", !.s = <<>>, !.fin = fin, !.opcode = op,
                                 !.utf8 = CarriedUtf8(op)])
           \/ ~legal /\ close_with_reason(1002, <<>>)

\* Where the header goes on once the size is known.
AfterSize(masked) == IF masked THEN "MASK" ELSE "DATA"

\* The size, or the announcement of a longer form of it.
Sized(masked, n) ==
    [rx EXCEPT !.masked = masked, !.mask = <<>>,
               !.size = IF n < 126 THEN n ELSE 0,
               !.ext = IF n = 126 THEN 2 ELSE IF n = 127 THEN 8 ELSE 0,
               !.state = IF n < 126 THEN AfterSize(masked) ELSE "EXT"]

\* Variant: a close frame of one byte is let through.
parse_sizeOneByteClose ==
    LET masked == Head(chunk) >= 128
        n      == Head(chunk) % 128
    IN  /\ Turn("SIZE")
        /\ \/ rx.opcode \in Control /\ n > 125 /\ close_with_reason(1002, <<>>)
           \/ rx.opcode = CLOSE /\ n = 0 /\ close_with_reason(1000, <<>>)
           \/ rx.opcode \in Control /\ n \in 1..125 /\ n > RxMax /\ close_with_reason(1009, <<>>)
           \/ /\ rx.opcode \in Control => n <= 125 /\ n <= RxMax
              /\ rx.opcode = CLOSE => n # 0
              /\ Keep(Sized(masked, n))

parse_size ==
    LET masked  == Head(chunk) >= 128
        n       == Head(chunk) % 128
        illegal == (rx.opcode \in Control /\ n > 125) \/ (rx.opcode = CLOSE /\ n = 1)
    IN  /\ Turn("SIZE")
        /\ \/ illegal /\ close_with_reason(1002, <<>>)
           \/ ~illegal /\ rx.opcode = CLOSE /\ n = 0 /\ close_with_reason(1000, <<>>)
           \/ ~illegal /\ rx.opcode \in Control /\ n > RxMax /\ close_with_reason(1009, <<>>)
           \/ /\ ~illegal
              /\ rx.opcode = CLOSE => n # 0
              /\ rx.opcode \in Control => n <= RxMax
              /\ Keep(Sized(masked, n))

\* Variant: one byte of the size too many is read.
parse_extended_sizeTooLong ==
    /\ Turn("EXT")
    /\ Keep([rx EXCEPT !.size = 256 * rx.size + Head(chunk),
                       !.ext = rx.ext - 1,
                       !.state = IF rx.ext >= 1 THEN "EXT" ELSE AfterSize(rx.masked)])

parse_extended_size ==
    /\ Turn("EXT")
    /\ Keep([rx EXCEPT !.size = 256 * rx.size + Head(chunk),
                       !.ext = rx.ext - 1,
                       !.state = IF rx.ext > 1 THEN "EXT" ELSE AfterSize(rx.masked)])

parse_mask ==
    /\ Turn("MASK")
    /\ Keep([rx EXCEPT !.mask = Append(rx.mask, Head(chunk)),
                       !.state = IF Len(rx.mask) < 3 THEN "MASK" ELSE "DATA"])

----------------------------------------------------------------------------
(***************************************************************************)
(* parse_data.                                                             *)
(***************************************************************************)

\* Variant: what has been handed over is handed over again.
FlushKeepsData ==
    /\ wic = "OPEN" /\ rx.state = "DATA" /\ rx.size > 0 /\ Len(rx.s) = RxMax
    /\ on_message_handler(FALSE, rx.s)
    /\ flushed' = flushed + Len(rx.s)
    /\ rx' = [rx EXCEPT !.s = Tail(rx.s)]
    /\ UNCHANGED <<wire, chunk, wic, utf8_rx, replies, input, taken>>

\* The receive buffer is full and more of the frame is to come: what there is
\* goes to the user as a fragment.
Flush ==
    /\ wic = "OPEN" /\ rx.state = "DATA" /\ rx.size > 0 /\ Len(rx.s) = RxMax
    /\ IF MessageOpcode(rx) \in {TEXT, BINARY}
       THEN on_message_handler(FALSE, rx.s) /\ flushed' = flushed + Len(rx.s)
       ELSE UNCHANGED delivery
    /\ rx' = [rx EXCEPT !.s = <<>>]
    /\ UNCHANGED <<wire, chunk, wic, utf8_rx, replies, input, taken>>

\* The frame r has been handed over: the next byte is an opcode.
FrameDone(r, rest) ==
    /\ rx' = [r EXCEPT !.state = "OPCODE"]
    /\ chunk' = rest
    /\ taken' = taken + 1 /\ flushed' = 0
    /\ UNCHANGED <<wire, wic, input>>

DataDone(r, rest) ==
    /\ MessageOpcode(r) \in {TEXT, BINARY}
    /\ MessageOpcode(r) = TEXT /\ r.fin => utf8_is_complete(r.utf8)
    /\ on_message_handler(r.fin, r.s)
    /\ FrameDone([r EXCEPT !.frag = IF r.fin THEN CONTINUE ELSE MessageOpcode(r)], rest)
    /\ utf8_rx' = IF MessageOpcode(r) = TEXT /\ ~r.fin THEN r.utf8 ELSE utf8_rx
    /\ UNCHANGED replies

UnfinishedText(r) ==
    /\ MessageOpcode(r) = TEXT /\ r.fin /\ ~utf8_is_complete(r.utf8)
    /\ close_with_reason(1007, <<>>)

PongDone(r, rest) ==
    /\ r.opcode = PONG /\ FrameDone(r, rest)
    /\ UNCHANGED <<utf8_rx, replies, message_buffer, messages>>

\* send_pong_with_payload: the session is open and the buffer large enough.
PingDone(r, rest) ==
    /\ r.opcode = PING /\ FrameDone(r, rest)
    /\ replies' = Append(replies, [opcode |-> PONG, payload |-> r.s])
    /\ UNCHANGED <<utf8_rx, message_buffer, messages>>

\* The codes that have a name in wic.h and may be sent.
Registered == {1000, 1001, 1002, 1003, 1007, 1008, 1009, 1010, 1011}

\* A close frame with this code is answered.
CloseWith(r, code) ==
    \/ /\ code \in Registered /\ utf8_is_complete(r.utf8)
       /\ close_with_reason(code, SubSeq(r.s, 3, Len(r.s)))
    \/ code \in Registered /\ ~utf8_is_complete(r.utf8) /\ close_with_reason(1002, <<>>)
    \/ code \in 3000..4999 /\ close_with_reason(1000, <<>>)
    \/ code \notin Registered \cup (3000..4999) /\ close_with_reason(1002, <<>>)

CloseDone(r) == r.opcode = CLOSE /\ CloseWith(r, 256 * r.s[1] + r.s[2])

\* All of the frame r has been read.
Finish(r, rest) ==
    DataDone(r, rest) \/ UnfinishedText(r) \/ PongDone(r, rest) \/ PingDone(r, rest) \/ CloseDone(r)

\* Variant: the code of a close frame is run through the automaton too.
StoredCodeAsText(b) ==
    LET u    == IF rx.masked THEN Xor(b, rx.mask[(Len(rx.s) % 4) + 1]) ELSE b
        text == MessageOpcode(rx) \in {TEXT, CLOSE}
    IN  [rx EXCEPT !.size = rx.size - 1, !.s = Append(rx.s, u),
                   !.utf8 = IF text THEN utf8_parse(rx.utf8, u) ELSE rx.utf8]

\* The byte b of the payload in the receive buffer, unmasked and, where it is
\* text, run through the UTF-8 automaton.
Stored(b) ==
    LET u    == IF rx.masked THEN Xor(b, rx.mask[(Len(rx.s) % 4) + 1]) ELSE b
        text == MessageOpcode(rx) = TEXT \/ (MessageOpcode(rx) = CLOSE /\ Len(rx.s) >= 2)
    IN  [rx EXCEPT !.size = rx.size - 1, !.s = Append(rx.s, u),
                   !.utf8 = IF text THEN utf8_parse(rx.utf8, u) ELSE rx.utf8]

DataByte ==
    LET r == Stored(Head(chunk)) IN
    /\ Turn("DATA") /\ rx.size > 0 /\ Len(rx.s) < RxMax
    /\ \/ utf8_is_invalid(r.utf8) /\ close_with_reason(1007, <<>>)
       \/ ~utf8_is_invalid(r.utf8) /\ r.size > 0 /\ Keep(r)
       \/ ~utf8_is_invalid(r.utf8) /\ r.size = 0 /\ Finish(r, Tail(chunk))

\* Variant: a frame without payload waits for another byte.
EmptyFrameWaits ==
    /\ Turn("DATA") /\ rx.size = 0
    /\ Finish(rx, chunk)

\* A frame without payload is finished in the turn that reads its size.
EmptyFrame ==
    /\ wic = "OPEN" /\ rx.state = "DATA" /\ rx.size = 0
    /\ Finish(rx, chunk)

parse_data == Flush \/ DataByte \/ EmptyFrame

----------------------------------------------------------------------------
wic_parse == parse_opcode \/ parse_size \/ parse_extended_size \/ parse_mask \/ parse_data

Next == transport_recv \/ ConnectionEnds \/ wic_parse

Spec == Init /\ [][Next]_vars

\* The thread runs, and recv() returns what has arrived.
FairSpec == Spec /\ WF_vars(wic_parse) /\ WF_vars(transport_recv)

----------------------------------------------------------------------------
(***************************************************************************)
(* Properties.                                                             *)
(***************************************************************************)

\* What is left of message_buffer without the bytes of an unfinished frame.
FramesOnly == SubSeq(message_buffer, 1, Len(message_buffer) - flushed)

Receiver == INSTANCE WsReceiver WITH
    Capacity <- RxMax, kind <- rx.frag, part <- FramesOnly, open <- (wic = "OPEN")

\* However recv() cuts the stream and wherever the receive buffer fills up,
\* the user of wic sees what a receiver of whole frames would see: messages
\* complete and in order, control frames between fragments answered, and the
\* session closed, with a right code, by the first frame that breaks a rule.
ImplementsReceiver == Receiver!Spec

\* A control frame fits into the receive buffer from its first byte to its
\* last: it is never handed over in part, and when parse_data reads the two
\* bytes of a close code they are there (parse_size, rx.s.read[0] and [1]).
ControlFrameFits ==
    wic = "OPEN" /\ rx.state \in {"MASK", "DATA"} /\ rx.opcode \in Control =>
        /\ Len(rx.s) + rx.size <= RxMax /\ Len(rx.s) + rx.size <= 125
        /\ rx.opcode = CLOSE => Len(rx.s) + rx.size >= 2

\* The strengthening of ControlFrameFits that is inductive: what the header
\* states have already fixed when the payload begins.
HeaderInv ==
    /\ rx.state \in {"SIZE", "EXT", "MASK"} => rx.s = <<>>
    /\ rx.state = "EXT" => rx.opcode \notin Control /\ rx.ext > 0 /\ rx.mask = <<>>
    /\ rx.state = "MASK" => rx.masked /\ Len(rx.mask) < 4
    /\ rx.state = "DATA" /\ rx.masked => Len(rx.mask) = 4

\* The loops of wic_parse and transport_recv come to an end: unless the
\* connection ends, every frame that was sent is dealt with.
EveryFrameDealtWith == <>(wic = "CLOSED" \/ taken = Len(input))

=============================================================================
