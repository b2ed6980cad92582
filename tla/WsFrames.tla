------------------------------ MODULE WsFrames ------------------------------
(***************************************************************************)
(* The frames of a WebSocket: the opcodes, and the bytes a frame is on the *)
(* wire.  Both halves of wic.c are compared with it.                       *)
(***************************************************************************)
EXTENDS Integers, Sequences

CONTINUE == 0
TEXT     == 1
BINARY   == 2
CLOSE    == 8
PING     == 9
PONG     == 10
Opcodes  == {CONTINUE, TEXT, BINARY, CLOSE, PING, PONG}
Control  == {CLOSE, PING, PONG}

(***************************************************************************)
(* The bytes of a frame as its sender lays them out (RFC 6455, 5.2): the   *)
(* size in the short, the 16-bit or the 64-bit form, and a mask or none.   *)
(***************************************************************************)

\* The bit of weight w of byte x, and the exclusive or of two bytes.
Bit(x, w)       == (x \div w) % 2
Differ(x, y, w) == IF Bit(x, w) = Bit(y, w) THEN 0 ELSE w
Xor(x, y) ==
    Differ(x, y, 1) + Differ(x, y, 2) + Differ(x, y, 4) + Differ(x, y, 8)
    + Differ(x, y, 16) + Differ(x, y, 32) + Differ(x, y, 64) + Differ(x, y, 128)

SizeBytes(f) ==
    LET n    == Len(f.payload)
        flag == IF f.mask = <<>> THEN 0 ELSE 128
    IN  IF f.form = "short" THEN <<flag + n>>
        ELSE IF f.form = "16" THEN <<flag + 126, n \div 256, n % 256>>
        ELSE <<flag + 127, 0, 0, 0, 0, 0, 0, n \div 256, n % 256>>

FrameBytes(f) ==
    <<(IF f.fin THEN 128 ELSE 0) + 16 * f.rsv + f.opcode>>
    \o SizeBytes(f) \o f.mask
    \o [i \in 1..Len(f.payload) |->
            IF f.mask = <<>> THEN f.payload[i]
            ELSE Xor(f.payload[i], f.mask[((i - 1) % 4) + 1])]

StreamOf(frames) ==
    LET upTo[n \in 0..Len(frames)] ==
            IF n = 0 THEN <<>> ELSE upTo[n - 1] \o FrameBytes(frames[n])
    IN  upTo[Len(frames)]

=============================================================================
