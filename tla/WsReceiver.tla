----------------------------- MODULE WsReceiver -----------------------------
(***************************************************************************)
(* What the receiving end of a WebSocket promises, seen one whole frame    *)
(* at a time (RFC 6455, sections 5 and 7): messages are put together from  *)
(* their fragments, control frames may come in between, and the first      *)
(* frame that breaks the rules closes the session.  Nothing here knows of  *)
(* bytes on the wire, of how they are split, or of buffers.                *)
(***************************************************************************)
EXTENDS Integers, Sequences, Utf8Text

CONSTANT Capacity   \* longest control frame the receiver takes

VARIABLES
    input,      \* the frames the peer sends in this session
    taken,      \* how many of them the receiver has dealt with
    kind,       \* the opcode of the message being received, 0 if none
    part,       \* what its fragments so far said
    messages,   \* the messages received
    replies,    \* the control frames sent in reply
    open        \* the session is open

vars == <<input, taken, kind, part, messages, replies, open>>

Known   == {0, 1, 2, 8, 9, 10}
Control == {8, 9, 10}

\* A frame that no endpoint may send, here and now.
Broken(f) ==
    \/ f.rsv # 0
    \/ f.opcode \notin Known
    \/ f.opcode \in Control /\ (~f.fin \/ f.form # "short")
    \/ f.opcode = 8 /\ Len(f.payload) = 1
    \/ f.opcode = 0 /\ kind = 0
    \/ f.opcode \in {1, 2} /\ kind # 0

TooBig(f) == f.opcode \in Control /\ Len(f.payload) > Capacity

\* The message the frame belongs to, and all of it that has arrived by then.
KindOf(f)  == IF f.opcode = 0 THEN kind ELSE f.opcode
SoFar(f)   == part \o f.payload
BadText(f) ==
    /\ KindOf(f) = 1
    /\ IF f.fin THEN ~IsText(SoFar(f)) ELSE ~StartsText(SoFar(f))

CloseFrame(code, reason) ==
    [opcode |-> 8, payload |-> <<code \div 256, code % 256>> \o reason]

Close(code, reason) ==
    /\ open' = FALSE
    /\ replies' = Append(replies, CloseFrame(code, reason))
    /\ UNCHANGED <<kind, part, messages>>

\* Section 7.4: the codes a close frame may carry.
Registered  == {1000, 1001, 1002, 1003, 1007, 1008, 1009, 1010, 1011}
Application == 3000..4999

\* A close frame is answered with its own code, or without judging it with
\* 1000; one with a code or a reason that is not legal is an error.
Answer(f) ==
    LET code   == 256 * f.payload[1] + f.payload[2]
        reason == SubSeq(f.payload, 3, Len(f.payload))
    IN  \/ f.payload = <<>> /\ Close(1000, <<>>)
        \/ f.payload # <<>> /\ code \in Registered /\ IsText(reason) /\ Close(code, reason)
        \/ f.payload # <<>> /\ code \in Application /\ StartsText(reason) /\ Close(1000, <<>>)
        \/ /\ f.payload # <<>>
           /\ ~(code \in Registered /\ IsText(reason))
           /\ ~(code \in Application /\ StartsText(reason))
           /\ Close(1002, <<>>) \/ (~IsText(reason) /\ Close(1007, <<>>))

DataFrame(f) ==
    /\ f.opcode \in {0, 1, 2}
    /\ \/ BadText(f) /\ Close(1007, <<>>)
       \/ /\ ~BadText(f) /\ f.fin
          /\ messages' = Append(messages, SoFar(f)) /\ part' = <<>> /\ kind' = 0
          /\ UNCHANGED <<replies, open>>
       \/ /\ ~BadText(f) /\ ~f.fin
          /\ part' = SoFar(f) /\ kind' = KindOf(f)
          /\ UNCHANGED <<messages, replies, open>>

ControlFrame(f) ==
    \/ f.opcode = 8 /\ Answer(f)
    \/ /\ f.opcode = 9 /\ replies' = Append(replies, [opcode |-> 10, payload |-> f.payload])
       /\ UNCHANGED <<kind, part, messages, open>>
    \/ f.opcode = 10 /\ UNCHANGED <<kind, part, messages, replies, open>>

Take ==
    LET f == input[taken + 1] IN
    /\ open /\ taken < Len(input)
    /\ taken' = taken + 1
    /\ \/ Broken(f) /\ Close(1002, <<>>)
       \/ ~Broken(f) /\ TooBig(f) /\ Close(1009, <<>>)
       \/ ~Broken(f) /\ ~TooBig(f) /\ (DataFrame(f) \/ ControlFrame(f))
    /\ UNCHANGED input

\* The connection ends, between frames or in the middle of one.
Lost == open /\ open' = FALSE /\ UNCHANGED <<input, taken, kind, part, messages, replies>>

Init ==
    /\ taken = 0 /\ kind = 0 /\ part = <<>> /\ messages = <<>> /\ replies = <<>>
    /\ open = TRUE

Spec == Init /\ [][Take \/ Lost]_vars

=============================================================================
