------------------------------- MODULE MCWic -------------------------------
(***************************************************************************)
(* Instances of the parts of wic.c for TLC.  A behaviour runs one of them  *)
(* and leaves the others as they start: the receiving half on the frames   *)
(* the peer may send, the sending half on what the program may send, or    *)
(* the automaton Utf8 over strings, compared at every step with the        *)
(* definition of UTF-8 (utf8_parse_string in steps of a byte).             *)
(***************************************************************************)
EXTENDS WicRx, WicTx, SequencesExt

CONSTANTS
    Bytes,   \* the bytes of the strings
    MaxLen   \* bound: length of a string

ASSUME MCWicAssumption == Bytes \subseteq Byte /\ MaxLen \in Nat

VARIABLES
    half,          \* the part that runs
    text, state    \* a string and where it leads utf8_parse

stringVars == <<text, state>>
allVars    == <<half, vars, txVars, stringVars>>

\* One byte of the string; nothing follows an invalid one.
utf8_parse_string_step ==
    /\ Len(text) < MaxLen /\ ~utf8_is_invalid(state)
    /\ \E b \in Bytes : text' = Append(text, b) /\ state' = utf8_parse(state, b)

MCInit ==
    /\ half \in {"receives", "sends", "strings"}
    /\ Init /\ (half # "receives" => input = <<>>)
    /\ TxInit
    /\ text = <<>> /\ state = 0

MCNext ==
    \/ half = "receives" /\ Next /\ UNCHANGED <<half, txVars, stringVars>>
    \/ half = "sends" /\ TxNext /\ UNCHANGED <<half, vars, stringVars>>
    \/ half = "strings" /\ utf8_parse_string_step /\ UNCHANGED <<half, vars, txVars>>

MCSpec == MCInit /\ [][MCNext]_allVars /\ WF_vars(wic_parse) /\ WF_vars(transport_recv)

\* The state is "complete" exactly when the bytes read so far are a UTF-8
\* text: no overlong form, surrogate or code point above 10FFFF is accepted,
\* and no character refused (utf8d).
CompleteIsText == utf8_is_complete(state) <=> IsText(text)

\* The state is "invalid" exactly when no bytes can make a text of what was
\* read: a message is refused at its first wrong byte and never for a
\* character that has not ended yet.
InvalidIsHopeless == utf8_is_invalid(state) <=> ~StartsText(text)

-----------------------------------------------------------------------------
\* The bytes at which the rules for UTF-8 change.
Boundaries ==
    {0, 127, 128, 143, 144, 159, 160, 191, 192, 193, 194, 223, 224, 225,
     236, 237, 238, 239, 240, 241, 243, 244, 245, 247, 248, 255}

F(opcode, fin, payload) ==
    [opcode |-> opcode, fin |-> fin, rsv |-> 0, form |-> "short", mask |-> <<>>,
     payload |-> payload]

\* 97 is a character, 195 begins one that 169 ends, 255 is in none.
a     == 97
Head2 == 195
Tail2 == 169
Bad   == 255
Long(n) == [i \in 1..n |-> a]

AMask == <<170, 1, 255, 0>>

\* Every kind of frame, legal and not.
EveryFrame ==
    {F(op, fin, p) : op \in {TEXT, BINARY, CONTINUE}, fin \in BOOLEAN,
                     p \in {<<>>, <<a>>, <<Head2>>, <<Tail2, a>>, <<a, a, a, Head2, Tail2>>}}
    \cup {F(TEXT, TRUE, <<a, Bad, a>>), F(3, TRUE, <<>>), F(PING, FALSE, <<>>)}
    \cup {F(op, TRUE, p) : op \in {PING, PONG}, p \in {<<>>, <<1, Bad>>, <<1, 2, 3, 4, 5>>}}
    \cup {F(CLOSE, TRUE, p) :
            p \in {<<>>, <<3>>, <<3, 232>>, <<3, 233, a>>, <<3, 232, Head2>>, <<3, 232, Bad>>,
                   <<0, 0>>, <<11, 184, Head2>>, <<15, 160>>, <<3, 232, a, a, a>>}}
    \cup {[F(op, TRUE, <<a, a>>) EXCEPT !.form = form, !.mask = mask] :
            op \in {TEXT, PING}, form \in {"short", "16", "64"}, mask \in {<<>>, AMask}}
    \cup {[F(TEXT, TRUE, <<a, a, a, a, Head2, Tail2>>) EXCEPT !.mask = AMask],
          [F(BINARY, TRUE, <<a>>) EXCEPT !.rsv = 1]}

\* Frames that fragment messages and come between the fragments.
Fragments ==
    {F(TEXT, FALSE, p) : p \in {<<>>, <<Head2>>, <<a, a, a, a, Head2>>}}
    \cup {F(CONTINUE, FALSE, p) : p \in {<<>>, <<Tail2, a, Head2>>}}
    \cup {F(CONTINUE, TRUE, p) : p \in {<<>>, <<Tail2>>, <<Tail2, a, a, a, a>>}}
    \cup {F(BINARY, FALSE, <<Bad>>), F(TEXT, TRUE, <<a>>), F(PING, TRUE, <<1, Bad>>)}

\* A frame of the size that needs the longer form, and one just short of it.
LongFrames ==
    {F(TEXT, TRUE, Long(125)),
     [F(TEXT, TRUE, Long(126)) EXCEPT !.form = "16"],
     [F(TEXT, FALSE, Long(256)) EXCEPT !.form = "64"]}

\* The sessions: two frames show every pair of kinds, three a message with something
\* between its fragments.
Sessions ==
    SeqOf(EveryFrame, 2) \cup SeqOf(Fragments, 3) \cup SeqOf(LongFrames, 2)

\* What is sent: characters whole, split and wrong, the sizes around the
\* longer form, around the end of the buffer (140) and around the width of a
\* size (256).
SomePayloads ==
    {<<>>, <<a>>, <<Head2>>, <<Tail2, a>>, <<a, Bad>>,
     Long(125), Long(126), Long(132), Long(133), Long(256), Long(257), Long(255) \o <<Head2, Tail2>>}
SomeControls == {<<>>, <<1, Bad>>, <<a, Head2>>, Long(123)}
SomeCodes    == {1000, 1006, 4999}

=============================================================================
