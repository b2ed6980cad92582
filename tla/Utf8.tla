-------------------------------- MODULE Utf8 --------------------------------
(***************************************************************************)
(* The UTF-8 automaton of wic.c: utf8_parse takes it one byte further,     *)
(* utf8_is_complete and utf8_is_invalid read its state.                    *)
(***************************************************************************)
EXTENDS Integers

Byte      == 0..255
Utf8State == 0..8

\* The table utf8d: from state m[1], a byte in m[2]..m[3] leads to state m[4].
\* The other bytes lead to state 1.
utf8d == {
    <<0, 0, 127, 0>>,
    <<0, 194, 223, 2>>,
    <<0, 224, 224, 4>>, <<0, 225, 236, 3>>, <<0, 237, 237, 5>>, <<0, 238, 239, 3>>,
    <<0, 240, 240, 6>>, <<0, 241, 243, 7>>, <<0, 244, 244, 8>>,
    <<2, 128, 191, 0>>,
    <<3, 128, 191, 2>>, <<4, 160, 191, 2>>, <<5, 128, 159, 2>>,
    <<6, 144, 191, 3>>, <<7, 128, 191, 3>>, <<8, 128, 143, 3>> }

\* Variant: three bytes may start with E0 80, an overlong form.
utf8dOverlong == (utf8d \ {<<4, 160, 191, 2>>}) \cup {<<4, 128, 191, 2>>}

\* The moves for a byte in a state: one, or none.
MovesOf(table, state, b) == {m \in table : m[1] = state /\ m[2] <= b /\ b <= m[3]}

\* Variant: the automaton with the overlong form.
utf8_parseOverlong(state, b) ==
    IF MovesOf(utf8dOverlong, state, b) = {} THEN 1
    ELSE (CHOOSE m \in MovesOf(utf8dOverlong, state, b) : TRUE)[4]

\* Variant: an invalid byte starts the text afresh.
utf8_parseForgiving(state, b) ==
    IF MovesOf(utf8d, state, b) = {} THEN 0
    ELSE (CHOOSE m \in MovesOf(utf8d, state, b) : TRUE)[4]

utf8_parse(state, b) ==
    IF MovesOf(utf8d, state, b) = {} THEN 1
    ELSE (CHOOSE m \in MovesOf(utf8d, state, b) : TRUE)[4]

utf8_is_complete(state) == state = 0
utf8_is_invalid(state)  == state = 1

=============================================================================
