------------------------------ MODULE Utf8Text ------------------------------
(***************************************************************************)
(* What UTF-8 is, said without an automaton (RFC 3629): a text is a        *)
(* sequence of characters, and a character is the shortest encoding of a   *)
(* code point that is no surrogate and not above 10FFFF.                   *)
(***************************************************************************)
EXTENDS Integers, Sequences

Continuation == 128..191

\* The code point that the bytes c would stand for.
CodePoint(c) ==
    LET Low(i) == c[i] - 128
    IN  IF Len(c) = 1 THEN c[1]
        ELSE IF Len(c) = 2 THEN (c[1] - 192) * 64 + Low(2)
        ELSE IF Len(c) = 3 THEN ((c[1] - 224) * 64 + Low(2)) * 64 + Low(3)
        ELSE (((c[1] - 240) * 64 + Low(2)) * 64 + Low(3)) * 64 + Low(4)

IsCharacter(c) ==
    /\ \A i \in 2..Len(c) : c[i] \in Continuation
    /\ \/ Len(c) = 1 /\ c[1] \in 0..127
       \/ Len(c) = 2 /\ c[1] \in 192..223 /\ CodePoint(c) >= 128
       \/ Len(c) = 3 /\ c[1] \in 224..239 /\ CodePoint(c) >= 2048
                     /\ ~(55296 <= CodePoint(c) /\ CodePoint(c) <= 57343)
       \/ Len(c) = 4 /\ c[1] \in 240..247
                     /\ 65536 <= CodePoint(c) /\ CodePoint(c) <= 1114111

\* The bytes s are characters one after the other.
IsText(s) ==
    LET prefix[n \in 0..Len(s)] ==
            n = 0 \/ \E k \in 1..4 : /\ k <= n
                                     /\ IsCharacter(SubSeq(s, n - k + 1, n))
                                     /\ prefix[n - k]
    IN  prefix[Len(s)]

\* Continuations that complete any character that can be completed.
Rests == UNION {[1..n -> {128, 144, 160}] : n \in 0..3}

\* The bytes s can be continued to a text.
StartsText(s) ==
    \E k \in 0..3 :
        /\ k <= Len(s)
        /\ IsText(SubSeq(s, 1, Len(s) - k))
        /\ k = 0 \/ \E r \in Rests : IsCharacter(SubSeq(s, Len(s) - k + 1, Len(s)) \o r)

=============================================================================
