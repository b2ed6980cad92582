---------------------------- MODULE Utf8Proofs ----------------------------
(***************************************************************************)
(* Lemmas about the UTF-8 automaton of wic.c: the state it is in after any *)
(* bytes at all is what Unicode says of them.  Tracks(q, s) says it: s is  *)
(* whole characters and then the beginning of one, which q stands for, or  *)
(* s begins no text and q is the invalid state.  It holds of no bytes, one *)
(* more byte keeps it (TracksByte), and it is what makes the complete      *)
(* state mean text (CompleteTracks) and the invalid one mean that nothing  *)
(* can follow that would make a text (InvalidTracks).                      *)
(***************************************************************************)
EXTENDS Utf8, Utf8Text, SequenceTheorems, WellFoundedInduction, TLAPS

----------------------------------------------------------------------------
(***************************************************************************)
(* Induction over the naturals, with the set of the numbers that have the  *)
(* property in the place of the property.                                  *)
(***************************************************************************)

LEMMA LeastNumber ==
  ASSUME NEW T \in SUBSET Nat, T # {}
  PROVE  \E x \in T : \A y \in T : x <= y
<1> DEFINE R == OpToRel(<, Nat)
<1>1. R = {p \in Nat \X Nat : p[1] < p[2]}
  BY DEF OpToRel
<1>2. IsWellFoundedOn(R, Nat)
  BY NatLessThanWellFounded
<1> HIDE DEF R
<1>3. PICK x \in T : \A y \in T : ~(<<y, x>> \in R)
  BY <1>2, WFMin
<1>4. \A y \in T : y \in Nat /\ x \in Nat /\ ~(y < x)
  BY <1>1, <1>3
<1> QED  BY <1>4

LEMMA StrongInduction ==
  ASSUME NEW S, \A n \in Nat : (\A m \in 0 .. (n - 1) : m \in S) => n \in S
  PROVE  Nat \subseteq S
<1> SUFFICES ASSUME Nat \ S # {} PROVE FALSE
  OBVIOUS
<1>1. PICK n \in Nat \ S : \A y \in Nat \ S : n <= y
  BY LeastNumber
<1>2. \A m \in 0 .. (n - 1) : m \in S
  BY <1>1
<1> QED  BY <1>1, <1>2

----------------------------------------------------------------------------
(***************************************************************************)
(* A text, without the recursive function of IsText: the lengths at which  *)
(* s can be cut between two characters are the least set that holds 0 and  *)
(* goes from the beginning of a character to its end.                      *)
(***************************************************************************)

Ends(s, n, k) == k \in 1..4 /\ k <= n /\ IsCharacter(SubSeq(s, n - k + 1, n))

Closed(s, X) ==
  \A n \in 0..Len(s) : n = 0 \/ (\E k \in 1..4 : Ends(s, n, k) /\ n - k \in X) => n \in X

Cuts(s) == {n \in 0..Len(s) : \A X \in SUBSET (0..Len(s)) : Closed(s, X) => n \in X}

LEMMA CutsStep ==
  ASSUME NEW s \in Seq(Byte), NEW n \in 0..Len(s)
  PROVE  n \in Cuts(s) <=> n = 0 \/ \E k \in 1..4 : Ends(s, n, k) /\ n - k \in Cuts(s)
<1>1. ASSUME n = 0 \/ \E k \in 1..4 : Ends(s, n, k) /\ n - k \in Cuts(s)
      PROVE  n \in Cuts(s)
  <2>1. ASSUME NEW X \in SUBSET (0..Len(s)), Closed(s, X)
        PROVE  n \in X
    BY <1>1, <2>1 DEF Cuts, Closed
  <2> QED  BY <2>1 DEF Cuts
<1>2. ASSUME n \in Cuts(s), ~(n = 0 \/ \E k \in 1..4 : Ends(s, n, k) /\ n - k \in Cuts(s))
      PROVE  FALSE
  <2> DEFINE X == Cuts(s) \ {n}
  <2>1. X \in SUBSET (0..Len(s))
    BY DEF Cuts
  <2>2. Closed(s, X)
    <3> SUFFICES ASSUME NEW m \in 0..Len(s),
                        m = 0 \/ \E k \in 1..4 : Ends(s, m, k) /\ m - k \in X
                 PROVE  m \in X
      BY DEF Closed
    <3>1. m \in Cuts(s)
      <4>1. ASSUME NEW Y \in SUBSET (0..Len(s)), Closed(s, Y)
            PROVE  m \in Y
        <5>1. m = 0 \/ \E k \in 1..4 : Ends(s, m, k) /\ m - k \in Y
          BY <4>1 DEF Cuts
        <5> QED  BY <4>1, <5>1 DEF Closed
      <4> QED  BY <4>1 DEF Cuts
    <3>2. m # n
      BY <1>2
    <3> QED  BY <3>1, <3>2
  <2> HIDE DEF X
  <2>3. n \in X
    BY <1>2, <2>1, <2>2 DEF Cuts
  <2> QED  BY <2>3 DEF X
<1> QED  BY <1>1, <1>2

IsPrefixes(s, f) ==
  f = [n \in 0..Len(s) |->
         n = 0 \/ \E k \in 1..4 : /\ k <= n
                                  /\ IsCharacter(SubSeq(s, n - k + 1, n))
                                  /\ f[n - k]]

LEMMA PrefixesExist == ASSUME NEW s \in Seq(Byte) PROVE \E f : IsPrefixes(s, f)
<1> DEFINE f == [n \in 0..Len(s) |-> n \in Cuts(s)]
<1>1. ASSUME NEW n \in 0..Len(s)
      PROVE  f[n] = (n = 0 \/ \E k \in 1..4 : /\ k <= n
                                              /\ IsCharacter(SubSeq(s, n - k + 1, n))
                                              /\ f[n - k])
  <2>1. \A k \in 1..4 : k <= n => n - k \in 0..Len(s) /\ f[n - k] = (n - k \in Cuts(s))
    OBVIOUS
  <2>2. n \in Cuts(s) <=> (n = 0 \/ \E k \in 1..4 : /\ k <= n
                                              /\ IsCharacter(SubSeq(s, n - k + 1, n))
                                              /\ n - k \in Cuts(s))
    BY CutsStep DEF Ends
  <2> QED  BY <2>1, <2>2
<1>2. f = [n \in 0..Len(s) |-> f[n]]
  OBVIOUS
<1> HIDE DEF f
<1>3. IsPrefixes(s, f)
  BY <1>1, <1>2 DEF IsPrefixes
<1> QED  BY <1>3

LEMMA TextCut == ASSUME NEW s \in Seq(Byte) PROVE IsText(s) <=> Len(s) \in Cuts(s)
<1> DEFINE f == CHOOSE g : IsPrefixes(s, g)
           S == {n \in Nat : n <= Len(s) => (f[n] <=> n \in Cuts(s))}
<1>1. IsText(s) <=> f[Len(s)]
  BY DEF IsText, IsPrefixes
<1>2. IsPrefixes(s, f)
  BY PrefixesExist
<1> HIDE DEF f
<1>3. \A n \in 0..Len(s) :
        f[n] <=> n = 0 \/ \E k \in 1..4 : /\ k <= n
                                          /\ IsCharacter(SubSeq(s, n - k + 1, n))
                                          /\ f[n - k]
  BY <1>2 DEF IsPrefixes
<1>4. ASSUME NEW n \in Nat, \A m \in 0 .. (n - 1) : m \in S
      PROVE  n \in S
  <2> SUFFICES ASSUME n <= Len(s) PROVE f[n] <=> n \in Cuts(s)
    OBVIOUS
  <2>1. n \in 0..Len(s)
    OBVIOUS
  <2>2. \A k \in 1..4 : k <= n => (f[n - k] <=> n - k \in Cuts(s))
    BY <1>4
  <2>3. n \in Cuts(s) <=> n = 0 \/ \E k \in 1..4 : Ends(s, n, k) /\ n - k \in Cuts(s)
    BY <2>1, CutsStep
  <2> QED  BY <1>3, <2>1, <2>2, <2>3 DEF Ends
<1>5. Nat \subseteq S
  <2> HIDE DEF S
  <2> QED  BY <1>4, StrongInduction
<1>6. Len(s) \in S
  BY <1>5
<1> QED  BY <1>1, <1>6

\* Where a string is cut depends on what comes before.
LEMMA CutsOfPrefix ==
  ASSUME NEW s \in Seq(Byte), NEW m \in 0..Len(s)
  PROVE  \A n \in 0..m : n \in Cuts(SubSeq(s, 1, m)) <=> n \in Cuts(s)
<1> DEFINE t == SubSeq(s, 1, m)
           S == {n \in Nat : n <= m => (n \in Cuts(t) <=> n \in Cuts(s))}
<1>1. t \in Seq(Byte) /\ Len(t) = m /\ \A i \in 1..m : t[i] = s[i]
  OBVIOUS
<1> HIDE DEF t
<1>2. ASSUME NEW n \in 0..m, NEW k \in 1..4, k <= n
      PROVE  Ends(t, n, k) <=> Ends(s, n, k)
  <2>1. SubSeq(t, n - k + 1, n) = SubSeq(s, n - k + 1, n)
    BY <1>1, <1>2
  <2> QED  BY <2>1 DEF Ends
<1>3. ASSUME NEW n \in Nat, \A i \in 0 .. (n - 1) : i \in S
      PROVE  n \in S
  <2> SUFFICES ASSUME n <= m PROVE n \in Cuts(t) <=> n \in Cuts(s)
    OBVIOUS
  <2>1. \A k \in 1..4 : k <= n => (n - k \in Cuts(t) <=> n - k \in Cuts(s))
    BY <1>3
  <2>2. n \in Cuts(t) <=> n = 0 \/ \E k \in 1..4 : Ends(t, n, k) /\ n - k \in Cuts(t)
    BY <1>1, CutsStep
  <2>3. n \in Cuts(s) <=> n = 0 \/ \E k \in 1..4 : Ends(s, n, k) /\ n - k \in Cuts(s)
    BY CutsStep
  <2>4. \A k \in 1..4 : Ends(t, n, k) \/ Ends(s, n, k) => k <= n
    BY DEF Ends
  <2> QED  BY <1>2, <2>1, <2>2, <2>3, <2>4
<1>4. Nat \subseteq S
  <2> HIDE DEF S
  <2> QED  BY <1>3, StrongInduction
<1>5. \A n \in 0..m : n \in S
  BY <1>4
<1> QED  BY <1>5 DEF t

\* A text is empty, or a text and a character.
LEMMA TextEnds ==
  ASSUME NEW s \in Seq(Byte)
  PROVE  IsText(s) <=> \/ s = <<>>
                       \/ \E k \in 1..4 : /\ k <= Len(s)
                                          /\ IsText(SubSeq(s, 1, Len(s) - k))
                                          /\ IsCharacter(SubSeq(s, Len(s) - k + 1, Len(s)))
<1>1. ASSUME NEW k \in 1..4, k <= Len(s)
      PROVE  IsText(SubSeq(s, 1, Len(s) - k)) <=> Len(s) - k \in Cuts(s)
  <2> DEFINE t == SubSeq(s, 1, Len(s) - k)
  <2>1. t \in Seq(Byte) /\ Len(t) = Len(s) - k /\ Len(s) - k \in 0..Len(s)
    BY <1>1
  <2>2. Len(s) - k \in Cuts(t) <=> Len(s) - k \in Cuts(s)
    BY <2>1, CutsOfPrefix
  <2> HIDE DEF t
  <2>3. IsText(t) <=> Len(s) - k \in Cuts(s)
    BY <2>1, <2>2, TextCut
  <2> QED  BY <2>3 DEF t
<1>2. IsText(s) <=> Len(s) = 0 \/ \E k \in 1..4 : Ends(s, Len(s), k) /\ Len(s) - k \in Cuts(s)
  BY TextCut, CutsStep
<1>3. Len(s) = 0 <=> s = <<>>
  OBVIOUS
<1> QED  BY <1>1, <1>2, <1>3 DEF Ends
----------------------------------------------------------------------------
(***************************************************************************)
(* The automaton, from the table.                                          *)
(***************************************************************************)

LEMMA MoveTaken ==
  ASSUME NEW q \in Int, NEW b \in Int, NEW m \in utf8d, m[1] = q, m[2] <= b, b <= m[3]
  PROVE  utf8_parse(q, b) = m[4]
<1>1. m \in MovesOf(utf8d, q, b)
  BY DEF MovesOf
<1>2. \A n \in MovesOf(utf8d, q, b) : n[4] = m[4]
  BY DEF MovesOf, utf8d
<1> QED  BY <1>1, <1>2 DEF utf8_parse

LEMMA Move ==
  ASSUME NEW q \in Int, NEW b \in Int, NEW lo \in Int, NEW hi \in Int, NEW to \in Int,
         <<q, lo, hi, to>> \in utf8d, lo <= b, b <= hi
  PROVE  utf8_parse(q, b) = to
<1> DEFINE m == <<q, lo, hi, to>>
<1>1. m \in utf8d /\ m[1] = q /\ m[2] = lo /\ m[3] = hi /\ m[4] = to
  OBVIOUS
<1> HIDE DEF m
<1> QED  BY <1>1, MoveTaken

LEMMA NoMove ==
  ASSUME NEW q \in Int, NEW b \in Int, \A m \in utf8d : ~(m[1] = q /\ m[2] <= b /\ b <= m[3])
  PROVE  utf8_parse(q, b) = 1
<1>1. MovesOf(utf8d, q, b) = {}
  BY DEF MovesOf
<1> QED  BY <1>1 DEF utf8_parse

\* The first byte of a character.
LEMMA FirstByte ==
  ASSUME NEW b \in Byte
  PROVE  utf8_parse(0, b) = IF b <= 127 THEN 0
                            ELSE IF b <= 193 THEN 1
                            ELSE IF b <= 223 THEN 2
                            ELSE IF b = 224 THEN 4
                            ELSE IF b = 237 THEN 5
                            ELSE IF b <= 239 THEN 3
                            ELSE IF b = 240 THEN 6
                            ELSE IF b <= 243 THEN 7
                            ELSE IF b = 244 THEN 8
                            ELSE 1
<1> USE DEF Byte
<1>1. /\ <<0, 0, 127, 0>> \in utf8d /\ <<0, 194, 223, 2>> \in utf8d
      /\ <<0, 224, 224, 4>> \in utf8d /\ <<0, 225, 236, 3>> \in utf8d
      /\ <<0, 237, 237, 5>> \in utf8d /\ <<0, 238, 239, 3>> \in utf8d
      /\ <<0, 240, 240, 6>> \in utf8d /\ <<0, 241, 243, 7>> \in utf8d
      /\ <<0, 244, 244, 8>> \in utf8d
  BY DEF utf8d
<1>2. \A lo, hi, to \in Int : <<0, lo, hi, to>> \in utf8d /\ lo <= b /\ b <= hi
                                => utf8_parse(0, b) = to
  BY MoveTaken
<1>3. (128 <= b /\ b <= 193) \/ b >= 245 => utf8_parse(0, b) = 1
  BY NoMove DEF utf8d
<1> QED  BY <1>1, <1>2, <1>3

\* The bytes after it.
In(b, low, high) == low <= b /\ b <= high

LEMMA NextByte ==
  ASSUME NEW b \in Byte
  PROVE  /\ utf8_parse(1, b) = 1
         /\ utf8_parse(2, b) = IF In(b, 128, 191) THEN 0 ELSE 1
         /\ utf8_parse(3, b) = IF In(b, 128, 191) THEN 2 ELSE 1
         /\ utf8_parse(4, b) = IF In(b, 160, 191) THEN 2 ELSE 1
         /\ utf8_parse(5, b) = IF In(b, 128, 159) THEN 2 ELSE 1
         /\ utf8_parse(6, b) = IF In(b, 144, 191) THEN 3 ELSE 1
         /\ utf8_parse(7, b) = IF In(b, 128, 191) THEN 3 ELSE 1
         /\ utf8_parse(8, b) = IF In(b, 128, 143) THEN 3 ELSE 1
<1> USE DEF Byte, In
<1>1. /\ <<2, 128, 191, 0>> \in utf8d /\ <<3, 128, 191, 2>> \in utf8d
      /\ <<4, 160, 191, 2>> \in utf8d /\ <<5, 128, 159, 2>> \in utf8d
      /\ <<6, 144, 191, 3>> \in utf8d /\ <<7, 128, 191, 3>> \in utf8d
      /\ <<8, 128, 143, 3>> \in utf8d
  BY DEF utf8d
<1>3. utf8_parse(1, b) = 1
  BY NoMove DEF utf8d
<1>4. /\ ~In(b, 128, 191) => utf8_parse(2, b) = 1 /\ utf8_parse(3, b) = 1 /\ utf8_parse(7, b) = 1
      /\ ~In(b, 160, 191) => utf8_parse(4, b) = 1
      /\ ~In(b, 128, 159) => utf8_parse(5, b) = 1
      /\ ~In(b, 144, 191) => utf8_parse(6, b) = 1
      /\ ~In(b, 128, 143) => utf8_parse(8, b) = 1
  BY NoMove DEF utf8d
<1>5. ASSUME In(b, 128, 191) PROVE utf8_parse(2, b) = 0
  BY <1>1, <1>5, Move
<1>6. ASSUME In(b, 128, 191) PROVE utf8_parse(3, b) = 2
  BY <1>1, <1>6, Move
<1>7. ASSUME In(b, 160, 191) PROVE utf8_parse(4, b) = 2
  BY <1>1, <1>7, Move
<1>8. ASSUME In(b, 128, 159) PROVE utf8_parse(5, b) = 2
  BY <1>1, <1>8, Move
<1>9. ASSUME In(b, 144, 191) PROVE utf8_parse(6, b) = 3
  BY <1>1, <1>9, Move
<1>10. ASSUME In(b, 128, 191) PROVE utf8_parse(7, b) = 3
  BY <1>1, <1>10, Move
<1>11. ASSUME In(b, 128, 143) PROVE utf8_parse(8, b) = 3
  BY <1>1, <1>11, Move
<1> QED  BY <1>3, <1>4, <1>5, <1>6, <1>7, <1>8, <1>9, <1>10, <1>11

\* The states after the first bytes of c.  Bytes that begin a character and
\* do not end it lead to a state q.
One(c)   == utf8_parse(0, c[1])
Two(c)   == utf8_parse(One(c), c[2])
Three(c) == utf8_parse(Two(c), c[3])
Four(c)  == utf8_parse(Three(c), c[4])

Begun(c, q) ==
  /\ q \notin {0, 1}
  /\ \/ Len(c) = 1 /\ q = One(c)
     \/ Len(c) = 2 /\ One(c) # 0 /\ q = Two(c)
     \/ Len(c) = 3 /\ One(c) # 0 /\ Two(c) # 0 /\ q = Three(c)
Partial(c, q) == (c = <<>> /\ q = 0) \/ Begun(c, q)

\* A character, said of its bytes one by one.
LEMMA ContinuationByte ==
  ASSUME NEW b \in Byte
  PROVE  b \in Continuation <=> In(b, 128, 191)
BY DEF Continuation, In, Byte

LEMMA FirstByteState ==
  ASSUME NEW b \in Byte
  PROVE  /\ utf8_parse(0, b) = 0 <=> b <= 127
         /\ b \in 0..127 <=> b <= 127
         /\ utf8_parse(0, b) \in Utf8State
<1>1. b \in Nat
  BY DEF Byte
<1>2. utf8_parse(0, b) = 0 <=> b <= 127
  BY <1>1, FirstByte
<1>3. utf8_parse(0, b) \in Utf8State
  BY FirstByte DEF Utf8State
<1> QED  BY <1>1, <1>2, <1>3

LEMMA TwoBytes ==
  ASSUME NEW x \in Byte, NEW y \in Byte
  PROVE  /\ x \in 192..223 /\ y \in Continuation /\ (x - 192) * 64 + (y - 128) >= 128
              <=> In(x, 194, 223) /\ In(y, 128, 191)
         /\ utf8_parse(0, x) # 0 /\ utf8_parse(utf8_parse(0, x), y) = 0
              <=> In(x, 194, 223) /\ In(y, 128, 191)
<1>1. y \in Continuation <=> In(y, 128, 191)
  BY ContinuationByte
<1>2. x \in 192..223 <=> In(x, 192, 223)
  BY DEF In, Byte
<1>3. x \in 192..223 /\ y \in Continuation /\ (x - 192) * 64 + (y - 128) >= 128
        <=> In(x, 194, 223) /\ In(y, 128, 191)
  BY <1>1, <1>2 DEF In, Byte
<1>4. /\ utf8_parse(2, y) = 0 <=> In(y, 128, 191)
      /\ \A q \in {1, 3, 4, 5, 6, 7, 8} : utf8_parse(q, y) # 0
  BY NextByte
<1>5. /\ utf8_parse(0, x) = 2 <=> In(x, 194, 223)
      /\ utf8_parse(0, x) \in 0..8
  BY FirstByte DEF In, Byte
<1>6. utf8_parse(0, x) # 0 /\ utf8_parse(utf8_parse(0, x), y) = 0
        <=> In(x, 194, 223) /\ In(y, 128, 191)
  BY <1>4, <1>5
<1> QED  BY <1>3, <1>6

LEMMA ThreeBytes ==
  ASSUME NEW x \in Byte, NEW y \in Byte, NEW z \in Byte,
         NEW point \in Int, point = ((x - 224) * 64 + (y - 128)) * 64 + (z - 128)
  PROVE  (/\ x \in 224..239 /\ y \in Continuation /\ z \in Continuation
          /\ point >= 2048 /\ ~(55296 <= point /\ point <= 57343))
           <=> (/\ utf8_parse(0, x) # 0 /\ utf8_parse(utf8_parse(0, x), y) # 0
                /\ utf8_parse(utf8_parse(utf8_parse(0, x), y), z) = 0)
<1> DEFINE Good == /\ In(x, 224, 239) /\ In(y, 128, 191) /\ In(z, 128, 191)
                   /\ x = 224 => y >= 160
                   /\ x = 237 => y <= 159
<1>1. /\ y \in Continuation <=> In(y, 128, 191)
      /\ z \in Continuation <=> In(z, 128, 191)
  BY ContinuationByte
<1>2. x \in 224..239 <=> In(x, 224, 239)
  BY DEF In, Byte
<1>3. (/\ x \in 224..239 /\ y \in Continuation /\ z \in Continuation
       /\ point >= 2048 /\ ~(55296 <= point /\ point <= 57343)) <=> Good
  <2>1. CASE In(x, 224, 239) /\ In(y, 128, 191) /\ In(z, 128, 191)
    <3>1. point >= 2048 /\ ~(55296 <= point /\ point <= 57343)
            <=> (x = 224 => y >= 160) /\ (x = 237 => y <= 159)
      BY <2>1 DEF In, Byte
    <3> QED  BY <1>1, <1>2, <2>1, <3>1
  <2> QED  BY <1>1, <1>2, <2>1
<1>4. /\ utf8_parse(2, z) = 0 <=> In(z, 128, 191)
      /\ \A q \in {1, 3, 4, 5, 6, 7, 8} : utf8_parse(q, z) # 0
  BY NextByte
<1>5. /\ utf8_parse(3, y) = 2 <=> In(y, 128, 191)
      /\ utf8_parse(4, y) = 2 <=> In(y, 160, 191)
      /\ utf8_parse(5, y) = 2 <=> In(y, 128, 159)
      /\ \A q \in {1, 2, 6, 7, 8} : utf8_parse(q, y) # 2
      /\ \A q \in 1..8 : utf8_parse(q, y) \in 0..3
  BY NextByte
<1>6. /\ utf8_parse(0, x) = 3 <=> In(x, 225, 239) /\ x # 237
      /\ utf8_parse(0, x) = 4 <=> x = 224
      /\ utf8_parse(0, x) = 5 <=> x = 237
      /\ utf8_parse(0, x) \in 0..8
  BY FirstByte DEF In, Byte
<1>7. (/\ utf8_parse(0, x) # 0 /\ utf8_parse(utf8_parse(0, x), y) # 0
       /\ utf8_parse(utf8_parse(utf8_parse(0, x), y), z) = 0)
        <=> utf8_parse(0, x) # 0 /\ utf8_parse(utf8_parse(0, x), y) = 2 /\ In(z, 128, 191)
  <2>1. utf8_parse(0, x) # 0 => utf8_parse(utf8_parse(0, x), y) \in 0..3
    BY <1>5, <1>6
  <2> QED  BY <1>4, <2>1
<1>8. utf8_parse(0, x) # 0 /\ utf8_parse(utf8_parse(0, x), y) = 2
        <=> \/ utf8_parse(0, x) = 3 /\ In(y, 128, 191)
            \/ utf8_parse(0, x) = 4 /\ In(y, 160, 191)
            \/ utf8_parse(0, x) = 5 /\ In(y, 128, 159)
  BY <1>5, <1>6
<1>9. Good <=> /\ \/ In(x, 225, 239) /\ x # 237 /\ In(y, 128, 191)
                  \/ x = 224 /\ In(y, 160, 191)
                  \/ x = 237 /\ In(y, 128, 159)
               /\ In(z, 128, 191)
  BY DEF In, Byte
<1> HIDE DEF Good
<1> QED  BY <1>3, <1>6, <1>7, <1>8, <1>9

LEMMA FourBytes ==
  ASSUME NEW x \in Byte, NEW y \in Byte, NEW z \in Byte, NEW w \in Byte,
         NEW point \in Int, point = (((x - 240) * 64 + (y - 128)) * 64 + (z - 128)) * 64 + (w - 128)
  PROVE  (/\ x \in 240..247 /\ y \in Continuation /\ z \in Continuation /\ w \in Continuation
          /\ 65536 <= point /\ point <= 1114111)
           <=> (/\ utf8_parse(0, x) # 0 /\ utf8_parse(utf8_parse(0, x), y) # 0
                /\ utf8_parse(utf8_parse(utf8_parse(0, x), y), z) # 0
                /\ utf8_parse(utf8_parse(utf8_parse(utf8_parse(0, x), y), z), w) = 0)
<1> DEFINE Good == /\ In(x, 240, 244) /\ In(y, 128, 191) /\ In(z, 128, 191) /\ In(w, 128, 191)
                   /\ x = 240 => y >= 144
                   /\ x = 244 => y <= 143
           one   == utf8_parse(0, x)
           two   == utf8_parse(one, y)
           three == utf8_parse(two, z)
<1>1. /\ y \in Continuation <=> In(y, 128, 191)
      /\ z \in Continuation <=> In(z, 128, 191)
      /\ w \in Continuation <=> In(w, 128, 191)
  BY ContinuationByte
<1>2. x \in 240..247 <=> In(x, 240, 247)
  BY DEF In, Byte
<1>3. (/\ x \in 240..247 /\ y \in Continuation /\ z \in Continuation /\ w \in Continuation
       /\ 65536 <= point /\ point <= 1114111) <=> Good
  <2>1. CASE In(x, 240, 247) /\ In(y, 128, 191) /\ In(z, 128, 191) /\ In(w, 128, 191)
    <3>1. 65536 <= point /\ point <= 1114111
            <=> x <= 244 /\ (x = 240 => y >= 144) /\ (x = 244 => y <= 143)
      BY <2>1 DEF In, Byte
    <3>2. In(x, 240, 244) <=> x <= 244
      BY <2>1 DEF In, Byte
    <3> QED  BY <1>1, <1>2, <2>1, <3>1, <3>2
  <2>2. In(x, 240, 244) => In(x, 240, 247)
    BY DEF In, Byte
  <2> QED  BY <1>1, <1>2, <2>1, <2>2
<1>4. /\ utf8_parse(2, w) = 0 <=> In(w, 128, 191)
      /\ \A q \in {1, 3, 4, 5, 6, 7, 8} : utf8_parse(q, w) # 0
  BY NextByte
<1>5. /\ utf8_parse(3, z) = 2 <=> In(z, 128, 191)
      /\ utf8_parse(2, z) # 2 /\ utf8_parse(1, z) # 2
      /\ \A q \in 1..3 : utf8_parse(q, z) \in 0..3
  BY NextByte
<1>6. /\ utf8_parse(6, y) = 3 <=> In(y, 144, 191)
      /\ utf8_parse(7, y) = 3 <=> In(y, 128, 191)
      /\ utf8_parse(8, y) = 3 <=> In(y, 128, 143)
      /\ \A q \in {1, 2, 3, 4, 5} : utf8_parse(q, y) # 3
      /\ \A q \in 1..8 : utf8_parse(q, y) \in 0..3
  BY NextByte
<1>7. /\ one = 6 <=> x = 240
      /\ one = 7 <=> In(x, 241, 243)
      /\ one = 8 <=> x = 244
      /\ one \in 0..8
  BY FirstByte DEF In, Byte
<1>8. /\ one # 0 => two \in 0..3
      /\ one # 0 /\ two # 0 => three \in 0..3
  BY <1>5, <1>6, <1>7
<1>9. Good <=> /\ \/ In(x, 241, 243) /\ In(y, 128, 191)
                  \/ x = 240 /\ In(y, 144, 191)
                  \/ x = 244 /\ In(y, 128, 143)
               /\ In(z, 128, 191) /\ In(w, 128, 191)
  BY DEF In, Byte
<1>10. one # 0 /\ two = 3 <=> \/ one = 7 /\ In(y, 128, 191)
                              \/ one = 6 /\ In(y, 144, 191)
                              \/ one = 8 /\ In(y, 128, 143)
  BY <1>6, <1>7
<1>11. one # 0 /\ two # 0 /\ three = 2 <=> one # 0 /\ two = 3 /\ In(z, 128, 191)
  BY <1>5, <1>8
<1>12. one # 0 /\ two # 0 /\ three # 0 /\ utf8_parse(three, w) = 0
         <=> one # 0 /\ two # 0 /\ three = 2 /\ In(w, 128, 191)
  BY <1>4, <1>8
<1> HIDE DEF Good, one, two, three
<1>13. one # 0 /\ two # 0 /\ three # 0 /\ utf8_parse(three, w) = 0 <=> Good
  BY <1>7, <1>9, <1>10, <1>11, <1>12
<1> QED  BY <1>3, <1>13 DEF one, two, three

LEMMA PointOfThree ==
  ASSUME NEW x \in Byte, NEW y \in Byte, NEW z \in Byte
  PROVE  ((x - 224) * 64 + (y - 128)) * 64 + (z - 128) \in Int
BY DEF Byte

LEMMA PointOfFour ==
  ASSUME NEW x \in Byte, NEW y \in Byte, NEW z \in Byte, NEW w \in Byte
  PROVE  (((x - 240) * 64 + (y - 128)) * 64 + (z - 128)) * 64 + (w - 128) \in Int
BY DEF Byte

LEMMA CharacterRead ==
  ASSUME NEW c \in Seq(Byte)
  PROVE  /\ Len(c) = 1 => (IsCharacter(c) <=> One(c) = 0)
         /\ Len(c) = 2 => (IsCharacter(c) <=> One(c) # 0 /\ Two(c) = 0)
         /\ Len(c) = 3 => (IsCharacter(c) <=> One(c) # 0 /\ Two(c) # 0 /\ Three(c) = 0)
         /\ Len(c) = 4 => (IsCharacter(c) <=> One(c) # 0 /\ Two(c) # 0 /\ Three(c) # 0
                                                /\ Four(c) = 0)
         /\ IsCharacter(c) => Len(c) \in 1..4
<1>0. \A i \in 1..Len(c) : c[i] \in Byte
  OBVIOUS
<1>1. ASSUME Len(c) = 1 PROVE IsCharacter(c) <=> One(c) = 0
  <2>1. IsCharacter(c) <=> c[1] \in 0..127
    BY <1>1 DEF IsCharacter
  <2>2. c[1] \in Byte
    BY <1>1
  <2> QED  BY <2>1, <2>2, FirstByteState DEF One
<1>2. ASSUME Len(c) = 2 PROVE IsCharacter(c) <=> One(c) # 0 /\ Two(c) = 0
  <2>1. 2 \in 2..Len(c) /\ \A i \in 2..Len(c) : i = 2
    BY <1>2
  <2>2. CodePoint(c) = (c[1] - 192) * 64 + (c[2] - 128)
    BY <1>2 DEF CodePoint
  <2>3. IsCharacter(c) <=> /\ c[1] \in 192..223 /\ c[2] \in Continuation
                           /\ (c[1] - 192) * 64 + (c[2] - 128) >= 128
    <3>1. IsCharacter(c) <=> c[1] \in 192..223 /\ c[2] \in Continuation /\ CodePoint(c) >= 128
      BY <1>2, <2>1 DEF IsCharacter
    <3> QED  BY <2>2, <3>1
  <2>4. c[1] \in Byte /\ c[2] \in Byte
    BY <1>2
  <2> QED  BY <2>3, <2>4, TwoBytes DEF One, Two
<1>3. ASSUME Len(c) = 3
      PROVE  IsCharacter(c) <=> One(c) # 0 /\ Two(c) # 0 /\ Three(c) = 0
  <2> DEFINE point == CodePoint(c)
  <2>1. 2 \in 2..Len(c) /\ 3 \in 2..Len(c) /\ \A i \in 2..Len(c) : i \in {2, 3}
    BY <1>3
  <2>2. point = ((c[1] - 224) * 64 + (c[2] - 128)) * 64 + (c[3] - 128)
    BY <1>3 DEF CodePoint
  <2>3. c[1] \in Byte /\ c[2] \in Byte /\ c[3] \in Byte
    <3>1. 1 \in 1..Len(c) /\ 2 \in 1..Len(c) /\ 3 \in 1..Len(c)
      BY <1>3
    <3> QED  BY <1>0, <3>1
  <2>4. point \in Int
    <3>1. \A x, y, z \in Byte : \A p :
            p = ((x - 224) * 64 + (y - 128)) * 64 + (z - 128) => p \in Int
      BY PointOfThree
    <3> HIDE DEF point
    <3> QED  BY <2>2, <2>3, <3>1
  <2> HIDE DEF point
  <2>5. IsCharacter(c) <=> /\ c[1] \in 224..239 /\ c[2] \in Continuation /\ c[3] \in Continuation
                           /\ point >= 2048 /\ ~(55296 <= point /\ point <= 57343)
    BY <1>3, <2>1 DEF IsCharacter, point
  <2>6. (/\ c[1] \in 224..239 /\ c[2] \in Continuation /\ c[3] \in Continuation
         /\ point >= 2048 /\ ~(55296 <= point /\ point <= 57343))
         <=> One(c) # 0 /\ Two(c) # 0 /\ Three(c) = 0
    BY ONLY <2>2, <2>3, <2>4, ThreeBytes DEF One, Two, Three
  <2> QED  BY <2>5, <2>6
<1>4. ASSUME Len(c) = 4
      PROVE  IsCharacter(c) <=> One(c) # 0 /\ Two(c) # 0 /\ Three(c) # 0 /\ Four(c) = 0
  <2> DEFINE point == CodePoint(c)
  <2>1. /\ 2 \in 2..Len(c) /\ 3 \in 2..Len(c) /\ 4 \in 2..Len(c)
        /\ \A i \in 2..Len(c) : i \in {2, 3, 4}
    BY <1>4
  <2>2. point = (((c[1] - 240) * 64 + (c[2] - 128)) * 64 + (c[3] - 128)) * 64 + (c[4] - 128)
    BY <1>4 DEF CodePoint
  <2>3. c[1] \in Byte /\ c[2] \in Byte /\ c[3] \in Byte /\ c[4] \in Byte
    <3>1. 1 \in 1..Len(c) /\ 2 \in 1..Len(c) /\ 3 \in 1..Len(c) /\ 4 \in 1..Len(c)
      BY <1>4
    <3> QED  BY <1>0, <3>1
  <2>4. point \in Int
    <3>1. \A x, y, z, w \in Byte : \A p :
            p = (((x - 240) * 64 + (y - 128)) * 64 + (z - 128)) * 64 + (w - 128) => p \in Int
      BY PointOfFour
    <3> HIDE DEF point
    <3> QED  BY <2>2, <2>3, <3>1
  <2> HIDE DEF point
  <2>5. IsCharacter(c) <=> /\ c[1] \in 240..247
                           /\ c[2] \in Continuation /\ c[3] \in Continuation /\ c[4] \in Continuation
                           /\ 65536 <= point /\ point <= 1114111
    BY <1>4, <2>1 DEF IsCharacter, point
  <2>6. (/\ c[1] \in 240..247
         /\ c[2] \in Continuation /\ c[3] \in Continuation /\ c[4] \in Continuation
         /\ 65536 <= point /\ point <= 1114111)
         <=> One(c) # 0 /\ Two(c) # 0 /\ Three(c) # 0 /\ Four(c) = 0
    <3>1. \A x, y, z, w \in Byte :
            point = (((x - 240) * 64 + (y - 128)) * 64 + (z - 128)) * 64 + (w - 128)
              => ((/\ x \in 240..247 /\ y \in Continuation /\ z \in Continuation
                    /\ w \in Continuation /\ 65536 <= point /\ point <= 1114111)
                  <=> (/\ utf8_parse(0, x) # 0 /\ utf8_parse(utf8_parse(0, x), y) # 0
                       /\ utf8_parse(utf8_parse(utf8_parse(0, x), y), z) # 0
                       /\ utf8_parse(utf8_parse(utf8_parse(utf8_parse(0, x), y), z), w) = 0))
      BY ONLY <2>4, FourBytes
    <3> QED  BY ONLY <2>2, <2>3, <3>1 DEF One, Two, Three, Four
  <2> QED  BY <2>5, <2>6
<1>5. IsCharacter(c) => Len(c) \in 1..4
  BY DEF IsCharacter
<1> QED  BY <1>1, <1>2, <1>3, <1>4, <1>5

\* What the states say of the bytes that led to them.
LEMMA StatesAfter ==
  ASSUME NEW c \in Seq(Byte)
  PROVE  /\ Len(c) >= 1 => One(c) \in Utf8State
         /\ Len(c) >= 2 /\ One(c) # 0 => Two(c) \in {0, 1, 2, 3}
         /\ Len(c) >= 3 /\ One(c) # 0 /\ Two(c) # 0 => Three(c) \in {0, 1, 2}
         /\ Len(c) >= 4 /\ One(c) # 0 /\ Two(c) # 0 /\ Three(c) # 0 => Four(c) \in {0, 1}
<1>1. \A i \in 1..Len(c) : c[i] \in Byte
  OBVIOUS
<1>2. ASSUME Len(c) >= 1 PROVE One(c) \in Utf8State
  <2>1. c[1] \in Byte
    BY <1>1, <1>2
  <2> QED  BY <2>1, FirstByteState DEF One
<1>3. ASSUME Len(c) >= 2, One(c) # 0 PROVE Two(c) \in {0, 1, 2, 3}
  <2>1. c[2] \in Byte /\ One(c) \in 1..8
    BY <1>1, <1>2, <1>3 DEF Utf8State
  <2> QED  BY <2>1, NextByte DEF Two
<1>4. ASSUME Len(c) >= 3, One(c) # 0, Two(c) # 0 PROVE Three(c) \in {0, 1, 2}
  <2>1. c[3] \in Byte /\ Two(c) \in 1..3
    BY <1>1, <1>3, <1>4
  <2> QED  BY <2>1, NextByte DEF Three
<1>5. ASSUME Len(c) >= 4, One(c) # 0, Two(c) # 0, Three(c) # 0 PROVE Four(c) \in {0, 1}
  <2>1. c[4] \in Byte /\ Three(c) \in 1..2
    BY <1>1, <1>4, <1>5
  <2> QED  BY <2>1, NextByte DEF Four
<1> QED  BY <1>2, <1>3, <1>4, <1>5

\* One more byte, and one byte less.
LEMMA PartialStep ==
  ASSUME NEW d \in Seq(Byte), NEW b \in Byte
  PROVE  /\ IsCharacter(Append(d, b)) <=> \E q \in Utf8State : Partial(d, q) /\ utf8_parse(q, b) = 0
         /\ \A p \in Utf8State : Begun(Append(d, b), p) <=>
              \E q \in Utf8State : Partial(d, q) /\ utf8_parse(q, b) = p /\ p \notin {0, 1}
<1> DEFINE c == Append(d, b)
<1>1. /\ c \in Seq(Byte) /\ Len(c) = Len(d) + 1 /\ c[Len(d) + 1] = b
      /\ \A i \in 1..Len(d) : c[i] = d[i]
      /\ Len(d) \in Nat
  OBVIOUS
<1> HIDE DEF c
<1>2. CASE d = <<>>
  <2>1. Len(d) = 0 /\ One(c) = utf8_parse(0, b)
    BY <1>1, <1>2 DEF One
  <2>2. \A q \in Utf8State : Partial(d, q) <=> q = 0
    BY <1>2 DEF Partial, Begun
  <2>3. 0 \in Utf8State
    BY DEF Utf8State
  <2>4. IsCharacter(c) <=> One(c) = 0
    BY <1>1, <2>1, CharacterRead
  <2>5. \A p \in Utf8State : Begun(c, p) <=> p \notin {0, 1} /\ p = One(c)
    BY <1>1, <2>1 DEF Begun
  <2> QED  BY <2>1, <2>2, <2>3, <2>4, <2>5 DEF c
<1>3. CASE d # <<>>
  <2>0. Len(d) >= 1
    BY <1>3
  <2>1. One(c) = One(d) /\ One(d) \in Utf8State
    BY <1>1, <2>0, StatesAfter DEF One
  <2>2. \A q \in Utf8State : Partial(d, q) <=> Begun(d, q)
    BY <1>3 DEF Partial
  <2>3. CASE Len(d) = 1
    <3>1. Two(c) = utf8_parse(One(d), b)
      BY <1>1, <2>1, <2>3 DEF Two
    <3>2. \A q \in Utf8State : Begun(d, q) <=> q \notin {0, 1} /\ q = One(d)
      BY <2>3 DEF Begun
    <3>3. IsCharacter(c) <=> One(c) # 0 /\ Two(c) = 0
      BY <1>1, <2>3, CharacterRead
    <3>4. \A p \in Utf8State : Begun(c, p) <=> p \notin {0, 1} /\ One(c) # 0 /\ p = Two(c)
      BY <1>1, <2>3 DEF Begun
    <3>5. One(d) = 1 => Two(c) = 1
      BY <3>1, NextByte
    <3> QED  BY <2>1, <2>2, <3>1, <3>2, <3>3, <3>4, <3>5 DEF c
  <2>4. CASE Len(d) = 2
    <3>1. Two(c) = Two(d) /\ Three(c) = utf8_parse(Two(d), b)
      BY <1>1, <2>1, <2>4 DEF Two, Three
    <3>2. \A q \in Utf8State : Begun(d, q) <=> q \notin {0, 1} /\ One(d) # 0 /\ q = Two(d)
      BY <2>4 DEF Begun
    <3>3. IsCharacter(c) <=> One(c) # 0 /\ Two(c) # 0 /\ Three(c) = 0
      BY <1>1, <2>4, CharacterRead
    <3>4. \A p \in Utf8State : Begun(c, p) <=>
            p \notin {0, 1} /\ One(c) # 0 /\ Two(c) # 0 /\ p = Three(c)
      BY <1>1, <2>4 DEF Begun
    <3>5. Two(d) = 1 => Three(c) = 1
      BY <3>1, NextByte
    <3>6. One(d) # 0 => Two(d) \in Utf8State
      <4>1. One(d) # 0 => Two(d) \in {0, 1, 2, 3}
        <5>1. Len(d) >= 2
          BY <2>4
        <5> QED  BY <5>1, StatesAfter
      <4> QED  BY <4>1 DEF Utf8State
    <3> QED  BY <2>1, <2>2, <3>1, <3>2, <3>3, <3>4, <3>5, <3>6 DEF c
  <2>5. CASE Len(d) = 3
    <3>1. Two(c) = Two(d) /\ Three(c) = Three(d) /\ Four(c) = utf8_parse(Three(d), b)
      BY <1>1, <2>1, <2>5 DEF Two, Three, Four
    <3>2. \A q \in Utf8State : Begun(d, q) <=>
            q \notin {0, 1} /\ One(d) # 0 /\ Two(d) # 0 /\ q = Three(d)
      BY <2>5 DEF Begun
    <3>3. IsCharacter(c) <=> One(c) # 0 /\ Two(c) # 0 /\ Three(c) # 0 /\ Four(c) = 0
      BY <1>1, <2>5, CharacterRead
    <3>4. \A p \in Utf8State : ~Begun(c, p)
      BY <1>1, <2>5 DEF Begun
    <3>5. Three(d) = 1 => Four(c) = 1
      BY <3>1, NextByte
    <3>6. One(d) # 0 /\ Two(d) # 0 => Three(d) \in {0, 1, 2} /\ Three(d) \in Utf8State
      <4>1. One(d) # 0 /\ Two(d) # 0 => Three(d) \in {0, 1, 2}
        <5>1. Len(d) >= 3
          BY <2>5
        <5> QED  BY <5>1, StatesAfter
      <4> QED  BY <4>1 DEF Utf8State
    <3>7. Three(d) = 2 => Four(c) \in {0, 1}
      BY <3>1, NextByte
    <3> QED  BY <2>1, <2>2, <3>1, <3>2, <3>3, <3>4, <3>5, <3>6, <3>7 DEF c
  <2>6. CASE Len(d) >= 4
    <3>1. ~IsCharacter(c)
      BY <1>1, <2>6, CharacterRead
    <3>2. \A p \in Utf8State : ~Begun(c, p) /\ ~Begun(d, p)
      BY <1>1, <2>6 DEF Begun
    <3> QED  BY <2>2, <3>1, <3>2 DEF c
  <2>7. Len(d) = 1 \/ Len(d) = 2 \/ Len(d) = 3 \/ Len(d) >= 4
    <3>1. \A n \in Nat : n >= 1 => n = 1 \/ n = 2 \/ n = 3 \/ n >= 4
      OBVIOUS
    <3>2. Len(d) \in Nat
      OBVIOUS
    <3> QED  BY <2>0, <3>1, <3>2
  <2> QED  BY <2>3, <2>4, <2>5, <2>6, <2>7
<1> QED  BY <1>2, <1>3
----------------------------------------------------------------------------
(***************************************************************************)
(* A string, split into a text and the k bytes of a character that has not *)
(* ended, which lead to the state q.  A string is split in at most one     *)
(* way, and one byte more splits it in the way the automaton says.         *)
(***************************************************************************)

Beginning(s, k) == SubSeq(s, 1, Len(s) - k)
Ending(s, k)    == SubSeq(s, Len(s) - k + 1, Len(s))

Splits(s, k, q) == /\ k \in 0..3 /\ k <= Len(s) /\ q \in Utf8State
                   /\ IsText(Beginning(s, k)) /\ Partial(Ending(s, k), q)

LEMMA PiecesType ==
  ASSUME NEW s \in Seq(Byte), NEW k \in 0..Len(s)
  PROVE  /\ Beginning(s, k) \in Seq(Byte) /\ Ending(s, k) \in Seq(Byte)
         /\ Len(Beginning(s, k)) = Len(s) - k /\ Len(Ending(s, k)) = k
<1>1. Len(s) \in Nat /\ k \in Nat /\ k <= Len(s)
  OBVIOUS
<1>2. SubSeq(s, 1, Len(s) - k) \in Seq(Byte) /\ Len(SubSeq(s, 1, Len(s) - k)) = Len(s) - k
  <2>1. \A i \in 1..(Len(s) - k) : s[i] \in Byte
    BY <1>1
  <2> QED  BY <1>1, <2>1, SubSeqProperties
<1>3. /\ SubSeq(s, Len(s) - k + 1, Len(s)) \in Seq(Byte)
      /\ Len(SubSeq(s, Len(s) - k + 1, Len(s))) = k
  <2>1. \A i \in (Len(s) - k + 1)..Len(s) : s[i] \in Byte
    BY <1>1
  <2> QED  BY <1>1, <2>1, SubSeqProperties
<1> QED  BY <1>2, <1>3 DEF Beginning, Ending

LEMMA PiecesOfNone ==
  ASSUME NEW s \in Seq(Byte)
  PROVE  Beginning(s, 0) = s /\ Ending(s, 0) = <<>>
<1>1. SubSeq(s, 1, Len(s)) = s /\ SubSeq(s, Len(s) + 1, Len(s)) = <<>>
  OBVIOUS
<1>2. Len(s) - 0 = Len(s) /\ Len(s) - 0 + 1 = Len(s) + 1
  OBVIOUS
<1> QED  BY <1>1, <1>2 DEF Beginning, Ending

LEMMA PiecesOfAppend ==
  ASSUME NEW s \in Seq(Byte), NEW b \in Byte, NEW k \in 0..Len(s)
  PROVE  /\ Beginning(Append(s, b), k + 1) = Beginning(s, k)
         /\ Ending(Append(s, b), k + 1) = Append(Ending(s, k), b)
<1> DEFINE t == Append(s, b)
<1>1. t \in Seq(Byte) /\ Len(t) = Len(s) + 1 /\ k + 1 \in 0..Len(t)
  OBVIOUS
<1>2. t[Len(s) + 1] = b /\ \A i \in 1..Len(s) : t[i] = s[i]
  OBVIOUS
<1> HIDE DEF t
<1>3. Beginning(t, k + 1) = Beginning(s, k)
  <2>1. /\ Beginning(t, k + 1) \in Seq(Byte) /\ Len(Beginning(t, k + 1)) = Len(s) - k
        /\ Beginning(s, k) \in Seq(Byte) /\ Len(Beginning(s, k)) = Len(s) - k
    <3>1. Beginning(t, k + 1) \in Seq(Byte) /\ Len(Beginning(t, k + 1)) = Len(t) - (k + 1)
      BY <1>1, PiecesType
    <3>2. Len(t) - (k + 1) = Len(s) - k
      BY <1>1
    <3> QED  BY <3>1, <3>2, PiecesType
  <2>2. \A i \in 1..(Len(s) - k) : Beginning(t, k + 1)[i] = Beginning(s, k)[i]
    BY <1>1, <1>2 DEF Beginning
  <2>3. Len(s) - k \in Nat
    OBVIOUS
  <2>4. \A u, v \in Seq(Byte) : \A n \in Nat :
          Len(u) = n /\ Len(v) = n /\ (\A i \in 1..n : u[i] = v[i]) => u = v
    OBVIOUS
  <2> HIDE DEF t
  <2> QED  BY <2>1, <2>2, <2>3, <2>4
<1>4. Ending(t, k + 1) = Append(Ending(s, k), b)
  <2>1. /\ Ending(t, k + 1) \in Seq(Byte) /\ Len(Ending(t, k + 1)) = k + 1
        /\ Ending(s, k) \in Seq(Byte) /\ Len(Ending(s, k)) = k
    BY <1>1, PiecesType
  <2>2. ASSUME NEW i \in 1..(k + 1)
        PROVE  Ending(t, k + 1)[i] = Append(Ending(s, k), b)[i]
    <3>1. Ending(t, k + 1)[i] = t[Len(s) - k + i]
      BY <1>1 DEF Ending
    <3>2. CASE i = k + 1
      BY <1>2, <2>1, <3>1, <3>2
    <3>3. CASE i # k + 1
      <4>1. Ending(s, k)[i] = s[Len(s) - k + i] /\ i \in 1..k
        BY <3>3 DEF Ending
      <4> QED  BY <1>2, <2>1, <3>1, <4>1
    <3> QED  BY <3>2, <3>3
  <2> QED  BY <2>1, <2>2
<1> QED  BY <1>3, <1>4 DEF t

\* Bytes that end no character lead out of 0 and 1.
LEMMA SplitStates ==
  ASSUME NEW s \in Seq(Byte), NEW k, NEW q, Splits(s, k, q)
  PROVE  /\ k = 0 <=> q = 0
         /\ q # 1
         /\ k = 0 => IsText(s)
<1>1. k \in 0..Len(s)
  BY DEF Splits
<1>2. Len(Ending(s, k)) = k
  BY <1>1, PiecesType
<1>3. k = 0 => Ending(s, k) = <<>> /\ Beginning(s, k) = s
  BY PiecesOfNone
<1>4. k # 0 => Ending(s, k) # <<>>
  BY <1>1, <1>2
<1>5. Begun(<<>>, q) => FALSE
  BY DEF Begun
<1> QED  BY <1>2, <1>3, <1>4, <1>5 DEF Splits, Partial, Begun

LEMMA TextSplits ==
  ASSUME NEW s \in Seq(Byte)
  PROVE  IsText(s) <=> Splits(s, 0, 0)
<1>1. 0 \in 0..3 /\ 0 <= Len(s) /\ 0 \in Utf8State
  BY DEF Utf8State
<1> QED  BY <1>1, PiecesOfNone DEF Splits, Partial

\* One more byte.
LEMMA ByteMakesText ==
  ASSUME NEW s \in Seq(Byte), NEW b \in Byte
  PROVE  IsText(Append(s, b)) <=> \E k \in 0..3, q \in Utf8State :
                                     Splits(s, k, q) /\ utf8_parse(q, b) = 0
<1> DEFINE t == Append(s, b)
<1>1. t \in Seq(Byte) /\ Len(t) = Len(s) + 1 /\ t # <<>> /\ Len(s) \in Nat
  OBVIOUS
<1>2. IsText(t) <=> \E k \in 1..4 : /\ k <= Len(t) /\ IsText(Beginning(t, k))
                                    /\ IsCharacter(Ending(t, k))
  BY <1>1, TextEnds DEF Beginning, Ending
<1>3. ASSUME NEW k \in 0..3, k <= Len(s)
      PROVE  IsText(Beginning(t, k + 1)) /\ IsCharacter(Ending(t, k + 1))
               <=> \E q \in Utf8State : Splits(s, k, q) /\ utf8_parse(q, b) = 0
  <2>1. k \in 0..Len(s)
    BY <1>3
  <2>2. /\ Beginning(t, k + 1) = Beginning(s, k)
        /\ Ending(t, k + 1) = Append(Ending(s, k), b)
    BY <2>1, PiecesOfAppend
  <2>3. IsCharacter(Append(Ending(s, k), b))
          <=> \E q \in Utf8State : Partial(Ending(s, k), q) /\ utf8_parse(q, b) = 0
    BY <2>1, PiecesType, PartialStep
  <2> QED  BY <1>3, <2>2, <2>3 DEF Splits
<1> HIDE DEF t
<1>4. ASSUME NEW k \in 1..4, k <= Len(t) PROVE k - 1 \in 0..3 /\ k - 1 <= Len(s) /\ (k - 1) + 1 = k
  BY <1>1, <1>4
<1>5. ASSUME NEW k \in 0..3, k <= Len(s) PROVE k + 1 \in 1..4 /\ k + 1 <= Len(t)
  BY <1>1, <1>5
<1>6. IsText(t) => \E k \in 0..3, q \in Utf8State : Splits(s, k, q) /\ utf8_parse(q, b) = 0
  <2> SUFFICES ASSUME IsText(t)
               PROVE  \E k \in 0..3, q \in Utf8State : Splits(s, k, q) /\ utf8_parse(q, b) = 0
    OBVIOUS
  <2>1. PICK k \in 1..4 : /\ k <= Len(t) /\ IsText(Beginning(t, k)) /\ IsCharacter(Ending(t, k))
    BY <1>2
  <2>2. PICK j \in 0..3 : j <= Len(s) /\ j + 1 = k
    BY <1>4, <2>1
  <2> QED  BY <1>3, <2>1, <2>2
<1>7. (\E k \in 0..3, q \in Utf8State : Splits(s, k, q) /\ utf8_parse(q, b) = 0) => IsText(t)
  BY <1>2, <1>3, <1>5 DEF Splits
<1> QED  BY <1>6, <1>7 DEF t

LEMMA ByteGoesOn ==
  ASSUME NEW s \in Seq(Byte), NEW b \in Byte, NEW k \in 0..3, NEW p \in Utf8State
  PROVE  (p \notin {0, 1} /\ \E q \in Utf8State : Splits(s, k, q) /\ utf8_parse(q, b) = p)
           <=> Splits(Append(s, b), k + 1, p)
<1> DEFINE t == Append(s, b)
<1>1. t \in Seq(Byte) /\ Len(t) = Len(s) + 1 /\ Len(s) \in Nat
  OBVIOUS
<1> HIDE DEF t
<1>2. CASE k <= Len(s)
  <2>1. k \in 0..Len(s)
    BY <1>2
  <2>2. /\ Beginning(t, k + 1) = Beginning(s, k)
        /\ Ending(t, k + 1) = Append(Ending(s, k), b)
    BY <2>1, PiecesOfAppend DEF t
  <2>3. Ending(s, k) \in Seq(Byte) /\ Len(Ending(s, k)) = k
    BY <2>1, PiecesType
  <2>4. Begun(Append(Ending(s, k), b), p)
          <=> \E q \in Utf8State : Partial(Ending(s, k), q) /\ utf8_parse(q, b) = p /\ p \notin {0, 1}
    BY <2>3, PartialStep
  <2>5. Append(Ending(s, k), b) # <<>> /\ Len(Append(Ending(s, k), b)) = k + 1
    BY <2>3
  <2>6. Begun(Append(Ending(s, k), b), p) => k + 1 \in 0..3
    BY <2>5 DEF Begun
  <2>7. k + 1 <= Len(t)
    BY <1>1, <1>2
  <2>8. Splits(t, k + 1, p) <=> IsText(Beginning(s, k)) /\ Begun(Append(Ending(s, k), b), p)
    BY <2>2, <2>5, <2>6, <2>7 DEF Splits, Partial
  <2>9. \A q \in Utf8State : Splits(s, k, q) <=> IsText(Beginning(s, k)) /\ Partial(Ending(s, k), q)
    BY <1>2 DEF Splits
  <2> QED  BY <2>4, <2>8, <2>9 DEF t
<1>3. CASE ~(k <= Len(s))
  <2>1. ~(k + 1 <= Len(t))
    BY <1>1, <1>3
  <2> QED  BY <1>3, <2>1 DEF Splits, t
<1> QED  BY <1>2, <1>3

LEMMA SplitOnce ==
  ASSUME NEW s \in Seq(Byte), NEW k, NEW q, NEW j, NEW p, Splits(s, k, q), Splits(s, j, p)
  PROVE  k = j /\ q = p
<1> DEFINE Once(u) == \A k1, q1, k2, q2 : Splits(u, k1, q1) /\ Splits(u, k2, q2)
                                            => k1 = k2 /\ q1 = q2
           S == {n \in Nat : \A u \in Seq(Byte) : Len(u) = n => Once(u)}
<1>1. ASSUME NEW n \in Nat, \A m \in 0 .. (n - 1) : m \in S
      PROVE  n \in S
  <2> SUFFICES ASSUME NEW u \in Seq(Byte), Len(u) = n,
                      NEW k1, NEW q1, NEW k2, NEW q2, Splits(u, k1, q1), Splits(u, k2, q2)
               PROVE  k1 = k2 /\ q1 = q2
    OBVIOUS
  <2>1. k1 \in 0..3 /\ k2 \in 0..3 /\ q1 \in Utf8State /\ q2 \in Utf8State
        /\ k1 <= Len(u) /\ k2 <= Len(u)
    BY DEF Splits
  <2>2. CASE k1 = 0 /\ k2 = 0
    BY <2>2, SplitStates
  <2>3. CASE ~(k1 = 0 /\ k2 = 0)
    <3>1. PICK v \in Seq(Byte), b \in Byte : u = Append(v, b)
      <4>1. u # <<>> /\ Len(u) >= 1
        BY <2>1, <2>3
      <4>2. SubSeq(u, 1, Len(u) - 1) \in Seq(Byte) /\ u[Len(u)] \in Byte
        BY <4>1
      <4>3. u = Append(SubSeq(u, 1, Len(u) - 1), u[Len(u)])
        BY <4>1
      <4> QED  BY <4>2, <4>3
    <3>2. Once(v)
      <4>1. Len(v) \in 0..(n - 1)
        BY <3>1
      <4> QED  BY <1>1, <4>1
    <3>3. ASSUME NEW i \in 0..3, NEW r \in Utf8State, Splits(u, i, r), i # 0
          PROVE  \E x \in 0..3, y \in Utf8State :
                    i = x + 1 /\ Splits(v, x, y) /\ utf8_parse(y, b) = r /\ r \notin {0, 1}
      <4>1. PICK x \in 0..3 : i = x + 1
        <5>1. i - 1 \in 0..3 /\ i = (i - 1) + 1
          BY <3>3
        <5> QED  BY <5>1
      <4>2. Splits(Append(v, b), x + 1, r)
        BY <3>1, <3>3, <4>1
      <4> QED  BY <4>1, <4>2, ByteGoesOn
    <3>4. ASSUME NEW r \in Utf8State, Splits(u, 0, r)
          PROVE  r = 0 /\ \E x \in 0..3, y \in Utf8State : Splits(v, x, y) /\ utf8_parse(y, b) = 0
      <4>1. r = 0 /\ IsText(u)
        BY <3>4, SplitStates
      <4> QED  BY <3>1, <4>1, ByteMakesText
    <3> HIDE DEF S
    <3>5. CASE k1 = 0 /\ k2 # 0
      <4>1. PICK x \in 0..3, y \in Utf8State : Splits(v, x, y) /\ utf8_parse(y, b) = 0
        BY <2>1, <3>4, <3>5
      <4>2. PICK z \in 0..3, w \in Utf8State : Splits(v, z, w) /\ utf8_parse(w, b) \notin {0, 1}
        BY <2>1, <3>3, <3>5
      <4>3. y = w
        BY <3>2, <4>1, <4>2
      <4> QED  BY <4>1, <4>2, <4>3
    <3>6. CASE k1 # 0 /\ k2 = 0
      <4>1. PICK x \in 0..3, y \in Utf8State : Splits(v, x, y) /\ utf8_parse(y, b) = 0
        BY <2>1, <3>4, <3>6
      <4>2. PICK z \in 0..3, w \in Utf8State : Splits(v, z, w) /\ utf8_parse(w, b) \notin {0, 1}
        BY <2>1, <3>3, <3>6
      <4>3. y = w
        BY <3>2, <4>1, <4>2
      <4> QED  BY <4>1, <4>2, <4>3
    <3>7. CASE k1 # 0 /\ k2 # 0
      <4>1. PICK x \in 0..3, y \in Utf8State : k1 = x + 1 /\ Splits(v, x, y) /\ utf8_parse(y, b) = q1
        BY <2>1, <3>3, <3>7
      <4>2. PICK z \in 0..3, w \in Utf8State : k2 = z + 1 /\ Splits(v, z, w) /\ utf8_parse(w, b) = q2
        BY <2>1, <3>3, <3>7
      <4>3. x = z /\ y = w
        BY <3>2, <4>1, <4>2
      <4> QED  BY <4>1, <4>2, <4>3
    <3> QED  BY <2>3, <3>5, <3>6, <3>7
  <2> QED  BY <2>2, <2>3
<1>2. Nat \subseteq S
  <2> HIDE DEF S
  <2> QED  BY <1>1, StrongInduction
<1>3. Len(s) \in S
  BY <1>2
<1>4. Once(s)
  BY <1>3
<1> QED  BY <1>4

----------------------------------------------------------------------------
(***************************************************************************)
(* The state of the automaton and the string it has read.                  *)
(***************************************************************************)

Tracks(q, s) ==
  /\ q \in Utf8State
  /\ q # 1 => \E k \in 0..3 : Splits(s, k, q)
  /\ q = 1 => \A k \in 0..3, p \in Utf8State : ~Splits(s, k, p)

LEMMA TracksNothing == Tracks(0, <<>>)
<1>1. <<>> \in Seq(Byte)
  OBVIOUS
<1>2. Splits(<<>>, 0, 0)
  BY <1>1, TextEnds, TextSplits
<1>3. 0 \in Utf8State /\ 0 \in 0..3
  BY DEF Utf8State
<1> QED  BY <1>2, <1>3 DEF Tracks

LEMMA TracksByte ==
  ASSUME NEW s \in Seq(Byte), NEW q, Tracks(q, s), NEW b \in Byte
  PROVE  Tracks(utf8_parse(q, b), Append(s, b))
<1> DEFINE p == utf8_parse(q, b)
           t == Append(s, b)
<1>1. q \in Utf8State /\ t \in Seq(Byte)
  BY DEF Tracks
<1>2. p \in Utf8State
  <2>1. q = 0 \/ q \in 1..8
    BY <1>1 DEF Utf8State
  <2>2. q \in 1..8 => p \in Utf8State
    BY NextByte DEF Utf8State
  <2> QED  BY <2>1, <2>2, FirstByteState
\* A split of the string with the byte comes from one of the string.
<1>3. ASSUME NEW j \in 0..3, NEW r \in Utf8State, Splits(t, j, r)
      PROVE  \E i \in 0..3, x \in Utf8State :
               Splits(s, i, x) /\ utf8_parse(x, b) = r /\ r # 1
  <2>1. CASE j = 0
    <3>1. r = 0 /\ IsText(t)
      BY <1>1, <1>3, <2>1, SplitStates
    <3> QED  BY <3>1, ByteMakesText
  <2>2. CASE j # 0
    <3>1. PICK i \in 0..3 : j = i + 1
      <4>1. j - 1 \in 0..3 /\ j = (j - 1) + 1
        BY <2>2
      <4> QED  BY <4>1
    <3>2. r \notin {0, 1} /\ \E x \in Utf8State : Splits(s, i, x) /\ utf8_parse(x, b) = r
      BY <1>3, <3>1, ByteGoesOn
    <3> QED  BY <3>2
  <2> QED  BY <2>1, <2>2
<1>4. CASE q = 1
  <2>1. p = 1
    BY <1>4, NextByte
  <2>2. \A j \in 0..3, r \in Utf8State : ~Splits(t, j, r)
    BY <1>3, <1>4 DEF Tracks
  <2> QED  BY <1>2, <2>1, <2>2 DEF Tracks
<1>5. CASE q # 1
  <2>1. PICK k \in 0..3 : Splits(s, k, q)
    BY <1>5 DEF Tracks
  <2>2. CASE p = 0
    <3>1. IsText(t)
      BY <1>1, <2>1, <2>2, ByteMakesText
    <3>2. Splits(t, 0, p)
      BY <1>1, <2>2, <3>1, TextSplits
    <3> QED  BY <1>2, <2>2, <3>2 DEF Tracks
  <2>3. CASE p \notin {0, 1}
    <3>1. Splits(t, k + 1, p)
      BY <1>1, <1>2, <2>1, <2>3, ByteGoesOn
    <3>2. k + 1 \in 0..3
      BY <3>1 DEF Splits
    <3> QED  BY <1>2, <2>3, <3>1, <3>2 DEF Tracks
  <2>4. CASE p = 1
    <3>1. ASSUME NEW j \in 0..3, NEW r \in Utf8State, Splits(t, j, r) PROVE FALSE
      <4>1. PICK i \in 0..3, x \in Utf8State : Splits(s, i, x) /\ utf8_parse(x, b) = r /\ r # 1
        BY <1>3, <3>1
      <4>2. x = q
        BY <2>1, <4>1, SplitOnce
      <4> QED  BY <2>4, <4>1, <4>2
    <3> QED  BY <1>2, <2>4, <3>1 DEF Tracks
  <2> QED  BY <2>2, <2>3, <2>4
<1> QED  BY <1>4, <1>5

\* The state says whether the string is a text.
LEMMA CompleteTracks ==
  ASSUME NEW s \in Seq(Byte), NEW q, Tracks(q, s)
  PROVE  utf8_is_complete(q) <=> IsText(s)
<1>1. ASSUME q = 0 PROVE IsText(s)
  <2>1. PICK k \in 0..3 : Splits(s, k, 0)
    BY <1>1 DEF Tracks
  <2> QED  BY <2>1, SplitStates
<1>2. ASSUME IsText(s) PROVE q = 0
  <2>1. Splits(s, 0, 0)
    BY <1>2, TextSplits
  <2>2. 0 \in 0..3 /\ 0 \in Utf8State
    BY DEF Utf8State
  <2>3. q # 1
    BY <2>1, <2>2 DEF Tracks
  <2>4. PICK k \in 0..3 : Splits(s, k, q)
    BY <2>3 DEF Tracks
  <2> QED  BY <2>1, <2>4, SplitOnce
<1> QED  BY <1>1, <1>2 DEF utf8_is_complete

\* Bytes that can be completed to a character begin one, and the other way
\* round.
LEMMA BeginsWithout ==
  ASSUME NEW d \in Seq(Byte), d # <<>>, NEW b \in Byte
  PROVE  (IsCharacter(Append(d, b)) \/ \E p \in Utf8State : Begun(Append(d, b), p))
           => \E q \in Utf8State : Begun(d, q)
<1>1. \A q \in Utf8State : Partial(d, q) => Begun(d, q)
  BY DEF Partial
<1> QED  BY <1>1, PartialStep

LEMMA RestsAre ==
  ASSUME NEW r \in Rests
  PROVE  \/ r = <<>>
         \/ \E x \in Byte : r = <<x>>
         \/ \E x, y \in Byte : r = <<x, y>>
         \/ \E x, y, z \in Byte : r = <<x, y, z>>
<1>1. PICK n \in 0..3 : r \in [1..n -> {128, 144, 160}]
  BY DEF Rests
<1>2. 128 \in Byte /\ 144 \in Byte /\ 160 \in Byte
  BY DEF Byte
<1>3. r \in Seq(Byte) /\ Len(r) = n /\ r \in [1..n -> Byte]
  <2>1. r \in [1..n -> Byte]
    BY <1>1, <1>2
  <2> QED  BY <2>1
<1>4. CASE n = 0
  BY <1>3, <1>4
<1>5. CASE n = 1
  <2>1. r = <<r[1]>> /\ r[1] \in Byte
    BY <1>3, <1>5
  <2> QED  BY <2>1
<1>6. CASE n = 2
  <2>1. r = <<r[1], r[2]>> /\ r[1] \in Byte /\ r[2] \in Byte
    <3>0. r \in [1..2 -> Byte]
      BY <1>3, <1>6
    <3>1. r \in [1..2 -> Byte] /\ 1 \in 1..2 /\ 2 \in 1..2 /\ \A i \in 1..2 : i = 1 \/ i = 2
      BY <3>0
    <3>2. <<r[1], r[2]>> \in [1..2 -> Byte]
      BY <3>1
    <3> QED  BY <3>1, <3>2
  <2> QED  BY <2>1
<1>7. CASE n = 3
  <2>1. r = <<r[1], r[2], r[3]>> /\ r[1] \in Byte /\ r[2] \in Byte /\ r[3] \in Byte
    <3>1. /\ r \in [1..3 -> Byte] /\ 1 \in 1..3 /\ 2 \in 1..3 /\ 3 \in 1..3
          /\ \A i \in 1..3 : i = 1 \/ i = 2 \/ i = 3
      <4>1. r \in [1..3 -> Byte]
        BY <1>3, <1>7
      <4> QED  BY <4>1
    <3>2. <<r[1], r[2], r[3]>> \in [1..3 -> Byte]
      BY <3>1
    <3> QED  BY <3>1, <3>2
  <2> QED  BY <2>1
<1> QED  BY <1>4, <1>5, <1>6, <1>7

LEMMA AppendOne ==
  ASSUME NEW d \in Seq(Byte), NEW x \in Byte
  PROVE  d \o <<x>> = Append(d, x) /\ Append(d, x) \in Seq(Byte) /\ Append(d, x) # <<>>
<1>1. Append(d, x) \in Seq(Byte) /\ Len(Append(d, x)) = Len(d) + 1 /\ Len(d) \in Nat
  OBVIOUS
<1>2. Len(Append(d, x)) # 0
  BY <1>1
<1>3. Append(d, x) # <<>>
  <2>1. Len(<<>>) = 0
    OBVIOUS
  <2> QED  BY ONLY <1>2, <2>1, Zenon
<1>4. d \o <<x>> = Append(d, x)
  OBVIOUS
<1> QED  BY <1>1, <1>3, <1>4

LEMMA AppendTwo ==
  ASSUME NEW d \in Seq(Byte), NEW x \in Byte, NEW y \in Byte
  PROVE  d \o <<x, y>> = Append(Append(d, x), y)
OBVIOUS

LEMMA AppendThree ==
  ASSUME NEW d \in Seq(Byte), NEW x \in Byte, NEW y \in Byte, NEW z \in Byte
  PROVE  d \o <<x, y, z>> = Append(Append(Append(d, x), y), z)
OBVIOUS

LEMMA Completed ==
  ASSUME NEW d \in Seq(Byte), NEW q \in Utf8State, Begun(d, q)
  PROVE  \E r \in Rests : IsCharacter(d \o r)
<1>1. 128 \in Byte /\ 144 \in Byte /\ 160 \in Byte
  BY DEF Byte
<1>2. /\ utf8_parse(2, 128) = 0 /\ utf8_parse(3, 128) = 2 /\ utf8_parse(4, 160) = 2
      /\ utf8_parse(5, 128) = 2 /\ utf8_parse(6, 144) = 3 /\ utf8_parse(7, 128) = 3
      /\ utf8_parse(8, 128) = 3
  BY <1>1, NextByte DEF In
<1>3. \A c \in Seq(Byte) : \A p \in Utf8State : Begun(c, p) => Partial(c, p)
  BY DEF Partial
<1>4. 2 \in Utf8State /\ 3 \in Utf8State
  BY DEF Utf8State
<1>5. \A c \in Seq(Byte) : Begun(c, 2) => IsCharacter(Append(c, 128))
  BY <1>1, <1>2, <1>3, <1>4, PartialStep
<1>6. ASSUME NEW c \in Seq(Byte), NEW p \in {3, 4, 5}, Begun(c, p)
      PROVE  \E x \in {128, 160} : Begun(Append(c, x), 2)
  <2>1. p \in Utf8State
    BY DEF Utf8State
  <2>2. PICK x \in {128, 160} : utf8_parse(p, x) = 2
    BY <1>2, <1>6
  <2> QED  BY <1>1, <1>3, <1>4, <1>6, <2>1, <2>2, PartialStep
<1>7. ASSUME NEW c \in Seq(Byte), NEW p \in {6, 7, 8}, Begun(c, p)
      PROVE  \E x \in {128, 144} : Begun(Append(c, x), 3)
  <2>1. p \in Utf8State
    BY DEF Utf8State
  <2>2. PICK x \in {128, 144} : utf8_parse(p, x) = 3
    BY <1>2, <1>7
  <2> QED  BY <1>1, <1>3, <1>4, <1>7, <2>1, <2>2, PartialStep
<1>8. q \in {2, 3, 4, 5, 6, 7, 8}
  BY DEF Begun, Utf8State
<1>9. /\ \A r \in [1..1 -> {128, 144, 160}] : r \in Rests
      /\ \A r \in [1..2 -> {128, 144, 160}] : r \in Rests
      /\ \A r \in [1..3 -> {128, 144, 160}] : r \in Rests
  <2>1. 1 \in 0..3 /\ 2 \in 0..3 /\ 3 \in 0..3
    OBVIOUS
  <2> QED  BY <2>1 DEF Rests
<1>10. CASE q = 2
  <2>1. PICK r : r = <<128>>
    OBVIOUS
  <2>2. r \in Rests
    <3>1. r \in [1..1 -> {128, 144, 160}]
      BY <2>1
    <3> QED  BY <1>9, <3>1
  <2>3. d \o r = Append(d, 128)
    BY <1>1, <2>1, AppendOne
  <2>4. IsCharacter(d \o r)
    BY <1>5, <1>10, <2>3
  <2> QED  BY <2>2, <2>4
<1>11. CASE q \in {3, 4, 5}
  <2>1. PICK x \in {128, 160} : Begun(Append(d, x), 2)
    BY <1>6, <1>11
  <2>2. x \in Byte
    BY <1>1
  <2>3. PICK r : r = <<x, 128>>
    OBVIOUS
  <2>4. r \in Rests
    <3>1. r \in [1..2 -> {128, 144, 160}]
      BY <2>3
    <3> QED  BY <1>9, <3>1
  <2>5. d \o r = Append(Append(d, x), 128)
    BY <1>1, <2>2, <2>3, AppendTwo
  <2>6. IsCharacter(d \o r)
    <3>1. Append(d, x) \in Seq(Byte)
      BY <2>2
    <3>2. IsCharacter(Append(Append(d, x), 128))
      BY <1>5, <2>1, <3>1
    <3> QED  BY ONLY <2>5, <3>2, Zenon
  <2> QED  BY <2>4, <2>6
<1>12. CASE q \in {6, 7, 8}
  <2>1. PICK x \in {128, 144} : Begun(Append(d, x), 3)
    BY <1>7, <1>12
  <2>2. x \in Byte /\ Append(d, x) \in Seq(Byte)
    BY <1>1
  <2>3. PICK y \in {128, 160} : Begun(Append(Append(d, x), y), 2)
    BY <1>6, <2>1, <2>2
  <2>4. y \in Byte /\ Append(Append(d, x), y) \in Seq(Byte)
    BY <1>1, <2>2
  <2>5. PICK r : r = <<x, y, 128>>
    OBVIOUS
  <2>6. r \in Rests
    <3>1. r \in [1..3 -> {128, 144, 160}]
      BY <2>5
    <3> QED  BY <1>9, <3>1
  <2>7. d \o r = Append(Append(Append(d, x), y), 128)
    BY <1>1, <2>2, <2>4, <2>5, AppendThree
  <2>8. IsCharacter(d \o r)
    <3>1. IsCharacter(Append(Append(Append(d, x), y), 128))
      BY <1>5, <2>3, <2>4
    <3> QED  BY ONLY <2>7, <3>1, Zenon
  <2> QED  BY <2>6, <2>8
<1> QED  BY <1>8, <1>10, <1>11, <1>12

LEMMA Completable ==
  ASSUME NEW d \in Seq(Byte), d # <<>>
  PROVE  (\E r \in Rests : IsCharacter(d \o r))
           <=> IsCharacter(d) \/ \E q \in Utf8State : Begun(d, q)
<1> DEFINE Goal == IsCharacter(d) \/ \E q \in Utf8State : Begun(d, q)
<1>0. \A c \in Seq(Byte) : \A b \in Byte :
        c # <<>> /\ (IsCharacter(Append(c, b)) \/ \E p \in Utf8State : Begun(Append(c, b), p))
          => \E q \in Utf8State : Begun(c, q)
  BY BeginsWithout
<1>1. ASSUME NEW r \in Rests, IsCharacter(d \o r) PROVE Goal
  <2>1. CASE r = <<>>
    <3>1. d \o <<>> = d
      OBVIOUS
    <3> QED  BY <1>1, <2>1, <3>1
  <2>2. ASSUME NEW x \in Byte, r = <<x>> PROVE Goal
    <3>1. IsCharacter(Append(d, x))
      BY <1>1, <2>2, AppendOne
    <3> QED  BY <1>0, <3>1
  <2>3. ASSUME NEW x \in Byte, NEW y \in Byte, r = <<x, y>> PROVE Goal
    <3>1. IsCharacter(Append(Append(d, x), y)) /\ Append(d, x) \in Seq(Byte) /\ Append(d, x) # <<>>
      BY <1>1, <2>3, AppendOne, AppendTwo
    <3>2. \E p \in Utf8State : Begun(Append(d, x), p)
      BY <1>0, <3>1
    <3> QED  BY <1>0, <3>2
  <2>4. ASSUME NEW x \in Byte, NEW y \in Byte, NEW z \in Byte, r = <<x, y, z>> PROVE Goal
    <3>1. /\ IsCharacter(Append(Append(Append(d, x), y), z))
          /\ Append(d, x) \in Seq(Byte) /\ Append(d, x) # <<>>
      BY <1>1, <2>4, AppendOne, AppendThree
    <3>2. Append(Append(d, x), y) \in Seq(Byte) /\ Append(Append(d, x), y) # <<>>
      BY <3>1, AppendOne
    <3>3. \E p \in Utf8State : Begun(Append(Append(d, x), y), p)
      BY <1>0, <3>1, <3>2
    <3>4. \E p \in Utf8State : Begun(Append(d, x), p)
      BY <1>0, <3>1, <3>3
    <3> QED  BY <1>0, <3>4
  <2> QED  BY RestsAre, <2>1, <2>2, <2>3, <2>4
<1>2. ASSUME IsCharacter(d) PROVE \E r \in Rests : IsCharacter(d \o r)
  <2>1. <<>> \in Rests
    <3>1. <<>> \in [1..0 -> {128, 144, 160}] /\ 0 \in 0..3
      OBVIOUS
    <3> QED  BY <3>1 DEF Rests
  <2>2. d \o <<>> = d
    OBVIOUS
  <2> QED  BY <1>2, <2>1, <2>2
<1>3. (\E q \in Utf8State : Begun(d, q)) => \E r \in Rests : IsCharacter(d \o r)
  BY Completed
<1> QED  BY <1>1, <1>2, <1>3

\* What starts a text is a text and the beginning of a character.
LEMMA StartsSplits ==
  ASSUME NEW s \in Seq(Byte)
  PROVE  StartsText(s) <=> \E k \in 0..3, q \in Utf8State : Splits(s, k, q)
<1>0. Len(s) \in Nat
  OBVIOUS
<1>1. StartsText(s) <=>
        \E k \in 0..3 : /\ k <= Len(s) /\ IsText(Beginning(s, k))
                        /\ k = 0 \/ \E r \in Rests : IsCharacter(Ending(s, k) \o r)
  BY DEF StartsText, Beginning, Ending
<1>2. ASSUME NEW k \in 1..3, k <= Len(s)
      PROVE  (\E r \in Rests : IsCharacter(Ending(s, k) \o r))
               <=> IsCharacter(Ending(s, k)) \/ \E q \in Utf8State : Begun(Ending(s, k), q)
  <2>1. k \in 0..Len(s)
    BY <1>0, <1>2
  <2>2. Ending(s, k) \in Seq(Byte) /\ Ending(s, k) # <<>>
    BY <2>1, PiecesType
  <2> QED  BY <2>2, Completable
<1>3. ASSUME StartsText(s)
      PROVE  \E k \in 0..3, q \in Utf8State : Splits(s, k, q)
  <2>0. 0 \in 0..3 /\ 0 \in Utf8State
    BY DEF Utf8State
  <2>1. PICK k \in 0..3 : /\ k <= Len(s) /\ IsText(Beginning(s, k))
                          /\ k = 0 \/ \E r \in Rests : IsCharacter(Ending(s, k) \o r)
    BY <1>1, <1>3
  <2>2. CASE k = 0
    <3>1. IsText(s)
      BY <2>1, <2>2, PiecesOfNone
    <3> QED  BY <2>0, <3>1, TextSplits
  <2>3. CASE k # 0
    <3>1. k \in 1..3 /\ k \in 1..4
      BY <2>3
    <3>2. CASE IsCharacter(Ending(s, k))
      <4>1. IsText(s)
        BY <2>1, <3>1, <3>2, TextEnds DEF Beginning, Ending
      <4> QED  BY <2>0, <4>1, TextSplits
    <3>3. CASE \E q \in Utf8State : Begun(Ending(s, k), q)
      BY <2>1, <3>3 DEF Splits, Partial
    <3> QED  BY <1>2, <2>1, <2>3, <3>1, <3>2, <3>3
  <2> QED  BY <2>2, <2>3
<1>4. ASSUME NEW k \in 0..3, NEW q \in Utf8State, Splits(s, k, q)
      PROVE  StartsText(s)
  <2>1. k <= Len(s) /\ IsText(Beginning(s, k)) /\ Partial(Ending(s, k), q) /\ k \in 0..Len(s)
    BY <1>0, <1>4 DEF Splits
  <2>2. CASE k = 0
    BY <1>1, <2>1, <2>2
  <2>3. CASE k # 0
    <3>1. k \in 1..3
      BY <2>3
    <3>2. Ending(s, k) # <<>>
      BY <2>1, <2>3, PiecesType
    <3>3. Begun(Ending(s, k), q)
      BY <2>1, <3>2 DEF Partial
    <3> QED  BY <1>1, <1>2, <2>1, <3>1, <3>3
  <2> QED  BY <2>2, <2>3
<1> QED  BY <1>3, <1>4

\* The state says whether anything can make a text of the string.
LEMMA InvalidTracks ==
  ASSUME NEW s \in Seq(Byte), NEW q, Tracks(q, s)
  PROVE  utf8_is_invalid(q) <=> ~StartsText(s)
<1>1. CASE q = 1
  BY <1>1, StartsSplits DEF Tracks, utf8_is_invalid
<1>2. CASE q # 1
  BY <1>2, StartsSplits DEF Tracks, utf8_is_invalid
<1> QED  BY <1>1, <1>2

\* What splits a string splits what comes before its last bytes.
LEMMA SplitBeforeLast ==
  ASSUME NEW s \in Seq(Byte), NEW k \in 1..3, NEW q, Splits(s, k, q)
  PROVE  /\ 1 \in 0..Len(s)
         /\ \E p \in Utf8State : Splits(Beginning(s, 1), k - 1, p)
<1>1. Len(s) \in Nat /\ k <= Len(s) /\ q \in Utf8State
  BY DEF Splits
<1>2. 1 \in 0..Len(s) /\ Len(s) >= 1
  BY <1>1
<1>3. PICK v \in Seq(Byte), b \in Byte : v = Beginning(s, 1) /\ b = s[Len(s)]
  BY <1>2, PiecesType
<1>4. s = Append(v, b)
  BY <1>2, <1>3 DEF Beginning
<1>5. PICK i \in 0..3 : i = k - 1 /\ k = i + 1
  OBVIOUS
<1>6. Splits(Append(v, b), i + 1, q)
  BY <1>4, <1>5
<1>7. \E p \in Utf8State : Splits(v, i, p)
  BY <1>1, <1>6, ByteGoesOn
<1> QED  BY <1>2, <1>3, <1>5, <1>7

LEMMA SplitBefore ==
  ASSUME NEW s \in Seq(Byte), NEW k \in 0..3, NEW q, Splits(s, k, q), NEW j \in 0..3, j < k
  PROVE  \E p \in Utf8State : Splits(Beginning(s, j), k - j, p)
<1>0. Len(s) \in Nat /\ k <= Len(s) /\ q \in Utf8State
  BY DEF Splits
<1>1. CASE j = 0
  <2>1. Beginning(s, j) = s /\ k - j = k
    BY <1>1, PiecesOfNone
  <2> QED  BY <1>0, <2>1
<1>2. CASE j = 1
  <2>1. k \in 1..3
    BY <1>2
  <2> QED  BY <1>2, <2>1, SplitBeforeLast
<1>3. CASE j = 2
  <2>1. k \in 1..3 /\ k - 1 \in 1..3 /\ (k - 1) - 1 = k - j
    BY <1>3
  <2>2. PICK p \in Utf8State : Splits(Beginning(s, 1), k - 1, p)
    BY <2>1, SplitBeforeLast
  <2>3. Beginning(s, 1) \in Seq(Byte) /\ Len(Beginning(s, 1)) = Len(s) - 1
    BY <2>1, SplitBeforeLast, PiecesType
  <2>4. \E r \in Utf8State : Splits(Beginning(Beginning(s, 1), 1), (k - 1) - 1, r)
    BY <2>1, <2>2, <2>3, SplitBeforeLast
  <2>5. Beginning(Beginning(s, 1), 1) = Beginning(s, j)
    <3>1. Len(s) >= 2
      BY <1>0, <1>3
    <3>2. SubSeq(SubSeq(s, 1, Len(s) - 1), 1, Len(s) - 2) = SubSeq(s, 1, Len(s) - 2)
      BY <3>1
    <3>3. (Len(s) - 1) - 1 = Len(s) - 2
      BY <1>0
    <3> QED  BY <1>3, <2>3, <3>2, <3>3 DEF Beginning
  <2> QED  BY <2>1, <2>4, <2>5
<1> QED  BY <1>1, <1>2, <1>3

\* A string that is split at k is no text with fewer bytes left off.
LEMMA SplitLeavesLeast ==
  ASSUME NEW s \in Seq(Byte), NEW k \in 0..3, NEW q, Splits(s, k, q),
         NEW j \in 0..3, j <= Len(s), IsText(Beginning(s, j))
  PROVE  k <= j
<1> SUFFICES ASSUME j < k PROVE FALSE
  OBVIOUS
<1>1. PICK p \in Utf8State : Splits(Beginning(s, j), k - j, p)
  BY SplitBefore
<1>2. Beginning(s, j) \in Seq(Byte)
  <2>1. j \in 0..Len(s)
    OBVIOUS
  <2> QED  BY <2>1, PiecesType
<1>3. Splits(Beginning(s, j), 0, 0)
  BY <1>2, TextSplits
<1>4. k - j = 0
  BY <1>1, <1>2, <1>3, SplitOnce
<1> QED  BY <1>4

\* The bytes of a character that has not ended lead to the state they led to.
LEMMA EndingTracks ==
  ASSUME NEW s \in Seq(Byte), NEW k \in 0..3, NEW q, Splits(s, k, q)
  PROVE  Ending(s, k) \in Seq(Byte) /\ Tracks(q, Ending(s, k))
<1>1. k \in 0..Len(s) /\ Len(s) \in Nat
  BY DEF Splits
<1>2. Ending(s, k) \in Seq(Byte) /\ Len(Ending(s, k)) = k
  BY <1>1, PiecesType
<1>3. Beginning(Ending(s, k), k) = <<>> /\ Ending(Ending(s, k), k) = Ending(s, k)
  <2>1. \A t \in Seq(Byte) : Len(t) = k =>
          SubSeq(t, 1, Len(t) - k) = <<>> /\ SubSeq(t, Len(t) - k + 1, Len(t)) = t
    OBVIOUS
  <2> QED  BY <1>2, <2>1 DEF Beginning, Ending
<1>4. IsText(<<>>)
  <2>1. <<>> \in Seq(Byte)
    OBVIOUS
  <2> QED  BY <2>1, TextEnds
<1>5. Splits(Ending(s, k), k, q)
  BY <1>2, <1>3, <1>4 DEF Splits
<1>6. q # 1 /\ q \in Utf8State
  BY SplitStates DEF Splits
<1> QED  BY <1>2, <1>5, <1>6 DEF Tracks

=============================================================================
