--------------------------- MODULE WsFramesProofs ---------------------------
(***************************************************************************)
(* WsFrames for any frames, any cuts of the stream and any limits: the     *)
(* parser keeps its types, what is prepared reads as what it was made of,  *)
(* close frames are answered, and the messages acted on are those the      *)
(* client sent.                                                            *)
(*                                                                         *)
(* What the model defines by recursion on a sequence (decode, IsUtf8,      *)
(* Number, Stream, Meaning) is reasoned about through the sequence of its  *)
(* intermediate values: Recursion shows that there is one, and a fact      *)
(* about it passes from index to index (StepsTo).                          *)
(***************************************************************************)
EXTENDS WsFrames, SequenceTheorems, WellFoundedInduction, TLAPS

-----------------------------------------------------------------------------
(* Induction and recursion over the naturals.                               *)

\* A set of naturals has a least one.
LEMMA NatLeast ==
  ASSUME NEW S, S \subseteq Nat, S # {} PROVE \E x \in S : \A y \in S : x <= y
  <1> DEFINE R == OpToRel(<, Nat)
  <1>1. IsWellFoundedOn(R, Nat)
    BY NatLessThanWellFounded
  <1> HIDE DEF R
  <1>2. PICK x \in S : \A y \in S : <<y, x>> \notin R
    BY <1>1, WFMin
  <1>3. ASSUME NEW y \in S PROVE x <= y
    <2>1. x \in Nat /\ y \in Nat
      OBVIOUS
    <2>2. y < x => <<y, x>> \in R
      BY <2>1 DEF R, OpToRel
    <2> QED BY <1>2, <2>1, <2>2
  <1> QED BY <1>2, <1>3

\* Induction, as a fact about sets.
LEMMA NatSteps ==
  ASSUME NEW S, 0 \in S, \A n \in Nat : n \in S => n + 1 \in S PROVE Nat \subseteq S
  <1> SUFFICES ASSUME Nat \ S # {} PROVE FALSE
    OBVIOUS
  <1>1. PICK x \in Nat \ S : \A y \in Nat \ S : x <= y
    BY NatLeast
  <1>2. x # 0 /\ x - 1 \in Nat /\ (x - 1) + 1 = x
    BY <1>1
  <1>3. x - 1 \in Nat \ S
    BY <1>2
  <1> QED BY <1>1, <1>2, <1>3

\* What holds of the first index and passes from one to the next holds up to n.
LEMMA StepsTo ==
  ASSUME NEW n \in Nat, NEW S, 0 \in S, \A i \in 1 .. n : i - 1 \in S => i \in S
  PROVE  0 .. n \subseteq S
  <1> DEFINE T == {i \in Nat : i <= n => i \in S}
  <1>1. 0 \in T
    OBVIOUS
  <1>2. \A i \in Nat : i \in T => i + 1 \in T
    OBVIOUS
  <1>3. Nat \subseteq T
    <2> HIDE DEF T
    <2> QED BY <1>1, <1>2, NatSteps
  <1> QED BY <1>3

\* v's value for an index is op's of the index and of v's value before.
Iterates(v, base, n, op) == v[0] = base /\ \A i \in 1 .. n : v[i] = op[i][v[i - 1]]

\* A value for every index of the last one's and the index: there is such a
\* function.
LEMMA Recursion ==
  ASSUME NEW V, NEW base \in V, NEW n \in Nat, NEW op \in [1 .. n -> [V -> V]]
  PROVE  \E v \in [0 .. n -> V] : Iterates(v, base, n, op)
  <1> DEFINE S == {k \in 0 .. n : \E v \in [0 .. k -> V] :
                     v[0] = base /\ \A i \in 1 .. k : v[i] = op[i][v[i - 1]]}
  <1>1. 0 \in S
    <2>1. [i \in 0 .. 0 |-> base] \in [0 .. 0 -> V] /\ 0 \in 0 .. 0 /\ 1 .. 0 = {} /\ 0 \in 0 .. n
      OBVIOUS
    <2> QED BY <2>1
  <1>2. ASSUME NEW k \in 1 .. n, k - 1 \in S PROVE k \in S
    <2>1. PICK v \in [0 .. k - 1 -> V] :
            v[0] = base /\ \A i \in 1 .. k - 1 : v[i] = op[i][v[i - 1]]
      BY <1>2
    <2> DEFINE x == op[k][v[k - 1]]
    <2>2. x \in V
      OBVIOUS
    <2> DEFINE w == [i \in 0 .. k |-> IF i = k THEN x ELSE v[i]]
    <2>3. w \in [0 .. k -> V] /\ w[0] = base
      BY <2>1, <2>2
    <2>4. ASSUME NEW i \in 1 .. k PROVE w[i] = op[i][w[i - 1]]
      <3>1. i - 1 \in 0 .. k - 1 /\ w[i - 1] = v[i - 1]
        OBVIOUS
      <3>2. CASE i = k
        BY <3>1, <3>2
      <3>3. CASE i # k
        <4>1. i \in 1 .. k - 1 /\ w[i] = v[i]
          BY <3>3
        <4> QED BY <2>1, <3>1, <4>1
      <3> QED BY <3>2, <3>3
    <2>5. k \in 0 .. n
      OBVIOUS
    <2> HIDE DEF w
    <2> QED BY <2>3, <2>4, <2>5
  <1>3. n \in S
    <2> HIDE DEF S
    <2>1. 0 .. n \subseteq S
      BY <1>1, <1>2, StepsTo
    <2> QED BY <2>1
  <1> QED BY <1>3 DEF Iterates

-----------------------------------------------------------------------------
(* The validator, byte by byte.                                             *)

\* The table has a state for every state and byte.
LEMMA Moves == \A q \in 0 .. 8, b \in Byte : Type(b) \in 0 .. 11 /\ utf8d(q, Type(b)) \in 0 .. 8
  <1>1. ASSUME NEW b \in Byte PROVE Type(b) \in 0 .. 11
    BY DEF Type, Byte
  <1>2. ASSUME NEW q \in 0 .. 8, NEW t \in 0 .. 11 PROVE utf8d(q, t) \in 0 .. 8
    BY SMTT(30) DEF utf8d, utf8_reject
  <1> QED BY <1>1, <1>2

\* The states a validator goes through that starts in q.
Runs(q, s, v) ==
  /\ v \in [0 .. Len(s) -> 0 .. 8] /\ v[0] = q
  /\ \A i \in 1 .. Len(s) : v[i] = utf8d(v[i - 1], Type(s[i]))

\* There is one run only ...
LEMMA OneRun ==
  ASSUME NEW q, NEW s \in Seq(Byte), NEW v, NEW w, Runs(q, s, v), Runs(q, s, w)
  PROVE  \A i \in 0 .. Len(s) : v[i] = w[i]
  <1> DEFINE n == Len(s)
             S == {i \in 0 .. n : v[i] = w[i]}
  <1>0. n \in Nat
    BY LenProperties
  <1>1. 0 \in S
    BY <1>0 DEF Runs
  <1>2. \A i \in 1 .. n : i - 1 \in S => i \in S
    BY <1>0 DEF Runs
  <1>3. 0 .. n \subseteq S
    <2> HIDE DEF S, n
    <2> QED BY <1>0, <1>1, <1>2, StepsTo
  <1> QED BY <1>3

\* ... and there is one.
LEMMA SomeRun ==
  ASSUME NEW q \in 0 .. 8, NEW s \in Seq(Byte) PROVE \E v : Runs(q, s, v)
  <1> DEFINE n == Len(s)
             V == 0 .. 8
             first == q
             op == [i \in 1 .. n |-> [r \in V |-> utf8d(r, Type(s[i]))]]
  <1>1. n \in Nat /\ \A i \in 1 .. n : s[i] \in Byte
    BY LenProperties
  <1>2. op \in [1 .. n -> [V -> V]] /\ first \in V /\ n \in Nat
    BY <1>1, Moves
  <1>3. PICK v \in [0 .. n -> V] : v[0] = first /\ \A i \in 1 .. n : v[i] = op[i][v[i - 1]]
    <2> HIDE DEF op, n, V, first
    <2>1. \E v \in [0 .. n -> V] : Iterates(v, first, n, op)
      BY <1>2, Recursion
    <2> QED BY <2>1 DEF Iterates
  <1>4. \A i \in 1 .. n : v[i] = utf8d(v[i - 1], Type(s[i]))
    <2> SUFFICES ASSUME NEW i \in 1 .. n PROVE v[i] = utf8d(v[i - 1], Type(s[i]))
      OBVIOUS
    <2>1. i - 1 \in 0 .. n /\ v[i - 1] \in V
      BY <1>1
    <2> QED BY <1>3, <2>1
  <1> QED BY <1>3, <1>4 DEF Runs

\* decode ends where the run does.
LEMMA Decoded ==
  ASSUME NEW q \in 0 .. 8, NEW s \in Seq(Byte), NEW v, Runs(q, s, v)
  PROVE  decode(q, s) = v[Len(s)]
  <1> DEFINE n == Len(s)
             E(w) == w = [i \in 0 .. n |-> IF i = 0 THEN q ELSE utf8d(w[i - 1], Type(s[i]))]
             d == CHOOSE w : E(w)
  <1>1. n \in Nat
    BY LenProperties
  <1>2. E(v)
    <2>1. \A i \in 0 .. n : v[i] = IF i = 0 THEN q ELSE utf8d(v[i - 1], Type(s[i]))
      BY <1>1 DEF Runs
    <2> QED BY <2>1 DEF Runs
  <1>3. E(d)
    <2> HIDE DEF E
    <2> QED BY <1>2
  <1>4. decode(q, s) = d[n]
    BY DEF decode
  <1> HIDE DEF d
  <1>5. Runs(q, s, d)
    <2> DEFINE S == {i \in 0 .. n : d[i] \in 0 .. 8}
    <2>1. \A i \in 1 .. n : s[i] \in Byte
      BY LenProperties
    <2>2. 0 \in S
      BY <1>1, <1>3
    <2>3. ASSUME NEW i \in 1 .. n, i - 1 \in S PROVE i \in S
      <3>1. /\ i \in 0 .. n /\ i # 0 /\ i - 1 \in 0 .. n /\ s[i] \in Byte
            /\ d[i - 1] \in 0 .. 8
        BY <1>1, <2>1, <2>3
      <3>2. d[i] = utf8d(d[i - 1], Type(s[i]))
        BY <1>3, <3>1
      <3>3. d[i] \in 0 .. 8
        BY <3>1, <3>2, Moves
      <3> QED BY <3>1, <3>3
    <2>4. 0 .. n \subseteq S
      <3> HIDE DEF S, n
      <3> QED BY <1>1, <2>2, <2>3, StepsTo
    <2>5. d \in [0 .. n -> 0 .. 8]
      BY <1>3, <2>4
    <2> QED BY <1>1, <1>3, <2>5 DEF Runs
  <1>6. n \in 0 .. n
    BY <1>1
  <1> QED BY <1>4, <1>5, <1>6, OneRun

\* A text decoded in two pieces.
LEMMA DecodeConcat ==
  ASSUME NEW q \in 0 .. 8, NEW s \in Seq(Byte), NEW t \in Seq(Byte)
  PROVE  /\ decode(q, s) \in 0 .. 8 /\ decode(q, <<>>) = q
         /\ decode(q, s \o t) = decode(decode(q, s), t)
  <1>1. PICK v : Runs(q, s, v)
    BY SomeRun
  <1>2. Len(s) \in Nat /\ Len(t) \in Nat /\ v[0] = q /\ v[Len(s)] \in 0 .. 8
    BY <1>1, LenProperties DEF Runs
  <1>3. decode(q, s) = v[Len(s)]
    BY <1>1, Decoded
  <1>4. decode(q, <<>>) = q
    <2>1. <<>> \in Seq(Byte) /\ Len(<<>>) = 0
      BY EmptySeq
    <2>2. PICK w : Runs(q, <<>>, w)
      BY <2>1, SomeRun
    <2>3. decode(q, <<>>) = w[Len(<<>>)]
      BY <2>1, <2>2, Decoded
    <2> QED BY <2>1, <2>2, <2>3 DEF Runs
  <1>5. PICK w : Runs(v[Len(s)], t, w)
    BY <1>2, SomeRun
  <1>6. decode(decode(q, s), t) = w[Len(t)]
    BY <1>2, <1>3, <1>5, Decoded
  <1>7. /\ s \o t \in Seq(Byte) /\ Len(s \o t) = Len(s) + Len(t)
        /\ \A i \in 1 .. Len(s) + Len(t) :
             (s \o t)[i] = IF i <= Len(s) THEN s[i] ELSE t[i - Len(s)]
    BY ConcatProperties
  <1> DEFINE x == [i \in 0 .. Len(s) + Len(t) |-> IF i <= Len(s) THEN v[i] ELSE w[i - Len(s)]]
  <1>8. Runs(q, s \o t, x)
    <2>1. x \in [0 .. Len(s) + Len(t) -> 0 .. 8] /\ x[0] = q
      BY <1>1, <1>2, <1>5 DEF Runs
    <2>2. ASSUME NEW i \in 1 .. Len(s) + Len(t)
          PROVE  x[i] = utf8d(x[i - 1], Type((s \o t)[i]))
      <3>1. CASE i <= Len(s)
        BY <1>1, <1>2, <1>7, <3>1 DEF Runs
      <3>2. CASE i > Len(s)
        <4>1. /\ i - Len(s) \in 1 .. Len(t) /\ (s \o t)[i] = t[i - Len(s)]
              /\ x[i] = w[i - Len(s)]
          BY <1>2, <1>7, <3>2
        <4>2. x[i - 1] = w[(i - Len(s)) - 1]
          <5>1. CASE i = Len(s) + 1
            BY <1>2, <1>5, <5>1 DEF Runs
          <5>2. CASE i # Len(s) + 1
            BY <1>2, <3>2, <5>2
          <5> QED BY <5>1, <5>2
        <4> QED BY <1>5, <4>1, <4>2 DEF Runs
      <3> QED BY <1>2, <3>1, <3>2
    <2> HIDE DEF x
    <2> QED BY <1>7, <2>1, <2>2 DEF Runs
  <1>9. x[Len(s) + Len(t)] = w[Len(t)]
    <2>1. CASE Len(t) = 0
      BY <1>2, <1>5, <2>1 DEF Runs
    <2>2. CASE Len(t) # 0
      BY <1>2, <2>2
    <2> QED BY <2>1, <2>2
  <1>10. decode(q, s \o t) = x[Len(s) + Len(t)]
    <2> HIDE DEF x
    <2> QED BY <1>7, <1>8, Decoded
  <1> QED BY <1>2, <1>3, <1>4, <1>6, <1>9, <1>10

-----------------------------------------------------------------------------
(* The table, by ranges of bytes.                                           *)

Follow == 128 .. 191

Moved(q, b) ==
  CASE q = 0 -> IF b < 128 THEN 0 ELSE IF b \in 194 .. 223 THEN 2 ELSE IF b = 224 THEN 4
                ELSE IF b = 237 THEN 5 ELSE IF b \in 225 .. 239 THEN 3 ELSE IF b = 240 THEN 6
                ELSE IF b \in 241 .. 243 THEN 7 ELSE IF b = 244 THEN 8 ELSE 1
    [] q = 2 -> IF b \in Follow THEN 0 ELSE 1
    [] q = 3 -> IF b \in Follow THEN 2 ELSE 1
    [] q = 4 -> IF b \in 160 .. 191 THEN 2 ELSE 1
    [] q = 5 -> IF b \in 128 .. 159 THEN 2 ELSE 1
    [] q = 6 -> IF b \in 144 .. 191 THEN 3 ELSE 1
    [] q = 7 -> IF b \in Follow THEN 3 ELSE 1
    [] q = 8 -> IF b \in 128 .. 143 THEN 3 ELSE 1
    [] OTHER -> 1

\* The types of bytes, and back.
LEMMA TypeOf ==
  ASSUME NEW b \in 0 .. 255
  PROVE  /\ b < 128 => Type(b) = 0
         /\ b \in 128 .. 143 => Type(b) = 1
         /\ b \in 144 .. 159 => Type(b) = 9
         /\ b \in 160 .. 191 => Type(b) = 7
         /\ b \in {192, 193} => Type(b) = 8
         /\ b \in 194 .. 223 => Type(b) = 2
         /\ b = 224 => Type(b) = 10
         /\ b = 237 => Type(b) = 4
         /\ b \in 225 .. 236 => Type(b) = 3
         /\ b \in 238 .. 239 => Type(b) = 3
         /\ b = 240 => Type(b) = 11
         /\ b \in 241 .. 243 => Type(b) = 6
         /\ b = 244 => Type(b) = 5
         /\ b > 244 => Type(b) = 8
  <1>1. b < 128 => Type(b) = 0
    BY DEF Type
  <1>2. b \in 128 .. 143 => Type(b) = 1
    BY DEF Type
  <1>3. b \in 144 .. 159 => Type(b) = 9
    BY DEF Type
  <1>4. b \in 160 .. 191 => Type(b) = 7
    BY DEF Type
  <1>5. b \in {192, 193} => Type(b) = 8
    BY DEF Type
  <1>6. b \in 194 .. 223 => Type(b) = 2
    BY DEF Type
  <1>7. b = 224 => Type(b) = 10
    BY DEF Type
  <1>8. b = 237 => Type(b) = 4
    BY DEF Type
  <1>9. b \in 225 .. 236 => Type(b) = 3
    BY DEF Type
  <1>10. b \in 238 .. 239 => Type(b) = 3
    BY DEF Type
  <1>11. b = 240 => Type(b) = 11
    BY DEF Type
  <1>12. b \in 241 .. 243 => Type(b) = 6
    BY DEF Type
  <1>13. b = 244 => Type(b) = 5
    BY DEF Type
  <1>14. b > 244 => Type(b) = 8
    BY DEF Type
  <1> QED BY <1>1, <1>2, <1>3, <1>4, <1>5, <1>6, <1>7,
             <1>8, <1>9, <1>10, <1>11, <1>12, <1>13, <1>14

\* The types of continuation bytes.
LEMMA TypeBack ==
  ASSUME NEW b \in 0 .. 255
  PROVE  /\ Type(b) = 1 <=> b \in 128 .. 143
         /\ Type(b) = 9 <=> b \in 144 .. 159
         /\ Type(b) = 7 <=> b \in 160 .. 191
  <1> DEFINE t == Type(b)
  <1> HIDE DEF t
  <1>1. \/ t = 0 /\ b < 128
        \/ t = 1 /\ b \in 128 .. 143
        \/ t = 9 /\ b \in 144 .. 159
        \/ t = 7 /\ b \in 160 .. 191
        \/ b > 191 /\ t \in {8, 2, 10, 4, 3, 11, 6, 5}
    <2>1. CASE b < 192
      BY <2>1, TypeOf DEF t
    <2>2. CASE b \in 192 .. 236
      BY <2>2, TypeOf DEF t
    <2>3. CASE b \in 237 .. 255
      BY <2>3, TypeOf DEF t
    <2> QED BY <2>1, <2>2, <2>3
  <1> QED BY <1>1 DEF t

\* The table of utf8_validator.hpp read by ranges of bytes.
LEMMA Table == \A q \in 0 .. 8, b \in Byte : utf8d(q, Type(b)) = Moved(q, b)
  <1> SUFFICES ASSUME NEW q \in 0 .. 8, NEW b \in Byte PROVE utf8d(q, Type(b)) = Moved(q, b)
    BY Zenon
  <1> DEFINE t == Type(b)
  <1>1. b \in 0 .. 255 /\ t \in 0 .. 11
    BY Moves DEF Byte
  <1>2. CASE q = 0
    <2>1. utf8d(0, t) = <<0,1,2,3,5,8,7,1,1,1,4,6>>[t + 1]
      BY DEF utf8d
    <2>2. /\ t = 0 => utf8d(0, t) = 0
          /\ t = 1 => utf8d(0, t) = 1
          /\ t = 2 => utf8d(0, t) = 2
          /\ t = 3 => utf8d(0, t) = 3
          /\ t = 4 => utf8d(0, t) = 5
          /\ t = 5 => utf8d(0, t) = 8
          /\ t = 6 => utf8d(0, t) = 7
          /\ t = 7 => utf8d(0, t) = 1
          /\ t = 8 => utf8d(0, t) = 1
          /\ t = 9 => utf8d(0, t) = 1
          /\ t = 10 => utf8d(0, t) = 4
          /\ t = 11 => utf8d(0, t) = 6
      <3> HIDE DEF t
      <3> QED BY <2>1
    <2> DEFINE u == utf8d(0, t)
    <2> HIDE DEF t, u
    <2>3. u = Moved(0, b)
      <3>1. CASE b < 194
        <4>1. t \in {0, 1, 7, 8, 9} /\ (t = 0 <=> b < 128)
          BY <1>1, <3>1, TypeOf DEF t
        <4>2. u = IF b < 128 THEN 0 ELSE 1
          BY <2>2, <4>1 DEF u
        <4> QED BY <1>1, <3>1, <4>2 DEF Moved
      <3>2. CASE b \in 194 .. 236
        <4>1. u = IF b < 224 THEN 2 ELSE IF b = 224 THEN 4 ELSE 3
          BY <1>1, <2>2, <3>2, TypeOf DEF t, u
        <4> QED BY <1>1, <3>2, <4>1 DEF Moved
      <3>3. CASE b \in 237 .. 255
        <4>1. u = IF b = 237 THEN 5 ELSE IF b < 240 THEN 3 ELSE IF b = 240 THEN 6
                  ELSE IF b < 244 THEN 7 ELSE IF b = 244 THEN 8 ELSE 1
          BY <1>1, <2>2, <3>3, TypeOf DEF t, u
        <4> QED BY <1>1, <3>3, <4>1 DEF Moved
      <3> QED BY <1>1, <3>1, <3>2, <3>3
    <2> QED BY <1>2, <2>3 DEF t, u
  <1>3. CASE q # 0
    <2>1. /\ t = 1 <=> b \in 128 .. 143
          /\ t = 9 <=> b \in 144 .. 159
          /\ t = 7 <=> b \in 160 .. 191
      BY <1>1, TypeBack
    <2> HIDE DEF t
    <2>2. /\ q = 1 => utf8d(q, t) = 1
          /\ q = 2 => utf8d(q, t) = (IF t \in {1, 7, 9} THEN 0 ELSE 1)
          /\ q = 3 => utf8d(q, t) = (IF t \in {1, 7, 9} THEN 2 ELSE 1)
          /\ q = 4 => utf8d(q, t) = (IF t = 7 THEN 2 ELSE 1)
      BY DEF utf8d, utf8_reject
    <2>3. /\ q = 5 => utf8d(q, t) = (IF t \in {1, 9} THEN 2 ELSE 1)
          /\ q = 6 => utf8d(q, t) = (IF t \in {7, 9} THEN 3 ELSE 1)
          /\ q = 7 => utf8d(q, t) = (IF t \in {1, 7, 9} THEN 3 ELSE 1)
          /\ q = 8 => utf8d(q, t) = (IF t = 1 THEN 3 ELSE 1)
      BY DEF utf8d, utf8_reject
    <2>4. q \in 1 .. 4 => utf8d(q, t) = Moved(q, b)
      BY <1>1, <2>1, <2>2 DEF Moved, Follow
    <2>5. q \in 5 .. 8 => utf8d(q, t) = Moved(q, b)
      BY <1>1, <2>1, <2>3 DEF Moved, Follow
    <2>6. utf8d(q, t) = Moved(q, b)
      BY <1>3, <2>4, <2>5
    <2> QED BY <2>6 DEF t
  <1> QED BY <1>2, <1>3

States == 0 .. 8

\* Where a state comes from.
LEMMA TableBack ==
  ASSUME NEW q \in States, NEW b \in Byte
  PROVE  /\ Moved(q, b) \in States
         /\ q = 1 => Moved(q, b) = 1
         /\ Moved(q, b) = 0 => q \in {0, 2}
         /\ Moved(q, b) = 2 => q \in {0, 3, 4, 5}
         /\ Moved(q, b) = 3 => q \in {0, 6, 7, 8}
         /\ Moved(q, b) \in 4 .. 8 => q = 0
  BY SMTT(60) DEF Moved, Follow, Byte, States

-----------------------------------------------------------------------------
(* Code points, and the states they lead through.                           *)

\* What the first byte of a code point says, and the next.
LEMMA MovedFirst ==
  ASSUME NEW a \in Byte
  PROVE  /\ Moved(0, a) = 0 <=> a < 128
         /\ Moved(0, a) = 2 <=> a \in 194 .. 223
         /\ Moved(0, a) = 3 <=> a \in 225 .. 239 /\ a # 237
         /\ Moved(0, a) = 4 <=> a = 224
         /\ Moved(0, a) = 5 <=> a = 237
         /\ Moved(0, a) = 6 <=> a = 240
         /\ Moved(0, a) = 7 <=> a \in 241 .. 243
         /\ Moved(0, a) = 8 <=> a = 244
  BY DEF Moved, Byte

LEMMA MovedNext ==
  ASSUME NEW b \in Byte
  PROVE  /\ Moved(2, b) = 0 <=> b \in Follow
         /\ Moved(3, b) = 2 <=> b \in Follow
         /\ Moved(4, b) = 2 <=> b \in 160 .. 191
         /\ Moved(5, b) = 2 <=> b \in 128 .. 159
         /\ Moved(6, b) = 3 <=> b \in 144 .. 191
         /\ Moved(7, b) = 3 <=> b \in Follow
         /\ Moved(8, b) = 3 <=> b \in 128 .. 143
  BY DEF Moved, Follow, Byte

\* Following bytes.
LEMMA Following ==
  ASSUME NEW b \in Byte
  PROVE  Between(b, 128, 191) <=> b \in Follow
  BY DEF Between, Follow, Byte

LEMMA OneByte ==
  ASSUME NEW a \in Byte
  PROVE  Between(a, 0, 127) <=> Moved(0, a) = 0
  BY SMT DEF Between, Moved, Byte

\* One byte, two, three and four: the numbers and the states agree.
LEMMA PointOne ==
  ASSUME NEW s \in Seq(Byte), Len(s) = 1
  PROVE  CodePoint(s) <=> Moved(0, s[1]) = 0
  <1>0. s \in [1 .. Len(s) -> Byte]
    BY LenProperties
  <1>1. s[1] \in Byte
    BY <1>0
  <1>2. Value(s) = s[1]
    BY SMT DEF Value
  <1>3. \A i \in 2 .. Len(s) : Between(s[i], 128, 191)
    OBVIOUS
  <1>4. CodePoint(s) <=> Between(s[1], 0, 127)
    BY <1>2, <1>3, SMT DEF CodePoint
  <1> QED BY <1>1, <1>4, OneByte

LEMMA TwoBytes ==
  ASSUME NEW a \in Byte, NEW b \in Byte
  PROVE  /\ b \in Follow
         /\ Between((a - 192) * 64 + (b - 128), 128, 2047)
         <=> Moved(0, a) = 2 /\ Moved(2, b) = 0
  <1>1. /\ Moved(0, a) = 2 <=> a \in 194 .. 223
        /\ Moved(2, b) = 0 <=> b \in Follow
    BY MovedFirst, MovedNext
  <1>2. b \in 128 .. 191 => (Between((a - 192) * 64 + (b - 128), 128, 2047) <=> a \in 194 .. 223)
    BY SMT DEF Between, Byte
  <1> QED BY <1>1, <1>2 DEF Follow

LEMMA PointTwo ==
  ASSUME NEW s \in Seq(Byte), Len(s) = 2
  PROVE  CodePoint(s) <=> Moved(0, s[1]) = 2 /\ Moved(2, s[2]) = 0
  <1>0. s \in [1 .. Len(s) -> Byte]
    BY LenProperties
  <1>1. s[1] \in Byte /\ s[2] \in Byte
    BY <1>0
  <1> DEFINE n == (s[1] - 192) * 64 + (s[2] - 128)
  <1>2. Value(s) = n
    BY SMT DEF Value
  <1>3. s[2] \in Follow /\ Between(n, 128, 2047) <=> Moved(0, s[1]) = 2 /\ Moved(2, s[2]) = 0
    BY <1>1, TwoBytes
  <1> HIDE DEF n
  <1>4. (\A i \in 2 .. Len(s) : Between(s[i], 128, 191)) <=> s[2] \in Follow
    <2>1. (\A i \in 2 .. Len(s) : Between(s[i], 128, 191)) <=> Between(s[2], 128, 191)
      OBVIOUS
    <2> QED BY <1>1, <2>1, Following
  <1>5. CodePoint(s) <=> s[2] \in Follow /\ Between(n, 128, 2047)
    BY <1>2, <1>4, SMT DEF CodePoint
  <1> QED BY <1>3, <1>5

Three(a, b, c) == (a - 224) * 4096 + (b - 128) * 64 + (c - 128)

\* Neither longer than needed nor a surrogate.
LEMMA ThreeBytes ==
  ASSUME NEW a \in Byte, NEW b \in Byte, NEW c \in Byte
  PROVE  /\ b \in Follow /\ c \in Follow
         /\ Between(Three(a, b, c), 2048, 65535) /\ ~Between(Three(a, b, c), 55296, 57343)
         <=> /\ Moved(0, a) \in {3, 4, 5}
             /\ Moved(Moved(0, a), b) = 2
             /\ Moved(2, c) = 0
  <1> DEFINE n == Three(a, b, c)
             p == Between(n, 2048, 65535) /\ ~Between(n, 55296, 57343)
             m == Moved(0, a)
  <1>1. /\ m = 3 <=> a \in 225 .. 239 /\ a # 237
        /\ m = 4 <=> a = 224
        /\ m = 5 <=> a = 237
    BY MovedFirst
  <1>2. /\ Moved(3, b) = 2 <=> b \in Follow
        /\ Moved(4, b) = 2 <=> b \in 160 .. 191
        /\ Moved(5, b) = 2 <=> b \in 128 .. 159
        /\ Moved(2, c) = 0 <=> c \in Follow
    BY MovedNext
  <1> HIDE DEF m
  <1>3. b \in 128 .. 191 /\ c \in 128 .. 191
        => (p <=> \/ a = 224 /\ b \in 160 .. 191
                  \/ a = 237 /\ b \in 128 .. 159
                  \/ a \in 225 .. 239 /\ a # 237)
    <2> SUFFICES ASSUME b \in 128 .. 191, c \in 128 .. 191
                 PROVE  p <=> \/ a = 224 /\ b \in 160 .. 191
                              \/ a = 237 /\ b \in 128 .. 159
                              \/ a \in 225 .. 239 /\ a # 237
      OBVIOUS
    <2>1. CASE a < 224
      BY <2>1, SMT DEF Between, Byte, Three
    <2>2. CASE a = 224
      BY <2>2, SMT DEF Between, Byte, Three
    <2>3. CASE a \in 225 .. 236
      BY <2>3, SMT DEF Between, Byte, Three
    <2>4. CASE a = 237
      BY <2>4, SMT DEF Between, Byte, Three
    <2>5. CASE a \in 238 .. 239
      BY <2>5, SMT DEF Between, Byte, Three
    <2>6. CASE a > 239
      BY <2>6, SMT DEF Between, Byte, Three
    <2> QED BY <2>1, <2>2, <2>3, <2>4, <2>5, <2>6, SMT DEF Byte
  <1> HIDE DEF p
  <1>4. b \in Follow /\ c \in Follow /\ p
        <=> m \in {3, 4, 5} /\ Moved(m, b) = 2 /\ Moved(2, c) = 0
    <2>1. CASE ~(b \in Follow /\ c \in Follow)
      BY <1>1, <1>2, <2>1 DEF Follow, Byte
    <2>2. CASE b \in Follow /\ c \in Follow
      <3>1. m \in {3, 4, 5} /\ Moved(m, b) = 2
            <=> \/ a = 224 /\ b \in 160 .. 191
                \/ a = 237 /\ b \in 128 .. 159
                \/ a \in 225 .. 239 /\ a # 237
        BY <1>1, <1>2, <2>2
      <3> QED BY <1>2, <1>3, <2>2, <3>1 DEF Follow
    <2> QED BY <2>1, <2>2
  <1> QED BY <1>4 DEF p, m

LEMMA PointThree ==
  ASSUME NEW s \in Seq(Byte), Len(s) = 3
  PROVE  CodePoint(s) <=> /\ Moved(0, s[1]) \in {3, 4, 5}
                          /\ Moved(Moved(0, s[1]), s[2]) = 2
                          /\ Moved(2, s[3]) = 0
  <1>0. s \in [1 .. Len(s) -> Byte]
    BY LenProperties
  <1>1. s[1] \in Byte /\ s[2] \in Byte /\ s[3] \in Byte
    BY <1>0
  <1> DEFINE n == Three(s[1], s[2], s[3])
             p == Between(n, 2048, 65535) /\ ~Between(n, 55296, 57343)
             q == s[2] \in Follow /\ s[3] \in Follow
  <1>2. Value(s) = n
    BY SMT DEF Value, Three
  <1>3. q /\ p <=> /\ Moved(0, s[1]) \in {3, 4, 5}
                   /\ Moved(Moved(0, s[1]), s[2]) = 2
                   /\ Moved(2, s[3]) = 0
    BY <1>1, ThreeBytes, SMT
  <1> HIDE DEF n
  <1>4. (\A i \in 2 .. Len(s) : Between(s[i], 128, 191)) <=> q
    <2>1. (\A i \in 2 .. Len(s) : Between(s[i], 128, 191))
          <=> Between(s[2], 128, 191) /\ Between(s[3], 128, 191)
      OBVIOUS
    <2> QED BY <1>1, <2>1, Following
  <1> HIDE DEF q
  <1>5. CodePoint(s) <=> q /\ p
    BY <1>2, <1>4, SMT DEF CodePoint
  <1> HIDE DEF p
  <1> QED BY <1>3, <1>5

Four(a, b, c, d) == (a - 240) * 262144 + (b - 128) * 4096 + (c - 128) * 64 + (d - 128)

\* Neither longer than needed nor beyond the last code point.
LEMMA FourBytes ==
  ASSUME NEW a \in Byte, NEW b \in Byte, NEW c \in Byte, NEW d \in Byte
  PROVE  /\ b \in Follow /\ c \in Follow /\ d \in Follow
         /\ Between(Four(a, b, c, d), 65536, 1114111)
         <=> /\ Moved(0, a) \in {6, 7, 8}
             /\ Moved(Moved(0, a), b) = 3
             /\ Moved(3, c) = 2
             /\ Moved(2, d) = 0
  <1> DEFINE n == Four(a, b, c, d)
             p == Between(n, 65536, 1114111)
             m == Moved(0, a)
  <1>1. /\ m = 6 <=> a = 240
        /\ m = 7 <=> a \in 241 .. 243
        /\ m = 8 <=> a = 244
    BY MovedFirst
  <1>2. /\ Moved(6, b) = 3 <=> b \in 144 .. 191
        /\ Moved(7, b) = 3 <=> b \in Follow
        /\ Moved(8, b) = 3 <=> b \in 128 .. 143
        /\ Moved(3, c) = 2 <=> c \in Follow
        /\ Moved(2, d) = 0 <=> d \in Follow
    BY MovedNext
  <1> HIDE DEF m
  <1>3. b \in 128 .. 191 /\ c \in 128 .. 191 /\ d \in 128 .. 191
        => (p <=> \/ a = 240 /\ b \in 144 .. 191
                  \/ a = 244 /\ b \in 128 .. 143
                  \/ a \in 241 .. 243)
    <2> SUFFICES ASSUME b \in 128 .. 191, c \in 128 .. 191, d \in 128 .. 191
                 PROVE  p <=> \/ a = 240 /\ b \in 144 .. 191
                              \/ a = 244 /\ b \in 128 .. 143
                              \/ a \in 241 .. 243
      OBVIOUS
    <2>1. CASE a < 240
      BY <2>1, SMT DEF Between, Byte, Four
    <2>2. CASE a = 240
      BY <2>2, SMT DEF Between, Byte, Four
    <2>3. CASE a \in 241 .. 243
      BY <2>3, SMT DEF Between, Byte, Four
    <2>4. CASE a = 244
      BY <2>4, SMT DEF Between, Byte, Four
    <2>5. CASE a > 244
      BY <2>5, SMT DEF Between, Byte, Four
    <2> QED BY <2>1, <2>2, <2>3, <2>4, <2>5, SMT DEF Byte
  <1> HIDE DEF p
  <1>4. b \in Follow /\ c \in Follow /\ d \in Follow /\ p
        <=> m \in {6, 7, 8} /\ Moved(m, b) = 3 /\ Moved(3, c) = 2 /\ Moved(2, d) = 0
    <2>1. CASE ~(b \in Follow /\ c \in Follow /\ d \in Follow)
      BY <1>1, <1>2, <2>1 DEF Follow, Byte
    <2>2. CASE b \in Follow /\ c \in Follow /\ d \in Follow
      <3>1. m \in {6, 7, 8} /\ Moved(m, b) = 3
            <=> \/ a = 240 /\ b \in 144 .. 191
                \/ a = 244 /\ b \in 128 .. 143
                \/ a \in 241 .. 243
        BY <1>1, <1>2, <2>2
      <3> QED BY <1>2, <1>3, <2>2, <3>1 DEF Follow
    <2> QED BY <2>1, <2>2
  <1> QED BY <1>4 DEF p, m

LEMMA PointFour ==
  ASSUME NEW s \in Seq(Byte), Len(s) = 4
  PROVE  CodePoint(s) <=> /\ Moved(0, s[1]) \in {6, 7, 8}
                          /\ Moved(Moved(0, s[1]), s[2]) = 3
                          /\ Moved(3, s[3]) = 2
                          /\ Moved(2, s[4]) = 0
  <1>0. s \in [1 .. Len(s) -> Byte]
    BY LenProperties
  <1>1. s[1] \in Byte /\ s[2] \in Byte /\ s[3] \in Byte /\ s[4] \in Byte
    BY <1>0
  <1> DEFINE n == Four(s[1], s[2], s[3], s[4])
             p == Between(n, 65536, 1114111)
             q == s[2] \in Follow /\ s[3] \in Follow /\ s[4] \in Follow
  <1>2. Value(s) = n
    BY SMT DEF Value, Four
  <1>3. q /\ p <=> /\ Moved(0, s[1]) \in {6, 7, 8}
                   /\ Moved(Moved(0, s[1]), s[2]) = 3
                   /\ Moved(3, s[3]) = 2
                   /\ Moved(2, s[4]) = 0
    BY <1>1, FourBytes, SMT
  <1> HIDE DEF n
  <1>4. (\A i \in 2 .. Len(s) : Between(s[i], 128, 191)) <=> q
    <2>1. (\A i \in 2 .. Len(s) : Between(s[i], 128, 191))
          <=> /\ Between(s[2], 128, 191)
              /\ Between(s[3], 128, 191)
              /\ Between(s[4], 128, 191)
      OBVIOUS
    <2> QED BY <1>1, <2>1, Following
  <1> HIDE DEF q
  <1>5. CodePoint(s) <=> q /\ p
    BY <1>2, <1>4, SMT DEF CodePoint
  <1> HIDE DEF p
  <1> QED BY <1>3, <1>5

-----------------------------------------------------------------------------
(* The validator accepts what is a sequence of code points.                 *)

\* A run by the table.
LEMMA RunMoves ==
  ASSUME NEW s \in Seq(Byte), NEW q, NEW v, Runs(q, s, v), NEW i \in 1 .. Len(s)
  PROVE  /\ v[i] = Moved(v[i - 1], s[i]) /\ v[i] \in States /\ v[i - 1] \in States
         /\ s[i] \in Byte
  <1>0. s \in [1 .. Len(s) -> Byte] /\ Len(s) \in Nat
    BY LenProperties
  <1>1. s[i] \in Byte /\ i - 1 \in 0 .. Len(s) /\ i \in 0 .. Len(s)
    BY <1>0
  <1>2. v[i] = utf8d(v[i - 1], Type(s[i])) /\ v[i] \in 0 .. 8 /\ v[i - 1] \in 0 .. 8
    BY <1>1 DEF Runs
  <1> DEFINE r == v[i - 1]
             b == s[i]
  <1> HIDE DEF r, b
  <1>3. utf8d(r, Type(b)) = Moved(r, b)
    BY <1>1, <1>2, Table DEF r, b
  <1> QED BY <1>1, <1>2, <1>3 DEF r, b, States

\* The last k of the first i bytes.
LEMMA Piece ==
  ASSUME NEW s \in Seq(Byte), NEW i \in 0 .. Len(s), NEW k \in 0 .. i
  PROVE  LET p == SubSeq(s, i - k + 1, i)
         IN  p \in Seq(Byte) /\ Len(p) = k /\ \A j \in 1 .. k : p[j] = s[i - k + j]
  <1>1. Len(s) \in Nat
    BY LenProperties
  <1> QED BY <1>1, SubSeqProperties

\* A code point takes the validator from accepting to accepting ...
LEMMA CutFrom ==
  ASSUME NEW s \in Seq(Byte), NEW v, Runs(0, s, v), NEW i \in 1 .. Len(s),
         NEW k \in 1 .. 4, k <= i, v[i - k] = 0, CodePoint(SubSeq(s, i - k + 1, i))
  PROVE  v[i] = 0
  <1> DEFINE p == SubSeq(s, i - k + 1, i)
  <1>0. Len(s) \in Nat
    BY LenProperties
  <1>1. p \in Seq(Byte) /\ Len(p) = k /\ \A j \in 1 .. k : p[j] = s[i - k + j]
    BY <1>0, Piece
  <1>2. CodePoint(p)
    OBVIOUS
  <1> HIDE DEF p
  <1>3. ASSUME NEW j \in 1 .. k
        PROVE  v[i - k + j] = Moved(v[(i - k + j) - 1], p[j])
    <2>1. i - k + j \in 1 .. Len(s)
      BY <1>0
    <2> QED BY <1>1, <2>1, RunMoves
  <1>4. CASE k = 1
    <2>1. v[i] = Moved(v[i - 1], p[1])
      BY <1>3, <1>4
    <2> QED BY <1>1, <1>2, <1>4, <2>1, PointOne
  <1>5. CASE k = 2
    <2>1. v[i] = Moved(v[i - 1], p[2]) /\ v[i - 1] = Moved(v[i - 2], p[1])
      BY <1>3, <1>5
    <2> QED BY <1>1, <1>2, <1>5, <2>1, PointTwo
  <1>6. CASE k = 3
    <2>1. /\ v[i] = Moved(v[i - 1], p[3])
          /\ v[i - 1] = Moved(v[i - 2], p[2])
          /\ v[i - 2] = Moved(v[i - 3], p[1])
      BY <1>3, <1>6
    <2> QED BY <1>1, <1>2, <1>6, <2>1, PointThree
  <1>7. CASE k = 4
    <2>1. /\ v[i] = Moved(v[i - 1], p[4])
          /\ v[i - 1] = Moved(v[i - 2], p[3])
          /\ v[i - 2] = Moved(v[i - 3], p[2])
          /\ v[i - 3] = Moved(v[i - 4], p[1])
      BY <1>3, <1>7
    <2> QED BY <1>1, <1>2, <1>7, <2>1, PointFour
  <1> QED BY <1>4, <1>5, <1>6, <1>7

\* ... and what takes it there, from whatever state, ends a code point.
LEMMA CutBack ==
  ASSUME NEW s \in Seq(Byte), NEW v, Runs(0, s, v), NEW i \in 1 .. Len(s), v[i] = 0
  PROVE  \E k \in 1 .. 4 : k <= i /\ v[i - k] = 0 /\ CodePoint(SubSeq(s, i - k + 1, i))
  <1>0. Len(s) \in Nat /\ v[0] = 0
    BY LenProperties DEF Runs
  <1>1. ASSUME NEW k \in 1 .. 4, k <= i
        PROVE  LET p == SubSeq(s, i - k + 1, i)
               IN  p \in Seq(Byte) /\ Len(p) = k /\ \A j \in 1 .. k : p[j] = s[i - k + j]
    BY <1>0, <1>1, Piece
  <1>2. ASSUME NEW j \in 1 .. i
        PROVE  /\ v[j] = Moved(v[j - 1], s[j])
               /\ v[j] = 0 => v[j - 1] \in {0, 2}
               /\ v[j] = 2 => v[j - 1] \in {0, 3, 4, 5}
               /\ v[j] = 3 => v[j - 1] \in {0, 6, 7, 8}
               /\ v[j] \in 4 .. 8 => v[j - 1] = 0
    <2>1. j \in 1 .. Len(s)
      BY <1>0
    <2>2. v[j] = Moved(v[j - 1], s[j]) /\ v[j - 1] \in States /\ s[j] \in Byte
      BY <2>1, RunMoves
    <2> QED BY <2>2, TableBack
  <1>3. v[i] = Moved(v[i - 1], s[i]) /\ v[i - 1] \in {0, 2}
    BY <1>2
  <1>4. CASE v[i - 1] = 0
    <2> DEFINE p == SubSeq(s, i - 1 + 1, i)
    <2>1. p \in Seq(Byte) /\ Len(p) = 1 /\ p[1] = s[i]
      BY <1>1
    <2>2. CodePoint(p)
      BY <1>3, <1>4, <2>1, PointOne
    <2> QED BY <1>4, <2>2
  <1>5. CASE v[i - 1] = 2
    <2>1. i >= 2
      BY <1>0, <1>5
    <2>2. v[i - 1] = Moved(v[i - 2], s[i - 1]) /\ v[i - 2] \in {0, 3, 4, 5}
      BY <1>2, <1>5, <2>1
    <2>3. CASE v[i - 2] = 0
      <3> DEFINE p == SubSeq(s, i - 2 + 1, i)
      <3>1. p \in Seq(Byte) /\ Len(p) = 2 /\ p[1] = s[i - 1] /\ p[2] = s[i]
        BY <1>1, <2>1
      <3>2. CodePoint(p)
        BY <1>3, <1>5, <2>2, <2>3, <3>1, PointTwo
      <3> QED BY <2>1, <2>3, <3>2
    <2>4. CASE v[i - 2] \in {3, 4, 5}
      <3>1. i >= 3
        BY <1>0, <2>1, <2>4
      <3>2. v[i - 2] = Moved(v[i - 3], s[i - 2]) /\ v[i - 3] \in {0, 6, 7, 8}
        BY <1>2, <2>4, <3>1
      <3>3. CASE v[i - 3] = 0
        <4> DEFINE p == SubSeq(s, i - 3 + 1, i)
        <4>1. p \in Seq(Byte) /\ Len(p) = 3 /\ p[1] = s[i - 2] /\ p[2] = s[i - 1] /\ p[3] = s[i]
          BY <1>1, <3>1
        <4>2. CodePoint(p)
          BY <1>3, <1>5, <2>2, <2>4, <3>2, <3>3, <4>1, PointThree
        <4> QED BY <3>1, <3>3, <4>2
      <3>4. CASE v[i - 3] \in {6, 7, 8}
        <4>1. i >= 4
          BY <1>0, <3>1, <3>4
        <4>2. v[i - 3] = Moved(v[i - 4], s[i - 3]) /\ v[i - 4] = 0
          BY <1>2, <3>4, <4>1
        <4>3. v[i - 2] = 3
          <5>1. v[i - 2] = 3 \/ v[i - 2] \in 4 .. 8
            BY <2>4
          <5>2. v[i - 2] \in 4 .. 8 => v[i - 3] = 0
            BY <1>2, <3>1
          <5> QED BY <3>4, <5>1, <5>2
        <4> DEFINE p == SubSeq(s, i - 4 + 1, i)
        <4>4. /\ p \in Seq(Byte) /\ Len(p) = 4
              /\ p[1] = s[i - 3] /\ p[2] = s[i - 2] /\ p[3] = s[i - 1] /\ p[4] = s[i]
          BY <1>1, <4>1
        <4> HIDE DEF p
        <4>5. /\ Moved(0, p[1]) \in {6, 7, 8}
              /\ Moved(Moved(0, p[1]), p[2]) = 3
              /\ Moved(3, p[3]) = 2
              /\ Moved(2, p[4]) = 0
          BY <1>3, <1>5, <2>2, <3>2, <3>4, <4>2, <4>3, <4>4
        <4>6. CodePoint(p)
          BY <4>4, <4>5, PointFour
        <4> QED BY <4>1, <4>2, <4>6 DEF p
      <3> QED BY <3>2, <3>3, <3>4
    <2> QED BY <2>2, <2>3, <2>4
  <1> QED BY <1>3, <1>4, <1>5

\* So the reference accepts where the run does.
LEMMA CutsAre ==
  ASSUME NEW s \in Seq(Byte), NEW v, Runs(0, s, v)
  PROVE  IsUtf8(s) <=> v[Len(s)] = 0
  <1> DEFINE n == Len(s)
             Cut(before, i) == \E k \in 1 .. MinOf(4, i) :
                                 i - k \in before /\ CodePoint(SubSeq(s, i - k + 1, i))
             E(w) == w = [i \in 0 .. n |->
                           IF i = 0 THEN {0}
                           ELSE LET before == w[i - 1]
                                IN  IF Cut(before, i) THEN before \cup {i} ELSE before]
             d == CHOOSE w : E(w)
             C == [i \in 0 .. n |-> {j \in 0 .. i : v[j] = 0}]
  <1>0. n \in Nat /\ v[0] = 0
    BY LenProperties DEF Runs
  <1>1. ASSUME NEW i \in 1 .. n
        PROVE  C[i] = IF Cut(C[i - 1], i) THEN C[i - 1] \cup {i} ELSE C[i - 1]
    <2>1. C[i] = {j \in 0 .. i : v[j] = 0} /\ C[i - 1] = {j \in 0 .. i - 1 : v[j] = 0}
      <3>1. i \in 0 .. n /\ i - 1 \in 0 .. n
        BY <1>0
      <3> HIDE DEF n
      <3> QED BY <3>1
    <2>2. Cut(C[i - 1], i) <=> v[i] = 0
      <3>1. ASSUME Cut(C[i - 1], i) PROVE v[i] = 0
        <4>1. PICK k \in 1 .. MinOf(4, i) :
                i - k \in C[i - 1] /\ CodePoint(SubSeq(s, i - k + 1, i))
          BY <3>1
        <4>2. k \in 1 .. 4 /\ k <= i
          BY <4>1 DEF MinOf
        <4>3. v[i - k] = 0
          <5> HIDE DEF C
          <5> QED BY <2>1, <4>1
        <4> QED BY <4>1, <4>2, <4>3, CutFrom
      <3>2. ASSUME v[i] = 0 PROVE Cut(C[i - 1], i)
        <4>1. PICK k \in 1 .. 4 : k <= i /\ v[i - k] = 0 /\ CodePoint(SubSeq(s, i - k + 1, i))
          BY <3>2, CutBack
        <4>2. k \in 1 .. MinOf(4, i) /\ i - k \in 0 .. i - 1
          BY <4>1 DEF MinOf
        <4>3. i - k \in C[i - 1]
          BY <2>1, <4>1, <4>2
        <4> HIDE DEF C
        <4> QED BY <4>1, <4>2, <4>3
      <3> QED BY <3>1, <3>2
    <2>3. 0 .. i = (0 .. i - 1) \cup {i} /\ i \notin 0 .. i - 1
      BY <1>0
    <2> HIDE DEF C, Cut
    <2>4. (v[i] = 0 => C[i] = C[i - 1] \cup {i}) /\ (v[i] # 0 => C[i] = C[i - 1])
      BY <2>1, <2>3
    <2> QED BY <2>2, <2>4
  <1>2. E(C)
    <2>1. C[0] = {0}
      BY <1>0
    <2>2. C = [i \in 0 .. n |-> C[i]]
      OBVIOUS
    <2> HIDE DEF C, Cut
    <2>3. \A i \in 0 .. n : C[i] = IF i = 0 THEN {0}
                                   ELSE LET before == C[i - 1]
                                        IN  IF Cut(before, i) THEN before \cup {i} ELSE before
      <3> SUFFICES ASSUME NEW i \in 0 .. n, i # 0
                   PROVE  C[i] = LET before == C[i - 1]
                                 IN  IF Cut(before, i) THEN before \cup {i} ELSE before
        BY <2>1
      <3>1. i \in 1 .. n
        BY <1>0
      <3> QED BY <1>1, <3>1
    <2> QED BY <2>2, <2>3
  <1>3. E(d)
    <2> HIDE DEF E
    <2> QED BY <1>2
  <1>4. IsUtf8(s) <=> n \in d[n]
    BY DEF IsUtf8
  <1>5. \A i \in 0 .. n : d[i] = C[i]
    <2> DEFINE S == {i \in 0 .. n : d[i] = C[i]}
    <2> HIDE DEF d, C
    <2>1. 0 \in S
      BY <1>0, <1>2, <1>3
    <2>2. ASSUME NEW i \in 1 .. n, i - 1 \in S PROVE i \in S
      <3>1. i \in 0 .. n /\ i # 0 /\ d[i - 1] = C[i - 1]
        BY <1>0, <2>2
      <3>2. d[i] = LET before == d[i - 1]
                   IN  IF Cut(before, i) THEN before \cup {i} ELSE before
        BY <1>3, <3>1
      <3>3. C[i] = LET before == C[i - 1]
                   IN  IF Cut(before, i) THEN before \cup {i} ELSE before
        BY <1>2, <3>1
      <3> HIDE DEF Cut
      <3> QED BY <3>1, <3>2, <3>3
    <2>3. 0 .. n \subseteq S
      <3> HIDE DEF S, n
      <3> QED BY <1>0, <2>1, <2>2, StepsTo
    <2> QED BY <2>3
  <1>6. n \in d[n] <=> v[n] = 0
    BY <1>0, <1>5
  <1> QED BY <1>4, <1>6

\* The table accepts UTF-8 and nothing else (utf8_validator.hpp, 38-60 and 94-105).
THEOREM Utf8Validated == \A s \in Seq(Byte) : validate(s) <=> IsUtf8(s)
  <1> SUFFICES ASSUME NEW s \in Seq(Byte) PROVE validate(s) <=> IsUtf8(s)
    OBVIOUS
  <1>1. PICK v : Runs(0, s, v)
    BY SomeRun
  <1>2. decode(0, s) = v[Len(s)]
    BY <1>1, Decoded
  <1> QED BY <1>1, <1>2, CutsAre DEF validate, utf8_accept

\* A run through a sequence is one through its beginnings.
LEMMA RunPrefix ==
  ASSUME NEW s \in Seq(Byte), NEW q \in 0 .. 8, NEW v, Runs(q, s, v), NEW m \in 0 .. Len(s)
  PROVE  /\ Take(s, m) \in Seq(Byte) /\ Len(Take(s, m)) = m
         /\ decode(q, Take(s, m)) = v[m]
  <1>0. Len(s) \in Nat
    BY LenProperties
  <1> DEFINE t == Take(s, m)
             w == [i \in 0 .. m |-> v[i]]
  <1>1. t \in Seq(Byte) /\ Len(t) = m /\ \A j \in 1 .. m : t[j] = s[j]
    BY <1>0, SubSeqProperties DEF Take
  <1> HIDE DEF t
  <1>2. Runs(q, t, w)
    <2>1. w \in [0 .. m -> 0 .. 8] /\ w[0] = q
      BY <1>0 DEF Runs
    <2>2. ASSUME NEW i \in 1 .. m PROVE w[i] = utf8d(w[i - 1], Type(t[i]))
      <3>1. i \in 1 .. Len(s) /\ i \in 0 .. m /\ i - 1 \in 0 .. m
        BY <1>0
      <3> QED BY <1>1, <3>1 DEF Runs
    <2> HIDE DEF w
    <2> QED BY <1>1, <2>1, <2>2 DEF Runs
  <1>3. w[m] = v[m]
    BY <1>0
  <1> HIDE DEF w
  <1> QED BY <1>1, <1>2, <1>3, Decoded DEF t

\* A sequence continued from its last k bytes.
Continued(s, k, t) == Drop(s, Len(s) - k) \o t

\* The end of s with what might follow.
LEMMA Ending ==
  ASSUME NEW s \in Seq(Byte), NEW k \in 1 .. 4, k <= Len(s), NEW t \in Seq(Byte)
  PROVE  /\ Continued(s, k, t) \in Seq(Byte) /\ Len(Continued(s, k, t)) = k + Len(t)
         /\ \A j \in 1 .. k : Continued(s, k, t)[j] = s[Len(s) - k + j]
         /\ \A j \in 1 .. Len(t) : Continued(s, k, t)[k + j] = t[j]
  <1>0. Len(s) \in Nat /\ Len(t) \in Nat
    BY LenProperties
  <1> DEFINE d == Drop(s, Len(s) - k)
             p == d \o t
  <1>1. d \in Seq(Byte) /\ Len(d) = k /\ \A j \in 1 .. k : d[j] = s[Len(s) - k + j]
    BY <1>0, SubSeqProperties DEF Drop
  <1> HIDE DEF d
  <1>2. p \in Seq(Byte) /\ Len(p) = Len(d) + Len(t)
        /\ \A j \in 1 .. Len(d) + Len(t) : p[j] = IF j <= Len(d) THEN d[j] ELSE t[j - Len(d)]
    BY <1>1, ConcatProperties
  <1> HIDE DEF p
  <1>3. \A j \in 1 .. Len(t) : p[k + j] = t[j]
    BY <1>0, <1>1, <1>2
  <1>4. \A j \in 1 .. k : p[j] = d[j]
    BY <1>0, <1>1, <1>2
  <1> QED BY <1>1, <1>2, <1>3, <1>4 DEF p, d, Continued

\* What might follow, and enough of it.
LEMMA RestsAre ==
  /\ Rests \subseteq Seq(Byte) /\ \A t \in Rests : Len(t) \in 1 .. 3
  /\ <<128>> \in Rests /\ <<128, 128>> \in Rests /\ <<160, 128>> \in Rests
  /\ <<144, 128, 128>> \in Rests /\ <<128, 128, 128>> \in Rests
  <1> DEFINE B == {128, 144, 159, 160, 191}
  <1>1. Rests = UNION {[1 .. m -> B] : m \in 1 .. 3}
    BY DEF Rests
  <1>2. ASSUME NEW t \in Rests PROVE t \in Seq(Byte) /\ Len(t) \in 1 .. 3
    <2>1. PICK m \in 1 .. 3 : t \in [1 .. m -> B]
      <3> HIDE DEF B
      <3> QED BY <1>1
    <2>2. B \subseteq Byte
      BY DEF Byte
    <2> HIDE DEF B
    <2> QED BY <2>1, <2>2
  <1>3. ASSUME NEW t, NEW m \in 1 .. 3, t \in [1 .. m -> B] PROVE t \in Rests
    <2> HIDE DEF B
    <2> QED BY <1>1, <1>3
  <1>4. /\ <<128>> \in [1 .. 1 -> B] /\ <<128, 128>> \in [1 .. 2 -> B]
        /\ <<160, 128>> \in [1 .. 2 -> B]
    OBVIOUS
  <1>5. <<144, 128, 128>> \in [1 .. 3 -> B] /\ <<128, 128, 128>> \in [1 .. 3 -> B]
    OBVIOUS
  <1> HIDE DEF B
  <1> QED BY <1>2, <1>3, <1>4, <1>5

\* Every state leads to the accepting one.
LEMMA Onwards ==
  /\ Moved(2, 128) = 0 /\ Moved(3, 128) = 2 /\ Moved(4, 160) = 2 /\ Moved(5, 128) = 2
  /\ Moved(6, 144) = 3 /\ Moved(7, 128) = 3 /\ Moved(8, 128) = 3
  BY DEF Moved, Follow

\* How far a validator that neither accepts nor rejects is into a code point, and
\* bytes that complete it.
Unfinished(s, v) ==
  \E k \in 1 .. 3 :
    /\ k <= Len(s) /\ v[Len(s) - k] = 0
    /\ \E t \in Rests : k + Len(t) <= 4 /\ CodePoint(Continued(s, k, t))

\* One, two and three bytes into a code point.
LEMMA AfterOne ==
  ASSUME NEW s \in Seq(Byte), NEW v, Len(s) >= 1, v[Len(s) - 1] = 0, NEW t \in Rests,
         \/ Len(t) = 1 /\ Moved(0, s[Len(s)]) = 2 /\ Moved(2, t[1]) = 0
         \/ /\ Len(t) = 2 /\ Moved(0, s[Len(s)]) \in {3, 4, 5}
            /\ Moved(Moved(0, s[Len(s)]), t[1]) = 2 /\ Moved(2, t[2]) = 0
         \/ /\ Len(t) = 3 /\ Moved(0, s[Len(s)]) \in {6, 7, 8}
            /\ Moved(Moved(0, s[Len(s)]), t[1]) = 3 /\ Moved(3, t[2]) = 2 /\ Moved(2, t[3]) = 0
  PROVE  Unfinished(s, v)
  <1> DEFINE r == Continued(s, 1, t)
  <1>0. Len(s) \in Nat /\ t \in Seq(Byte) /\ Len(t) \in 1 .. 3
    BY LenProperties, RestsAre
  <1>1. /\ r \in Seq(Byte) /\ Len(r) = 1 + Len(t)
        /\ \A j \in 1 .. 1 : r[j] = s[Len(s) - 1 + j]
        /\ \A j \in 1 .. Len(t) : r[1 + j] = t[j]
    BY <1>0, Ending
  <1>2. r[1] = s[Len(s)]
    BY <1>0, <1>1
  <1>3. /\ Len(t) >= 1 => r[2] = t[1]
        /\ Len(t) >= 2 => r[3] = t[2]
        /\ Len(t) >= 3 => r[4] = t[3]
    BY <1>0, <1>1
  <1> HIDE DEF r
  <1>4. CodePoint(r)
    <2>1. CASE Len(t) = 1
      BY <1>1, <1>2, <1>3, <2>1, PointTwo
    <2>2. CASE Len(t) = 2
      BY <1>1, <1>2, <1>3, <2>2, PointThree
    <2>3. CASE Len(t) = 3
      BY <1>1, <1>2, <1>3, <2>3, PointFour
    <2> QED BY <1>0, <2>1, <2>2, <2>3
  <1>5. \E u \in Rests : 1 + Len(u) <= 4 /\ CodePoint(Continued(s, 1, u))
    <2>1. 1 + Len(t) <= 4
      <3>1. PICK m \in 1 .. 3 : m = Len(t)
        BY <1>0
      <3>2. 1 + m <= 4
        OBVIOUS
      <3> QED BY <3>1, <3>2
    <2>2. CodePoint(Continued(s, 1, t))
      BY <1>4 DEF r
    <2> QED BY <2>1, <2>2, Zenon
  <1>6. 1 \in 1 .. 3 /\ 1 <= Len(s)
    BY <1>0
  <1> QED BY <1>5, <1>6 DEF Unfinished

LEMMA AfterTwo ==
  ASSUME NEW s \in Seq(Byte), NEW v, Len(s) >= 2, v[Len(s) - 2] = 0, NEW t \in Rests,
         \/ /\ Len(t) = 1 /\ Moved(0, s[Len(s) - 1]) \in {3, 4, 5}
            /\ Moved(Moved(0, s[Len(s) - 1]), s[Len(s)]) = 2 /\ Moved(2, t[1]) = 0
         \/ /\ Len(t) = 2 /\ Moved(0, s[Len(s) - 1]) \in {6, 7, 8}
            /\ Moved(Moved(0, s[Len(s) - 1]), s[Len(s)]) = 3
            /\ Moved(3, t[1]) = 2 /\ Moved(2, t[2]) = 0
  PROVE  Unfinished(s, v)
  <1> DEFINE r == Continued(s, 2, t)
  <1>0. Len(s) \in Nat /\ t \in Seq(Byte) /\ Len(t) \in 1 .. 2
    BY LenProperties, RestsAre
  <1>1. /\ r \in Seq(Byte) /\ Len(r) = 2 + Len(t)
        /\ \A j \in 1 .. 2 : r[j] = s[Len(s) - 2 + j]
        /\ \A j \in 1 .. Len(t) : r[2 + j] = t[j]
    BY <1>0, Ending
  <1>2. r[1] = s[Len(s) - 1] /\ r[2] = s[Len(s)]
    BY <1>0, <1>1
  <1>3. /\ Len(t) >= 1 => r[3] = t[1]
        /\ Len(t) >= 2 => r[4] = t[2]
    BY <1>0, <1>1
  <1> HIDE DEF r
  <1>4. CodePoint(r)
    <2>1. CASE Len(t) = 1
      BY <1>1, <1>2, <1>3, <2>1, PointThree
    <2>2. CASE Len(t) = 2
      BY <1>1, <1>2, <1>3, <2>2, PointFour
    <2> QED BY <1>0, <2>1, <2>2
  <1>5. \E u \in Rests : 2 + Len(u) <= 4 /\ CodePoint(Continued(s, 2, u))
    <2>1. 2 + Len(t) <= 4
      <3>1. PICK m \in 1 .. 2 : m = Len(t)
        BY <1>0
      <3>2. 2 + m <= 4
        OBVIOUS
      <3> QED BY <3>1, <3>2
    <2>2. CodePoint(Continued(s, 2, t))
      BY <1>4 DEF r
    <2> QED BY <2>1, <2>2, Zenon
  <1>6. 2 \in 1 .. 3 /\ 2 <= Len(s)
    BY <1>0
  <1> QED BY <1>5, <1>6 DEF Unfinished

LEMMA AfterThree ==
  ASSUME NEW s \in Seq(Byte), NEW v, Len(s) >= 3, v[Len(s) - 3] = 0, NEW t \in Rests,
         Len(t) = 1, Moved(0, s[Len(s) - 2]) \in {6, 7, 8},
         Moved(Moved(0, s[Len(s) - 2]), s[Len(s) - 1]) = 3,
         Moved(3, s[Len(s)]) = 2, Moved(2, t[1]) = 0
  PROVE  Unfinished(s, v)
  <1> DEFINE r == Continued(s, 3, t)
  <1>0. Len(s) \in Nat /\ t \in Seq(Byte)
    BY LenProperties, RestsAre
  <1>1. /\ r \in Seq(Byte) /\ Len(r) = 3 + Len(t)
        /\ \A j \in 1 .. 3 : r[j] = s[Len(s) - 3 + j]
        /\ \A j \in 1 .. Len(t) : r[3 + j] = t[j]
    <2>1. 3 \in 1 .. 4 /\ 3 <= Len(s)
      BY <1>0
    <2> QED BY <1>0, <2>1, Ending
  <1>2. r[1] = s[Len(s) - 2] /\ r[2] = s[Len(s) - 1] /\ r[3] = s[Len(s)] /\ r[4] = t[1]
    BY <1>0, <1>1
  <1> HIDE DEF r
  <1>3. CodePoint(r)
    BY <1>1, <1>2, PointFour
  <1>5. \E u \in Rests : 3 + Len(u) <= 4 /\ CodePoint(Continued(s, 3, u))
    <2>1. 3 + Len(t) <= 4
      BY <1>0
    <2>2. CodePoint(Continued(s, 3, t))
      BY <1>3 DEF r
    <2> QED BY <2>1, <2>2, Zenon
  <1>6. 3 \in 1 .. 3 /\ 3 <= Len(s)
    BY <1>0
  <1> QED BY <1>5, <1>6 DEF Unfinished

\* A validator that neither accepts nor rejects is within a code point ...
LEMMA Begun ==
  ASSUME NEW s \in Seq(Byte), NEW v, Runs(0, s, v), v[Len(s)] \notin {0, 1}
  PROVE  Unfinished(s, v)
  <1> DEFINE n == Len(s)
  <1>0. n \in Nat /\ v[0] = 0 /\ v[n] \in States
    BY LenProperties DEF Runs, States
  <1>2. ASSUME NEW j \in 1 .. n
        PROVE  /\ v[j] = Moved(v[j - 1], s[j])
               /\ v[j] = 0 => v[j - 1] \in {0, 2}
               /\ v[j] = 2 => v[j - 1] \in {0, 3, 4, 5}
               /\ v[j] = 3 => v[j - 1] \in {0, 6, 7, 8}
               /\ v[j] \in 4 .. 8 => v[j - 1] = 0
    <2>1. v[j] = Moved(v[j - 1], s[j]) /\ v[j - 1] \in States /\ s[j] \in Byte
      BY RunMoves
    <2> QED BY <2>1, TableBack
  <1>3. v[n] \in {2, 3, 4, 5, 6, 7, 8} /\ n >= 1
    BY <1>0 DEF States
  <1>4. v[n] = Moved(v[n - 1], s[n])
    BY <1>2, <1>3
  <1>5. PICK a \in Rests : Len(a) = 1 /\ a[1] = 128
    BY RestsAre
  <1>6. PICK b \in Rests : Len(b) = 2 /\ b[1] = 128 /\ b[2] = 128
    BY RestsAre
  <1>7. CASE v[n - 1] = 0
    <2>0. Moved(0, s[n]) = v[n]
      BY <1>4, <1>7
    <2>1. CASE v[n] = 2
      BY <1>3, <1>5, <1>7, <2>0, <2>1, AfterOne, Onwards
    <2>2. CASE v[n] \in {3, 5}
      BY <1>3, <1>6, <1>7, <2>0, <2>2, AfterOne, Onwards
    <2>3. CASE v[n] = 4
      <3>1. PICK c \in Rests : Len(c) = 2 /\ c[1] = 160 /\ c[2] = 128
        BY RestsAre
      <3> QED BY <1>3, <1>7, <2>0, <2>3, <3>1, AfterOne, Onwards
    <2>4. CASE v[n] = 6
      <3>1. PICK c \in Rests : Len(c) = 3 /\ c[1] = 144 /\ c[2] = 128 /\ c[3] = 128
        BY RestsAre
      <3> QED BY <1>3, <1>7, <2>0, <2>4, <3>1, AfterOne, Onwards
    <2>5. CASE v[n] \in {7, 8}
      <3>1. PICK c \in Rests : Len(c) = 3 /\ c[1] = 128 /\ c[2] = 128 /\ c[3] = 128
        BY RestsAre
      <3> QED BY <1>3, <1>7, <2>0, <2>5, <3>1, AfterOne, Onwards
    <2> QED BY <1>3, <2>1, <2>2, <2>3, <2>4, <2>5
  <1>8. CASE v[n - 1] # 0
    <2>1. n >= 2 /\ v[n - 1] = Moved(v[n - 2], s[n - 1])
      <3>1. n >= 2
        BY <1>0, <1>3, <1>8
      <3> QED BY <1>2, <3>1
    <2>2. v[n] \in {2, 3}
      BY <1>2, <1>3, <1>8
    <2>3. CASE v[n] = 3
      <3>1. v[n - 1] \in {6, 7, 8}
        BY <1>2, <1>3, <1>8, <2>3
      <3>2. v[n - 2] = 0
        BY <1>2, <2>1, <3>1
      <3>3. Moved(0, s[n - 1]) = v[n - 1] /\ Moved(v[n - 1], s[n]) = 3
        BY <1>4, <2>1, <2>3, <3>2
      <3> QED BY <1>6, <2>1, <3>1, <3>2, <3>3, AfterTwo, Onwards
    <2>4. CASE v[n] = 2
      <3>1. v[n - 1] \in {3, 4, 5} /\ Moved(v[n - 1], s[n]) = 2
        BY <1>2, <1>3, <1>4, <1>8, <2>4
      <3>2. CASE v[n - 2] = 0
        <4>1. Moved(0, s[n - 1]) = v[n - 1]
          BY <2>1, <3>2
        <4> QED BY <1>5, <2>1, <3>1, <3>2, <4>1, AfterTwo, Onwards
      <3>3. CASE v[n - 2] # 0
        <4>1. v[n - 1] = 3
          BY <1>2, <2>1, <3>1, <3>3
        <4>2. n >= 3 /\ v[n - 2] \in {6, 7, 8}
          BY <1>0, <1>2, <2>1, <3>3, <4>1
        <4>3. v[n - 2] = Moved(v[n - 3], s[n - 2]) /\ v[n - 3] = 0
          BY <1>2, <4>2
        <4>4. /\ Moved(0, s[n - 2]) = v[n - 2] /\ Moved(v[n - 2], s[n - 1]) = 3
              /\ Moved(3, s[n]) = 2
          BY <2>1, <3>1, <4>1, <4>3
        <4> QED BY <1>5, <4>2, <4>3, <4>4, AfterThree, Onwards
      <3> QED BY <3>2, <3>3
    <2> QED BY <2>2, <2>3, <2>4
  <1> QED BY <1>7, <1>8

\* ... and who is within one has not rejected.
LEMMA NotSunk ==
  ASSUME NEW s \in Seq(Byte), NEW v, Runs(0, s, v), NEW k \in 1 .. 3, k <= Len(s),
         v[Len(s) - k] = 0, NEW t \in Rests, k + Len(t) <= 4,
         CodePoint(Continued(s, k, t))
  PROVE  v[Len(s)] # 1
  <1> DEFINE n == Len(s)
             p == Continued(s, k, t)
  <1>0. n \in Nat /\ t \in Seq(Byte) /\ Len(t) \in 1 .. 3
    BY LenProperties, RestsAre
  <1>1. p \in Seq(Byte) /\ Len(p) = k + Len(t) /\ \A j \in 1 .. k : p[j] = s[n - k + j]
    <2>1. k \in 1 .. 4
      OBVIOUS
    <2> QED BY <1>0, <2>1, Ending
  <1>2. CodePoint(p)
    OBVIOUS
  <1> HIDE DEF p
  <1>3. ASSUME NEW j \in 1 .. k PROVE v[n - k + j] = Moved(v[(n - k + j) - 1], p[j])
    <2>0. n - k + j \in 1 .. Len(s)
      BY <1>0
    <2>1. PICK i \in 1 .. Len(s) : i = n - k + j
      BY <2>0
    <2>2. v[i] = Moved(v[i - 1], s[i])
      BY RunMoves
    <2> QED BY <1>1, <2>1, <2>2
  <1>10. Len(p) \in (k + 1) .. 4
    <2>1. PICK m \in 1 .. 3 : m = Len(t)
      BY <1>0
    <2>2. k + m <= 4 /\ Len(p) = k + m
      BY <1>1, <2>1
    <2> QED BY <2>2
  <1>4. Len(p) = 2 => Moved(0, p[1]) = 2
    BY <1>1, <1>2, PointTwo
  <1>5. Len(p) = 3 => Moved(0, p[1]) \in {3, 4, 5} /\ Moved(Moved(0, p[1]), p[2]) = 2
    BY <1>1, <1>2, PointThree
  <1>6. Len(p) = 4 => /\ Moved(0, p[1]) \in {6, 7, 8}
                      /\ Moved(Moved(0, p[1]), p[2]) = 3
                      /\ Moved(3, p[3]) = 2
    BY <1>1, <1>2, PointFour
  <1>7. CASE k = 1
    <2>1. v[n] = Moved(0, p[1]) /\ Len(p) \in 2 .. 4
      BY <1>0, <1>1, <1>3, <1>7
    <2> QED BY <1>4, <1>5, <1>6, <2>1
  <1>8. CASE k = 2
    <2>0. 1 \in 1 .. k /\ 2 \in 1 .. k /\ n - 2 + 1 = n - 1 /\ n - 2 + 2 = n
      BY <1>0, <1>8
    <2>1. v[n] = Moved(v[n - 1], p[2]) /\ v[n - 1] = Moved(0, p[1]) /\ Len(p) \in 3 .. 4
      <3>1. v[n - 2 + 1] = Moved(v[(n - 2 + 1) - 1], p[1])
        BY <1>3, <1>8, <2>0
      <3>2. v[n - 2 + 2] = Moved(v[(n - 2 + 2) - 1], p[2])
        BY <1>3, <1>8, <2>0
      <3>3. (n - 2 + 1) - 1 = n - 2
        BY <1>0
      <3>4. v[n] = Moved(v[n - 1], p[2])
        BY <2>0, <3>2
      <3>5. v[n - 1] = Moved(0, p[1])
        BY <1>8, <2>0, <3>1, <3>3
      <3>6. Len(p) \in 3 .. 4
        BY <1>8, <1>10
      <3> QED BY <3>4, <3>5, <3>6
    <2> QED BY <1>5, <1>6, <2>1
  <1>9. CASE k = 3
    <2>1. /\ v[n] = Moved(v[n - 1], p[3]) /\ v[n - 1] = Moved(v[n - 2], p[2])
          /\ v[n - 2] = Moved(0, p[1]) /\ Len(p) = 4
      <3>0. 1 \in 1 .. k /\ 2 \in 1 .. k /\ 3 \in 1 .. k
        BY <1>9
      <3>1. v[n - 3 + 1] = Moved(v[(n - 3 + 1) - 1], p[1])
        BY <1>3, <1>9, <3>0
      <3>2. v[n - 3 + 2] = Moved(v[(n - 3 + 2) - 1], p[2])
        BY <1>3, <1>9, <3>0
      <3>3. v[n - 3 + 3] = Moved(v[(n - 3 + 3) - 1], p[3])
        BY <1>3, <1>9, <3>0
      <3>4. /\ (n - 3 + 1) - 1 = n - 3 /\ (n - 3 + 2) - 1 = n - 2 /\ (n - 3 + 3) - 1 = n - 1
            /\ n - 3 + 1 = n - 2 /\ n - 3 + 2 = n - 1 /\ n - 3 + 3 = n
        BY <1>0
      <3>5. v[n] = Moved(v[n - 1], p[3])
        BY <3>3, <3>4
      <3>6. v[n - 1] = Moved(v[n - 2], p[2])
        BY <3>2, <3>4
      <3>7. v[n - 2] = Moved(0, p[1])
        BY <1>9, <3>1, <3>4
      <3>8. Len(p) = 4
        BY <1>9, <1>10
      <3> QED BY <3>5, <3>6, <3>7, <3>8
    <2> QED BY <1>6, <2>1
  <1> QED BY <1>7, <1>8, <1>9

\* It rejects, at whatever byte, exactly what can no more be continued to UTF-8: the
\* validator of a message in many pieces (hybi13::process_payload_bytes) neither
\* waits longer than needed nor refuses what may still become a text.
THEOREM NotRejected == \A s \in Seq(Byte) : decode(0, s) # 1 <=> BeginsUtf8(s)
  <1> SUFFICES ASSUME NEW s \in Seq(Byte) PROVE decode(0, s) # 1 <=> BeginsUtf8(s)
    OBVIOUS
  <1> DEFINE n == Len(s)
  <1>0. n \in Nat
    BY LenProperties
  <1>1. PICK v : Runs(0, s, v)
    BY SomeRun
  <1>2. decode(0, s) = v[n]
    BY <1>1, Decoded
  <1>3. IsUtf8(s) <=> v[n] = 0
    BY <1>1, CutsAre
  <1>4. ASSUME NEW k \in 1 .. 3, k <= n
        PROVE  IsUtf8(Take(s, n - k)) <=> v[n - k] = 0
    <2>1. n - k \in 0 .. n
      BY <1>0, <1>4
    <2>2. Take(s, n - k) \in Seq(Byte) /\ decode(0, Take(s, n - k)) = v[n - k]
      BY <1>1, <2>1, RunPrefix
    <2> QED BY <2>2, Utf8Validated DEF validate, utf8_accept
  <1>5. ASSUME decode(0, s) # 1 PROVE BeginsUtf8(s)
    <2>1. CASE v[n] = 0
      BY <1>3, <2>1 DEF BeginsUtf8
    <2>2. CASE v[n] # 0
      <3>1. PICK k \in 1 .. 3 :
              /\ k <= n /\ v[n - k] = 0
              /\ \E t \in Rests : k + Len(t) <= 4 /\ CodePoint(Continued(s, k, t))
        BY <1>1, <1>2, <1>5, <2>2, Begun DEF Unfinished
      <3>2. k \in 1 .. MinOf(3, n) /\ IsUtf8(Take(s, n - k))
        BY <1>0, <1>4, <3>1 DEF MinOf
      <3> QED BY <3>1, <3>2 DEF BeginsUtf8, Continued
    <2> QED BY <2>1, <2>2
  <1>6. ASSUME BeginsUtf8(s) PROVE decode(0, s) # 1
    <2>1. CASE IsUtf8(s)
      BY <1>2, <1>3, <2>1
    <2>2. CASE ~IsUtf8(s)
      <3>1. PICK k \in 1 .. MinOf(3, n) :
              /\ IsUtf8(Take(s, n - k))
              /\ \E t \in Rests : k + Len(t) <= 4 /\ CodePoint(Continued(s, k, t))
        BY <1>6, <2>2 DEF BeginsUtf8, Continued
      <3>2. k \in 1 .. 3 /\ k <= n
        BY <1>0, <3>1 DEF MinOf
      <3>3. v[n - k] = 0
        BY <1>4, <3>1, <3>2
      <3> QED BY <1>1, <1>2, <3>1, <3>2, <3>3, NotSunk
    <2> QED BY <2>1, <2>2
  <1> QED BY <1>5, <1>6

-----------------------------------------------------------------------------
(* Exclusive or, bit by bit.                                                *)

Weights == {1, 2, 4, 8, 16, 32, 64, 128}

\* A byte is the sum of its bits and has no others.
LEMMA ABit == \A a \in Byte, w \in Weights : Bit(a, w) \in {0, 1}
  BY DEF Bit, Byte, Weights

LEMMA SumOfBits ==
  ASSUME NEW a \in Byte
  PROVE  a = Bit(a, 1) + 2 * Bit(a, 2) + 4 * Bit(a, 4) + 8 * Bit(a, 8) + 16 * Bit(a, 16)
             + 32 * Bit(a, 32) + 64 * Bit(a, 64) + 128 * Bit(a, 128)
  BY SMTT(60) DEF Bit, Byte

LEMMA BitsOfSum ==
  ASSUME NEW c1 \in {0, 1}, NEW c2 \in {0, 1}, NEW c3 \in {0, 1}, NEW c4 \in {0, 1},
         NEW c5 \in {0, 1}, NEW c6 \in {0, 1}, NEW c7 \in {0, 1}, NEW c8 \in {0, 1},
         NEW x, x = c1 + 2 * c2 + 4 * c3 + 8 * c4 + 16 * c5 + 32 * c6 + 64 * c7 + 128 * c8
  PROVE  /\ x \in Byte
         /\ Bit(x, 1) = c1 /\ Bit(x, 2) = c2 /\ Bit(x, 4) = c3 /\ Bit(x, 8) = c4
         /\ Bit(x, 16) = c5 /\ Bit(x, 32) = c6 /\ Bit(x, 64) = c7 /\ Bit(x, 128) = c8
  BY SMTT(60) DEF Bit, Byte

\* Bit by bit.
LEMMA XorBits ==
  ASSUME NEW a \in Byte, NEW b \in Byte
  PROVE  /\ Xor(a, b) \in Byte
         /\ \A w \in Weights : Bit(Xor(a, b), w) = (Bit(a, w) + Bit(b, w)) % 2
  <1> DEFINE e(w) == (Bit(a, w) + Bit(b, w)) % 2
  <1>1. \A w \in Weights : e(w) \in {0, 1}
    BY ABit
  <1>2. PICK c1 \in {0, 1} : c1 = e(1)
    BY <1>1 DEF Weights
  <1>3. PICK c2 \in {0, 1} : c2 = e(2)
    BY <1>1 DEF Weights
  <1>4. PICK c3 \in {0, 1} : c3 = e(4)
    BY <1>1 DEF Weights
  <1>5. PICK c4 \in {0, 1} : c4 = e(8)
    BY <1>1 DEF Weights
  <1>6. PICK c5 \in {0, 1} : c5 = e(16)
    BY <1>1 DEF Weights
  <1>7. PICK c6 \in {0, 1} : c6 = e(32)
    BY <1>1 DEF Weights
  <1>8. PICK c7 \in {0, 1} : c7 = e(64)
    BY <1>1 DEF Weights
  <1>9. PICK c8 \in {0, 1} : c8 = e(128)
    BY <1>1 DEF Weights
  <1>10. Xor(a, b) = 1 * e(1) + 2 * e(2) + 4 * e(4) + 8 * e(8) + 16 * e(16) + 32 * e(32)
                     + 64 * e(64) + 128 * e(128)
    BY DEF Xor
  <1> HIDE DEF e
  <1> DEFINE x == Xor(a, b)
  <1> HIDE DEF x
  <1>11. x = c1 + 2 * c2 + 4 * c3 + 8 * c4 + 16 * c5 + 32 * c6 + 64 * c7 + 128 * c8
    BY <1>2, <1>3, <1>4, <1>5, <1>6, <1>7, <1>8, <1>9, <1>10 DEF x
  <1>12. /\ x \in Byte
         /\ Bit(x, 1) = c1 /\ Bit(x, 2) = c2 /\ Bit(x, 4) = c3 /\ Bit(x, 8) = c4
         /\ Bit(x, 16) = c5 /\ Bit(x, 32) = c6 /\ Bit(x, 64) = c7 /\ Bit(x, 128) = c8
    BY <1>11, BitsOfSum
  <1>13. \A w \in Weights : Bit(x, w) = e(w)
    BY <1>2, <1>3, <1>4, <1>5, <1>6, <1>7, <1>8, <1>9, <1>12 DEF Weights
  <1> QED BY <1>12, <1>13 DEF x, e

\* What was masked is unmasked with the same byte.
LEMMA XorTwice == \A a \in Byte, b \in Byte : Xor(Xor(a, b), b) = a
  <1> SUFFICES ASSUME NEW a \in Byte, NEW b \in Byte PROVE Xor(Xor(a, b), b) = a
    OBVIOUS
  <1> DEFINE x == Xor(a, b)
             y == Xor(x, b)
  <1>1. x \in Byte /\ \A w \in Weights : Bit(x, w) = (Bit(a, w) + Bit(b, w)) % 2
    BY XorBits
  <1>2. y \in Byte /\ \A w \in Weights : Bit(y, w) = (Bit(x, w) + Bit(b, w)) % 2
    BY <1>1, XorBits
  <1> HIDE DEF x, y
  <1>3. ASSUME NEW w \in Weights PROVE Bit(y, w) = Bit(a, w)
    <2>1. PICK p \in {0, 1} : p = Bit(a, w)
      BY ABit
    <2>2. PICK q \in {0, 1} : q = Bit(b, w)
      BY ABit
    <2>3. Bit(y, w) = (((p + q) % 2) + q) % 2
      BY <1>1, <1>2, <2>1, <2>2
    <2>4. (((p + q) % 2) + q) % 2 = p
      OBVIOUS
    <2> QED BY <2>1, <2>3, <2>4
  <1>4. \A w \in {1, 2, 4, 8, 16, 32, 64, 128} : Bit(y, w) = Bit(a, w)
    BY <1>3 DEF Weights
  <1>5. y = Bit(a, 1) + 2 * Bit(a, 2) + 4 * Bit(a, 4) + 8 * Bit(a, 8) + 16 * Bit(a, 16)
             + 32 * Bit(a, 32) + 64 * Bit(a, 64) + 128 * Bit(a, 128)
    BY <1>2, <1>4, SumOfBits
  <1>6. y = a
    BY <1>5, SumOfBits
  <1> QED BY <1>6 DEF x, y

-----------------------------------------------------------------------------
(* Pieces of sequences.                                                     *)

\* Taking and dropping the first n.
LEMMA Taking ==
  ASSUME NEW S, NEW s \in Seq(S), NEW n \in Nat, n <= Len(s)
  PROVE  /\ Take(s, n) \in Seq(S) /\ Len(Take(s, n)) = n
         /\ \A i \in 1 .. n : Take(s, n)[i] = s[i]
  <1>1. Len(s) \in Nat /\ s \in [1 .. Len(s) -> S]
    BY LenProperties
  <1>2. \A i \in 1 .. n : s[i] \in S
    BY <1>1
  <1> QED BY <1>1, <1>2, SubSeqProperties DEF Take

LEMMA Dropping ==
  ASSUME NEW S, NEW s \in Seq(S), NEW n \in Nat, n <= Len(s)
  PROVE  /\ Drop(s, n) \in Seq(S) /\ Len(Drop(s, n)) = Len(s) - n
         /\ \A i \in 1 .. Len(s) - n : Drop(s, n)[i] = s[n + i]
  <1>1. Len(s) \in Nat /\ s \in [1 .. Len(s) -> S]
    BY LenProperties
  <1>0. PICK k \in Nat : k = Len(s)
    BY <1>1
  <1> DEFINE m == n + 1
             d == SubSeq(s, m, k)
  <1>2. m \in Int /\ k \in Int /\ \A i \in m .. k : s[i] \in S
    BY <1>0, <1>1
  <1>3. /\ d \in Seq(S) /\ Len(d) = IF m <= k THEN k - m + 1 ELSE 0
        /\ \A i \in 1 .. k - m + 1 : d[i] = s[m + i - 1]
    <2> HIDE DEF m
    <2> QED BY <1>2, SubSeqProperties
  <1> HIDE DEF d
  <1>4. Len(d) = Len(s) - n
    BY <1>0, <1>3
  <1>5. ASSUME NEW i \in 1 .. Len(s) - n PROVE d[i] = s[n + i]
    <2>1. i \in 1 .. k - m + 1 /\ m + i - 1 = n + i
      BY <1>0
    <2> QED BY <1>3, <2>1
  <1>6. Drop(s, n) = d
    BY <1>0 DEF d, Drop
  <1> QED BY <1>3, <1>4, <1>5, <1>6

LEMMA TakenDropped ==
  ASSUME NEW S, NEW s \in Seq(S), NEW n \in Nat, n <= Len(s)
  PROVE  Take(s, n) \o Drop(s, n) = s
  <1> DEFINE a == Take(s, n)
             b == Drop(s, n)
  <1>0. PICK k \in Nat : k = Len(s)
    BY LenProperties
  <1>1. a \in Seq(S) /\ Len(a) = n /\ \A i \in 1 .. n : a[i] = s[i]
    BY Taking
  <1>2. b \in Seq(S) /\ Len(b) = Len(s) - n /\ \A i \in 1 .. Len(s) - n : b[i] = s[n + i]
    BY Dropping
  <1> HIDE DEF a, b
  <1>3. /\ a \o b \in Seq(S) /\ Len(a \o b) = Len(a) + Len(b)
        /\ \A i \in 1 .. Len(a) + Len(b) : (a \o b)[i] = IF i <= Len(a) THEN a[i] ELSE b[i - Len(a)]
    BY <1>1, <1>2, ConcatProperties
  <1>4. Len(a \o b) = Len(s)
    BY <1>0, <1>1, <1>2, <1>3
  <1>5. \A i \in 1 .. Len(s) : (a \o b)[i] = s[i]
    <2> SUFFICES ASSUME NEW i \in 1 .. k PROVE (a \o b)[i] = s[i]
      BY <1>0
    <2>1. CASE i <= n
      <3>1. i \in 1 .. n /\ i \in 1 .. Len(a) + Len(b)
        BY <1>0, <1>1, <1>2, <2>1
      <3> QED BY <1>1, <1>3, <2>1, <3>1
    <2>2. CASE i > n
      <3>1. i - n \in 1 .. Len(s) - n /\ n + (i - n) = i
        BY <1>0, <2>2
      <3>2. (a \o b)[i] = b[i - n]
        <4>1. i \in 1 .. Len(a) + Len(b) /\ ~(i <= Len(a))
          BY <1>0, <1>1, <1>2, <2>2
        <4> QED BY <1>1, <1>3, <4>1
      <3> QED BY <1>2, <3>1, <3>2
    <2>3. i <= n \/ i > n
      OBVIOUS
    <2> QED BY <2>1, <2>2, <2>3
  <1>6. a \o b = s
    BY <1>3, <1>4, <1>5, SeqEqual
  <1> QED BY <1>6 DEF a, b

\* One sequence after another.
LEMMA Joined ==
  ASSUME NEW S, NEW a \in Seq(S), NEW b \in Seq(S)
  PROVE  /\ a \o b \in Seq(S) /\ Len(a \o b) = Len(a) + Len(b)
         /\ \A i \in 1 .. Len(a) : (a \o b)[i] = a[i]
         /\ \A i \in 1 .. Len(b) : (a \o b)[Len(a) + i] = b[i]
         /\ Take(a \o b, Len(a)) = a /\ Drop(a \o b, Len(a)) = b
  <1>0. Len(a) \in Nat /\ Len(b) \in Nat
    BY LenProperties
  <1> DEFINE c == a \o b
  <1>1. /\ c \in Seq(S) /\ Len(c) = Len(a) + Len(b)
        /\ \A i \in 1 .. Len(a) + Len(b) : c[i] = IF i <= Len(a) THEN a[i] ELSE b[i - Len(a)]
    BY ConcatProperties
  <1> HIDE DEF c
  <1>2. \A i \in 1 .. Len(a) : c[i] = a[i]
    BY <1>0, <1>1
  <1>3. \A i \in 1 .. Len(b) : c[Len(a) + i] = b[i]
    <2> SUFFICES ASSUME NEW i \in 1 .. Len(b) PROVE c[Len(a) + i] = b[i]
      OBVIOUS
    <2>1. Len(a) + i \in 1 .. Len(a) + Len(b) /\ ~(Len(a) + i <= Len(a)) /\ Len(a) + i - Len(a) = i
      BY <1>0
    <2> QED BY <1>1, <2>1
  <1>4. Len(a) \in Nat /\ Len(a) <= Len(c)
    BY <1>0, <1>1
  <1>5. Take(c, Len(a)) = a
    <2>1. /\ Take(c, Len(a)) \in Seq(S) /\ Len(Take(c, Len(a))) = Len(a)
          /\ \A i \in 1 .. Len(a) : Take(c, Len(a))[i] = c[i]
      BY <1>1, <1>4, Taking
    <2> QED BY <1>2, <2>1, SeqEqual
  <1>6. Drop(c, Len(a)) = b
    <2>1. /\ Drop(c, Len(a)) \in Seq(S) /\ Len(Drop(c, Len(a))) = Len(c) - Len(a)
          /\ \A i \in 1 .. Len(c) - Len(a) : Drop(c, Len(a))[i] = c[Len(a) + i]
      <3> DEFINE n == Len(a)
      <3>1. n \in Nat /\ n <= Len(c)
        BY <1>4
      <3> HIDE DEF n
      <3>2. /\ Drop(c, n) \in Seq(S) /\ Len(Drop(c, n)) = Len(c) - n
            /\ \A i \in 1 .. Len(c) - n : Drop(c, n)[i] = c[n + i]
        <4>1. c \in Seq(S)
          BY <1>1
        <4> QED BY <3>1, <4>1, Dropping
      <3> QED BY <3>2 DEF n
    <2>2. Len(c) - Len(a) = Len(b)
      BY <1>0, <1>1
    <2> QED BY <1>3, <2>1, <2>2, SeqEqual
  <1> QED BY <1>1, <1>2, <1>3, <1>5, <1>6 DEF c

-----------------------------------------------------------------------------
(* Numbers in network order.                                                *)

\* The number, byte by byte.
LEMMA NumberRun ==
  ASSUME NEW s \in Seq(Byte)
  PROVE  \E v \in [0 .. Len(s) -> Nat] :
           /\ v[0] = 0 /\ \A i \in 1 .. Len(s) : v[i] = 256 * v[i - 1] + s[i]
           /\ Number(s) = v[Len(s)]
  <1> DEFINE n == Len(s)
             V == Nat
             first == 0
             op == [i \in 1 .. n |-> [r \in V |-> 256 * r + s[i]]]
  <1>1. n \in Nat /\ \A i \in 1 .. n : s[i] \in Nat
    <2>1. n \in Nat /\ s \in [1 .. n -> Byte]
      BY LenProperties
    <2>2. \A b \in Byte : b \in Nat
      BY DEF Byte
    <2> HIDE DEF n
    <2> QED BY <2>1, <2>2
  <1>2. op \in [1 .. n -> [V -> V]] /\ first \in V /\ n \in Nat
    <2>1. \A i \in 1 .. n : \A r \in Nat : 256 * r + s[i] \in Nat
      BY <1>1
    <2> QED BY <1>1, <2>1
  <1>3. PICK v \in [0 .. n -> V] : v[0] = first /\ \A i \in 1 .. n : v[i] = op[i][v[i - 1]]
    <2>1. op \in [1 .. n -> [V -> V]]
      BY <1>2
    <2>2. first \in V
      BY <1>2
    <2>3. n \in Nat
      BY <1>2
    <2> HIDE DEF op, n, V, first
    <2>4. \E v \in [0 .. n -> V] : Iterates(v, first, n, op)
      BY <2>1, <2>2, <2>3, Recursion
    <2> QED BY <2>4 DEF Iterates
  <1>4. ASSUME NEW i \in 1 .. n PROVE v[i] = 256 * v[i - 1] + s[i]
    <2>1. i - 1 \in 0 .. n /\ v[i - 1] \in V
      BY <1>1
    <2> QED BY <1>3, <2>1
  <1> DEFINE E(w) == w = [i \in 0 .. n |-> IF i = 0 THEN 0 ELSE 256 * w[i - 1] + s[i]]
             d == CHOOSE w : E(w)
  <1>5. E(v)
    <2>1. \A i \in 0 .. n : v[i] = IF i = 0 THEN 0 ELSE 256 * v[i - 1] + s[i]
      BY <1>1, <1>3, <1>4
    <2> QED BY <1>3, <2>1
  <1>6. E(d)
    <2> HIDE DEF E
    <2> QED BY <1>5
  <1>7. Number(s) = d[n]
    BY DEF Number
  <1>8. \A i \in 0 .. n : d[i] = v[i]
    <2> HIDE DEF d
    <2> DEFINE S == {i \in 0 .. n : d[i] = v[i]}
    <2>1. 0 \in S
      BY <1>1, <1>5, <1>6
    <2>2. ASSUME NEW i \in 1 .. n, i - 1 \in S PROVE i \in S
      <3>1. i \in 0 .. n /\ i # 0 /\ d[i - 1] = v[i - 1]
        BY <1>1, <2>2
      <3>2. v[i] = 256 * v[i - 1] + s[i]
        BY <1>5, <3>1
      <3>3. d[i] = 256 * d[i - 1] + s[i]
        BY <1>6, <3>1
      <3> QED BY <3>1, <3>2, <3>3
    <2>3. 0 .. n \subseteq S
      <3> HIDE DEF S, n
      <3> QED BY <1>1, <2>1, <2>2, StepsTo
    <2> QED BY <2>3
  <1>9. Number(s) = v[n]
    BY <1>1, <1>7, <1>8
  <1> QED BY <1>3, <1>4, <1>9

LEMMA NumberNat == \A s \in Seq(Byte) : Number(s) \in Nat
  <1> SUFFICES ASSUME NEW s \in Seq(Byte) PROVE Number(s) \in Nat
    OBVIOUS
  <1>1. PICK v \in [0 .. Len(s) -> Nat] : Number(s) = v[Len(s)]
    BY NumberRun
  <1>2. Len(s) \in 0 .. Len(s)
    BY LenProperties
  <1> QED BY <1>1, <1>2

LEMMA NumberOfTwo ==
  ASSUME NEW s \in Seq(Byte), Len(s) = 2
  PROVE  Number(s) = 256 * s[1] + s[2]
  <1>1. PICK v \in [0 .. Len(s) -> Nat] :
          /\ v[0] = 0 /\ \A i \in 1 .. Len(s) : v[i] = 256 * v[i - 1] + s[i]
          /\ Number(s) = v[Len(s)]
    BY NumberRun
  <1>0. s[1] \in Byte /\ s[2] \in Byte
    <2>1. s \in [1 .. 2 -> Byte]
      BY LenProperties
    <2> QED BY <2>1
  <1>2. PICK a \in Nat : a = s[1]
    BY <1>0 DEF Byte
  <1>3. PICK b \in Nat : b = s[2]
    BY <1>0 DEF Byte
  <1>4. v[1] = 256 * v[0] + s[1] /\ v[2] = 256 * v[1] + s[2]
    BY <1>1
  <1>5. v[1] = a
    BY <1>1, <1>2, <1>4
  <1> QED BY <1>1, <1>2, <1>3, <1>4, <1>5

LEMMA NumberOfEight ==
  ASSUME NEW s \in Seq(Byte), Len(s) = 8, s[1] = 0, s[2] = 0, s[3] = 0, s[4] = 0
  PROVE  Number(s) = 16777216 * s[5] + 65536 * s[6] + 256 * s[7] + s[8]
  <1>1. PICK v \in [0 .. Len(s) -> Nat] :
          /\ v[0] = 0 /\ \A i \in 1 .. Len(s) : v[i] = 256 * v[i - 1] + s[i]
          /\ Number(s) = v[Len(s)]
    BY NumberRun
  <1>2. PICK a \in Nat, b \in Nat, c \in Nat, d \in Nat :
          a = s[5] /\ b = s[6] /\ c = s[7] /\ d = s[8]
    <2>1. s \in [1 .. 8 -> Byte]
      BY LenProperties
    <2>2. s[5] \in Byte /\ s[6] \in Byte /\ s[7] \in Byte /\ s[8] \in Byte
      BY <2>1
    <2>3. \A x \in Byte : x \in Nat
      BY DEF Byte
    <2> QED BY <2>2, <2>3
  <1>3. /\ v[1] = 256 * v[0] + s[1]
        /\ v[2] = 256 * v[1] + s[2]
        /\ v[3] = 256 * v[2] + s[3]
        /\ v[4] = 256 * v[3] + s[4]
    BY <1>1
  <1>4. /\ v[5] = 256 * v[4] + s[5]
        /\ v[6] = 256 * v[5] + s[6]
        /\ v[7] = 256 * v[6] + s[7]
        /\ v[8] = 256 * v[7] + s[8]
    BY <1>1
  <1>5. v[4] = 0
    BY <1>1, <1>3
  <1>6. v[5] = a /\ a \in Nat
    BY <1>2, <1>4, <1>5
  <1>7. v[6] = 256 * a + b
    BY <1>2, <1>4, <1>6
  <1>8. v[7] = 65536 * a + 256 * b + c
    <2>1. PICK x \in Nat : x = v[6] /\ x = 256 * a + b
      BY <1>7, SMT
    <2>2. v[7] = 256 * x + c
      BY <1>2, <1>4, <2>1, SMT
    <2> QED BY <2>1, <2>2, SMT
  <1>9. v[8] = 16777216 * a + 65536 * b + 256 * c + d
    <2>1. PICK x \in Nat : x = v[7] /\ x = 65536 * a + 256 * b + c
      BY <1>8, SMT
    <2>2. v[8] = 256 * x + d
      BY <1>2, <1>4, <2>1, SMT
    <2>3. 256 * x + d = 16777216 * a + 65536 * b + 256 * c + d
      BY <2>1, SMT
    <2> QED BY <2>2, <2>3, SMT
  <1> QED BY <1>1, <1>2, <1>9, SMT

\* A number by its bytes.
LEMMA Digits ==
  ASSUME NEW n \in Nat, n <= 2147483647
  PROVE  n = 16777216 * ((n \div 16777216) % 256) + 65536 * ((n \div 65536) % 256)
             + 256 * ((n \div 256) % 256) + (n % 256)
  <1>1. PICK m \in Nat : m = n \div 256
    BY SMT
  <1>2. PICK k \in Nat : k = n \div 65536
    BY SMT
  <1>3. PICK j \in Nat : j = n \div 16777216
    BY SMT
  <1>4. n = 256 * m + (n % 256)
    BY <1>1, SMT
  <1>5. m = 256 * k + (m % 256)
    BY <1>1, <1>2, SMT
  <1>6. k = 256 * j + (k % 256)
    BY <1>2, <1>3, SMT
  <1>7. j % 256 = j
    BY <1>3, SMT
  <1> QED BY <1>1, <1>2, <1>3, <1>4, <1>5, <1>6, <1>7, SMT

\* They are bytes, and so many.
LEMMA BytesTyped ==
  ASSUME NEW n \in Nat, NEW k \in {2, 8}
  PROVE  Bytes(n, k) \in Seq(Byte) /\ Len(Bytes(n, k)) = k
  <1>1. ASSUME NEW i \in 1 .. k
        PROVE  (IF k - i > 3 THEN 0
                ELSE (n \div <<1, 256, 65536, 16777216>>[k - i + 1]) % 256) \in Byte
    <2>1. CASE k - i > 3
      BY <2>1, SMT DEF Byte
    <2>2. CASE k - i <= 3
      <3>1. PICK w \in Nat \ {0} : w = <<1, 256, 65536, 16777216>>[k - i + 1]
        <4>1. k - i + 1 = 1 \/ k - i + 1 = 2 \/ k - i + 1 = 3 \/ k - i + 1 = 4
          BY <2>2, SMT
        <4> QED BY <4>1, SMT
      <3>2. (n \div w) % 256 \in 0 .. 255
        BY SMT
      <3>3. (n \div <<1, 256, 65536, 16777216>>[k - i + 1]) % 256 \in Byte
        BY <3>1, <3>2, SMT DEF Byte
      <3>4. ~(k - i > 3)
        BY <2>2, SMT
      <3> QED BY <3>3, <3>4, SMT
    <2> QED BY <2>1, <2>2, SMT
  <1> DEFINE e(i) == IF k - i > 3 THEN 0
                     ELSE (n \div <<1, 256, 65536, 16777216>>[k - i + 1]) % 256
  <1>2. Bytes(n, k) = [i \in 1 .. k |-> e(i)]
    BY SMT DEF Bytes
  <1>3. \A i \in 1 .. k : e(i) \in Byte
    BY <1>1
  <1> HIDE DEF e
  <1>4. [i \in 1 .. k |-> e(i)] \in [1 .. k -> Byte]
    BY <1>3
  <1>5. k \in Nat
    OBVIOUS
  <1> QED BY <1>2, <1>4, <1>5, SMT

\* What is written in two or eight bytes reads as itself.
LEMMA TwoRead == ASSUME NEW n \in Nat, n <= 65535 PROVE Number(Bytes(n, 2)) = n
  <1> DEFINE b == Bytes(n, 2)
  <1>1. b \in Seq(Byte) /\ Len(b) = 2
    BY BytesTyped, SMT
  <1>2. b[1] = (n \div 256) % 256 /\ b[2] = (n \div 1) % 256
    BY SMT DEF Bytes
  <1> HIDE DEF b
  <1>3. Number(b) = 256 * b[1] + b[2]
    BY <1>1, NumberOfTwo
  <1>4. 256 * ((n \div 256) % 256) + ((n \div 1) % 256) = n
    BY SMT
  <1> QED BY <1>2, <1>3, <1>4, SMT DEF b

LEMMA EightRead == ASSUME NEW n \in Nat, n <= 2147483647 PROVE Number(Bytes(n, 8)) = n
  <1> DEFINE b == Bytes(n, 8)
  <1>1. b \in Seq(Byte) /\ Len(b) = 8
    BY BytesTyped, SMT
  <1>2. b[1] = 0 /\ b[2] = 0 /\ b[3] = 0 /\ b[4] = 0
    BY SMT DEF Bytes
  <1>3. /\ b[5] = (n \div 16777216) % 256 /\ b[6] = (n \div 65536) % 256
        /\ b[7] = (n \div 256) % 256 /\ b[8] = (n \div 1) % 256
    BY SMT DEF Bytes
  <1> HIDE DEF b
  <1>4. Number(b) = 16777216 * b[5] + 65536 * b[6] + 256 * b[7] + b[8]
    BY <1>1, <1>2, NumberOfEight, SMT
  <1>5. (n \div 1) % 256 = n % 256
    BY SMT
  <1>6. n = 16777216 * b[5] + 65536 * b[6] + 256 * b[7] + b[8]
    BY <1>3, <1>5, Digits, SMT
  <1> QED BY <1>4, <1>6, SMT DEF b

-----------------------------------------------------------------------------
(* Frames.                                                                  *)

\* The assumptions, as facts for arithmetic.
LEMMA Sizes ==
  /\ payload_size_basic \in Nat /\ 3 <= payload_size_basic /\ payload_size_basic <= 125
  /\ payload_size_extended \in Nat /\ payload_size_basic < payload_size_extended
  /\ payload_size_extended <= 65535
  /\ max_message_size \in Nat
  BY WsFramesAssumption, SMT

LEMMA ZerosTyped == \A n \in Nat : Zeros(n) \in [1 .. n -> Byte]
  BY DEF Zeros, Byte

LEMMA CopiedTyped ==
  ASSUME NEW n \in Nat, NEW t \in Seq(Byte), NEW s \in [1 .. n -> Byte], NEW at
  PROVE  Copied(t, s, at) \in [1 .. n -> Byte]
  <1>1. \A i \in DOMAIN t : t[i] \in Byte
    BY LenProperties
  <1>2. DOMAIN s = 1 .. n
    OBVIOUS
  <1>3. \A i \in 1 .. n : (IF i - at \in DOMAIN t THEN t[i - at] ELSE s[i]) \in Byte
    BY <1>1
  <1> QED BY <1>2, <1>3 DEF Copied

\* A function on 1 .. n is a sequence.
LEMMA FunIsSeq ==
  ASSUME NEW S, NEW n \in Nat, NEW f \in [1 .. n -> S]
  PROVE  f \in Seq(S) /\ Len(f) = n
  <1>1. f \in Seq(S)
    OBVIOUS
  <1>2. DOMAIN f = 1 .. Len(f) /\ DOMAIN f = 1 .. n /\ Len(f) \in Nat
    BY <1>1, LenProperties
  <1> QED BY <1>1, <1>2

\* What is copied to the front of an empty header.
LEMMA ExtendedTaken ==
  ASSUME NEW t \in Seq(Byte), NEW k \in {2, 8}, Len(t) = k
  PROVE  /\ Copied(t, Zeros(12), 0) \in [1 .. 12 -> Byte]
         /\ Take(Copied(t, Zeros(12), 0), k) = t
  <1> DEFINE z == Zeros(12)
             e == Copied(t, z, 0)
  <1>1. z \in [1 .. 12 -> Byte]
    BY ZerosTyped
  <1>2. e \in [1 .. 12 -> Byte]
    <2>1. 12 \in Nat
      OBVIOUS
    <2> HIDE DEF z
    <2> QED BY <1>1, <2>1, CopiedTyped
  <1>3. DOMAIN t = 1 .. k
    BY LenProperties
  <1>4. DOMAIN z = 1 .. 12
    BY <1>1
  <1>5. \A i \in 1 .. k : e[i] = t[i]
    <2> HIDE DEF z
    <2> SUFFICES ASSUME NEW i \in 1 .. k PROVE e[i] = t[i]
      OBVIOUS
    <2>1. i \in 1 .. 12 /\ i - 0 = i
      OBVIOUS
    <2> QED BY <1>3, <1>4, <2>1 DEF Copied
  <1> HIDE DEF e, z
  <1>6. e \in Seq(Byte) /\ Len(e) = 12
    <2> DEFINE n == 12
    <2>1. n \in Nat /\ e \in [1 .. n -> Byte]
      BY <1>2
    <2> HIDE DEF n
    <2>2. e \in Seq(Byte) /\ Len(e) = n
      BY <2>1, FunIsSeq
    <2> QED BY <2>2 DEF n
  <1>7. Take(e, k) \in Seq(Byte) /\ Len(Take(e, k)) = k /\ \A i \in 1 .. k : Take(e, k)[i] = e[i]
    <2>1. k \in Nat /\ k <= Len(e)
      BY <1>6
    <2> QED BY <1>6, <2>1, Taking
  <1>8. Take(e, k) = t
    <2>1. \A i \in 1 .. Len(t) : Take(e, k)[i] = t[i]
      BY <1>5, <1>7
    <2> QED BY <1>7, <2>1, SeqEqual
  <1> QED BY <1>2, <1>8 DEF e, z

LEMMA JoinedBytes ==
  \A a, b \in Seq(Byte) :
    /\ a \o b \in Seq(Byte) /\ Len(a \o b) = Len(a) + Len(b)
    /\ \A i \in 1 .. Len(a) : (a \o b)[i] = a[i]
    /\ \A i \in 1 .. Len(b) : (a \o b)[Len(a) + i] = b[i]
    /\ Take(a \o b, Len(a)) = a /\ Drop(a \o b, Len(a)) = b
  BY Joined

\* The parts of a frame.
LEMMA Framed ==
  ASSUME NEW h \in Seq(Byte), NEW t \in Seq(Byte), NEW p \in Seq(Byte), NEW k \in Nat,
         Len(h) = 2, Len(t) = k
  PROVE  /\ (h \o t) \o p \in Seq(Byte)
         /\ ((h \o t) \o p)[1] = h[1] /\ ((h \o t) \o p)[2] = h[2]
         /\ SubSeq((h \o t) \o p, 3, 2 + k) = t /\ Drop((h \o t) \o p, 2 + k) = p
  <1> DEFINE a == h \o t
             b == a \o p
  <1>1. /\ a \in Seq(Byte) /\ Len(a) = 2 + k
        /\ \A i \in 1 .. 2 : a[i] = h[i]
        /\ \A i \in 1 .. k : a[2 + i] = t[i]
    <2>1. /\ a \in Seq(Byte) /\ Len(a) = Len(h) + Len(t)
          /\ \A i \in 1 .. Len(h) : a[i] = h[i]
          /\ \A i \in 1 .. Len(t) : a[Len(h) + i] = t[i]
      BY JoinedBytes
    <2> HIDE DEF a
    <2> QED BY <2>1
  <1> HIDE DEF a
  <1>2. /\ b \in Seq(Byte) /\ Len(b) = Len(a) + Len(p)
        /\ \A i \in 1 .. Len(a) : b[i] = a[i]
        /\ Drop(b, Len(a)) = p
    <2>1. a \in Seq(Byte)
      BY <1>1
    <2> QED BY <2>1, Joined
  <1> HIDE DEF b
  <1>3. b[1] = h[1] /\ b[2] = h[2]
    BY <1>1, <1>2
  <1>4. \A i \in 1 .. k : b[2 + i] = t[i]
    <2> SUFFICES ASSUME NEW i \in 1 .. k PROVE b[2 + i] = t[i]
      OBVIOUS
    <2>1. 2 + i \in 1 .. Len(a)
      BY <1>1
    <2> QED BY <1>1, <1>2, <2>1
  <1> DEFINE m == 2 + k
             c == SubSeq(b, 3, m)
  <1>5. m \in Int /\ 3 \in Int /\ \A i \in 3 .. m : b[i] \in Byte
    <2>1. PICK l \in Nat : l = Len(p)
      BY LenProperties
    <2>2. Len(b) = m + l /\ b \in [1 .. Len(b) -> Byte]
      BY <1>1, <1>2, <2>1, LenProperties
    <2> QED BY <2>2
  <1>6. /\ c \in Seq(Byte) /\ Len(c) = IF 3 <= m THEN m - 3 + 1 ELSE 0
        /\ \A i \in 1 .. m - 3 + 1 : c[i] = b[3 + i - 1]
    <2> HIDE DEF m
    <2> QED BY <1>5, SubSeqProperties
  <1> HIDE DEF c
  <1>7. Len(c) = k
    BY <1>6
  <1>8. \A i \in 1 .. k : c[i] = t[i]
    <2> SUFFICES ASSUME NEW i \in 1 .. k PROVE c[i] = t[i]
      OBVIOUS
    <2>1. i \in 1 .. m - 3 + 1 /\ 3 + i - 1 = 2 + i
      OBVIOUS
    <2> QED BY <1>4, <1>6, <2>1
  <1>9. c = t
    BY <1>6, <1>7, <1>8, SeqEqual
  <1> QED BY <1>1, <1>2, <1>3, <1>9 DEF a, b, c

\* What PreparedReads says of a frame.
Reading(p) ==
  LET b == p.bytes
      n == Len(p.asked.payload)
      k == CASE b[2] = 126 -> 2 [] b[2] = 127 -> 8 [] OTHER -> 0
  IN  /\ b[1] = 128 + p.asked.opcode /\ b[2] < 128
      /\ n = IF k = 0 THEN b[2] ELSE Number(SubSeq(b, 3, 2 + k))
      /\ k = IF n <= payload_size_basic THEN 0 ELSE IF n <= payload_size_extended THEN 2 ELSE 8
      /\ Drop(b, 2 + k) = p.asked.payload

\* The second byte of a header.
SizeCode(n) ==
  IF n <= payload_size_basic THEN n ELSE IF n <= payload_size_extended THEN 126 ELSE 127

\* The two bytes of a basic header.
LEMMA HeaderOf ==
  ASSUME NEW op \in Opcodes, NEW n \in Nat
  PROVE  /\ SizeCode(n) \in Byte
         /\ basic_header(op, n, TRUE) \in Seq(Byte)
         /\ Len(basic_header(op, n, TRUE)) = 2
         /\ basic_header(op, n, TRUE)[1] = op + 128
         /\ basic_header(op, n, TRUE)[2] = SizeCode(n)
  <1>1. op + 128 \in Byte
    BY DEF Opcodes, TEXT, BINARY, CLOSE, PING, PONG, Byte
  <1>2. SizeCode(n) \in Byte
    BY Sizes, SMT DEF Byte, SizeCode
  <1>3. basic_header(op, n, TRUE) = <<op + 128, SizeCode(n)>>
    BY DEF basic_header, payload_size_code_16bit, payload_size_code_64bit, SizeCode
  <1>4. ASSUME NEW x \in Byte, NEW c \in Byte
        PROVE  /\ <<x, c>> \in Seq(Byte) /\ Len(<<x, c>>) = 2
               /\ <<x, c>>[1] = x /\ <<x, c>>[2] = c
    OBVIOUS
  <1> DEFINE h == <<op + 128, SizeCode(n)>>
  <1>5. h \in Seq(Byte) /\ Len(h) = 2 /\ h[1] = op + 128 /\ h[2] = SizeCode(n)
    BY <1>1, <1>2, <1>4
  <1> HIDE DEF h
  <1> QED BY <1>2, <1>3, <1>5 DEF h

\* Numbers that eight bytes hold in this model.
Fits(n) == n <= 2147483647

\* What prepare_data_frame and prepare_control make reads as what it was made of.
LEMMA FrameReads ==
  ASSUME NEW op \in Opcodes, NEW p \in Seq(Byte), Fits(Len(p))
  PROVE  Frame(op, p) \in Prepared /\ Reading(Frame(op, p))
  <1>1. PICK n \in Nat : n = Len(p)
    BY LenProperties
  <1> DEFINE h == basic_header(op, n, TRUE)
             e == extended_header(n)
  <1>2. PICK c \in Byte :
           /\ h \in Seq(Byte) /\ Len(h) = 2 /\ h[1] = op + 128 /\ h[2] = c
           /\ c = IF n <= payload_size_basic THEN n
                  ELSE IF n <= payload_size_extended THEN 126 ELSE 127
    <2>1. SizeCode(n) \in Byte /\ h \in Seq(Byte) /\ Len(h) = 2
      BY HeaderOf
    <2>2. h[1] = op + 128 /\ h[2] = SizeCode(n)
      BY HeaderOf
    <2> HIDE DEF h
    <2> QED BY <2>1, <2>2 DEF SizeCode
  <1>3. h[1] = op + 128 /\ h[2] = c
    BY <1>2
  <1> DEFINE t == Take(e, get_header_len(h) - 2)
             k == CASE c = 126 -> 2 [] c = 127 -> 8 [] OTHER -> 0
  <1>4. c < 128 /\ c \in Nat
    BY <1>2, Sizes, SMT
  <1>5. k = IF n <= payload_size_basic THEN 0 ELSE IF n <= payload_size_extended THEN 2 ELSE 8
    BY <1>2, Sizes, SMT
  <1>6. get_header_len(h) - 2 = k
    <2> HIDE DEF h
    <2>1. c % 128 = c
      BY <1>4, SMT
    <2>2. get_basic_size(h) = c /\ ~get_masked(h)
      BY <1>3, <1>4, <2>1, SMT DEF get_basic_size, get_masked
    <2>3. get_masking_key_offset(h) = k
      BY <2>2 DEF get_masking_key_offset, payload_size_code_16bit, payload_size_code_64bit
    <2>4. k \in Nat
      OBVIOUS
    <2> HIDE DEF k
    <2> QED BY <2>2, <2>3, <2>4 DEF get_header_len
  <1>7. t \in Seq(Byte) /\ Len(t) = k /\ (k = 0 => t = <<>>) /\ (k # 0 => Number(t) = n)
    <2> HIDE DEF h, k
    <2>1. CASE n <= payload_size_basic
      <3>1. k = 0
        BY <1>5, <2>1
      <3>2. SubSeq(e, 1, 0) = <<>>
        BY SubSeqEmpty
      <3>3. t = <<>>
        BY <1>6, <3>1, <3>2 DEF Take
      <3>4. t \in Seq(Byte) /\ Len(t) = 0
        <4>1. <<>> \in Seq(Byte) /\ Len(<<>>) = 0
          BY EmptySeq
        <4> HIDE DEF t
        <4> QED BY <3>3, <4>1
      <3> QED BY <3>1, <3>3, <3>4
    <2>2. CASE n > payload_size_basic /\ n <= payload_size_extended
      <3>1. k = 2
        BY <1>5, <2>2, Sizes, SMT
      <3>2. e = Copied(Bytes(n, 2), Zeros(12), 0)
        BY <2>2 DEF extended_header
      <3>3. Bytes(n, 2) \in Seq(Byte) /\ Len(Bytes(n, 2)) = 2
        BY BytesTyped, SMT
      <3>4. t = Bytes(n, 2)
        <4> DEFINE b == Bytes(n, 2)
        <4>1. b \in Seq(Byte) /\ Len(b) = 2
          BY <3>3
        <4> HIDE DEF b
        <4>2. Take(Copied(b, Zeros(12), 0), 2) = b
          BY <4>1, ExtendedTaken
        <4> QED BY <1>6, <3>1, <3>2, <4>2 DEF b
      <3>5. Number(Bytes(n, 2)) = n
        BY <2>2, TwoRead, Sizes, SMT
      <3> QED BY <3>1, <3>3, <3>4, <3>5
    <2>3. CASE n > payload_size_extended
      <3>1. k = 8
        BY <1>5, <2>3, Sizes, SMT
      <3>2. e = Copied(Bytes(n, 8), Zeros(12), 0)
        BY <2>3, Sizes, SMT DEF extended_header
      <3>3. Bytes(n, 8) \in Seq(Byte) /\ Len(Bytes(n, 8)) = 8
        BY BytesTyped, SMT
      <3>4. t = Bytes(n, 8)
        <4> DEFINE b == Bytes(n, 8)
        <4>1. b \in Seq(Byte) /\ Len(b) = 8
          BY <3>3
        <4> HIDE DEF b
        <4>2. Take(Copied(b, Zeros(12), 0), 8) = b
          BY <4>1, ExtendedTaken
        <4> QED BY <1>6, <3>1, <3>2, <4>2 DEF b
      <3>5. Number(Bytes(n, 8)) = n
        BY <1>1, EightRead, SMT DEF Fits
      <3> QED BY <3>1, <3>3, <3>4, <3>5
    <2> QED BY <2>1, <2>2, <2>3, Sizes, SMT
  <1> DEFINE b == (h \o t) \o p
  <1>8. k \in Nat
    OBVIOUS
  <1>9. /\ b \in Seq(Byte) /\ b[1] = h[1] /\ b[2] = h[2]
        /\ SubSeq(b, 3, 2 + k) = t /\ Drop(b, 2 + k) = p
    <2>1. h \in Seq(Byte) /\ t \in Seq(Byte) /\ k \in Nat
      BY <1>2, <1>7, <1>8
    <2>2. Len(h) = 2 /\ Len(t) = k
      BY <1>2, <1>7
    <2> HIDE DEF h, t, k
    <2> QED BY <2>1, <2>2, Framed, SMTT(60)
  <1>10. Frame(op, p) = [asked |-> [opcode |-> op, payload |-> p], bytes |-> b]
    BY <1>1 DEF Frame, prepare_header
  <1> HIDE DEF h, t, b
  <1>11. Frame(op, p) \in Prepared
    BY <1>9, <1>10 DEF Prepared, Message
  <1> DEFINE F == [asked |-> [opcode |-> op, payload |-> p], bytes |-> b]
  <1>12. Reading(F)
    <2>1. F.bytes = b /\ F.asked.opcode = op /\ F.asked.payload = p
      OBVIOUS
    <2> HIDE DEF F
    <2>2. b[1] = 128 + op /\ b[2] = c /\ op \in Nat
      BY <1>3, <1>9 DEF Opcodes, TEXT, BINARY, CLOSE, PING, PONG
    <2>3. (CASE b[2] = 126 -> 2 [] b[2] = 127 -> 8 [] OTHER -> 0) = k
      BY <2>2
    <2>4. n = IF k = 0 THEN c ELSE Number(t)
      <3>1. CASE n <= payload_size_basic
        BY <1>2, <1>5, <3>1
      <3>2. CASE ~(n <= payload_size_basic)
        <4>1. k # 0
          BY <1>5, <3>2
        <4> QED BY <1>7, <4>1
      <3> QED BY <3>1, <3>2
    <2> HIDE DEF k
    <2>5. /\ b[1] = 128 + op /\ b[2] < 128
          /\ n = IF k = 0 THEN b[2] ELSE Number(SubSeq(b, 3, 2 + k))
          /\ k = IF n <= payload_size_basic THEN 0 ELSE IF n <= payload_size_extended THEN 2 ELSE 8
          /\ Drop(b, 2 + k) = p
      BY <1>4, <1>5, <1>9, <2>2, <2>4
    <2> QED BY <1>1, <2>1, <2>3, <2>5 DEF Reading
  <1> QED BY <1>10, <1>11, <1>12

-----------------------------------------------------------------------------
(* What the operators of the parser return.                                 *)

Header    == [1 .. 2 -> Byte]
Extension == [1 .. 12 -> Byte]
WordKey   == [1 .. 8 -> Byte]
Opened    == {TEXT, BINARY}
Controls  == {CLOSE, PING, PONG}

\* The length a header announces is within what the extended header holds.
LEMMA HeaderTyped ==
  ASSUME NEW h \in Header
  PROVE  /\ get_opcode(h) \in 0 .. 15 /\ get_basic_size(h) \in 0 .. 127
         /\ get_masking_key_offset(h) \in {0, 2, 8}
         /\ get_header_len(h) - 2 \in 0 .. 12
         /\ get_masked(h) => get_header_len(h) - 2 = get_masking_key_offset(h) + 4
         /\ get_basic_size(h) \notin {126, 127} => get_masking_key_offset(h) = 0
         /\ get_basic_size(h) = 126 => get_masking_key_offset(h) = 2
         /\ get_basic_size(h) = 127 => get_masking_key_offset(h) = 8
  <1>1. h[1] \in Byte /\ h[2] \in Byte
    BY DEF Header
  <1>2. get_opcode(h) \in 0 .. 15 /\ get_basic_size(h) \in 0 .. 127
    BY <1>1 DEF get_opcode, get_basic_size, Byte
  <1>3. /\ get_masking_key_offset(h) \in {0, 2, 8}
        /\ get_basic_size(h) \notin {126, 127} => get_masking_key_offset(h) = 0
        /\ get_basic_size(h) = 126 => get_masking_key_offset(h) = 2
        /\ get_basic_size(h) = 127 => get_masking_key_offset(h) = 8
    BY DEF get_masking_key_offset, payload_size_code_16bit, payload_size_code_64bit
  <1> DEFINE o == get_masking_key_offset(h)
  <1>4. get_header_len(h) = 2 + o + IF get_masked(h) THEN 4 ELSE 0
    BY DEF get_header_len
  <1> HIDE DEF o
  <1>5. /\ get_header_len(h) - 2 \in 0 .. 12
        /\ get_masked(h) => get_header_len(h) - 2 = o + 4
    <2>1. o = 0 \/ o = 2 \/ o = 8
      BY <1>3 DEF o
    <2> QED BY <1>4, <2>1
  <1> QED BY <1>2, <1>3, <1>5 DEF o

\* Key and size out of the extended header.
LEMMA KeyTyped ==
  ASSUME NEW h \in Header, NEW e \in Extension
  PROVE  /\ get_masking_key(h, e) \in Seq(Byte) /\ Len(get_masking_key(h, e)) = 4
         /\ \A i \in 1 .. 4 : get_masking_key(h, e)[i] = e[get_masking_key_offset(h) + i]
         /\ get_payload_size(h, e) \in Nat
  <1>1. e \in Seq(Byte) /\ Len(e) = 12
    <2> DEFINE n == 12
    <2>1. n \in Nat /\ e \in [1 .. n -> Byte]
      BY DEF Extension
    <2> HIDE DEF n
    <2>2. e \in Seq(Byte) /\ Len(e) = n
      BY <2>1, FunIsSeq
    <2> QED BY <2>2 DEF n
  <1>2. PICK o \in Nat : o = get_masking_key_offset(h) /\ o <= 8
    BY HeaderTyped
  <1> DEFINE a == o + 1
             b == o + 4
             c == SubSeq(e, a, b)
  <1>3. a \in Int /\ b \in Int /\ \A i \in a .. b : e[i] \in Byte
    BY <1>2 DEF Extension
  <1>4. /\ c \in Seq(Byte) /\ Len(c) = IF a <= b THEN b - a + 1 ELSE 0
        /\ \A i \in 1 .. b - a + 1 : c[i] = e[a + i - 1]
    <2> HIDE DEF a, b
    <2> QED BY <1>3, SubSeqProperties
  <1>5. get_masking_key(h, e) = c
    BY <1>2 DEF get_masking_key
  <1> HIDE DEF c
  <1>6. Len(c) = 4 /\ \A i \in 1 .. 4 : c[i] = e[o + i]
    <2>1. b - a + 1 = 4 /\ a <= b
      OBVIOUS
    <2>2. \A i \in 1 .. 4 : a + i - 1 = o + i
      OBVIOUS
    <2> HIDE DEF a, b
    <2> QED BY <1>4, <2>1, <2>2
  <1>7. get_payload_size(h, e) \in Nat
    <2>1. get_basic_size(h) \in Nat
      BY HeaderTyped
    <2>2. Take(e, 2) \in Seq(Byte) /\ Take(e, 8) \in Seq(Byte)
      <3>1. ASSUME NEW n \in Nat, n <= 12 PROVE Take(e, n) \in Seq(Byte)
        <4>1. n <= Len(e) /\ e \in Seq(Byte)
          BY <1>1, <3>1
        <4> QED BY <4>1, Taking
      <3> QED BY <3>1
    <2> QED BY <2>1, <2>2, NumberNat DEF get_payload_size
  <1> QED BY <1>2, <1>4, <1>5, <1>6, <1>7

\* The key repeated.
LEMMA WordKeyFrom ==
  ASSUME NEW key \in Seq(Byte), Len(key) = 4
  PROVE  /\ prepare_masking_key(key) \in WordKey
         /\ \A i \in 1 .. 8 : prepare_masking_key(key)[i] = key[((i - 1) % 4) + 1]
  <1> DEFINE w == key \o key
  <1>1. /\ w \in Seq(Byte) /\ Len(w) = 4 + 4
        /\ \A i \in 1 .. 4 : w[i] = key[i]
        /\ \A i \in 1 .. 4 : w[4 + i] = key[i]
    <2>1. /\ w \in Seq(Byte) /\ Len(w) = Len(key) + Len(key)
          /\ \A i \in 1 .. Len(key) : w[i] = key[i]
          /\ \A i \in 1 .. Len(key) : w[Len(key) + i] = key[i]
      BY JoinedBytes
    <2> HIDE DEF w
    <2> QED BY <2>1
  <1> HIDE DEF w
  <1>2. w \in WordKey
    BY <1>1, LenProperties DEF WordKey
  <1>3. ASSUME NEW i \in 1 .. 8 PROVE w[i] = key[((i - 1) % 4) + 1]
    <2>1. CASE i <= 4
      <3>1. i \in 1 .. 4 /\ ((i - 1) % 4) + 1 = i
        BY <2>1
      <3> QED BY <1>1, <3>1
    <2>2. CASE i > 4
      <3>1. i - 4 \in 1 .. 4 /\ 4 + (i - 4) = i /\ ((i - 1) % 4) + 1 = i - 4
        BY <2>2
      <3> QED BY <1>1, <3>1
    <2> QED BY <2>1, <2>2
  <1> QED BY <1>2, <1>3 DEF w, prepare_masking_key

\* The key turned by n, of a word of eight.
LEMMA Turned ==
  ASSUME NEW key \in WordKey, NEW n \in Nat
  PROVE  /\ word_mask_circ(key, n) \in WordKey
         /\ \A i \in 1 .. 8 : word_mask_circ(key, n)[i] = key[((i - 1 + n) % 8) + 1]
  <1>1. PICK k \in Nat : k = n % 8 /\ k < 8
    OBVIOUS
  <1>2. key \in Seq(Byte) /\ Len(key) = 8
    <2> DEFINE m == 8
    <2>1. m \in Nat /\ key \in [1 .. m -> Byte]
      BY DEF WordKey
    <2> HIDE DEF m
    <2>2. key \in Seq(Byte) /\ Len(key) = m
      BY <2>1, FunIsSeq
    <2> QED BY <2>2 DEF m
  <1> DEFINE a == Drop(key, k)
             b == Take(key, k)
             w == a \o b
  <1>3. k <= Len(key)
    BY <1>1, <1>2
  <1>4. a \in Seq(Byte) /\ Len(a) = 8 - k /\ \A i \in 1 .. 8 - k : a[i] = key[k + i]
    <2>1. /\ a \in Seq(Byte) /\ Len(a) = Len(key) - k
          /\ \A i \in 1 .. Len(key) - k : a[i] = key[k + i]
      BY <1>2, <1>3, Dropping
    <2> HIDE DEF a
    <2> QED BY <1>2, <2>1
  <1>5. b \in Seq(Byte) /\ Len(b) = k /\ \A i \in 1 .. k : b[i] = key[i]
    BY <1>2, <1>3, Taking
  <1> HIDE DEF a, b
  <1>6. /\ w \in Seq(Byte) /\ Len(w) = Len(a) + Len(b)
        /\ \A i \in 1 .. Len(a) : w[i] = a[i]
        /\ \A i \in 1 .. Len(b) : w[Len(a) + i] = b[i]
    BY <1>4, <1>5, JoinedBytes
  <1>7. word_mask_circ(key, n) = w
    BY <1>1 DEF word_mask_circ, circshift_prepared_key, a, b
  <1> HIDE DEF w
  <1>8. Len(w) = 8
    BY <1>4, <1>5, <1>6
  <1>9. w \in WordKey
    BY <1>6, <1>8, LenProperties DEF WordKey
  <1>10. ASSUME NEW i \in 1 .. 8 PROVE w[i] = key[((i - 1 + n) % 8) + 1]
    <2>1. (i - 1 + n) % 8 = (i - 1 + k) % 8
      BY <1>1
    <2>2. CASE i <= 8 - k
      <3>1. i \in 1 .. 8 - k /\ ((i - 1 + k) % 8) + 1 = k + i
        BY <1>1, <2>2
      <3>2. w[i] = a[i]
        BY <1>4, <1>6, <3>1
      <3> QED BY <1>4, <2>1, <3>1, <3>2
    <2>3. CASE i > 8 - k
      <3>1. i - (8 - k) \in 1 .. k /\ ((i - 1 + k) % 8) + 1 = i - (8 - k)
        BY <1>1, <2>3
      <3>2. (8 - k) + (i - (8 - k)) = i
        BY <1>1
      <3>3. w[i] = b[i - (8 - k)]
        BY <1>4, <1>5, <1>6, <3>1, <3>2
      <3> QED BY <1>5, <2>1, <3>1, <3>3
    <2> QED BY <1>1, <2>2, <2>3
  <1> QED BY <1>7, <1>9, <1>10

\* Masking a piece.
LEMMA Unmasked ==
  ASSUME NEW s \in Seq(Byte), NEW key \in WordKey
  PROVE  /\ word_mask(s, key) \in Seq(Byte) /\ Len(word_mask(s, key)) = Len(s)
         /\ \A i \in 1 .. Len(s) : word_mask(s, key)[i] = Xor(s[i], key[((i - 1) % 8) + 1])
  <1>1. PICK n \in Nat : n = Len(s)
    BY LenProperties
  <1>2. DOMAIN s = 1 .. n /\ \A i \in 1 .. n : s[i] \in Byte
    BY <1>1, LenProperties
  <1> DEFINE f == word_mask(s, key)
  <1>3. f = [i \in 1 .. n |-> Xor(s[i], key[((i - 1) % 8) + 1])]
    BY <1>2 DEF word_mask
  <1>4. ASSUME NEW i \in 1 .. n PROVE Xor(s[i], key[((i - 1) % 8) + 1]) \in Byte
    <2>1. ((i - 1) % 8) + 1 \in 1 .. 8
      OBVIOUS
    <2>2. key[((i - 1) % 8) + 1] \in Byte
      BY <2>1 DEF WordKey
    <2> QED BY <1>2, <2>2, XorBits
  <1> HIDE DEF f
  <1>5. f \in [1 .. n -> Byte]
    BY <1>3, <1>4
  <1>6. f \in Seq(Byte) /\ Len(f) = n
    BY <1>5, FunIsSeq
  <1> QED BY <1>1, <1>3, <1>6 DEF f

-----------------------------------------------------------------------------
(* Messages.                                                                *)

\* No message is none.
LEMMA NoMsgApart == NoMsg \notin Metadata
  BY DEF NoMsg, Metadata, Opcodes, TEXT, BINARY, CLOSE, PING, PONG

\* A message begun.
LEMMA MsgBegun ==
  ASSUME NEW op \in Opcodes, NEW key \in Seq(Byte), Len(key) = 4
  PROVE  /\ msg_metadata(op, key) \in Metadata
         /\ msg_metadata(op, key).opcode = op /\ msg_metadata(op, key).payload = <<>>
         /\ msg_metadata(op, key).prepared_key = prepare_masking_key(key)
         /\ msg_metadata(op, key).utf8 = 0
  <1>1. prepare_masking_key(key) \in [1 .. 8 -> Byte]
    BY WordKeyFrom DEF WordKey
  <1>2. <<>> \in Seq(Byte)
    BY EmptySeq
  <1> QED BY <1>1, <1>2 DEF msg_metadata, Metadata, utf8_accept

\* The plain bytes of the next n.
Plain(m, n) == word_mask(Take(m_buf, n), m.prepared_key)

\* A message with the next n bytes.
LEMMA MsgGrown ==
  ASSUME NEW m \in Metadata, NEW n \in Nat, n <= Len(m_buf), m_buf \in Seq(Byte)
  PROVE  /\ Grown(m, n) \in Metadata
         /\ Plain(m, n) \in Seq(Byte) /\ Len(Plain(m, n)) = n
         /\ \A i \in 1 .. n : Plain(m, n)[i] = Xor(m_buf[i], m.prepared_key[((i - 1) % 8) + 1])
         /\ Grown(m, n).opcode = m.opcode
         /\ Grown(m, n).payload = m.payload \o Plain(m, n)
         /\ Len(Grown(m, n).payload) = Len(m.payload) + n
         /\ Grown(m, n).prepared_key = word_mask_circ(m.prepared_key, n)
         /\ Grown(m, n).utf8 = IF m.opcode = TEXT THEN decode(m.utf8, Plain(m, n)) ELSE m.utf8
  <1> DEFINE s == Take(m_buf, n)
             p == Plain(m, n)
             g == [m EXCEPT !.payload = @ \o p,
                            !.prepared_key = word_mask_circ(@, n),
                            !.utf8 = IF m.opcode = TEXT THEN decode(@, p) ELSE @]
  <1>0. Grown(m, n) = g
    BY DEF Grown, Plain
  <1>1. /\ m.opcode \in Opcodes /\ m.payload \in Seq(Byte) /\ m.prepared_key \in WordKey
        /\ m.utf8 \in 0 .. 8
    BY DEF Metadata, WordKey
  <1>2. s \in Seq(Byte) /\ Len(s) = n /\ \A i \in 1 .. n : s[i] = m_buf[i]
    BY Taking
  <1>3. /\ p \in Seq(Byte) /\ Len(p) = Len(s)
        /\ \A i \in 1 .. Len(s) : p[i] = Xor(s[i], m.prepared_key[((i - 1) % 8) + 1])
    <2> HIDE DEF s
    <2>1. p = word_mask(s, m.prepared_key)
      BY DEF Plain, s
    <2>2. PICK key \in WordKey : key = m.prepared_key
      BY <1>1
    <2>3. s \in Seq(Byte)
      BY <1>2
    <2>4. /\ word_mask(s, key) \in Seq(Byte) /\ Len(word_mask(s, key)) = Len(s)
          /\ \A i \in 1 .. Len(s) : word_mask(s, key)[i] = Xor(s[i], key[((i - 1) % 8) + 1])
      BY <2>3, Unmasked
    <2> QED BY <2>1, <2>2, <2>4
  <1> HIDE DEF p, s
  <1>4. m.payload \o p \in Seq(Byte) /\ Len(m.payload \o p) = Len(m.payload) + n
    <2>1. m.payload \in Seq(Byte) /\ p \in Seq(Byte)
      BY <1>1, <1>3
    <2>2. m.payload \o p \in Seq(Byte) /\ Len(m.payload \o p) = Len(m.payload) + Len(p)
      BY <2>1, JoinedBytes
    <2> QED BY <1>2, <1>3, <2>2
  <1>5. word_mask_circ(m.prepared_key, n) \in [1 .. 8 -> Byte]
    BY <1>1, Turned DEF WordKey
  <1>6. decode(m.utf8, p) \in 0 .. 8
    BY <1>1, <1>3, EmptySeq, DecodeConcat
  <1>7. /\ g \in Metadata /\ g.opcode = m.opcode /\ g.payload = m.payload \o p
        /\ g.prepared_key = word_mask_circ(m.prepared_key, n)
        /\ g.utf8 = IF m.opcode = TEXT THEN decode(m.utf8, p) ELSE m.utf8
    BY <1>1, <1>4, <1>5, <1>6 DEF Metadata
  <1> HIDE DEF g
  <1>8. /\ \A i \in 1 .. n : p[i] = Xor(m_buf[i], m.prepared_key[((i - 1) % 8) + 1])
        /\ Len(p) = n
    BY <1>2, <1>3
  <1> QED BY <1>0, <1>3, <1>4, <1>7, <1>8 DEF p

-----------------------------------------------------------------------------
(* The connection: what closing and answering leave.                        *)

ReadOK == prepared = Nothing \/ Reading(prepared)

ConOK ==
  /\ m_state \in {"open", "closing", "closed"} /\ m_was_clean \in BOOLEAN
  /\ delivered \in Seq(Message) /\ prepared \in Prepared
  /\ ReadOK /\ CloseAnswered

Codes == {protocol_error, internal_endpoint_error, message_too_big, invalid_payload}

\* Codes that may be sent.
Sendable(code) == ~reservedCode(code) /\ ~invalidCode(code)

\* The codes of malformed frames may be sent.
LEMMA CodesSendable ==
  /\ \A code \in Codes : code \in Nat /\ Sendable(code) /\ code # no_status
  /\ normal \in Nat /\ Sendable(normal) /\ normal # no_status
  BY SMT DEF Codes, Sendable, reservedCode, invalidCode, protocol_error, internal_endpoint_error,
     message_too_big, invalid_payload, normal, no_status, abnormal_close, tls_handshake

LEMMA ReasonTyped == Reason \in Seq(Byte) /\ Len(Reason) = 1 /\ 1 <= payload_size_basic - 2
  <1>1. Len(Reason) = 1 /\ Reason \in Seq(Byte)
    BY DEF Reason, Byte
  <1> QED BY <1>1, Sizes

\* A close frame with a code that may be sent is sent.
LEMMA CloseSent ==
  ASSUME NEW code \in Nat, Sendable(code), NEW reason \in Seq(Byte),
         Len(reason) <= payload_size_basic - 2, NEW ack, send_close_frame(code, reason, ack)
  PROVE  /\ prepared' = Frame(CLOSE, Bytes(code, 2) \o reason)
         /\ prepared' \in Prepared /\ Reading(prepared') /\ prepared'.asked.opcode = CLOSE
         /\ m_state' = "closing" /\ m_was_clean' = (ack \/ m_was_clean)
  <1>1. code # no_status
    BY DEF Sendable, invalidCode
  <1> DEFINE p == Bytes(code, 2) \o reason
  <1>2. p \in Seq(Byte) /\ Len(p) = 2 + Len(reason)
    <2>1. Bytes(code, 2) \in Seq(Byte) /\ Len(Bytes(code, 2)) = 2
      BY BytesTyped
    <2> DEFINE b == Bytes(code, 2)
    <2>2. b \in Seq(Byte) /\ reason \in Seq(Byte)
      BY <2>1
    <2>3. b \o reason \in Seq(Byte) /\ Len(b \o reason) = Len(b) + Len(reason)
      <3> HIDE DEF b
      <3> QED BY <2>2, JoinedBytes
    <2> QED BY <2>1, <2>3
  <1>3. PICK n \in Nat : n = Len(reason)
    BY LenProperties
  <1> HIDE DEF p
  <1>4. ~(Len(reason) > payload_size_basic - 2) /\ ~(Len(p) > payload_size_basic)
    BY <1>2, <1>3, Sizes
  <1>5. Fits(Len(p))
    BY <1>2, <1>3, Sizes, SMT DEF Fits
  <1>6. /\ prepare_control(CLOSE, IF code = no_status THEN <<>> ELSE p)
        /\ m_state' = "closing" /\ m_was_clean' = (ack \/ m_was_clean)
    BY <1>1, <1>4 DEF send_close_frame, Sendable, p
  <1>7. prepared' = Frame(CLOSE, p)
    BY <1>1, <1>4, <1>6 DEF prepare_control
  <1>8. CLOSE \in Opcodes
    BY DEF Opcodes
  <1>9. Frame(CLOSE, p) \in Prepared /\ Reading(Frame(CLOSE, p))
    BY <1>2, <1>5, <1>8, FrameReads
  <1>10. Frame(CLOSE, p).asked.opcode = CLOSE
    BY DEF Frame
  <1> QED BY <1>6, <1>7, <1>9, <1>10 DEF p

\* What is malformed is answered with its code while the connection is open.
LEMMA FailKeeps ==
  ASSUME ConOK, NEW code \in Codes, Fail(code)
  PROVE  /\ ConOK' /\ pc' = "stopped" /\ delivered' = delivered
         /\ m_state = "open" => prepared' = Frame(CLOSE, Bytes(code, 2) \o Reason)
         /\ m_state # "open" => prepared' = prepared
  <1>1. pc' = "stopped" /\ delivered' = delivered
    BY DEF Fail
  <1>2. CASE m_state = "open"
    <2>1. send_close_frame(code, Reason, FALSE)
      BY <1>2 DEF Fail
    <2>2. code \in Nat /\ Sendable(code)
      BY CodesSendable
    <2>3. Len(Reason) <= payload_size_basic - 2 /\ Reason \in Seq(Byte)
      BY ReasonTyped
    <2>4. /\ prepared' = Frame(CLOSE, Bytes(code, 2) \o Reason)
          /\ prepared' \in Prepared /\ Reading(prepared') /\ prepared'.asked.opcode = CLOSE
          /\ m_state' = "closing" /\ m_was_clean' = (FALSE \/ m_was_clean)
      BY <2>1, <2>2, <2>3, CloseSent
    <2> QED BY <1>1, <1>2, <2>4 DEF ConOK, ReadOK, CloseAnswered
  <1>3. CASE m_state # "open"
    <2>1. m_state' = "closed" /\ m_was_clean' = m_was_clean /\ prepared' = prepared
      BY <1>3 DEF Fail
    <2> QED BY <1>1, <1>3, <2>1 DEF ConOK, ReadOK, CloseAnswered, Reading
  <1> QED BY <1>2, <1>3

\* What is kept of a message.
Kept(m) == [opcode |-> m.opcode, payload |-> m.payload]

\* What is kept of a message is one.
LEMMA KeptTyped ==
  ASSUME NEW m \in Metadata
  PROVE  Kept(m) \in Message /\ Kept(m).opcode = m.opcode /\ Kept(m).payload = m.payload
  BY DEF Kept, Message, Metadata

LEMMA LastKept ==
  ASSUME NEW s \in Seq(Message), NEW x \in Message
  PROVE  /\ Append(s, x) \in Seq(Message) /\ Append(s, x) # <<>>
         /\ Last(Append(s, x)) = x
  BY AppendProperties DEF Last

LEMMA AnswersFit == \A a \in Answers : a \in Seq(Byte) /\ Fits(Len(a))
  BY FramesAssumption, SMT DEF Fits

\* Acting on a data message.
LEMMA MessageActed ==
  ASSUME ConOK, NEW m \in Metadata, m.opcode \in Opened, m_state = "open", HandleMessage(m)
  PROVE  ConOK' /\ delivered' = Append(delivered, Kept(m)) /\ UNCHANGED <<m_state, m_was_clean>>
  <1>1. delivered' = Append(delivered, Kept(m)) /\ UNCHANGED <<m_state, m_was_clean>>
    BY DEF HandleMessage, Acted, Kept
  <1>2. delivered' \in Seq(Message) /\ Last(delivered') = Kept(m) /\ Kept(m).opcode = m.opcode
    BY <1>1, KeptTyped, LastKept DEF ConOK
  <1>3. CloseAnswered'
    <2>1. m.opcode # CLOSE
      BY DEF Opened, TEXT, BINARY, CLOSE
    <2> QED BY <1>2, <2>1 DEF CloseAnswered
  <1>4. prepared' \in Prepared /\ ReadOK'
    <2>1. CASE UNCHANGED prepared
      BY <2>1 DEF ConOK, ReadOK, Reading
    <2>2. ASSUME NEW a \in Answers, prepare_data_frame(TEXT, a)
          PROVE  prepared' \in Prepared /\ ReadOK'
      <3>1. CASE prepared' = prepared
        BY <3>1 DEF ConOK, ReadOK, Reading
      <3>2. CASE prepared' = Frame(TEXT, a)
        <4>1. TEXT \in Opcodes /\ a \in Seq(Byte) /\ Fits(Len(a))
          BY AnswersFit DEF Opcodes
        <4>2. Frame(TEXT, a) \in Prepared /\ Reading(Frame(TEXT, a))
          BY <4>1, FrameReads
        <4> QED BY <3>2, <4>2 DEF ReadOK
      <3> QED BY <2>2, <3>1, <3>2 DEF prepare_data_frame
    <2> QED BY <2>1, <2>2 DEF HandleMessage
  <1> QED BY <1>1, <1>2, <1>3, <1>4 DEF ConOK

\* What a message received before the connection is closing does.
Acting(m) ==
  /\ m_state = "open" =>
       /\ delivered' = Append(delivered, Kept(m))
       /\ m.opcode = CLOSE => m_state' = "closing" /\ m_was_clean'
       /\ m.opcode # CLOSE => m_state' = "open" /\ m_was_clean' = m_was_clean
  /\ m_state # "open" => m_state' # "open" /\ delivered' = delivered
  /\ m_state = "closing" /\ m_was_clean => m_state' = "closing" /\ m_was_clean'

\* A code and reason that extract_code and extract_reason accept may be sent back.
LEMMA CloseCode ==
  ASSUME NEW p \in Seq(Byte), ~BadClose(p), Len(p) <= payload_size_basic
  PROVE  LET code == IF extract_code(p) = no_status THEN normal ELSE extract_code(p)
         IN  /\ code \in Nat /\ Sendable(code)
             /\ Drop(p, 2) \in Seq(Byte) /\ Len(Drop(p, 2)) <= payload_size_basic - 2
  <1>1. PICK n \in Nat : n = Len(p)
    BY LenProperties
  <1>2. CASE p = <<>>
    <2>1. extract_code(p) = no_status
      BY <1>2 DEF extract_code
    <2>2. Drop(p, 2) = <<>>
      <3>1. Len(p) = 0
        BY <1>2, EmptySeq
      <3>2. SubSeq(p, 3, 0) = <<>>
        BY SubSeqEmpty
      <3> QED BY <3>1, <3>2 DEF Drop
    <2>3. <<>> \in Seq(Byte) /\ Len(<<>>) = 0
      BY EmptySeq
    <2>4. 0 <= payload_size_basic - 2
      BY Sizes
    <2>5. Len(Drop(p, 2)) = 0 /\ Drop(p, 2) \in Seq(Byte)
      BY <2>2, <2>3
    <2>6. normal \in Nat /\ Sendable(normal)
      BY CodesSendable
    <2> QED BY <2>1, <2>4, <2>5, <2>6
  <1>3. CASE p # <<>>
    <2>1. n # 0 /\ n # 1
      BY <1>1, <1>3, EmptySeq DEF BadClose
    <2>2. /\ Drop(p, 2) \in Seq(Byte) /\ Len(Drop(p, 2)) = n - 2
          /\ Take(p, 2) \in Seq(Byte)
      <3> DEFINE k == 2
      <3>1. k \in Nat /\ k <= Len(p)
        BY <1>1, <2>1
      <3> HIDE DEF k
      <3>2. /\ Drop(p, k) \in Seq(Byte) /\ Len(Drop(p, k)) = Len(p) - k
            /\ Take(p, k) \in Seq(Byte)
        BY <3>1, Taking, Dropping
      <3> QED BY <1>1, <3>2 DEF k
    <2>3. extract_code(p) \in Nat
      BY <1>3, <2>2, NumberNat DEF extract_code
    <2>4. Sendable(extract_code(p)) /\ extract_code(p) # no_status
      BY <1>3 DEF BadClose, Sendable, invalidCode
    <2>5. n - 2 <= payload_size_basic - 2
      BY <1>1, Sizes
    <2> QED BY <2>2, <2>3, <2>4, <2>5
  <1> QED BY <1>2, <1>3

\* Acting on a close frame answers it ...
LEMMA CloseActed ==
  ASSUME ConOK, NEW m \in Metadata, m.opcode = CLOSE, Len(m.payload) <= payload_size_basic,
         m_state # "closed", HandleClose(m)
  PROVE  ConOK' /\ Acting(m)
  <1> DEFINE p == m.payload
             code == IF extract_code(p) = no_status THEN normal ELSE extract_code(p)
  <1>0. p \in Seq(Byte)
    BY DEF Metadata
  <1>1. /\ Append(delivered, Kept(m)) \in Seq(Message)
        /\ Last(Append(delivered, Kept(m))) = Kept(m) /\ Kept(m).opcode = CLOSE
    BY KeptTyped, LastKept DEF ConOK
  <1>2. ASSUME NEW c \in Nat, Sendable(c), NEW r \in Seq(Byte), Len(r) <= payload_size_basic - 2,
               send_close_frame(c, r, TRUE),
               IF m_state = "open" THEN Acted(m) ELSE UNCHANGED delivered
        PROVE  ConOK' /\ Acting(m)
    <2>1. /\ prepared' \in Prepared /\ Reading(prepared') /\ prepared'.asked.opcode = CLOSE
          /\ m_state' = "closing" /\ m_was_clean' = (TRUE \/ m_was_clean)
      BY <1>2, CloseSent
    <2>2. /\ m_state = "open" => delivered' = Append(delivered, Kept(m))
          /\ m_state # "open" => delivered' = delivered
      BY <1>2 DEF Acted, Kept
    <2> QED BY <1>1, <2>1, <2>2 DEF ConOK, ReadOK, CloseAnswered, Acting
  <1>3. CASE BadClose(p)
    <2>1. /\ send_close_frame(protocol_error, Reason, TRUE)
          /\ IF m_state = "open" THEN Acted(m) ELSE UNCHANGED delivered
      BY <1>3 DEF HandleClose
    <2>2. protocol_error \in Nat /\ Sendable(protocol_error)
      BY CodesSendable DEF Codes
    <2> QED BY <1>2, <2>1, <2>2, ReasonTyped
  <1>4. CASE ~BadClose(p) /\ m_state = "open"
    <2>1. Acted(m) /\ send_close_frame(code, Drop(p, 2), TRUE)
      BY <1>4 DEF HandleClose
    <2>2. /\ code \in Nat /\ Sendable(code)
          /\ Drop(p, 2) \in Seq(Byte) /\ Len(Drop(p, 2)) <= payload_size_basic - 2
      BY <1>0, <1>4, CloseCode
    <2> HIDE DEF code, p
    <2> QED BY <1>2, <1>4, <2>1, <2>2
  <1>5. CASE ~BadClose(p) /\ m_state # "open" /\ ~m_was_clean
    <2>1. m_was_clean' = TRUE /\ m_state' = "closed" /\ UNCHANGED <<delivered, prepared>>
      BY <1>5 DEF HandleClose
    <2> QED BY <1>5, <2>1 DEF ConOK, ReadOK, Reading, CloseAnswered, Acting
  <1>6. CASE ~BadClose(p) /\ m_state # "open" /\ m_was_clean
    <2>1. UNCHANGED conVars
      BY <1>6 DEF HandleClose
    <2> QED BY <1>6, <2>1 DEF conVars, ConOK, ReadOK, Reading, CloseAnswered, Acting
  <1> QED BY <1>3, <1>4, <1>5, <1>6

\* ... and on any control frame keeps the connection right.
LEMMA ControlActed ==
  ASSUME ConOK, NEW m \in Metadata, m.opcode \in Controls, Len(m.payload) <= payload_size_basic,
         process_control_frame(m)
  PROVE  ConOK' /\ Acting(m)
  <1>1. /\ Append(delivered, Kept(m)) \in Seq(Message)
        /\ Last(Append(delivered, Kept(m))) = Kept(m) /\ Kept(m).opcode = m.opcode
    BY KeptTyped, LastKept DEF ConOK
  <1>2. PING # CLOSE /\ PONG # CLOSE /\ PING # PONG
    BY DEF PING, PONG, CLOSE
  <1>3. CASE m_state = "closed" \/ (m.opcode # CLOSE /\ m_state # "open")
    <2>1. UNCHANGED conVars
      BY <1>3 DEF process_control_frame
    <2> QED BY <1>3, <2>1 DEF conVars, ConOK, ReadOK, Reading, CloseAnswered, Acting
  <1>4. CASE m.opcode = PING /\ m_state = "open"
    <2>1. /\ Acted(m) /\ prepare_control(PONG, m.payload)
          /\ UNCHANGED <<m_state, m_was_clean>>
      BY <1>2, <1>4 DEF process_control_frame
    <2>2. delivered' = Append(delivered, Kept(m))
      BY <2>1 DEF Acted, Kept
    <2>3. PONG \in Opcodes /\ m.payload \in Seq(Byte) /\ Fits(Len(m.payload))
      <3>1. PICK n \in Nat : n = Len(m.payload)
        BY LenProperties DEF Metadata
      <3>2. Fits(n)
        BY <3>1, Sizes, SMT DEF Fits
      <3> QED BY <3>1, <3>2 DEF Opcodes, Metadata
    <2>4. Frame(PONG, m.payload) \in Prepared /\ Reading(Frame(PONG, m.payload))
      BY <2>3, FrameReads
    <2>5. prepared' \in Prepared /\ ReadOK'
      BY <2>1, <2>4 DEF prepare_control, ConOK, ReadOK, Reading
    <2> QED BY <1>1, <1>2, <1>4, <2>1, <2>2, <2>5 DEF ConOK, CloseAnswered, Acting
  <1>5. CASE m.opcode = PONG /\ m_state = "open"
    <2>1. Acted(m) /\ UNCHANGED <<m_state, m_was_clean, prepared>>
      BY <1>2, <1>5 DEF process_control_frame
    <2>2. delivered' = Append(delivered, Kept(m))
      BY <2>1 DEF Acted, Kept
    <2> QED BY <1>1, <1>2, <1>5, <2>1, <2>2 DEF ConOK, ReadOK, Reading, CloseAnswered, Acting
  <1>6. CASE m.opcode = CLOSE /\ m_state # "closed"
    <2>1. HandleClose(m)
      BY <1>2, <1>6 DEF process_control_frame
    <2> QED BY <1>6, <2>1, CloseActed
  <1> QED BY <1>3, <1>4, <1>5, <1>6 DEF Controls, ConOK

-----------------------------------------------------------------------------
(* The bytes of the client's frames.                                        *)

HeadOf(f) ==
  << f.opcode + 16 * f.rsv + IF f.fin THEN 128 ELSE 0,
     (IF f.masked THEN 128 ELSE 0) +
     CASE f.length = 1 -> Len(f.payload)
       [] f.length = 2 -> payload_size_code_16bit
       [] f.length = 8 -> payload_size_code_64bit >>

SizeBytes(f) == IF f.length = 1 THEN <<>> ELSE Bytes(Len(f.payload), f.length)

Veiled(f, k) == [i \in 1 .. Len(f.payload) |-> Xor(f.payload[i], Key(k)[((i - 1) % 4) + 1])]

\* A key has four bytes.
LEMMA KeyIs == \A k \in Nat : Key(k) \in Seq(Byte) /\ Len(Key(k)) = 4
  <1>1. <<1, 2, 4, 8>> \in Seq(0 .. 255) /\ Len(<<1, 2, 4, 8>>) = 4
    OBVIOUS
  <1>2. <<16, 32, 64, 128>> \in Seq(0 .. 255) /\ Len(<<16, 32, 64, 128>>) = 4
    OBVIOUS
  <1> QED BY <1>1, <1>2 DEF Key, Byte

\* A frame of the client.
LEMMA SentTyped ==
  ASSUME NEW f \in ClientFrame
  PROVE  /\ f \in FrameSent /\ f.opcode \in 0 .. 15 /\ f.fin \in BOOLEAN /\ f.rsv \in 0 .. 7
         /\ f.masked \in BOOLEAN /\ f.length \in {1, 2, 8} /\ f.payload \in Seq(Byte)
         /\ Len(f.payload) \in Nat /\ Fits(Len(f.payload))
         /\ f.length = 1 => Len(f.payload) <= payload_size_basic
         /\ f.length = 2 => Len(f.payload) <= payload_size_extended
  <1>1. f \in FrameSent
    BY FramesAssumption, SMT
  <1>2. /\ f.opcode \in 0 .. 15 /\ f.fin \in BOOLEAN /\ f.rsv \in 0 .. 7
        /\ f.masked \in BOOLEAN /\ f.length \in {1, 2, 8} /\ f.payload \in Seq(Byte)
    BY <1>1 DEF FrameSent
  <1>3. PICK n \in Nat : n = Len(f.payload)
    BY <1>2, LenProperties
  <1>4. /\ f.length = 1 => n <= payload_size_basic
        /\ f.length = 2 => n <= payload_size_extended
        /\ f.length = 8 => n <= 2147483647
    BY <1>3, FramesAssumption, SMT
  <1>5. n <= 2147483647
    BY <1>2, <1>4, Sizes, SMT
  <1> QED BY <1>1, <1>2, <1>3, <1>4, <1>5, SMT DEF Fits

\* Its first two bytes read as what it is.
LEMMA HeadRead ==
  ASSUME NEW f \in ClientFrame
  PROVE  /\ HeadOf(f) \in Header /\ HeadOf(f) \in Seq(Byte) /\ Len(HeadOf(f)) = 2
         /\ get_opcode(HeadOf(f)) = f.opcode /\ get_rsv(HeadOf(f)) = f.rsv
         /\ get_fin(HeadOf(f)) = f.fin /\ get_masked(HeadOf(f)) = f.masked
         /\ f.length = 1 => get_basic_size(HeadOf(f)) = Len(f.payload)
         /\ f.length = 2 => get_basic_size(HeadOf(f)) = 126
         /\ f.length = 8 => get_basic_size(HeadOf(f)) = 127
  <1> DEFINE x == f.opcode + 16 * f.rsv + IF f.fin THEN 128 ELSE 0
             c == CASE f.length = 1 -> Len(f.payload)
                    [] f.length = 2 -> payload_size_code_16bit
                    [] f.length = 8 -> payload_size_code_64bit
             y == (IF f.masked THEN 128 ELSE 0) + c
             h == <<x, y>>
  <1>0. HeadOf(f) = h
    BY DEF HeadOf
  <1>1. PICK op \in 0 .. 15, r \in 0 .. 7 : op = f.opcode /\ r = f.rsv
    BY SentTyped
  <1>2. PICK n \in Nat : n = Len(f.payload)
    BY SentTyped
  <1>3. /\ f.length = 1 => c = n /\ n <= 125
        /\ f.length = 2 => c = 126
        /\ f.length = 8 => c = 127
    BY <1>2, SentTyped, Sizes DEF payload_size_code_16bit, payload_size_code_64bit
  <1>4. c \in Nat /\ c <= 127
    BY <1>2, <1>3, SentTyped
  <1> HIDE DEF c
  <1>5. x \in Byte /\ x % 16 = op /\ (x \div 16) % 8 = r /\ (x >= 128 <=> f.fin)
    <2>1. CASE f.fin
      <3>1. x = op + 16 * r + 128
        BY <1>1, <2>1
      <3> QED BY <2>1, <3>1 DEF Byte
    <2>2. CASE ~f.fin
      <3>1. x = op + 16 * r
        BY <1>1, <2>2
      <3> QED BY <2>2, <3>1 DEF Byte
    <2> QED BY <2>1, <2>2
  <1>6. y \in Byte /\ y % 128 = c /\ (y >= 128 <=> f.masked)
    <2>1. CASE f.masked
      <3>1. y = 128 + c
        BY <2>1
      <3> QED BY <1>4, <2>1, <3>1 DEF Byte
    <2>2. CASE ~f.masked
      <3>1. y = c
        BY <1>4, <2>2
      <3> QED BY <1>4, <2>2, <3>1 DEF Byte
    <2> QED BY <2>1, <2>2
  <1> HIDE DEF x, y
  <1>7. h \in Seq(Byte) /\ Len(h) = 2 /\ h[1] = x /\ h[2] = y /\ h \in Header
    BY <1>5, <1>6 DEF Header
  <1> HIDE DEF h
  <1>8. /\ get_opcode(h) = op /\ get_rsv(h) = r /\ get_fin(h) = f.fin /\ get_masked(h) = f.masked
        /\ get_basic_size(h) = c
    BY <1>5, <1>6, <1>7, SentTyped DEF get_opcode, get_rsv, get_fin, get_masked, get_basic_size
  <1> QED BY <1>0, <1>1, <1>2, <1>3, <1>7, <1>8

\* The size that follows reads as that of the payload.
LEMMA SizeRead ==
  ASSUME NEW f \in ClientFrame
  PROVE  /\ SizeBytes(f) \in Seq(Byte)
         /\ f.length = 1 => Len(SizeBytes(f)) = 0
         /\ f.length # 1 => Len(SizeBytes(f)) = f.length /\ Number(SizeBytes(f)) = Len(f.payload)
  <1>1. PICK n \in Nat : n = Len(f.payload)
    BY SentTyped
  <1>2. CASE f.length = 1
    BY <1>2, EmptySeq DEF SizeBytes
  <1>3. CASE f.length = 2
    <2>1. SizeBytes(f) = Bytes(n, 2)
      BY <1>1, <1>3 DEF SizeBytes
    <2>2. Bytes(n, 2) \in Seq(Byte) /\ Len(Bytes(n, 2)) = 2
      BY BytesTyped
    <2>3. n <= 65535
      BY <1>1, <1>3, SentTyped, Sizes, SMT
    <2>4. Number(Bytes(n, 2)) = n
      BY <2>3, TwoRead
    <2> QED BY <1>1, <1>3, <2>1, <2>2, <2>4
  <1>4. CASE f.length = 8
    <2>1. SizeBytes(f) = Bytes(n, 8)
      BY <1>1, <1>4 DEF SizeBytes
    <2>2. Bytes(n, 8) \in Seq(Byte) /\ Len(Bytes(n, 8)) = 8
      BY BytesTyped
    <2>3. Fits(n)
      BY <1>1, SentTyped
    <2>4. Number(Bytes(n, 8)) = n
      BY <2>3, EightRead, SMT DEF Fits
    <2> QED BY <1>1, <1>4, <2>1, <2>2, <2>4
  <1> QED BY <1>2, <1>3, <1>4, SentTyped

\* The masked payload.
LEMMA VeiledTyped ==
  ASSUME NEW f \in ClientFrame, NEW k \in Nat
  PROVE  Veiled(f, k) \in Seq(Byte) /\ Len(Veiled(f, k)) = Len(f.payload)
  <1>1. PICK n \in Nat : n = Len(f.payload)
    BY SentTyped
  <1>2. \A i \in 1 .. n : f.payload[i] \in Byte
    BY <1>1, SentTyped, LenProperties
  <1>3. \A j \in 1 .. 4 : Key(k)[j] \in Byte
    BY KeyIs, LenProperties
  <1>4. \A i \in 1 .. n : Xor(f.payload[i], Key(k)[((i - 1) % 4) + 1]) \in Byte
    <2> SUFFICES ASSUME NEW i \in 1 .. n
                 PROVE  Xor(f.payload[i], Key(k)[((i - 1) % 4) + 1]) \in Byte
      OBVIOUS
    <2>1. ((i - 1) % 4) + 1 \in 1 .. 4
      OBVIOUS
    <2> QED BY <1>2, <1>3, <2>1, XorBits
  <1>5. Veiled(f, k) \in [1 .. n -> Byte]
    BY <1>1, <1>4 DEF Veiled
  <1> QED BY <1>1, <1>5, FunIsSeq

\* Its bytes, one part after the other.
LEMMA EncodedIs ==
  ASSUME NEW f \in ClientFrame, NEW k \in Nat
  PROVE  /\ f.masked => Encoded(f, k) = ((HeadOf(f) \o SizeBytes(f)) \o Key(k)) \o Veiled(f, k)
         /\ ~f.masked => Encoded(f, k) = (HeadOf(f) \o SizeBytes(f)) \o f.payload
         /\ HeadOf(f) \o SizeBytes(f) \in Seq(Byte)
         /\ (HeadOf(f) \o SizeBytes(f)) \o Key(k) \in Seq(Byte)
         /\ Encoded(f, k) \in Seq(Byte)
  <1>1. HeadOf(f) \in Seq(Byte) /\ SizeBytes(f) \in Seq(Byte)
    BY HeadRead, SizeRead
  <1>2. Key(k) \in Seq(Byte) /\ Veiled(f, k) \in Seq(Byte) /\ f.payload \in Seq(Byte)
    BY KeyIs, VeiledTyped, SentTyped
  <1>3. HeadOf(f) \o SizeBytes(f) \in Seq(Byte)
    BY <1>1, JoinedBytes
  <1>4. (HeadOf(f) \o SizeBytes(f)) \o Key(k) \in Seq(Byte)
    BY <1>2, <1>3, JoinedBytes
  <1>5. /\ ((HeadOf(f) \o SizeBytes(f)) \o Key(k)) \o Veiled(f, k) \in Seq(Byte)
        /\ (HeadOf(f) \o SizeBytes(f)) \o f.payload \in Seq(Byte)
    BY <1>2, <1>3, <1>4, JoinedBytes
  <1>6. /\ f.masked => Encoded(f, k) = ((HeadOf(f) \o SizeBytes(f)) \o Key(k)) \o Veiled(f, k)
        /\ ~f.masked => Encoded(f, k) = (HeadOf(f) \o SizeBytes(f)) \o f.payload
    BY Zenon DEF Encoded, HeadOf, SizeBytes, Veiled
  <1>7. f.masked \in BOOLEAN
    BY SentTyped
  <1> QED BY <1>3, <1>4, <1>5, <1>6, <1>7

\* The stream, frame by frame from its end.
LEMMA StreamRun ==
  ASSUME NEW n \in Nat, NEW frames \in [1 .. n -> ClientFrame]
  PROVE  \E r \in [0 .. n -> Seq(Byte)] :
           /\ r[0] = <<>>
           /\ \A j \in 1 .. n : r[j] = Encoded(frames[n - j + 1], n - j + 1) \o r[j - 1]
           /\ Stream(frames) = r[n]
  <1> DEFINE V == Seq(Byte)
             first == <<>>
             op == [j \in 1 .. n |-> [r \in V |-> Encoded(frames[n - j + 1], n - j + 1) \o r]]
  <1>1. \A j \in 1 .. n : Encoded(frames[n - j + 1], n - j + 1) \in Seq(Byte)
    <2> SUFFICES ASSUME NEW j \in 1 .. n
                 PROVE  Encoded(frames[n - j + 1], n - j + 1) \in Seq(Byte)
      OBVIOUS
    <2>1. n - j + 1 \in 1 .. n /\ n - j + 1 \in Nat
      OBVIOUS
    <2>2. frames[n - j + 1] \in ClientFrame
      BY <2>1
    <2> QED BY <2>1, <2>2, EncodedIs
  <1>2. op \in [1 .. n -> [V -> V]] /\ first \in V
    <2>1. \A j \in 1 .. n : \A r \in V : Encoded(frames[n - j + 1], n - j + 1) \o r \in V
      BY <1>1, JoinedBytes
    <2>2. first \in V
      BY EmptySeq
    <2> HIDE DEF V
    <2> QED BY <2>1, <2>2
  <1>3. PICK r \in [0 .. n -> V] : r[0] = first /\ \A j \in 1 .. n : r[j] = op[j][r[j - 1]]
    <2>1. op \in [1 .. n -> [V -> V]]
      BY <1>2
    <2>2. first \in V
      BY <1>2
    <2> HIDE DEF op, V, first
    <2>3. \E r \in [0 .. n -> V] : Iterates(r, first, n, op)
      BY <2>1, <2>2, Recursion
    <2> QED BY <2>3 DEF Iterates
  <1>4. ASSUME NEW j \in 1 .. n PROVE r[j] = Encoded(frames[n - j + 1], n - j + 1) \o r[j - 1]
    <2>1. j - 1 \in 0 .. n /\ r[j - 1] \in V
      OBVIOUS
    <2> HIDE DEF V
    <2> QED BY <1>3, <2>1
  <1> DEFINE E(w) == w = [j \in 0 .. n |-> IF j = 0 THEN <<>>
                                   ELSE Encoded(frames[n - j + 1], n - j + 1) \o w[j - 1]]
             d == CHOOSE w : E(w)
  <1>5. E(r)
    <2>1. \A j \in 0 .. n : r[j] = IF j = 0 THEN <<>>
                                   ELSE Encoded(frames[n - j + 1], n - j + 1) \o r[j - 1]
      <3>1. r[0] = <<>>
        BY <1>3
      <3>2. \A j \in 0 .. n : j = 0 \/ j \in 1 .. n
        OBVIOUS
      <3> HIDE DEF V
      <3> QED BY <1>4, <3>1, <3>2
    <2> HIDE DEF V
    <2> QED BY <1>3, <2>1
  <1>6. E(d)
    <2> HIDE DEF E
    <2> QED BY <1>5
  <1>7. Stream(frames) = d[n]
    <2>1. Len(frames) = n
      BY FunIsSeq
    <2> QED BY <2>1 DEF Stream
  <1>8. \A j \in 0 .. n : d[j] = r[j]
    <2> HIDE DEF d
    <2> DEFINE S == {j \in 0 .. n : d[j] = r[j]}
    <2>1. 0 \in S
      BY <1>5, <1>6
    <2>2. ASSUME NEW j \in 1 .. n, j - 1 \in S PROVE j \in S
      <3>1. j \in 0 .. n /\ j # 0 /\ d[j - 1] = r[j - 1]
        BY <2>2
      <3>2. r[j] = Encoded(frames[n - j + 1], n - j + 1) \o r[j - 1]
        BY <1>4
      <3>3. d[j] = Encoded(frames[n - j + 1], n - j + 1) \o d[j - 1]
        BY <1>6, <3>1
      <3> QED BY <3>1, <3>2, <3>3
    <2>3. 0 .. n \subseteq S
      <3> HIDE DEF S
      <3> QED BY <2>1, <2>2, StepsTo
    <2> QED BY <2>3
  <1>9. Stream(frames) = r[n]
    <2>1. n \in 0 .. n
      OBVIOUS
    <2> HIDE DEF d
    <2> QED BY <1>7, <1>8, <2>1
  <1> QED BY <1>3, <1>4, <1>9

-----------------------------------------------------------------------------
(* The invariant of the parser.                                             *)

Parsing ==
  pc # "stopped" =>
    /\ m_parse = "HEADER_BASIC" => m_bytes_needed \in 1 .. 2
    /\ m_parse = "HEADER_EXTENDED" =>
         /\ m_cursor + m_bytes_needed = get_header_len(m_basic_header) - 2
         /\ validate_incoming_basic_header(m_basic_header, m_data_msg = NoMsg)
    /\ m_parse \in {"APPLICATION", "READY"} =>
         /\ m_current_msg # "none" /\ Current # NoMsg
         /\ m_current_msg = "control" =>
              Len(m_control_msg.payload) + m_bytes_needed <= payload_size_basic

MsgsOK ==
  /\ m_data_msg # NoMsg => m_data_msg.opcode \in Opened
  /\ m_control_msg # NoMsg => m_control_msg.opcode \in Controls

FramesInv == FramesTypeOK /\ ConOK /\ MsgsOK /\ Parsing

\* At first, ...
LEMMA FramesInitially == FramesInit => FramesInv
  <1> SUFFICES ASSUME FramesInit PROVE FramesInv
    OBVIOUS
  <1> USE DEF FramesInit
  <1>1. wire \in Seq(Byte)
    <2>1. PICK frames \in BoundedSeq(ClientFrame, MaxFrames) : wire = Stream(frames)
      OBVIOUS
    <2>2. PICK n \in Nat : frames \in [1 .. n -> ClientFrame]
      BY WsFramesAssumption, SMT DEF BoundedSeq, SeqOf
    <2>3. PICK r \in [0 .. n -> Seq(Byte)] : Stream(frames) = r[n]
      BY <2>2, StreamRun
    <2>4. n \in 0 .. n
      OBVIOUS
    <2> QED BY <2>1, <2>3, <2>4
  <1>2. <<>> \in Seq(Byte) /\ <<>> \in Seq(Message)
    BY EmptySeq
  <1>3. Zeros(2) \in [1 .. 2 -> Byte] /\ Zeros(12) \in [1 .. 12 -> Byte]
    BY ZerosTyped
  <1>4. Nothing \in Prepared
    BY <1>2 DEF Nothing, Prepared, Message, Opcodes
  <1>5. FramesTypeOK
    <2>1. wire \in Seq(Byte) /\ m_buf \in Seq(Byte) /\ delivered \in Seq(Message)
      BY <1>1, <1>2
    <2>2. m_basic_header \in [1 .. 2 -> Byte] /\ m_extended_header \in [1 .. 12 -> Byte]
      BY <1>3
    <2>3. {m_data_msg, m_control_msg} \subseteq Metadata \cup {NoMsg}
      OBVIOUS
    <2>4. m_bytes_needed \in Nat /\ m_cursor \in 0 .. 12
      OBVIOUS
    <2>5. prepared \in Prepared
      BY <1>4
    <2> QED BY <2>1, <2>2, <2>3, <2>4, <2>5 DEF FramesTypeOK
  <1>6. ConOK
    BY <1>2, <1>4 DEF ConOK, ReadOK, CloseAnswered
  <1>7. MsgsOK /\ Parsing
    BY DEF MsgsOK, Parsing
  <1> QED BY <1>5, <1>6, <1>7 DEF FramesInv

\* A step that leaves the connection alone.
LEMMA Untouched ==
  ASSUME ConOK, UNCHANGED conVars PROVE ConOK'
  BY DEF conVars, ConOK, ReadOK, Reading, CloseAnswered

\* What is taken of the buffer.
LEMMA TakenIs ==
  ASSUME m_buf \in Seq(Byte), m_bytes_needed \in Nat
  PROVE  /\ Taken \in Nat /\ Taken <= Len(m_buf) /\ Taken <= m_bytes_needed
         /\ Taken < m_bytes_needed => Taken = Len(m_buf)
         /\ ~(Taken < m_bytes_needed) => Taken = m_bytes_needed
         /\ m_bytes_needed - Taken \in Nat
         /\ Take(m_buf, Taken) \in Seq(Byte) /\ Len(Take(m_buf, Taken)) = Taken
         /\ Drop(m_buf, Taken) \in Seq(Byte) /\ Len(Drop(m_buf, Taken)) = Len(m_buf) - Taken
  <1>1. PICK n \in Nat : n = Len(m_buf)
    BY LenProperties
  <1>2. /\ Taken \in Nat /\ Taken <= n /\ Taken <= m_bytes_needed
        /\ Taken < m_bytes_needed => Taken = n
        /\ ~(Taken < m_bytes_needed) => Taken = m_bytes_needed
        /\ m_bytes_needed - Taken \in Nat
    BY <1>1 DEF Taken, MinOf
  <1>3. PICK t \in Nat : t = Taken /\ t <= Len(m_buf)
    BY <1>1, <1>2
  <1>4. /\ Take(m_buf, t) \in Seq(Byte) /\ Len(Take(m_buf, t)) = t
        /\ Drop(m_buf, t) \in Seq(Byte) /\ Len(Drop(m_buf, t)) = Len(m_buf) - t
    BY <1>3, Taking, Dropping
  <1> QED BY <1>1, <1>2, <1>3, <1>4

\* ... with every read, ...
LEMMA ReadKeeps == FramesInv /\ handle_read_frame => FramesInv'
  <1> SUFFICES ASSUME FramesInv, handle_read_frame PROVE FramesInv'
    OBVIOUS
  <1>1. PICK n \in Reads : /\ m_buf' = Take(wire, MinOf(n, Len(wire)))
                           /\ wire' = Drop(wire, MinOf(n, Len(wire)))
    BY DEF handle_read_frame
  <1>2. n \in Nat
    BY WsFramesAssumption, SMT
  <1>3. PICK k \in Nat : k = MinOf(n, Len(wire)) /\ k <= Len(wire)
    BY <1>2, LenProperties DEF MinOf, FramesInv, FramesTypeOK
  <1>4. wire \in Seq(Byte)
    BY DEF FramesInv, FramesTypeOK
  <1>5. m_buf' \in Seq(Byte) /\ wire' \in Seq(Byte)
    BY <1>1, <1>3, <1>4, Taking, Dropping
  <1>6. /\ pc = "read" /\ pc' = "consume"
        /\ UNCHANGED <<meant, m_parse, m_bytes_needed, headerVars, msgVars, conVars>>
    BY DEF handle_read_frame
  <1>7. FramesTypeOK'
    BY <1>5, <1>6 DEF FramesInv, FramesTypeOK, headerVars, msgVars, conVars
  <1>8. ConOK'
    BY <1>6, Untouched DEF FramesInv
  <1>9. MsgsOK' /\ Parsing'
    BY <1>6 DEF FramesInv, MsgsOK, Parsing, Current, headerVars, msgVars
  <1> QED BY <1>7, <1>8, <1>9 DEF FramesInv

\* ... with every piece of a basic header, ...
LEMMA BasicKeeps == FramesInv /\ copy_basic_header_bytes => FramesInv'
  <1> SUFFICES ASSUME FramesInv, copy_basic_header_bytes PROVE FramesInv'
    OBVIOUS
  <1> DEFINE h == Copied(Take(m_buf, Taken), m_basic_header, 2 - m_bytes_needed)
  <1>1. /\ pc = "consume" /\ m_parse = "HEADER_BASIC" /\ Consume /\ m_basic_header' = h
        /\ UNCHANGED <<m_extended_header, msgVars>>
    BY DEF copy_basic_header_bytes, Looping
  <1>2. m_buf \in Seq(Byte) /\ m_bytes_needed \in Nat /\ m_bytes_needed \in 1 .. 2
    BY <1>1 DEF FramesInv, FramesTypeOK, Parsing
  <1>3. /\ Taken \in Nat /\ Taken <= m_bytes_needed /\ m_bytes_needed - Taken \in Nat
        /\ Take(m_buf, Taken) \in Seq(Byte) /\ Drop(m_buf, Taken) \in Seq(Byte)
    BY <1>2, TakenIs
  <1>4. h \in [1 .. 2 -> Byte]
    <2>1. m_basic_header \in [1 .. 2 -> Byte] /\ 2 \in Nat
      BY DEF FramesInv, FramesTypeOK
    <2> QED BY <1>3, <2>1, CopiedTyped
  <1>5. h \in Header
    BY <1>4 DEF Header
  <1>6. wire' = wire /\ m_buf' = Drop(m_buf, Taken)
    BY <1>1 DEF Consume
  <1>7. CASE Taken < m_bytes_needed
    <2>1. m_bytes_needed' = m_bytes_needed - Taken /\ UNCHANGED <<m_parse, m_cursor, conVars, pc>>
      BY <1>7 DEF copy_basic_header_bytes, Waiting
    <2>2. ConOK'
      BY <2>1, Untouched DEF FramesInv
    <2>3. FramesTypeOK'
      BY <1>1, <1>3, <1>4, <1>6, <2>1, <2>2 DEF FramesInv, FramesTypeOK, ConOK, msgVars
    <2>4. m_bytes_needed' \in 1 .. 2
      BY <1>2, <1>3, <1>7, <2>1
    <2>5. MsgsOK' /\ Parsing'
      BY <1>1, <2>1, <2>4 DEF FramesInv, MsgsOK, Parsing, msgVars
    <2> QED BY <2>2, <2>3, <2>5 DEF FramesInv
  <1>8. CASE ~(Taken < m_bytes_needed) /\ validate_incoming_basic_header(h, m_data_msg = NoMsg)
    <2>1. /\ m_parse' = "HEADER_EXTENDED" /\ m_cursor' = 0
          /\ m_bytes_needed' = get_header_len(h) - 2 /\ UNCHANGED <<conVars, pc>>
      BY <1>8 DEF copy_basic_header_bytes
    <2>2. ConOK'
      BY <2>1, Untouched DEF FramesInv
    <2>3. get_header_len(h) - 2 \in 0 .. 12
      BY <1>5, HeaderTyped
    <2> HIDE DEF h
    <2>4. FramesTypeOK'
      <3>1. m_bytes_needed' \in Nat /\ m_cursor' \in 0 .. 12
        BY <2>1, <2>3
      <3> QED BY <1>1, <1>3, <1>4, <1>6, <2>1, <2>2, <3>1
              DEF FramesInv, FramesTypeOK, ConOK, msgVars
    <2>5. m_cursor' + m_bytes_needed' = get_header_len(m_basic_header') - 2
      BY <1>1, <2>1, <2>3
    <2>6. validate_incoming_basic_header(m_basic_header', m_data_msg' = NoMsg)
      BY <1>1, <1>8 DEF msgVars
    <2>7. MsgsOK' /\ Parsing'
      <3>1. m_parse' = "HEADER_EXTENDED"
        BY <2>1
      <3>2. MsgsOK'
        BY <1>1 DEF FramesInv, MsgsOK, msgVars
      <3>3. (m_cursor + m_bytes_needed = get_header_len(m_basic_header) - 2)'
        BY <2>5
      <3>4. validate_incoming_basic_header(m_basic_header, m_data_msg = NoMsg)'
        BY <2>6 DEF validate_incoming_basic_header, get_opcode, get_basic_size, get_fin, get_rsv,
           get_masked
      <3> QED BY <3>1, <3>2, <3>3, <3>4 DEF Parsing
    <2> QED BY <2>2, <2>4, <2>7 DEF FramesInv
  <1>9. CASE ~(Taken < m_bytes_needed) /\ ~validate_incoming_basic_header(h, m_data_msg = NoMsg)
    <2>1. /\ Fail(protocol_error) /\ m_bytes_needed' = m_bytes_needed - Taken
          /\ UNCHANGED <<m_parse, m_cursor>>
      BY <1>9 DEF copy_basic_header_bytes, Waiting
    <2>2. ConOK' /\ pc' = "stopped"
      BY <2>1, FailKeeps DEF FramesInv, Codes
    <2>3. FramesTypeOK'
      BY <1>1, <1>3, <1>4, <1>6, <2>1, <2>2 DEF FramesInv, FramesTypeOK, ConOK, msgVars
    <2>4. MsgsOK' /\ Parsing'
      BY <1>1, <2>2 DEF FramesInv, MsgsOK, Parsing, msgVars
    <2> QED BY <2>2, <2>3, <2>4 DEF FramesInv
  <1> QED BY <1>7, <1>8, <1>9

\* What a validated basic header says.
LEMMA Validated ==
  ASSUME NEW h \in Header, NEW new, validate_incoming_basic_header(h, new)
  PROVE  /\ get_masked(h) /\ get_rsv(h) = 0
         /\ is_control(get_opcode(h)) =>
              /\ get_opcode(h) \in Controls /\ get_basic_size(h) <= payload_size_basic
              /\ get_fin(h)
         /\ ~is_control(get_opcode(h)) /\ new => get_opcode(h) \in Opened
         /\ ~is_control(get_opcode(h)) /\ ~new => get_opcode(h) = CONTINUATION
  <1>1. get_opcode(h) \in 0 .. 15
    BY HeaderTyped
  <1>2. /\ is_control(get_opcode(h)) => get_opcode(h) \in Controls
        /\ ~is_control(get_opcode(h)) => get_opcode(h) \in {CONTINUATION, TEXT, BINARY}
    BY <1>1 DEF validate_incoming_basic_header, is_control, reserved, Controls, CONTINUATION,
       TEXT, BINARY, CLOSE, PING, PONG
  <1> HIDE DEF Controls
  <1> QED BY <1>2 DEF validate_incoming_basic_header, Opened

\* The two kinds of messages.
LEMMA ControlOrData ==
  /\ \A op \in Controls : is_control(op) /\ op \in Opcodes
  /\ \A op \in Opened : ~is_control(op) /\ op \in Opcodes
  BY DEF Controls, Opened, is_control, Opcodes, TEXT, BINARY, CLOSE, PING, PONG

\* A message with another key.
LEMMA Rekeyed ==
  ASSUME NEW m \in Metadata, NEW w \in [1 .. 8 -> Byte]
  PROVE  /\ [m EXCEPT !.prepared_key = w] \in Metadata
         /\ [m EXCEPT !.prepared_key = w].opcode = m.opcode
         /\ [m EXCEPT !.prepared_key = w].payload = m.payload
         /\ [m EXCEPT !.prepared_key = w].utf8 = m.utf8
         /\ [m EXCEPT !.prepared_key = w].prepared_key = w
  BY DEF Metadata

\* Where a payload begins: the messages are of their kinds, and what is to come of
\* a control frame fits.
LEMMA PayloadBegins ==
  ASSUME FramesInv, NEW e \in Extension, BeginPayload(m_basic_header, e),
         validate_incoming_basic_header(m_basic_header, m_data_msg = NoMsg), pc = "consume"
  PROVE  /\ {m_data_msg', m_control_msg'} \subseteq Metadata \cup {NoMsg}
         /\ m_current_msg' \in {"none", "data", "control"} /\ MsgsOK' /\ ConOK'
         /\ pc' \in {"consume", "stopped"}
         /\ pc' # "stopped" =>
              /\ m_current_msg' # "none" /\ Current' # NoMsg
              /\ m_current_msg' = "control" =>
                   /\ Len(m_control_msg'.payload) = 0
                   /\ get_payload_size(m_basic_header, e) <= payload_size_basic
  <1> DEFINE h == m_basic_header
             op == get_opcode(h)
             key == get_masking_key(h, e)
             w == prepare_masking_key(key)
  <1>0. /\ h \in Header /\ {m_data_msg, m_control_msg} \subseteq Metadata \cup {NoMsg}
        /\ m_current_msg \in {"none", "data", "control"} /\ ConOK /\ MsgsOK
    BY DEF FramesInv, FramesTypeOK, Header
  <1>1. key \in Seq(Byte) /\ Len(key) = 4
    BY <1>0, KeyTyped
  <1> HIDE DEF key
  <1>2. w \in [1 .. 8 -> Byte]
    BY <1>1, WordKeyFrom DEF WordKey
  <1>3. CASE is_control(op)
    <2>1. op \in Controls /\ get_basic_size(h) <= payload_size_basic /\ op \in Opcodes
      BY <1>0, <1>3, Validated, ControlOrData
    <2>2. /\ m_control_msg' = msg_metadata(op, key) /\ m_current_msg' = "control"
          /\ UNCHANGED <<m_data_msg, conVars, pc>>
      BY <1>3 DEF BeginPayload, key
    <2> HIDE DEF op
    <2>3. /\ m_control_msg' \in Metadata /\ m_control_msg'.opcode = op
          /\ m_control_msg'.payload = <<>>
      BY <1>1, <2>1, <2>2, MsgBegun
    <2>4. ConOK'
      BY <1>0, <2>2, Untouched
    <2>5. Len(m_control_msg'.payload) = 0
      BY <2>3, EmptySeq
    <2>6. m_control_msg' # NoMsg
      BY <2>3, NoMsgApart
    <2>7. get_payload_size(h, e) <= payload_size_basic
      <3>1. PICK n \in Nat : n = get_basic_size(h) /\ n # payload_size_code_16bit
        BY <1>0, <2>1, HeaderTyped, Sizes DEF payload_size_code_16bit
      <3> QED BY <2>1, <3>1 DEF get_payload_size
    <2> QED BY <1>0, <2>1, <2>2, <2>3, <2>4, <2>5, <2>6, <2>7 DEF MsgsOK, Current
  <1>4. CASE ~is_control(op) /\ TooBig(get_payload_size(h, e))
    <2>1. Fail(message_too_big) /\ UNCHANGED msgVars
      BY <1>4 DEF BeginPayload
    <2>2. ConOK' /\ pc' = "stopped"
      BY <1>0, <2>1, FailKeeps DEF Codes
    <2> QED BY <1>0, <2>1, <2>2 DEF MsgsOK, msgVars
  <1>5. CASE ~is_control(op) /\ ~TooBig(get_payload_size(h, e))
    <2>1. /\ m_data_msg' = IF m_data_msg = NoMsg THEN msg_metadata(op, key)
                           ELSE [m_data_msg EXCEPT !.prepared_key = w]
          /\ m_current_msg' = "data" /\ UNCHANGED <<m_control_msg, conVars, pc>>
      BY <1>5 DEF BeginPayload, key
    <2>2. m_data_msg' \in Metadata /\ m_data_msg'.opcode \in Opened
      <3>1. CASE m_data_msg = NoMsg
        <4>1. op \in Opened
          BY <1>0, <1>5, <3>1, Validated
        <4> HIDE DEF op
        <4>2. op \in Opcodes
          BY <4>1, ControlOrData
        <4>3. msg_metadata(op, key) \in Metadata /\ msg_metadata(op, key).opcode = op
          BY <1>1, <4>2, MsgBegun
        <4> QED BY <2>1, <3>1, <4>1, <4>3
      <3>2. CASE m_data_msg # NoMsg
        <4>1. m_data_msg \in Metadata /\ m_data_msg.opcode \in Opened
          BY <1>0, <3>2 DEF MsgsOK
        <4> HIDE DEF w
        <4>2. m_data_msg' = [m_data_msg EXCEPT !.prepared_key = w]
          BY <2>1, <3>2
        <4> QED BY <1>2, <4>1, <4>2, Rekeyed
      <3> QED BY <3>1, <3>2
    <2>3. ConOK'
      BY <1>0, <2>1, Untouched
    <2>4. m_data_msg' # NoMsg
      BY <2>2, NoMsgApart
    <2> QED BY <1>0, <2>1, <2>2, <2>3, <2>4 DEF MsgsOK, Current
  <1> QED BY <1>3, <1>4, <1>5

\* ... of an extended header ...
LEMMA ExtendedKeeps == FramesInv /\ copy_extended_header_bytes => FramesInv'
  <1> SUFFICES ASSUME FramesInv, copy_extended_header_bytes PROVE FramesInv'
    OBVIOUS
  <1> DEFINE h == m_basic_header
             e == Copied(Take(m_buf, Taken), m_extended_header, m_cursor)
  <1>1. /\ pc = "consume" /\ m_parse = "HEADER_EXTENDED" /\ Consume /\ m_extended_header' = e
        /\ m_cursor' = m_cursor + Taken /\ m_basic_header' = m_basic_header
    BY DEF copy_extended_header_bytes, Looping
  <1>2. /\ m_buf \in Seq(Byte) /\ m_bytes_needed \in Nat /\ h \in Header /\ m_cursor \in 0 .. 12
        /\ m_cursor + m_bytes_needed = get_header_len(h) - 2
        /\ validate_incoming_basic_header(h, m_data_msg = NoMsg)
    BY <1>1 DEF FramesInv, FramesTypeOK, Parsing, Header
  <1>3. /\ Taken \in Nat /\ Taken <= m_bytes_needed /\ m_bytes_needed - Taken \in Nat
        /\ Take(m_buf, Taken) \in Seq(Byte) /\ Drop(m_buf, Taken) \in Seq(Byte)
    BY <1>2, TakenIs
  <1>4. e \in [1 .. 12 -> Byte]
    <2> DEFINE n == 12
    <2>1. m_extended_header \in [1 .. n -> Byte] /\ n \in Nat
      BY DEF FramesInv, FramesTypeOK
    <2> HIDE DEF n
    <2>2. e \in [1 .. n -> Byte]
      BY <1>3, <2>1, CopiedTyped
    <2> QED BY <2>2 DEF n
  <1>5. e \in Extension
    BY <1>4 DEF Extension
  <1> HIDE DEF e
  <1>6. wire' = wire /\ m_buf' = Drop(m_buf, Taken)
    BY <1>1 DEF Consume
  <1>7. m_cursor' \in 0 .. 12
    <2>1. get_header_len(h) - 2 \in 0 .. 12
      BY <1>2, HeaderTyped
    <2> QED BY <1>1, <1>2, <1>3, <2>1
  <1>8. ASSUME ConOK', m_bytes_needed' \in Nat, m_current_msg' \in {"none", "data", "control"},
               {m_data_msg', m_control_msg'} \subseteq Metadata \cup {NoMsg},
               m_parse' \in {"HEADER_EXTENDED", "APPLICATION"}, pc' \in {"consume", "stopped"}
        PROVE  FramesTypeOK'
    BY <1>1, <1>3, <1>4, <1>6, <1>7, <1>8 DEF FramesInv, FramesTypeOK, ConOK
  <1>9. CASE Taken < m_bytes_needed
    <2>1. /\ m_bytes_needed' = m_bytes_needed - Taken
          /\ UNCHANGED <<m_parse, msgVars, conVars, pc>>
      BY <1>9 DEF copy_extended_header_bytes, Waiting
    <2>2. ConOK'
      BY <2>1, Untouched DEF FramesInv
    <2>3. FramesTypeOK'
      BY <1>1, <1>3, <1>8, <2>1, <2>2 DEF FramesInv, FramesTypeOK, msgVars
    <2>4. (m_cursor + m_bytes_needed = get_header_len(m_basic_header) - 2)'
      <3>1. get_header_len(m_basic_header)' = get_header_len(m_basic_header)
        BY <1>1 DEF get_header_len, get_masking_key_offset, get_basic_size, get_masked
      <3>2. m_cursor' + m_bytes_needed' = m_cursor + m_bytes_needed
        <4>1. PICK c \in Nat, n \in Nat, t \in Nat : c = m_cursor /\ n = m_bytes_needed /\ t = Taken
          BY <1>2, <1>3
        <4> QED BY <1>1, <2>1, <4>1
      <3> QED BY <1>2, <3>1, <3>2
    <2>5. validate_incoming_basic_header(m_basic_header, m_data_msg = NoMsg)'
      BY <1>1, <1>2, <2>1 DEF msgVars, validate_incoming_basic_header, get_opcode,
         get_basic_size, get_fin, get_rsv, get_masked
    <2>6. MsgsOK'
      BY <2>1 DEF FramesInv, MsgsOK, msgVars
    <2>7. m_parse' = "HEADER_EXTENDED"
      BY <1>1, <2>1
    <2>8. Parsing'
      BY <2>4, <2>5, <2>7 DEF Parsing
    <2> QED BY <2>2, <2>3, <2>6, <2>8 DEF FramesInv
  <1>10. CASE ~(Taken < m_bytes_needed) /\ validate_incoming_extended_header(h, e)
    <2>1. /\ m_parse' = "APPLICATION" /\ m_bytes_needed' = get_payload_size(h, e)
          /\ BeginPayload(h, e)
      BY <1>10 DEF copy_extended_header_bytes, e
    <2>2. /\ {m_data_msg', m_control_msg'} \subseteq Metadata \cup {NoMsg}
          /\ m_current_msg' \in {"none", "data", "control"} /\ MsgsOK' /\ ConOK'
          /\ pc' \in {"consume", "stopped"}
          /\ pc' # "stopped" =>
               /\ m_current_msg' # "none" /\ Current' # NoMsg
               /\ m_current_msg' = "control" =>
                    /\ Len(m_control_msg'.payload) = 0
                    /\ get_payload_size(h, e) <= payload_size_basic
      BY <1>1, <1>2, <1>5, <2>1, PayloadBegins
    <2>3. get_payload_size(h, e) \in Nat
      BY <1>2, <1>5, KeyTyped
    <2>4. FramesTypeOK'
      BY <1>8, <2>1, <2>2, <2>3
    <2>5. pc' # "stopped" /\ m_current_msg' = "control" =>
            Len(m_control_msg'.payload) + m_bytes_needed' <= payload_size_basic
      BY <2>1, <2>2, <2>3
    <2>6. Parsing'
      BY <2>1, <2>2, <2>5 DEF Parsing
    <2> QED BY <2>2, <2>4, <2>6 DEF FramesInv
  <1>11. CASE ~(Taken < m_bytes_needed) /\ ~validate_incoming_extended_header(h, e)
    <2>1. /\ Fail(internal_endpoint_error) /\ m_bytes_needed' = m_bytes_needed - Taken
          /\ UNCHANGED <<m_parse, msgVars>>
      BY <1>11 DEF copy_extended_header_bytes, Waiting, e
    <2>2. ConOK' /\ pc' = "stopped"
      BY <2>1, FailKeeps DEF FramesInv, Codes
    <2>3. FramesTypeOK'
      BY <1>1, <1>3, <1>8, <2>1, <2>2 DEF FramesInv, FramesTypeOK, msgVars
    <2>4. MsgsOK' /\ Parsing'
      BY <2>1, <2>2 DEF FramesInv, MsgsOK, Parsing, msgVars
    <2> QED BY <2>2, <2>3, <2>4 DEF FramesInv
  <1> QED BY <1>9, <1>10, <1>11

\* After a frame.
LEMMA ResetKeeps ==
  ASSUME FramesTypeOK, ConOK', MsgsOK',
         {m_data_msg', m_control_msg'} \subseteq Metadata \cup {NoMsg},
         UNCHANGED m_current_msg, wire' \in Seq(Byte), m_buf' \in Seq(Byte),
         pc' \in {"read", "consume"}, reset_headers
  PROVE  FramesInv'
  <1>1. /\ m_parse' = "HEADER_BASIC" /\ m_bytes_needed' = 2
        /\ m_basic_header' = Zeros(2) /\ m_extended_header' = Zeros(12) /\ m_cursor' = m_cursor
    BY DEF reset_headers
  <1>2. Zeros(2) \in [1 .. 2 -> Byte] /\ Zeros(12) \in [1 .. 12 -> Byte]
    BY ZerosTyped
  <1>3. m_basic_header' \in [1 .. 2 -> Byte] /\ m_extended_header' \in [1 .. 12 -> Byte]
    BY <1>1, <1>2
  <1>4. FramesTypeOK'
    BY <1>1, <1>3 DEF FramesTypeOK, ConOK
  <1>5. Parsing'
    BY <1>1 DEF Parsing
  <1> QED BY <1>4, <1>5 DEF FramesInv

\* ... and of a payload, ...
LEMMA PayloadKeeps == FramesInv /\ process_payload_bytes => FramesInv'
  <1> SUFFICES ASSUME FramesInv, process_payload_bytes PROVE FramesInv'
    OBVIOUS
  <1> DEFINE m == Grown(Current, Taken)
  <1>1. /\ pc = "consume" /\ m_parse = "APPLICATION" /\ Consume /\ m_current_msg' = m_current_msg
        /\ m_current_msg = "control" => m_control_msg' = m /\ m_data_msg' = m_data_msg
        /\ m_current_msg # "control" => m_data_msg' = m /\ m_control_msg' = m_control_msg
    BY DEF process_payload_bytes, Looping
  <1>2. /\ m_buf \in Seq(Byte) /\ m_bytes_needed \in Nat
        /\ {m_data_msg, m_control_msg} \subseteq Metadata \cup {NoMsg}
        /\ MsgsOK /\ FramesTypeOK /\ ConOK
        /\ m_current_msg # "none" /\ Current # NoMsg
        /\ m_current_msg = "control" =>
             Len(m_control_msg.payload) + m_bytes_needed <= payload_size_basic
    BY <1>1 DEF FramesInv, FramesTypeOK, Parsing
  <1>3. Current \in Metadata
    BY <1>2 DEF Current
  <1>4. /\ Taken \in Nat /\ Taken <= Len(m_buf) /\ Taken <= m_bytes_needed
        /\ m_bytes_needed - Taken \in Nat /\ Drop(m_buf, Taken) \in Seq(Byte)
    BY <1>2, TakenIs
  <1>5. /\ m \in Metadata /\ m.opcode = Current.opcode
        /\ Len(m.payload) = Len(Current.payload) + Taken
    BY <1>2, <1>3, <1>4, MsgGrown
  <1>6. wire' = wire /\ m_buf' = Drop(m_buf, Taken)
    BY <1>1 DEF Consume
  <1>7. CASE m.utf8 = utf8_reject
    <2>1. Fail(invalid_payload) /\ UNCHANGED <<m_parse, m_bytes_needed, headerVars>>
      BY <1>7 DEF process_payload_bytes
    <2> HIDE DEF m
    <2>2. ConOK' /\ pc' = "stopped"
      BY <1>2, <2>1, FailKeeps DEF Codes
    <2>3. {m_data_msg', m_control_msg'} \subseteq Metadata \cup {NoMsg} /\ MsgsOK'
      BY <1>1, <1>2, <1>5, NoMsgApart DEF MsgsOK, Current
    <2>4. FramesTypeOK'
      BY <1>1, <1>2, <1>4, <1>6, <2>1, <2>2, <2>3 DEF FramesTypeOK, ConOK, headerVars
    <2> QED BY <2>2, <2>3, <2>4 DEF FramesInv, Parsing
  <1>8. {m_data_msg', m_control_msg'} \subseteq Metadata \cup {NoMsg} /\ MsgsOK'
    <2> HIDE DEF m
    <2> QED BY <1>1, <1>2, <1>5, NoMsgApart DEF MsgsOK, Current
  <1>9. wire' \in Seq(Byte) /\ m_buf' \in Seq(Byte)
    BY <1>2, <1>4, <1>6 DEF FramesTypeOK
  \* A message goes on, or is complete.
  <1>10. ASSUME m_bytes_needed' = m_bytes_needed - Taken, m_parse' \in {"APPLICATION", "READY"},
                UNCHANGED <<headerVars, conVars, pc>>
         PROVE  FramesInv'
    <2>1. ConOK'
      BY <1>2, <1>10, Untouched
    <2>2. FramesTypeOK'
      BY <1>1, <1>2, <1>4, <1>8, <1>9, <1>10, <2>1 DEF FramesTypeOK, ConOK, headerVars
    <2>3. m_current_msg' # "none" /\ Current' # NoMsg
      <3> HIDE DEF m
      <3> QED BY <1>1, <1>2, <1>5, NoMsgApart DEF Current
    <2>4. m_current_msg' = "control" =>
            Len(m_control_msg'.payload) + m_bytes_needed' <= payload_size_basic
      <3> SUFFICES ASSUME m_current_msg = "control"
                   PROVE  Len(m_control_msg'.payload) + m_bytes_needed' <= payload_size_basic
        BY <1>1
      <3> HIDE DEF m
      <3>1. /\ m_control_msg' = m /\ Current = m_control_msg
            /\ Len(m_control_msg.payload) + m_bytes_needed <= payload_size_basic
        BY <1>1, <1>2 DEF Current
      <3>2. PICK l \in Nat : l = Len(m_control_msg.payload)
        BY <1>3, <3>1, LenProperties DEF Metadata
      <3>3. Len(m_control_msg'.payload) = l + Taken
        BY <1>5, <3>1, <3>2
      <3> QED BY <1>2, <1>4, <1>10, <3>1, <3>2, <3>3, Sizes
    <2> QED BY <1>8, <1>10, <2>1, <2>2, <2>3, <2>4 DEF FramesInv, Parsing
  <1>11. CASE m.utf8 # utf8_reject /\ Taken < m_bytes_needed
    <2>1. Waiting /\ UNCHANGED <<m_parse, headerVars, conVars, pc>>
      BY <1>11 DEF process_payload_bytes
    <2> QED BY <1>1, <1>10, <2>1 DEF Waiting
  <1>12. CASE m.utf8 # utf8_reject /\ ~(Taken < m_bytes_needed)
    <2>1. EndOfFrame(m)
      BY <1>12 DEF process_payload_bytes
    <2> HIDE DEF m
    <2>2. CASE ~get_fin(m_basic_header)
      <3>1. reset_headers /\ UNCHANGED <<conVars, pc>>
        BY <2>1, <2>2 DEF EndOfFrame
      <3>2. ConOK' /\ pc' = "consume"
        BY <1>1, <1>2, <3>1, Untouched
      <3> QED BY <1>1, <1>2, <1>8, <1>9, <3>1, <3>2, ResetKeeps
    <2>3. CASE get_fin(m_basic_header) /\ get_opcode(m_basic_header) = TEXT /\ m.utf8 # utf8_accept
      <3>1. Fail(invalid_payload) /\ UNCHANGED <<m_parse, headerVars>> /\ Waiting
        BY <2>1, <2>3 DEF EndOfFrame
      <3>2. ConOK' /\ pc' = "stopped"
        BY <1>2, <3>1, FailKeeps DEF Codes
      <3>3. FramesTypeOK'
        BY <1>1, <1>2, <1>4, <1>8, <1>9, <3>1, <3>2 DEF FramesTypeOK, ConOK, headerVars, Waiting
      <3> QED BY <1>8, <3>2, <3>3 DEF FramesInv, Parsing
    <2>4. CASE /\ get_fin(m_basic_header)
               /\ ~(get_opcode(m_basic_header) = TEXT /\ m.utf8 # utf8_accept)
      <3>1. m_parse' = "READY" /\ Waiting /\ UNCHANGED <<headerVars, conVars, pc>>
        BY <2>1, <2>4 DEF EndOfFrame
      <3> QED BY <1>10, <3>1 DEF Waiting
    <2> QED BY <2>2, <2>3, <2>4
  <1> QED BY <1>7, <1>11, <1>12

\* The message that is ready.
LEMMA ReadyMessage ==
  ASSUME FramesInv, pc = "consume", m_parse = "READY"
  PROVE  /\ Current \in Metadata
         /\ is_control(Current.opcode) <=> m_current_msg = "control"
         /\ is_control(Current.opcode) =>
              Current.opcode \in Controls /\ Len(Current.payload) <= payload_size_basic
         /\ ~is_control(Current.opcode) => Current.opcode \in Opened
  <1>1. /\ {m_data_msg, m_control_msg} \subseteq Metadata \cup {NoMsg} /\ MsgsOK
        /\ m_bytes_needed \in Nat /\ m_current_msg # "none" /\ Current # NoMsg
        /\ m_current_msg = "control" =>
             Len(m_control_msg.payload) + m_bytes_needed <= payload_size_basic
    BY DEF FramesInv, FramesTypeOK, Parsing
  <1>2. Current \in Metadata
    BY <1>1 DEF Current
  <1>3. CASE m_current_msg = "control"
    <2>1. Current = m_control_msg /\ Current.opcode \in Controls /\ is_control(Current.opcode)
      BY <1>1, <1>3, ControlOrData DEF Current, MsgsOK
    <2>2. PICK l \in Nat : l = Len(Current.payload)
      BY <1>2, LenProperties DEF Metadata
    <2>3. Len(Current.payload) <= payload_size_basic
      BY <1>1, <1>3, <2>1, <2>2, Sizes
    <2> QED BY <1>2, <1>3, <2>1, <2>3
  <1>4. CASE m_current_msg # "control"
    <2>1. Current.opcode \in Opened /\ ~is_control(Current.opcode)
      BY <1>1, <1>4, ControlOrData DEF Current, MsgsOK
    <2> QED BY <1>2, <1>4, <2>1
  <1> QED BY <1>3, <1>4

\* ... with every message ...
LEMMA MessageKeeps == FramesInv /\ get_message => FramesInv'
  <1> SUFFICES ASSUME FramesInv, get_message PROVE FramesInv'
    OBVIOUS
  <1>1. /\ pc = "consume" /\ m_parse = "READY" /\ reset_headers
        /\ UNCHANGED <<meant, wire, m_buf, m_current_msg>> /\ pc' \in {"read", "consume"}
    BY DEF get_message
  <1>2. /\ Current \in Metadata
        /\ is_control(Current.opcode) <=> m_current_msg = "control"
        /\ is_control(Current.opcode) =>
             Current.opcode \in Controls /\ Len(Current.payload) <= payload_size_basic
        /\ ~is_control(Current.opcode) => Current.opcode \in Opened
    BY <1>1, ReadyMessage
  <1>3. ConOK /\ MsgsOK /\ FramesTypeOK
    BY DEF FramesInv
  <1>4. {m_data_msg', m_control_msg'} \subseteq Metadata \cup {NoMsg} /\ MsgsOK'
    BY <1>3 DEF get_message, FramesTypeOK, MsgsOK
  <1>5. CASE is_control(Current.opcode)
    <2>1. process_control_frame(Current)
      BY <1>5 DEF get_message
    <2>2. ConOK'
      BY <1>2, <1>3, <1>5, <2>1, ControlActed
    <2> QED BY <1>1, <1>3, <1>4, <2>2, ResetKeeps DEF FramesTypeOK
  <1>6. CASE ~is_control(Current.opcode)
    <2>1. IF m_state = "open" THEN HandleMessage(Current) ELSE UNCHANGED conVars
      BY <1>6 DEF get_message
    <2>2. ConOK'
      BY <1>2, <1>3, <1>6, <2>1, MessageActed, Untouched
    <2> QED BY <1>1, <1>3, <1>4, <2>2, ResetKeeps DEF FramesTypeOK
  <1> QED BY <1>5, <1>6

\* ... and so with every step.
LEMMA FramesStep == FramesInv /\ [FramesNext]_frVars => FramesInv'
  <1> SUFFICES ASSUME FramesInv, [FramesNext]_frVars PROVE FramesInv'
    OBVIOUS
  <1>1. ASSUME UNCHANGED <<meant, wire, m_buf, m_parse, m_bytes_needed, headerVars, msgVars,
                           conVars>>,
               pc' \in {"read", "consume", "stopped"}, pc' # "stopped" => pc # "stopped"
        PROVE  FramesInv'
    <2>1. ConOK'
      BY <1>1, Untouched DEF FramesInv
    <2>2. FramesTypeOK'
      BY <1>1 DEF FramesInv, FramesTypeOK, headerVars, msgVars, conVars
    <2>3. MsgsOK'
      BY <1>1 DEF FramesInv, MsgsOK, msgVars
    <2>4. Parsing'
      BY <1>1 DEF FramesInv, Parsing, headerVars, msgVars, Current,
         validate_incoming_basic_header, get_header_len, get_masking_key_offset,
         get_opcode, get_basic_size, get_fin, get_rsv, get_masked
    <2> QED BY <2>1, <2>2, <2>3, <2>4 DEF FramesInv
  <1>2. CASE handle_read_frame
    BY <1>2, ReadKeeps
  <1>3. CASE copy_basic_header_bytes
    BY <1>3, BasicKeeps
  <1>4. CASE copy_extended_header_bytes
    BY <1>4, ExtendedKeeps
  <1>5. CASE process_payload_bytes
    BY <1>5, PayloadKeeps
  <1>6. CASE get_message
    BY <1>6, MessageKeeps
  <1>7. CASE read_frame
    BY <1>1, <1>7 DEF read_frame
  <1>8. CASE UNCHANGED frVars
    BY <1>1, <1>8 DEF frVars, FramesInv, FramesTypeOK
  <1> QED BY <1>2, <1>3, <1>4, <1>5, <1>6, <1>7, <1>8 DEF FramesNext, Rest

\* The parser keeps its invariant.
LEMMA FramesInvariant == FramesSpec => []FramesInv
  BY FramesInitially, FramesStep, PTL DEF FramesSpec

\* However the stream is cut and whatever is in it, the parser stays within its types:
\* a header never outgrows its two or twelve bytes, a message has the metadata its
\* kind needs, and what was handed on are messages (hybi13::consume).
THEOREM FramesTyped == FramesSpec => []FramesTypeOK
  <1>1. FramesInv => FramesTypeOK
    BY DEF FramesInv
  <1> QED BY <1>1, FramesInvariant, PTL

\* What prepare_data_frame and prepare_control make reads, by the rules of the
\* protocol, as what it was made of, for every payload, opcode and limits.
THEOREM PreparedReadsHeld == FramesSpec => []PreparedReads
  <1>1. FramesInv => PreparedReads
    BY DEF FramesInv, ConOK, ReadOK, Reading, PreparedReads
  <1> QED BY <1>1, FramesInvariant, PTL

\* A close frame acted on is answered with one, whatever its code and reason
\* (connection::process_control_frame with extract_code, extract_reason, prepare_close).
THEOREM CloseAnsweredHeld == FramesSpec => []CloseAnswered
  <1>1. FramesInv => CloseAnswered
    BY DEF FramesInv, ConOK
  <1> QED BY <1>1, FramesInvariant, PTL

-----------------------------------------------------------------------------
(* What is read so far, what is to come: more on sequences.                 *)

\* A prefix, place by place.
LEMMA PrefixIs ==
  ASSUME NEW S, NEW s \in Seq(S), NEW t \in Seq(S)
  PROVE  IsPrefix(s, t) <=> Len(s) <= Len(t) /\ \A i \in 1 .. Len(s) : s[i] = t[i]
  <1>1. PICK n \in Nat : n = Len(s)
    BY LenProperties
  <1>2. CASE n <= Len(t)
    <2>1. Take(s, n) \in Seq(S) /\ Len(Take(s, n)) = n /\ \A i \in 1 .. n : Take(s, n)[i] = s[i]
      <3>1. n <= Len(s)
        BY <1>1
      <3> QED BY <3>1, Taking
    <2>2. Take(t, n) \in Seq(S) /\ Len(Take(t, n)) = n /\ \A i \in 1 .. n : Take(t, n)[i] = t[i]
      BY <1>2, Taking
    <2>3. Take(s, n) = Take(t, n) <=> \A i \in 1 .. n : s[i] = t[i]
      <3>1. ASSUME \A i \in 1 .. n : s[i] = t[i] PROVE Take(s, n) = Take(t, n)
        <4>1. \A i \in 1 .. Len(Take(s, n)) : Take(s, n)[i] = Take(t, n)[i]
          BY <2>1, <2>2, <3>1
        <4> QED BY <2>1, <2>2, <4>1, SeqEqual
      <3>2. ASSUME Take(s, n) = Take(t, n) PROVE \A i \in 1 .. n : s[i] = t[i]
        BY <2>1, <2>2, <3>2
      <3> QED BY <3>1, <3>2
    <2> QED BY <1>1, <1>2, <2>3 DEF IsPrefix, Take
  <1>3. CASE ~(n <= Len(t))
    BY <1>1, <1>3 DEF IsPrefix
  <1> QED BY <1>2, <1>3

\* A sequence is a prefix of itself.
LEMMA PrefixItself == ASSUME NEW S, NEW s \in Seq(S) PROVE IsPrefix(s, s)
  BY PrefixIs, LenProperties

\* One more.
LEMMA PrefixLonger ==
  ASSUME NEW S, NEW s \in Seq(S), NEW x \in S PROVE IsPrefix(s, Append(s, x))
  <1>1. /\ Append(s, x) \in Seq(S) /\ Len(Append(s, x)) = Len(s) + 1
        /\ \A i \in 1 .. Len(s) : Append(s, x)[i] = s[i]
    BY AppendProperties
  <1>2. Len(s) <= Len(Append(s, x))
    BY <1>1, LenProperties
  <1> QED BY <1>1, <1>2, PrefixIs

\* A prefix of a prefix.
LEMMA PrefixOfPrefix ==
  ASSUME NEW S, NEW s \in Seq(S), NEW t \in Seq(S), NEW u \in Seq(S),
         IsPrefix(s, t), IsPrefix(t, u)
  PROVE  IsPrefix(s, u)
  <1>1. Len(s) <= Len(t) /\ \A i \in 1 .. Len(s) : s[i] = t[i]
    BY PrefixIs
  <1>2. Len(t) <= Len(u) /\ \A i \in 1 .. Len(t) : t[i] = u[i]
    BY PrefixIs
  <1>3. PICK a \in Nat, b \in Nat, c \in Nat : a = Len(s) /\ b = Len(t) /\ c = Len(u)
    BY LenProperties
  <1>4. a <= c /\ \A i \in 1 .. a : s[i] = u[i]
    BY <1>1, <1>2, <1>3
  <1> QED BY <1>3, <1>4, PrefixIs

\* Nothing, before or after.
LEMMA WithNothing == \A s \in Seq(Byte) : s \o <<>> = s /\ <<>> \o s = s
  BY ConcatEmptySeq

\* Concatenation is associative.
LEMMA Together ==
  \A a \in Seq(Byte), b \in Seq(Byte), c \in Seq(Byte) : (a \o b) \o c = a \o (b \o c)
  BY ConcatAssociative

\* Equal wholes with first parts of one length have equal parts.
LEMMA EqualParts ==
  ASSUME NEW a \in Seq(Byte), NEW b \in Seq(Byte), NEW x \in Seq(Byte), NEW r \in Seq(Byte),
         a \o b = x \o r, Len(a) = Len(x)
  PROVE  a = x /\ b = r
  <1>1. Take(a \o b, Len(a)) = a /\ Drop(a \o b, Len(a)) = b
    BY JoinedBytes
  <1>2. Take(x \o r, Len(x)) = x /\ Drop(x \o r, Len(x)) = r
    BY JoinedBytes
  <1> QED BY <1>1, <1>2

\* The first n bytes of b go from what is to come to what was read.
LEMMA ReadOn ==
  ASSUME NEW d \in Seq(Byte), NEW b \in Seq(Byte), NEW w \in Seq(Byte), NEW n \in Nat,
         n <= Len(b)
  PROVE  /\ d \o Take(b, n) \in Seq(Byte) /\ Len(d \o Take(b, n)) = Len(d) + n
         /\ Drop(b, n) \o w \in Seq(Byte)
         /\ (d \o Take(b, n)) \o (Drop(b, n) \o w) = d \o (b \o w)
  <1> DEFINE t == Take(b, n)
             r == Drop(b, n)
  <1>1. t \in Seq(Byte) /\ r \in Seq(Byte) /\ Len(t) = n /\ t \o r = b
    BY Taking, Dropping, TakenDropped
  <1> HIDE DEF t, r
  <1>2. d \o t \in Seq(Byte) /\ Len(d \o t) = Len(d) + n /\ r \o w \in Seq(Byte)
    BY <1>1, JoinedBytes
  <1>3. (d \o t) \o (r \o w) = d \o (t \o (r \o w))
    <2>1. d \in Seq(Byte) /\ t \in Seq(Byte) /\ r \o w \in Seq(Byte)
      BY <1>1, <1>2
    <2> QED BY <2>1, Together, ZenonT(60)
  <1>4. t \o (r \o w) = (t \o r) \o w
    <2>1. t \in Seq(Byte) /\ r \in Seq(Byte) /\ w \in Seq(Byte)
      BY <1>1
    <2>2. (t \o r) \o w = t \o (r \o w)
      BY <2>1, Together, ZenonT(60)
    <2> QED BY <2>2
  <1> QED BY <1>1, <1>2, <1>3, <1>4 DEF t, r

\* The first n of s are what e has after its first l.
Follows(s, e, l, n) == \A i \in 1 .. n : s[i] = e[l + i]

\* What comes next are the bytes of e that follow.
LEMMA NextBytes ==
  ASSUME NEW d \in Seq(Byte), NEW b \in Seq(Byte), NEW w \in Seq(Byte),
         NEW e \in Seq(Byte), NEW r \in Seq(Byte), d \o (b \o w) = e \o r,
         NEW n \in Nat, n <= Len(b), Len(d) + n <= Len(e)
  PROVE  Follows(b, e, Len(d), n)
  <1> SUFFICES ASSUME NEW i \in 1 .. n PROVE b[i] = e[Len(d) + i]
    BY DEF Follows
  <1>1. PICK x \in Nat, y \in Nat, z \in Nat : x = Len(d) /\ y = Len(b) /\ z = Len(e)
    BY LenProperties
  <1>2. i \in 1 .. y /\ x + i \in 1 .. z
    BY <1>1
  <1> DEFINE u == b \o w
  <1>3. u \in Seq(Byte) /\ u[i] = b[i] /\ Len(u) = y + Len(w)
    BY <1>1, <1>2, JoinedBytes
  <1>4. i \in 1 .. Len(u)
    <2>1. PICK l \in Nat : l = Len(w)
      BY LenProperties
    <2> QED BY <1>2, <1>3, <2>1
  <1> HIDE DEF u
  <1>5. (d \o u)[x + i] = u[i]
    BY <1>1, <1>3, <1>4, JoinedBytes
  <1>6. (e \o r)[x + i] = e[x + i]
    BY <1>1, <1>2, JoinedBytes
  <1>7. d \o u = e \o r
    BY DEF u
  <1> QED BY <1>1, <1>3, <1>5, <1>6, <1>7

\* When nothing more comes, all of e was read.
LEMMA AllRead ==
  ASSUME NEW d \in Seq(Byte), NEW e \in Seq(Byte), NEW r \in Seq(Byte), d \o <<>> = e \o r
  PROVE  Len(e) <= Len(d)
  <1>1. d = e \o r
    BY WithNothing
  <1>2. Len(d) = Len(e) + Len(r)
    BY <1>1, JoinedBytes
  <1>3. PICK x \in Nat, y \in Nat : x = Len(e) /\ y = Len(r)
    BY LenProperties
  <1> QED BY <1>2, <1>3

-----------------------------------------------------------------------------
(* The meaning of the frames, one after the other.                          *)

Acc == [messages : Seq(Message), partial : Seq(Message), code : Nat, closed : BOOLEAN]

\* What ends the reading.
Ends(acc, code) == [acc EXCEPT !.code = code]

\* What else may be wrong with a frame whose header is right.
Small(acc, f)  == is_control(f.opcode) \/ Len(Whole(acc, f).payload) <= max_message_size
Textual(acc, f) == is_control(f.opcode) \/ ~BadText(acc, f)

\* A message, whatever frame it is of.
LEMMA WholeTyped ==
  ASSUME NEW acc \in Acc, NEW f \in ClientFrame, ~Broken(acc, f)
  PROVE  /\ Whole(acc, f) \in Message
         /\ f.opcode # CONTINUATION => /\ Whole(acc, f).opcode = f.opcode
                                       /\ Whole(acc, f).payload = f.payload
         /\ f.opcode = CONTINUATION =>
              /\ acc.partial # <<>> /\ acc.partial[1] \in Message
              /\ Whole(acc, f).opcode = acc.partial[1].opcode
              /\ Whole(acc, f).payload = acc.partial[1].payload \o f.payload
         /\ is_control(f.opcode) => f.opcode \in Controls /\ f.fin /\ f.length = 1
         /\ ~is_control(f.opcode) => f.opcode \in Opened \cup {CONTINUATION}
         /\ ~is_control(f.opcode) => (f.opcode = CONTINUATION <=> acc.partial # <<>>)
  <1>1. f.opcode \in {CONTINUATION, TEXT, BINARY, CLOSE, PING, PONG}
    BY DEF Broken
  <1>2. f.payload \in Seq(Byte) /\ f.fin \in BOOLEAN
    BY SentTyped
  <1>3. /\ is_control(f.opcode) => f.opcode \in Controls /\ f.fin /\ f.length = 1
        /\ ~is_control(f.opcode) => f.opcode \in Opened \cup {CONTINUATION}
    BY <1>1 DEF Broken, is_control, Controls, Opened, CONTINUATION, TEXT, BINARY, CLOSE, PING, PONG
  <1>4. ~is_control(f.opcode) => (f.opcode = CONTINUATION <=> acc.partial # <<>>)
    BY DEF Broken
  <1>5. CASE f.opcode = CONTINUATION
    <2>1. ~is_control(f.opcode)
      BY <1>5 DEF is_control, CONTINUATION
    <2>2. acc.partial # <<>> /\ acc.partial \in Seq(Message)
      BY <1>4, <1>5, <2>1 DEF Acc
    <2>3. acc.partial[1] \in Message
      <3>1. PICK n \in Nat : n = Len(acc.partial) /\ n # 0
        BY <2>2, LenProperties, EmptySeq
      <3>2. 1 \in 1 .. Len(acc.partial)
        BY <3>1
      <3> QED BY <2>2, <3>2, LenProperties
    <2> DEFINE m == acc.partial[1]
               p == m.payload \o f.payload
    <2>4. m \in Message /\ m.payload \in Seq(Byte)
      BY <2>3 DEF Message
    <2>5. p \in Seq(Byte)
      BY <1>2, <2>4, JoinedBytes
    <2>6. Whole(acc, f) = [m EXCEPT !.payload = p]
      BY <1>5, <2>4 DEF Whole, Message
    <2> HIDE DEF m, p
    <2>7. [m EXCEPT !.payload = p] \in Message /\ [m EXCEPT !.payload = p].opcode = m.opcode
          /\ [m EXCEPT !.payload = p].payload = p
      BY <2>4, <2>5 DEF Message
    <2> QED BY <1>3, <1>4, <1>5, <2>2, <2>3, <2>6, <2>7 DEF m, p
  <1>6. CASE f.opcode # CONTINUATION
    <2>1. Whole(acc, f) = [opcode |-> f.opcode, payload |-> f.payload]
      BY <1>6 DEF Whole
    <2>2. f.opcode \in Opcodes
      BY <1>1, <1>6 DEF Opcodes
    <2>3. Whole(acc, f) \in Message
      BY <1>2, <2>1, <2>2 DEF Message
    <2>4. Whole(acc, f).opcode = f.opcode /\ Whole(acc, f).payload = f.payload
      BY <2>1
    <2> QED BY <1>3, <1>4, <1>6, <2>3, <2>4
  <1> QED BY <1>5, <1>6

\* What a good frame says.
LEMMA SaysTyped ==
  ASSUME NEW acc \in Acc, NEW f \in ClientFrame, ~Broken(acc, f)
  PROVE  /\ Says(acc, f) \in Acc /\ Says(acc, f).code = acc.code
         /\ is_control(f.opcode) =>
              /\ Says(acc, f).partial = acc.partial
              /\ Says(acc, f).closed = (acc.closed \/ f.opcode = CLOSE)
         /\ ~is_control(f.opcode) => Says(acc, f).closed = acc.closed
         /\ ~is_control(f.opcode) /\ ~f.fin =>
              Says(acc, f).partial = <<Whole(acc, f)>> /\ Says(acc, f).messages = acc.messages
         /\ ~is_control(f.opcode) /\ f.fin => Says(acc, f).partial = <<>>
         /\ is_control(f.opcode) \/ f.fin =>
              Says(acc, f).messages = IF acc.closed THEN acc.messages
                                      ELSE Append(acc.messages, Whole(acc, f))
         /\ IsPrefix(acc.messages, Says(acc, f).messages)
  <1> DEFINE w == Whole(acc, f)
             more == IF acc.closed THEN acc.messages ELSE Append(acc.messages, w)
             shut == acc.closed \/ f.opcode = CLOSE
  <1>1. /\ w \in Message
        /\ is_control(f.opcode) => w = [opcode |-> f.opcode, payload |-> f.payload]
        /\ acc.messages \in Seq(Message) /\ acc.closed \in BOOLEAN
    <2>1. is_control(f.opcode) => f.opcode # CONTINUATION
      BY DEF is_control, CONTINUATION
    <2> QED BY <2>1, WholeTyped DEF Whole, Acc
  <1>2. /\ is_control(f.opcode) =>
             Says(acc, f) = [acc EXCEPT !.messages = more, !.closed = shut]
        /\ ~is_control(f.opcode) /\ ~f.fin => Says(acc, f) = [acc EXCEPT !.partial = <<w>>]
        /\ ~is_control(f.opcode) /\ f.fin =>
             Says(acc, f) = [acc EXCEPT !.partial = <<>>, !.messages = more]
    <2>1. CASE is_control(f.opcode)
      <3>1. w = [opcode |-> f.opcode, payload |-> f.payload]
        BY <1>1, <2>1
      <3> HIDE DEF w
      <3> QED BY <2>1, <3>1 DEF Says
    <2>2. CASE ~is_control(f.opcode) /\ ~f.fin
      BY <2>2 DEF Says
    <2>3. CASE ~is_control(f.opcode) /\ f.fin
      BY <2>3 DEF Says
    <2> QED BY <2>1, <2>2, <2>3
  <1> HIDE DEF w
  <1>3. /\ more \in Seq(Message) /\ IsPrefix(acc.messages, more)
        /\ IsPrefix(acc.messages, acc.messages)
    <2>1. IsPrefix(acc.messages, acc.messages)
      BY <1>1, PrefixItself
    <2>2. /\ Append(acc.messages, w) \in Seq(Message)
          /\ IsPrefix(acc.messages, Append(acc.messages, w))
      <3>1. w \in Message /\ acc.messages \in Seq(Message)
        BY <1>1
      <3> QED BY <3>1, AppendProperties, PrefixLonger
    <2> QED BY <1>1, <2>1, <2>2
  <1>4. shut \in BOOLEAN /\ <<>> \in Seq(Message) /\ <<w>> \in Seq(Message)
    <2>1. w \in Message
      BY <1>1
    <2>2. <<w>> \in Seq(Message) /\ <<>> \in Seq(Message)
      BY <2>1
    <2> QED BY <1>1, <2>2
  <1> HIDE DEF more, shut
  <1>5. f.fin \in BOOLEAN
    BY SentTyped
  <1>6. CASE is_control(f.opcode)
    <2>1. Says(acc, f) = [acc EXCEPT !.messages = more, !.closed = shut]
      BY <1>2, <1>6
    <2>2. /\ Says(acc, f) \in Acc /\ Says(acc, f).code = acc.code /\ Says(acc, f).messages = more
          /\ Says(acc, f).partial = acc.partial /\ Says(acc, f).closed = shut
      BY <1>3, <1>4, <2>1 DEF Acc
    <2> QED BY <1>3, <1>6, <2>2 DEF more, shut, w
  <1>7. CASE ~is_control(f.opcode) /\ ~f.fin
    <2>1. Says(acc, f) = [acc EXCEPT !.partial = <<w>>]
      BY <1>2, <1>7
    <2>2. /\ Says(acc, f) \in Acc /\ Says(acc, f).code = acc.code
          /\ Says(acc, f).messages = acc.messages
          /\ Says(acc, f).partial = <<w>> /\ Says(acc, f).closed = acc.closed
      BY <1>4, <2>1 DEF Acc
    <2> QED BY <1>3, <1>7, <2>2 DEF w
  <1>8. CASE ~is_control(f.opcode) /\ f.fin
    <2>1. Says(acc, f) = [acc EXCEPT !.partial = <<>>, !.messages = more]
      BY <1>2, <1>8
    <2>2. /\ Says(acc, f) \in Acc /\ Says(acc, f).code = acc.code
          /\ Says(acc, f).messages = more
          /\ Says(acc, f).partial = <<>> /\ Says(acc, f).closed = acc.closed
      BY <1>3, <1>4, <2>1 DEF Acc
    <2> QED BY <1>3, <1>8, <2>2 DEF more, w
  <1> QED BY <1>5, <1>6, <1>7, <1>8

\* What a frame leads to.
LEMMA ThenIs ==
  ASSUME NEW acc \in Acc, NEW f \in ClientFrame
  PROVE  /\ acc.code # 0 => Then(acc, f) = acc
         /\ acc.code = 0 =>
              /\ Broken(acc, f) => Then(acc, f) = Ends(acc, protocol_error)
              /\ ~Broken(acc, f) =>
                   /\ ~Shortest(f) => Then(acc, f) = Ends(acc, internal_endpoint_error)
                   /\ Shortest(f) /\ ~Small(acc, f) => Then(acc, f) = Ends(acc, message_too_big)
                   /\ Shortest(f) /\ Small(acc, f) /\ ~Textual(acc, f) =>
                        Then(acc, f) = Ends(acc, invalid_payload)
                   /\ Shortest(f) /\ Small(acc, f) /\ Textual(acc, f) =>
                        Then(acc, f) = Says(acc, f)
  <1>1. ASSUME ~Broken(acc, f)
        PROVE  Len(Whole(acc, f).payload) > max_message_size
                 <=> ~(Len(Whole(acc, f).payload) <= max_message_size)
    <2>1. PICK n \in Nat : n = Len(Whole(acc, f).payload)
      BY <1>1, WholeTyped, LenProperties DEF Message
    <2> QED BY <2>1, Sizes
  <1> QED BY <1>1 DEF Then, Ends, Small, Textual

\* What ends the reading changes the code and nothing else.
LEMMA EndsTyped ==
  ASSUME NEW acc \in Acc, NEW code \in Nat
  PROVE  /\ Ends(acc, code) \in Acc /\ Ends(acc, code).code = code
         /\ Ends(acc, code).messages = acc.messages /\ Ends(acc, code).closed = acc.closed
  BY DEF Ends, Acc

\* A frame takes back nothing of what was said before.
LEMMA ThenTyped ==
  ASSUME NEW acc \in Acc, NEW f \in ClientFrame
  PROVE  Then(acc, f) \in Acc /\ IsPrefix(acc.messages, Then(acc, f).messages)
  <1>1. IsPrefix(acc.messages, acc.messages)
    BY PrefixItself DEF Acc
  <1>2. \A code \in Codes : Ends(acc, code) \in Acc /\ Ends(acc, code).messages = acc.messages
    BY EndsTyped, CodesSendable
  <1>3. protocol_error \in Codes /\ internal_endpoint_error \in Codes
        /\ message_too_big \in Codes /\ invalid_payload \in Codes
    BY DEF Codes
  <1>4. ~Broken(acc, f) => Says(acc, f) \in Acc /\ IsPrefix(acc.messages, Says(acc, f).messages)
    BY SaysTyped
  <1> QED BY <1>1, <1>2, <1>3, <1>4, ThenIs

\* Before the first frame.
LEMMA NoneTyped == None \in Acc /\ None.code = 0 /\ ~None.closed
                   /\ None.messages = <<>> /\ None.partial = <<>>
  BY EmptySeq DEF None, Acc

\* What frames amount to, frame by frame.
LEMMA MeaningRun ==
  ASSUME NEW n \in Nat, NEW frames \in [1 .. n -> ClientFrame]
  PROVE  \E a \in [0 .. n -> Acc] :
           /\ a[0] = None /\ \A i \in 1 .. n : a[i] = Then(a[i - 1], frames[i])
           /\ Meaning(frames) = a[n]
  <1> DEFINE first == None
             op == [i \in 1 .. n |-> [r \in Acc |-> Then(r, frames[i])]]
  <1>1. op \in [1 .. n -> [Acc -> Acc]] /\ first \in Acc
    <2>1. \A i \in 1 .. n : \A r \in Acc : Then(r, frames[i]) \in Acc
      BY ThenTyped
    <2> QED BY <2>1, NoneTyped
  <1>2. PICK a \in [0 .. n -> Acc] : a[0] = first /\ \A i \in 1 .. n : a[i] = op[i][a[i - 1]]
    <2>1. op \in [1 .. n -> [Acc -> Acc]]
      BY <1>1
    <2>2. first \in Acc
      BY <1>1
    <2> HIDE DEF op, first
    <2>3. \E a \in [0 .. n -> Acc] : Iterates(a, first, n, op)
      BY <2>1, <2>2, Recursion
    <2> QED BY <2>3 DEF Iterates
  <1>3. ASSUME NEW i \in 1 .. n PROVE a[i] = Then(a[i - 1], frames[i])
    <2>1. i - 1 \in 0 .. n /\ a[i - 1] \in Acc
      OBVIOUS
    <2> QED BY <1>2, <2>1
  <1> DEFINE E(w) == w = [i \in 0 .. n |-> IF i = 0 THEN None ELSE Then(w[i - 1], frames[i])]
             d == CHOOSE w : E(w)
  <1>4. E(a)
    <2>1. \A i \in 0 .. n : a[i] = IF i = 0 THEN None ELSE Then(a[i - 1], frames[i])
      <3>1. a[0] = None
        BY <1>2
      <3>2. \A i \in 0 .. n : i = 0 \/ i \in 1 .. n
        OBVIOUS
      <3> QED BY <1>3, <3>1, <3>2
    <2> QED BY <1>2, <2>1
  <1>5. E(d)
    <2> HIDE DEF E
    <2> QED BY <1>4
  <1>6. Meaning(frames) = d[n]
    <2>1. Len(frames) = n
      BY FunIsSeq
    <2> QED BY <2>1 DEF Meaning
  <1>7. \A i \in 0 .. n : d[i] = a[i]
    <2> HIDE DEF d
    <2> DEFINE S == {i \in 0 .. n : d[i] = a[i]}
    <2>1. 0 \in S
      BY <1>4, <1>5
    <2>2. ASSUME NEW i \in 1 .. n, i - 1 \in S PROVE i \in S
      <3>1. i \in 0 .. n /\ i # 0 /\ d[i - 1] = a[i - 1]
        BY <2>2
      <3>2. a[i] = Then(a[i - 1], frames[i])
        BY <1>3
      <3>3. d[i] = Then(d[i - 1], frames[i])
        BY <1>5, <3>1
      <3> QED BY <3>1, <3>2, <3>3
    <2>3. 0 .. n \subseteq S
      <3> HIDE DEF S
      <3> QED BY <2>1, <2>2, StepsTo
    <2> QED BY <2>3
  <1>8. Meaning(frames) = a[n]
    <2>1. n \in 0 .. n
      OBVIOUS
    <2> HIDE DEF d
    <2> QED BY <1>6, <1>7, <2>1
  <1> QED BY <1>2, <1>3, <1>8

\* The story of a stream: its frames g, what they amount to (a) and the bytes that
\* follow each (b).
Story(n, g, a, b) ==
  /\ n \in Nat /\ g \in [1 .. n -> ClientFrame]
  /\ a \in [0 .. n -> Acc] /\ b \in [0 .. n -> Seq(Byte)]
  /\ a[n] = meant /\ b[n] = <<>>
  /\ \A i \in 1 .. n : a[i] = Then(a[i - 1], g[i]) /\ b[i - 1] = Encoded(g[i], i) \o b[i]

\* After frames that amount to acc the bytes s are to come.
Ahead(acc, s) ==
  \E n, g, a, b, i : Story(n, g, a, b) /\ i \in 0 .. n /\ acc = a[i] /\ s = b[i]

\* What was said and what is to come are of the right kind.
LEMMA AheadTyped ==
  ASSUME NEW acc, NEW s, Ahead(acc, s) PROVE acc \in Acc /\ s \in Seq(Byte) /\ meant \in Acc
  <1>1. PICK n, g, a, b, i : Story(n, g, a, b) /\ i \in 0 .. n /\ acc = a[i] /\ s = b[i]
    BY DEF Ahead
  <1>2. n \in 0 .. n
    BY <1>1 DEF Story
  <1> QED BY <1>1, <1>2 DEF Story

\* At least the header of every frame is on its way.
LEMMA HeadFirst ==
  ASSUME NEW f \in ClientFrame, NEW k \in Nat
  PROVE  Len(Encoded(f, k)) >= 2 /\ \A i \in 1 .. 2 : Encoded(f, k)[i] = HeadOf(f)[i]
  <1> DEFINE h == HeadOf(f)
             l == SizeBytes(f)
             c == Key(k)
             v == Veiled(f, k)
             p == f.payload
  <1>1. h \in Seq(Byte) /\ Len(h) = 2 /\ l \in Seq(Byte) /\ c \in Seq(Byte)
        /\ v \in Seq(Byte) /\ p \in Seq(Byte)
    BY HeadRead, SizeRead, KeyIs, VeiledTyped, SentTyped
  <1>2. Encoded(f, k) = IF f.masked THEN ((h \o l) \o c) \o v ELSE (h \o l) \o p
    BY EncodedIs
  <1> HIDE DEF h, l, c, v, p
  <1>3. ASSUME NEW s \in Seq(Byte), NEW t \in Seq(Byte), Len(s) >= 2,
               \A i \in 1 .. 2 : s[i] = h[i]
        PROVE  /\ s \o t \in Seq(Byte) /\ Len(s \o t) >= 2
               /\ \A i \in 1 .. 2 : (s \o t)[i] = h[i]
    <2>1. PICK x \in Nat, y \in Nat : x = Len(s) /\ y = Len(t)
      BY LenProperties
    <2>2. s \o t \in Seq(Byte) /\ Len(s \o t) = x + y /\ \A i \in 1 .. x : (s \o t)[i] = s[i]
      BY <2>1, JoinedBytes
    <2>3. \A i \in 1 .. 2 : i \in 1 .. x
      BY <1>3, <2>1
    <2>4. x + y >= 2
      BY <1>3, <2>1
    <2> QED BY <1>3, <2>2, <2>3, <2>4
  <1>4. Len(h) >= 2
    BY <1>1
  <1>5. h \o l \in Seq(Byte) /\ Len(h \o l) >= 2 /\ \A i \in 1 .. 2 : (h \o l)[i] = h[i]
    BY <1>1, <1>3, <1>4
  <1>6. /\ (h \o l) \o c \in Seq(Byte) /\ Len((h \o l) \o c) >= 2
        /\ \A i \in 1 .. 2 : ((h \o l) \o c)[i] = h[i]
    BY <1>1, <1>3, <1>5
  <1>7. /\ Len(((h \o l) \o c) \o v) >= 2
        /\ \A i \in 1 .. 2 : (((h \o l) \o c) \o v)[i] = h[i]
    BY <1>1, <1>3, <1>6
  <1>8. Len((h \o l) \o p) >= 2 /\ \A i \in 1 .. 2 : ((h \o l) \o p)[i] = h[i]
    BY <1>1, <1>3, <1>5
  <1>9. f.masked \in BOOLEAN
    BY SentTyped
  <1> QED BY <1>2, <1>7, <1>8, <1>9 DEF h

\* Nothing more is to come and all was said, or the next frame is.
LEMMA AheadFrame ==
  ASSUME NEW acc, NEW s, Ahead(acc, s)
  PROVE  \/ s = <<>> /\ acc = meant
         \/ \E f \in ClientFrame, k \in Nat, later \in Seq(Byte) :
              s = Encoded(f, k) \o later /\ s # <<>> /\ Ahead(Then(acc, f), later)
  <1>1. PICK n, g, a, b, i : Story(n, g, a, b) /\ i \in 0 .. n /\ acc = a[i] /\ s = b[i]
    BY DEF Ahead
  <1>2. CASE i = n
    BY <1>1, <1>2 DEF Story
  <1>3. CASE i # n
    <2>1. n \in Nat /\ i \in 0 .. n /\ i + 1 \in 1 .. n /\ i + 1 \in 0 .. n /\ (i + 1) - 1 = i
          /\ i + 1 \in Nat
      BY <1>1, <1>3 DEF Story
    <2> DEFINE j == i + 1
    <2>2. /\ g[j] \in ClientFrame /\ b[j] \in Seq(Byte)
          /\ a[j] = Then(a[i], g[j]) /\ b[i] = Encoded(g[j], j) \o b[j]
      BY <1>1, <2>1 DEF Story
    <2>3. Ahead(Then(acc, g[j]), b[j])
      BY <1>1, <2>1, <2>2 DEF Ahead
    <2> HIDE DEF j
    <2>4. s # <<>>
      <3>1. j \in Nat
        BY <2>1 DEF j
      <3>2. Encoded(g[j], j) \in Seq(Byte)
        BY <2>2, <3>1, EncodedIs
      <3>3. Len(Encoded(g[j], j)) >= 2
        BY <2>2, <3>1, HeadFirst
      <3>4. PICK x \in Nat, y \in Nat : x = Len(Encoded(g[j], j)) /\ y = Len(b[j])
        BY <2>2, <3>2, LenProperties
      <3>5. Len(Encoded(g[j], j) \o b[j]) = x + y
        BY <2>2, <3>2, <3>4, JoinedBytes
      <3>6. x + y # 0
        <4>1. x >= 2
          BY <3>3, <3>4
        <4> QED BY <4>1
      <3> QED BY <1>1, <2>2, <3>5, <3>6, EmptySeq
    <2> QED BY <1>1, <2>1, <2>2, <2>3, <2>4 DEF j
  <1> QED BY <1>2, <1>3

\* Nothing counts after what ends the reading, and nothing said is taken back.
LEMMA AheadOnly ==
  ASSUME NEW acc, NEW s, Ahead(acc, s)
  PROVE  /\ acc.code # 0 => meant = acc
         /\ IsPrefix(acc.messages, meant.messages)
  <1>1. PICK n, g, a, b, i : Story(n, g, a, b) /\ i \in 0 .. n /\ acc = a[i] /\ s = b[i]
    BY DEF Ahead
  <1>2. n \in Nat /\ \A j \in 0 .. n : a[j] \in Acc /\ a[j].messages \in Seq(Message)
    BY <1>1 DEF Story, Acc
  <1>3. \A j \in 1 .. n : j - 1 \in 0 .. n /\ j \in 0 .. n /\ a[j] = Then(a[j - 1], g[j])
                          /\ g[j] \in ClientFrame
    <2>1. \A j \in 1 .. n : j - 1 \in 0 .. n /\ j \in 0 .. n
      BY <1>2
    <2>2. \A j \in 1 .. n : a[j] = Then(a[j - 1], g[j]) /\ g[j] \in ClientFrame
      BY <1>1 DEF Story
    <2> QED BY <2>1, <2>2
  <1>4. IsPrefix(a[i].messages, a[i].messages)
    BY <1>1, <1>2, PrefixItself
  <1>5. ASSUME acc.code # 0 PROVE meant = acc
    <2> DEFINE S == {j \in 0 .. n : j >= i => a[j] = a[i]}
    <2>1. 0 \in S
      BY <1>1, <1>2
    <2>2. ASSUME NEW j \in 1 .. n, j - 1 \in S PROVE j \in S
      <3>1. CASE j - 1 >= i
        <4>1. a[j - 1] = a[i] /\ a[j] = Then(a[j - 1], g[j])
          BY <1>3, <2>2, <3>1
        <4>2. Then(a[i], g[j]) = a[i]
          BY <1>1, <1>2, <1>3, <1>5, ThenIs
        <4> QED BY <1>3, <4>1, <4>2
      <3>2. CASE ~(j - 1 >= i)
        <4>1. j >= i => j = i
          BY <1>1, <1>2, <3>2
        <4> QED BY <1>3, <4>1
      <3> QED BY <3>1, <3>2
    <2>3. 0 .. n \subseteq S
      <3> HIDE DEF S
      <3> QED BY <1>2, <2>1, <2>2, StepsTo
    <2>4. n \in 0 .. n /\ n >= i
      BY <1>1, <1>2
    <2>5. a[n] = a[i]
      BY <2>3, <2>4
    <2> QED BY <1>1, <2>5 DEF Story
  <1>6. IsPrefix(acc.messages, meant.messages)
    <2> DEFINE S == {j \in 0 .. n : j >= i => IsPrefix(a[i].messages, a[j].messages)}
    <2>1. 0 \in S
      BY <1>1, <1>2, <1>4
    <2>2. ASSUME NEW j \in 1 .. n, j - 1 \in S PROVE j \in S
      <3>1. CASE j - 1 >= i
        <4>1. IsPrefix(a[i].messages, a[j - 1].messages)
          BY <2>2, <3>1
        <4>2. IsPrefix(a[j - 1].messages, a[j].messages)
          BY <1>2, <1>3, ThenTyped
        <4>3. IsPrefix(a[i].messages, a[j].messages)
          <5>1. /\ a[i].messages \in Seq(Message) /\ a[j - 1].messages \in Seq(Message)
                /\ a[j].messages \in Seq(Message)
            BY <1>1, <1>2, <1>3
          <5> QED BY <4>1, <4>2, <5>1, PrefixOfPrefix
        <4> QED BY <1>3, <4>3
      <3>2. CASE ~(j - 1 >= i)
        <4>1. j >= i => j = i
          BY <1>1, <1>2, <3>2
        <4> QED BY <1>3, <1>4, <4>1
      <3> QED BY <3>1, <3>2
    <2>3. 0 .. n \subseteq S
      <3> HIDE DEF S
      <3> QED BY <1>2, <2>1, <2>2, StepsTo
    <2>4. n \in 0 .. n /\ n >= i
      BY <1>1, <1>2
    <2>5. IsPrefix(a[i].messages, a[n].messages)
      BY <2>3, <2>4
    <2> QED BY <1>1, <2>5 DEF Story
  <1> QED BY <1>5, <1>6

\* At first everything is to come.
LEMMA AheadAtFirst == FramesInit => Ahead(None, wire)
  <1> SUFFICES ASSUME FramesInit PROVE Ahead(None, wire)
    OBVIOUS
  <1>1. PICK frames \in BoundedSeq(ClientFrame, MaxFrames) :
          meant = Meaning(frames) /\ wire = Stream(frames)
    BY DEF FramesInit
  <1>2. PICK n \in Nat : frames \in [1 .. n -> ClientFrame]
    BY WsFramesAssumption, SMT DEF BoundedSeq, SeqOf
  <1>3. PICK a \in [0 .. n -> Acc] :
          /\ a[0] = None /\ \A i \in 1 .. n : a[i] = Then(a[i - 1], frames[i])
          /\ Meaning(frames) = a[n]
    BY <1>2, MeaningRun
  <1>4. PICK r \in [0 .. n -> Seq(Byte)] :
          /\ r[0] = <<>>
          /\ \A j \in 1 .. n : r[j] = Encoded(frames[n - j + 1], n - j + 1) \o r[j - 1]
          /\ Stream(frames) = r[n]
    BY <1>2, StreamRun
  <1> DEFINE b == [i \in 0 .. n |-> r[n - i]]
  <1>5. b \in [0 .. n -> Seq(Byte)] /\ b[n] = <<>> /\ b[0] = r[n]
    <2>1. \A i \in 0 .. n : n - i \in 0 .. n
      OBVIOUS
    <2>2. n \in 0 .. n /\ 0 \in 0 .. n /\ n - n = 0 /\ n - 0 = n
      OBVIOUS
    <2>3. b \in [0 .. n -> Seq(Byte)]
      BY <2>1
    <2>4. b[n] = r[n - n] /\ b[0] = r[n - 0]
      BY <2>2
    <2> QED BY <1>4, <2>2, <2>3, <2>4
  <1>6. ASSUME NEW i \in 1 .. n PROVE b[i - 1] = Encoded(frames[i], i) \o b[i]
    <2> DEFINE j == n - i + 1
    <2>1. /\ j \in 1 .. n /\ n - j + 1 = i /\ j - 1 = n - i /\ n - (i - 1) = j
          /\ i \in 0 .. n /\ i - 1 \in 0 .. n
      OBVIOUS
    <2>2. b[i - 1] = r[n - (i - 1)] /\ b[i] = r[n - i]
      BY <2>1
    <2> HIDE DEF j, b
    <2>3. r[j] = Encoded(frames[n - j + 1], n - j + 1) \o r[j - 1]
      BY <1>4, <2>1
    <2> QED BY <2>1, <2>2, <2>3
  <1> HIDE DEF b
  <1>7. Story(n, frames, a, b)
    BY <1>1, <1>2, <1>3, <1>5, <1>6 DEF Story
  <1>8. 0 \in 0 .. n /\ None = a[0] /\ wire = b[0]
    BY <1>1, <1>3, <1>4, <1>5
  <1> QED BY <1>7, <1>8 DEF Ahead

-----------------------------------------------------------------------------
(* What the headers of the client's frames are read as.                     *)

\* Bytes of x after the first at of them, copied to where they belong.
LEMMA CopiedOn ==
  ASSUME NEW n \in Nat, NEW s \in [1 .. n -> Byte], NEW t \in Seq(Byte), NEW at \in Nat,
         at + Len(t) <= n, NEW x, NEW from \in Nat,
         Follows(s, x, from, at), Follows(t, x, from + at, Len(t))
  PROVE  Follows(Copied(t, s, at), x, from, at + Len(t))
  <1>1. PICK l \in Nat : l = Len(t)
    BY LenProperties
  <1>2. DOMAIN s = 1 .. n /\ DOMAIN t = 1 .. l
    BY <1>1, LenProperties
  <1>3. \A i \in 1 .. n : Copied(t, s, at)[i] = IF i - at \in 1 .. l THEN t[i - at] ELSE s[i]
    BY <1>2 DEF Copied
  <1> SUFFICES ASSUME NEW i \in 1 .. at + l PROVE Copied(t, s, at)[i] = x[from + i]
    BY <1>1 DEF Follows
  <1>4. i \in 1 .. n
    BY <1>1
  <1>5. CASE i <= at
    <2>1. i \in 1 .. at /\ i - at \notin 1 .. l
      BY <1>5
    <2>2. s[i] = x[from + i]
      BY <2>1 DEF Follows
    <2> QED BY <1>3, <1>4, <2>1, <2>2
  <1>6. CASE ~(i <= at)
    <2>1. i - at \in 1 .. l /\ from + at + (i - at) = from + i
      BY <1>6
    <2>2. t[i - at] = x[from + at + (i - at)]
      BY <1>1, <2>1 DEF Follows
    <2>3. Copied(t, s, at)[i] = t[i - at]
      BY <1>3, <1>4, <2>1
    <2> QED BY <2>1, <2>2, <2>3
  <1> QED BY <1>5, <1>6

\* Where size, key and payload of a masked frame are.
LEMMA PartsOf ==
  ASSUME NEW f \in ClientFrame, NEW k \in Nat, f.masked
  PROVE  LET e == Encoded(f, k)
             o == get_masking_key_offset(HeadOf(f))
         IN  /\ o = Len(SizeBytes(f)) /\ get_header_len(HeadOf(f)) = 6 + o
             /\ e \in Seq(Byte) /\ Len(e) = 6 + o + Len(f.payload)
             /\ \A i \in 1 .. 2 : e[i] = HeadOf(f)[i]
             /\ \A i \in 1 .. o : e[2 + i] = SizeBytes(f)[i]
             /\ \A i \in 1 .. 4 : e[2 + o + i] = Key(k)[i]
             /\ \A i \in 1 .. Len(f.payload) : e[6 + o + i] = Veiled(f, k)[i]
  <1> DEFINE h == HeadOf(f)
             l == SizeBytes(f)
             c == Key(k)
             v == Veiled(f, k)
             o == get_masking_key_offset(h)
             e == Encoded(f, k)
  <1>1. PICK n \in Nat : n = Len(f.payload)
    BY SentTyped
  <1>2. /\ h \in Seq(Byte) /\ Len(h) = 2 /\ l \in Seq(Byte) /\ c \in Seq(Byte) /\ Len(c) = 4
        /\ v \in Seq(Byte) /\ Len(v) = n
    BY <1>1, HeadRead, SizeRead, KeyIs, VeiledTyped
  <1>3. o \in Nat /\ o = Len(l) /\ get_header_len(h) = 6 + o
    <2>1. /\ h \in Header /\ get_masked(h) = f.masked
          /\ f.length = 1 => get_basic_size(h) = n
          /\ f.length = 2 => get_basic_size(h) = 126
          /\ f.length = 8 => get_basic_size(h) = 127
      BY <1>1, HeadRead
    <2>2. /\ f.length = 1 => Len(l) = 0
          /\ f.length # 1 => Len(l) = f.length
      BY SizeRead
    <2>3. f.length \in {1, 2, 8} /\ (f.length = 1 => n <= payload_size_basic)
      BY <1>1, SentTyped
    <2>4. /\ get_basic_size(h) \notin {126, 127} => o = 0
          /\ get_basic_size(h) = 126 => o = 2
          /\ get_basic_size(h) = 127 => o = 8
      <3> HIDE DEF h, o
      <3> QED BY <2>1, HeaderTyped DEF o
    <2>5. f.length = 1 => n \notin {126, 127}
      <3>1. PICK p \in Nat : p = payload_size_basic /\ p <= 125
        BY Sizes
      <3>2. n \in Nat
        BY <1>1
      <3> QED BY <2>3, <3>1, <3>2
    <2>6. get_header_len(h) = 2 + o + 4
      BY <2>1 DEF get_header_len
    <2> HIDE DEF o, l, h
    <2>7. o = Len(l) /\ o \in {0, 2, 8}
      <3>1. CASE f.length = 1
        BY <2>1, <2>2, <2>4, <2>5, <3>1
      <3>2. CASE f.length = 2
        BY <2>1, <2>2, <2>4, <3>2
      <3>3. CASE f.length = 8
        BY <2>1, <2>2, <2>4, <3>3
      <3> QED BY <2>3, <3>1, <3>2, <3>3
    <2>8. 2 + o + 4 = 6 + o
      BY <2>7
    <2> QED BY <2>6, <2>7, <2>8
  <1>4. e = ((h \o l) \o c) \o v
    BY EncodedIs
  <1> HIDE DEF h, l, c, v, o, e
  <1> DEFINE a == h \o l
             b == a \o c
  <1>5. /\ a \in Seq(Byte) /\ Len(a) = 2 + o
        /\ \A i \in 1 .. 2 : a[i] = h[i]
        /\ \A i \in 1 .. o : a[2 + i] = l[i]
    <2>1. h \in Seq(Byte) /\ l \in Seq(Byte)
      BY <1>2
    <2>2. /\ a \in Seq(Byte) /\ Len(a) = Len(h) + Len(l)
          /\ \A i \in 1 .. Len(h) : a[i] = h[i]
          /\ \A i \in 1 .. Len(l) : a[Len(h) + i] = l[i]
      BY <2>1, JoinedBytes
    <2> HIDE DEF a
    <2> QED BY <1>2, <1>3, <2>2
  <1> HIDE DEF a
  <1>6. /\ b \in Seq(Byte) /\ Len(b) = 6 + o
        /\ \A i \in 1 .. 2 : b[i] = h[i]
        /\ \A i \in 1 .. o : b[2 + i] = l[i]
        /\ \A i \in 1 .. 4 : b[2 + o + i] = c[i]
    <2>1. /\ b \in Seq(Byte) /\ Len(b) = 2 + o + 4
          /\ \A i \in 1 .. 2 + o : b[i] = a[i]
          /\ \A i \in 1 .. 4 : b[2 + o + i] = c[i]
      <3>1. a \in Seq(Byte) /\ c \in Seq(Byte)
        BY <1>2, <1>5
      <3>2. /\ b \in Seq(Byte) /\ Len(b) = Len(a) + Len(c)
            /\ \A i \in 1 .. Len(a) : b[i] = a[i]
            /\ \A i \in 1 .. Len(c) : b[Len(a) + i] = c[i]
        BY <3>1, JoinedBytes
      <3> HIDE DEF b
      <3> QED BY <1>2, <1>5, <3>2
    <2>2. /\ \A i \in 1 .. 2 : i \in 1 .. 2 + o
          /\ \A i \in 1 .. o : 2 + i \in 1 .. 2 + o
          /\ 2 + o + 4 = 6 + o
      BY <1>3
    <2> HIDE DEF b
    <2> QED BY <1>5, <2>1, <2>2
  <1> HIDE DEF b
  <1>7. /\ e \in Seq(Byte) /\ Len(e) = 6 + o + n
        /\ \A i \in 1 .. 6 + o : e[i] = b[i]
        /\ \A i \in 1 .. n : e[6 + o + i] = v[i]
    <2>1. b \in Seq(Byte) /\ v \in Seq(Byte) /\ e = b \o v
      BY <1>2, <1>4, <1>6 DEF a, b
    <2>2. /\ b \o v \in Seq(Byte) /\ Len(b \o v) = Len(b) + Len(v)
          /\ \A i \in 1 .. Len(b) : (b \o v)[i] = b[i]
          /\ \A i \in 1 .. Len(v) : (b \o v)[Len(b) + i] = v[i]
      BY <2>1, JoinedBytes
    <2> QED BY <1>2, <1>6, <2>1, <2>2
  <1>8. /\ \A i \in 1 .. 2 : i \in 1 .. 6 + o
        /\ \A i \in 1 .. o : 2 + i \in 1 .. 6 + o
        /\ \A i \in 1 .. 4 : 2 + o + i \in 1 .. 6 + o
    BY <1>3
  <1>9. /\ \A i \in 1 .. 2 : e[i] = h[i]
        /\ \A i \in 1 .. o : e[2 + i] = l[i]
        /\ \A i \in 1 .. 4 : e[2 + o + i] = c[i]
    BY <1>6, <1>7, <1>8
  <1> QED BY <1>1, <1>3, <1>7, <1>9 DEF h, l, c, v, o, e

\* The header of a frame is refused exactly if the frame is broken.
LEMMA BrokenRefused ==
  ASSUME NEW acc \in Acc, NEW f \in ClientFrame
  PROVE  validate_incoming_basic_header(HeadOf(f), acc.partial = <<>>) <=> ~Broken(acc, f)
  <1> DEFINE h == HeadOf(f)
             new == acc.partial = <<>>
  <1>1. PICK op \in 0 .. 15, r \in 0 .. 7 : op = f.opcode /\ r = f.rsv
    BY SentTyped
  <1>2. /\ get_opcode(h) = op /\ get_rsv(h) = r /\ get_fin(h) = f.fin
        /\ get_masked(h) = f.masked
    BY <1>1, HeadRead
  <1>3. get_basic_size(h) <= payload_size_basic <=> f.length = 1
    <2>1. PICK n \in Nat : n = Len(f.payload)
      BY SentTyped
    <2>2. CASE f.length = 1
      <3>1. get_basic_size(h) = n /\ n <= payload_size_basic
        BY <2>1, <2>2, HeadRead, SentTyped
      <3> QED BY <2>2, <3>1
    <2>3. CASE f.length = 2
      <3>1. get_basic_size(h) = 126
        BY <2>3, HeadRead
      <3>2. ~(126 <= payload_size_basic)
        BY Sizes
      <3> QED BY <2>3, <3>1, <3>2
    <2>4. CASE f.length = 8
      <3>1. get_basic_size(h) = 127
        BY <2>4, HeadRead
      <3>2. ~(127 <= payload_size_basic)
        BY Sizes
      <3> QED BY <2>4, <3>1, <3>2
    <2> QED BY <2>2, <2>3, <2>4, SentTyped
  <1>4. f.fin \in BOOLEAN /\ f.masked \in BOOLEAN
    BY SentTyped
  <1> HIDE DEF h, new
  <1>5. /\ reserved(op) <=> op \notin {0, 1, 2, 8, 9, 10}
        /\ is_control(op) => op # 0
    BY DEF reserved, is_control
  <1>6. validate_incoming_basic_header(h, new) <=>
          /\ is_control(op) => (f.length = 1 /\ f.fin)
          /\ r = 0 /\ ~reserved(op)
          /\ new => op # 0
          /\ ~new => is_control(op) \/ op = 0
          /\ f.masked
    BY <1>2, <1>3 DEF validate_incoming_basic_header, CONTINUATION
  <1>7. Broken(acc, f) <=>
          \/ op \notin {0, 1, 2, 8, 9, 10}
          \/ r # 0 \/ ~f.masked
          \/ is_control(op) /\ (~f.fin \/ f.length # 1)
          \/ ~is_control(op) /\ (op = 0 <=> new)
    BY <1>1 DEF Broken, new, CONTINUATION, TEXT, BINARY, CLOSE, PING, PONG
  <1> HIDE DEF new
  <1>8. validate_incoming_basic_header(h, new) <=> ~Broken(acc, f)
    BY <1>4, <1>5, <1>6, <1>7
  <1> QED BY <1>8 DEF h, new

\* Size and key come out as they went in.
LEMMA ExtendedRead ==
  ASSUME NEW f \in ClientFrame, NEW k \in Nat, f.masked, NEW e \in Extension,
         \A i \in 1 .. get_header_len(HeadOf(f)) - 2 : e[i] = Encoded(f, k)[2 + i]
  PROVE  /\ get_payload_size(HeadOf(f), e) = Len(f.payload)
         /\ get_masking_key(HeadOf(f), e) = Key(k)
         /\ validate_incoming_extended_header(HeadOf(f), e) <=> Shortest(f)
  <1> DEFINE h == HeadOf(f)
             l == SizeBytes(f)
             c == Key(k)
             o == get_masking_key_offset(h)
             en == Encoded(f, k)
  <1>1. PICK n \in Nat : n = Len(f.payload)
    BY SentTyped
  <1>2. /\ o = Len(l) /\ get_header_len(h) - 2 = 4 + o /\ o \in {0, 2, 8}
        /\ \A i \in 1 .. o : en[2 + i] = l[i]
        /\ \A i \in 1 .. 4 : en[2 + o + i] = c[i]
    <2>1. o \in {0, 2, 8}
      BY HeadRead, HeaderTyped
    <2>2. /\ o = Len(l) /\ get_header_len(h) = 6 + o
          /\ \A i \in 1 .. o : en[2 + i] = l[i]
          /\ \A i \in 1 .. 4 : en[2 + o + i] = c[i]
      BY PartsOf
    <2> HIDE DEF o, l, en, c, h
    <2>3. get_header_len(h) - 2 = 4 + o
      BY <2>1, <2>2
    <2> QED BY <2>1, <2>2, <2>3
  <1>3. l \in Seq(Byte) /\ c \in Seq(Byte) /\ Len(c) = 4 /\ h \in Header
    BY SizeRead, KeyIs, HeadRead
  <1>4. /\ f.length \in {1, 2, 8}
        /\ f.length = 1 => o = 0 /\ get_basic_size(h) = n /\ n <= payload_size_basic
        /\ f.length = 2 => /\ o = 2 /\ get_basic_size(h) = 126 /\ Number(l) = n
                           /\ n <= payload_size_extended
        /\ f.length = 8 => o = 8 /\ get_basic_size(h) = 127 /\ Number(l) = n
    <2>1. /\ f.length \in {1, 2, 8}
          /\ f.length = 1 => get_basic_size(h) = n /\ n <= payload_size_basic
          /\ f.length = 2 => get_basic_size(h) = 126 /\ n <= payload_size_extended
          /\ f.length = 8 => get_basic_size(h) = 127
      BY <1>1, HeadRead, SentTyped
    <2>2. /\ f.length = 1 => Len(l) = 0
          /\ f.length # 1 => Len(l) = f.length /\ Number(l) = n
      BY <1>1, SizeRead
    <2> HIDE DEF o, l, h
    <2>3. o = Len(l)
      BY <1>2
    <2> QED BY <2>1, <2>2, <2>3
  <1>5. \A i \in 1 .. 4 + o : e[i] = en[2 + i]
    BY <1>2
  <1>6. get_masking_key(h, e) \in Seq(Byte) /\ Len(get_masking_key(h, e)) = 4
        /\ \A i \in 1 .. 4 : get_masking_key(h, e)[i] = e[o + i]
    BY <1>3, KeyTyped
  <1> HIDE DEF h, l, c, o, en
  <1>7. get_masking_key(h, e) = c
    <2> DEFINE g == get_masking_key(h, e)
    <2>1. \A i \in 1 .. 4 : o + i \in 1 .. 4 + o /\ 2 + (o + i) = 2 + o + i
      BY <1>2
    <2>2. ASSUME NEW i \in 1 .. 4 PROVE g[i] = c[i]
      <3>1. g[i] = e[o + i]
        BY <1>6
      <3>2. o + i \in 1 .. 4 + o /\ 2 + (o + i) = 2 + o + i
        BY <2>1
      <3>3. e[o + i] = en[2 + (o + i)]
        BY <1>5, <3>2
      <3>4. en[2 + o + i] = c[i]
        BY <1>2
      <3> QED BY <3>1, <3>2, <3>3, <3>4
    <2>3. g \in Seq(Byte) /\ Len(g) = 4
      BY <1>6
    <2> HIDE DEF g
    <2>4. g = c
      BY <1>3, <2>2, <2>3, SeqEqual
    <2> QED BY <2>4 DEF g
  <1>8. o # 0 => Take(e, o) = l
    <2> SUFFICES ASSUME o \in {2, 8} PROVE Take(e, o) = l
      BY <1>2
    <2> DEFINE m == 12
    <2>1. e \in [1 .. m -> Byte] /\ m \in Nat
      BY DEF Extension
    <2>2. o \in Nat /\ o <= m
      OBVIOUS
    <2> HIDE DEF m
    <2>3. e \in Seq(Byte) /\ Len(e) = m
      BY <2>1, FunIsSeq
    <2>4. o <= Len(e)
      BY <2>2, <2>3
    <2> DEFINE t == Take(e, o)
    <2>5. t \in Seq(Byte) /\ Len(t) = o /\ \A i \in 1 .. o : t[i] = e[i]
      BY <2>2, <2>3, <2>4, Taking
    <2>6. \A i \in 1 .. o : i \in 1 .. 4 + o
      BY <2>2
    <2>7. \A i \in 1 .. o : t[i] = l[i]
      BY <1>2, <1>5, <2>5, <2>6
    <2> HIDE DEF t
    <2>8. Len(l) = o
      BY <1>2
    <2>9. t = l
      BY <1>3, <2>5, <2>7, <2>8, SeqEqual
    <2> QED BY <2>9 DEF t
  <1>9. get_payload_size(h, e) = n
    <2>1. CASE f.length = 1
      <3>1. get_basic_size(h) <= payload_size_basic /\ get_basic_size(h) = n
        BY <1>4, <2>1
      <3>2. get_basic_size(h) # 126
        <4>1. PICK p \in Nat : p = payload_size_basic /\ p <= 125
          BY Sizes
        <4>2. n <= p
          BY <3>1, <4>1
        <4>3. n # 126
          BY <4>1, <4>2
        <4> QED BY <3>1, <4>3
      <3> QED BY <3>1, <3>2 DEF get_payload_size, payload_size_code_16bit
    <2>2. CASE f.length = 2
      <3>1. get_basic_size(h) = 126 /\ ~(126 <= payload_size_basic) /\ Number(Take(e, 2)) = n
        BY <1>4, <1>8, <2>2, Sizes
      <3> QED BY <3>1 DEF get_payload_size, payload_size_code_16bit
    <2>3. CASE f.length = 8
      <3>1. get_basic_size(h) = 127 /\ ~(127 <= payload_size_basic) /\ Number(Take(e, 8)) = n
        BY <1>4, <1>8, <2>3, Sizes
      <3> QED BY <3>1 DEF get_payload_size, payload_size_code_16bit
    <2> QED BY <1>4, <2>1, <2>2, <2>3
  <1>10. validate_incoming_extended_header(h, e) <=> Shortest(f)
    <2>1. PICK p \in Nat, q \in Nat : p = payload_size_basic /\ q = payload_size_extended
                                       /\ p < q /\ p <= 125
      BY Sizes
    <2>2. Shortest(f) <=> f.length = IF n <= p THEN 1 ELSE IF n <= q THEN 2 ELSE 8
      BY <1>1, <2>1 DEF Shortest
    <2>3. validate_incoming_extended_header(h, e) <=>
            /\ get_basic_size(h) = 126 => n > p
            /\ get_basic_size(h) = 127 => n > q
      BY <1>9, <2>1 DEF validate_incoming_extended_header, payload_size_code_16bit,
         payload_size_code_64bit
    <2>4. CASE f.length = 1
      BY <1>4, <2>1, <2>2, <2>3, <2>4
    <2>5. CASE f.length = 2
      BY <1>4, <2>1, <2>2, <2>3, <2>5
    <2>6. CASE f.length = 8
      BY <1>4, <2>1, <2>2, <2>3, <2>6
    <2> QED BY <1>4, <2>4, <2>5, <2>6
  <1> QED BY <1>1, <1>7, <1>9, <1>10 DEF h, c

-----------------------------------------------------------------------------
(* What the payloads of the client's frames are read as.                    *)

\* What was rejected stays rejected.
LEMMA Sunk == \A s \in Seq(Byte) : decode(1, s) = 1
  <1> SUFFICES ASSUME NEW s \in Seq(Byte) PROVE decode(1, s) = 1
    OBVIOUS
  <1>1. 1 \in 0 .. 8
    OBVIOUS
  <1>2. PICK v : Runs(1, s, v)
    BY <1>1, SomeRun
  <1>3. PICK n \in Nat : n = Len(s)
    BY LenProperties
  <1> DEFINE S == {i \in 0 .. n : v[i] = 1}
  <1>4. 0 \in S
    BY <1>2 DEF Runs
  <1>5. ASSUME NEW i \in 1 .. n, i - 1 \in S PROVE i \in S
    <2>1. v[i] = Moved(v[i - 1], s[i]) /\ s[i] \in Byte
      BY <1>2, <1>3, RunMoves
    <2>2. v[i - 1] = 1 /\ 1 \in States
      BY <1>5 DEF States
    <2>3. Moved(1, s[i]) = 1
      BY <2>1, <2>2, TableBack
    <2> QED BY <2>1, <2>2, <2>3
  <1>6. 0 .. n \subseteq S
    <2> HIDE DEF S
    <2> QED BY <1>4, <1>5, StepsTo
  <1>7. n \in 0 .. n
    OBVIOUS
  <1>8. v[n] = 1
    BY <1>6, <1>7
  <1>9. decode(1, s) = v[Len(s)]
    BY <1>1, <1>2, Decoded
  <1> QED BY <1>3, <1>8, <1>9

\* Whatever follows what was rejected is rejected with it.
LEMMA SunkOn ==
  ASSUME NEW a \in Seq(Byte), NEW b \in Seq(Byte), decode(0, a) = 1
  PROVE  decode(0, a \o b) = 1
  <1>1. decode(0, a \o b) = decode(decode(0, a), b)
    BY DecodeConcat
  <1> QED BY <1>1, Sunk

\* The key of four bytes fills the word of eight twice.
LEMMA TurnedTwice == \A r \in Nat, x \in Nat : (r + (x % 8)) % 4 = (r + x) % 4
  OBVIOUS

\* The key, turned to where the payload is after r bytes.
KeyAt(key, k, r) == \A i \in 1 .. 8 : key[i] = Key(k)[((r + (i - 1)) % 4) + 1]

\* A piece of the payload, unmasked, and the key for the next one.
LEMMA PieceRead ==
  ASSUME NEW f \in ClientFrame, NEW k \in Nat, NEW key \in WordKey, NEW r \in Nat, NEW t \in Nat,
         r + t <= Len(f.payload), NEW s \in Seq(Byte), Len(s) = t,
         KeyAt(key, k, r), Follows(s, Veiled(f, k), r, t)
  PROVE  /\ Follows(word_mask(s, key), f.payload, r, t)
         /\ KeyAt(word_mask_circ(key, t), k, r + t)
  <1>1. ASSUME NEW x \in Nat PROVE key[(x % 8) + 1] = Key(k)[((r + x) % 4) + 1]
    <2>1. PICK y \in 1 .. 8 : y = (x % 8) + 1
      OBVIOUS
    <2>2. (r + (x % 8)) % 4 = (r + x) % 4
      BY TurnedTwice
    <2>3. y - 1 = x % 8
      BY <2>1
    <2>4. key[y] = Key(k)[((r + (y - 1)) % 4) + 1]
      BY DEF KeyAt
    <2> QED BY <2>1, <2>2, <2>3, <2>4
  <1>2. ASSUME NEW i \in 1 .. t PROVE word_mask(s, key)[i] = f.payload[r + i]
    <2>1. word_mask(s, key)[i] = Xor(s[i], key[((i - 1) % 8) + 1])
      BY Unmasked
    <2>2. i - 1 \in Nat /\ r + (i - 1) = (r + i) - 1
      OBVIOUS
    <2>3. key[((i - 1) % 8) + 1] = Key(k)[((r + (i - 1)) % 4) + 1]
      BY <1>1, <2>2
    <2> DEFINE c == Key(k)[((r + (i - 1)) % 4) + 1]
    <2>4. r + i \in 1 .. Len(f.payload) /\ f.payload[r + i] \in Byte
      <3>1. PICK n \in Nat : n = Len(f.payload)
        BY SentTyped
      <3>2. r + i \in 1 .. n
        BY <3>1
      <3> QED BY <3>1, <3>2, SentTyped, LenProperties
    <2>5. s[i] = Xor(f.payload[r + i], c)
      <3>1. s[i] = Veiled(f, k)[r + i]
        BY DEF Follows
      <3> QED BY <2>2, <2>4, <3>1 DEF Veiled
    <2>6. c \in Byte
      <3>1. ((r + (i - 1)) % 4) + 1 \in 1 .. 4
        BY <2>2
      <3> QED BY <3>1, KeyIs, LenProperties
    <2> HIDE DEF c
    <2>7. Xor(Xor(f.payload[r + i], c), c) = f.payload[r + i]
      BY <2>4, <2>6, XorTwice
    <2> QED BY <2>1, <2>3, <2>5, <2>7 DEF c
  <1>3. ASSUME NEW i \in 1 .. 8
        PROVE  word_mask_circ(key, t)[i] = Key(k)[(((r + t) + (i - 1)) % 4) + 1]
    <2>1. word_mask_circ(key, t)[i] = key[((i - 1 + t) % 8) + 1]
      BY Turned
    <2>2. i - 1 + t \in Nat /\ r + (i - 1 + t) = (r + t) + (i - 1)
      OBVIOUS
    <2>3. key[((i - 1 + t) % 8) + 1] = Key(k)[((r + (i - 1 + t)) % 4) + 1]
      BY <1>1, <2>2
    <2> QED BY <2>1, <2>2, <2>3
  <1> QED BY <1>2, <1>3 DEF Follows, KeyAt

\* The message of a frame, up to the first r bytes of the frame.
Base(acc, f)     == IF f.opcode = CONTINUATION THEN acc.partial[1].payload ELSE <<>>
SoFar(acc, f, r) == Base(acc, f) \o Take(f.payload, r)

\* What is there so far, and the rest of the frame, are the whole message.
LEMMA SoFarTyped ==
  ASSUME NEW acc \in Acc, NEW f \in ClientFrame, ~Broken(acc, f), NEW r \in Nat,
         r <= Len(f.payload)
  PROVE  /\ Base(acc, f) \in Seq(Byte) /\ Take(f.payload, r) \in Seq(Byte)
         /\ SoFar(acc, f, r) \in Seq(Byte)
         /\ Len(SoFar(acc, f, r)) = Len(Base(acc, f)) + r
         /\ SoFar(acc, f, r) \o Drop(f.payload, r) = Whole(acc, f).payload
         /\ Drop(f.payload, r) \in Seq(Byte)
  <1>1. Base(acc, f) \in Seq(Byte) /\ Whole(acc, f).payload = Base(acc, f) \o f.payload
    <2>1. CASE f.opcode = CONTINUATION
      <3>1. /\ acc.partial[1].payload \in Seq(Byte)
            /\ Whole(acc, f).payload = acc.partial[1].payload \o f.payload
        BY <2>1, WholeTyped DEF Message
      <3> QED BY <2>1, <3>1 DEF Base
    <2>2. CASE f.opcode # CONTINUATION
      <3>1. Whole(acc, f).payload = f.payload /\ Base(acc, f) = <<>> /\ <<>> \in Seq(Byte)
        BY <2>2, WholeTyped, EmptySeq DEF Base
      <3>2. <<>> \o f.payload = f.payload
        BY SentTyped, WithNothing
      <3> QED BY <3>1, <3>2
    <2> QED BY <2>1, <2>2
  <1> DEFINE b == Base(acc, f)
             t == Take(f.payload, r)
             d == Drop(f.payload, r)
  <1>2. /\ t \in Seq(Byte) /\ Len(t) = r /\ d \in Seq(Byte) /\ t \o d = f.payload
    <2>1. f.payload \in Seq(Byte)
      BY SentTyped
    <2> QED BY <2>1, Taking, Dropping, TakenDropped
  <1>3. b \in Seq(Byte) /\ Whole(acc, f).payload = b \o f.payload
    BY <1>1
  <1>4. SoFar(acc, f, r) = b \o t
    BY DEF SoFar
  <1> HIDE DEF b, t, d
  <1>5. b \o t \in Seq(Byte) /\ Len(b \o t) = Len(b) + r
    BY <1>2, <1>3, JoinedBytes
  <1>6. (b \o t) \o d = b \o (t \o d)
    <2>1. b \in Seq(Byte) /\ t \in Seq(Byte) /\ d \in Seq(Byte)
      BY <1>2, <1>3
    <2> QED BY <2>1, Together, ZenonT(60)
  <1> QED BY <1>2, <1>3, <1>4, <1>5, <1>6 DEF b, t, d

\* Nothing of the frame, and all of it.
LEMMA SoFarEnds ==
  ASSUME NEW acc \in Acc, NEW f \in ClientFrame, ~Broken(acc, f)
  PROVE  /\ SoFar(acc, f, 0) = Base(acc, f)
         /\ SoFar(acc, f, Len(f.payload)) = Whole(acc, f).payload
  <1>1. PICK n \in Nat : n = Len(f.payload)
    BY SentTyped
  <1>2. 0 \in Nat /\ 0 <= n /\ n <= n /\ f.payload \in Seq(Byte)
    BY SentTyped
  <1>3. Take(f.payload, 0) = <<>>
    <2>1. Take(f.payload, 0) \in Seq(Byte) /\ Len(Take(f.payload, 0)) = 0
      BY <1>1, <1>2, Taking
    <2> QED BY <2>1, EmptySeq
  <1>4. SoFar(acc, f, 0) = Base(acc, f)
    <2>1. Base(acc, f) \in Seq(Byte)
      BY <1>1, <1>2, SoFarTyped
    <2>2. Base(acc, f) \o <<>> = Base(acc, f)
      BY <2>1, WithNothing
    <2> QED BY <1>3, <2>2 DEF SoFar
  <1>5. Drop(f.payload, n) = <<>>
    <2>1. Drop(f.payload, n) \in Seq(Byte) /\ Len(Drop(f.payload, n)) = n - n
      BY <1>1, <1>2, Dropping
    <2>2. n - n = 0
      OBVIOUS
    <2> QED BY <2>1, <2>2, EmptySeq
  <1>6. SoFar(acc, f, n) \o <<>> = Whole(acc, f).payload /\ SoFar(acc, f, n) \in Seq(Byte)
    BY <1>1, <1>2, <1>5, SoFarTyped
  <1>7. SoFar(acc, f, n) = Whole(acc, f).payload
    BY <1>6, WithNothing
  <1> QED BY <1>1, <1>4, <1>7

\* The next piece of the payload.
LEMMA SoFarGrows ==
  ASSUME NEW acc \in Acc, NEW f \in ClientFrame, ~Broken(acc, f), NEW r \in Nat, NEW t \in Nat,
         r + t <= Len(f.payload), NEW p \in Seq(Byte), Len(p) = t,
         Follows(p, f.payload, r, t)
  PROVE  SoFar(acc, f, r) \o p = SoFar(acc, f, r + t)
  <1>1. PICK n \in Nat : n = Len(f.payload)
    BY SentTyped
  <1>2. r <= n /\ r + t \in Nat /\ r + t <= n /\ f.payload \in Seq(Byte)
    BY <1>1, SentTyped
  <1> DEFINE b == Base(acc, f)
             x == Take(f.payload, r)
             y == Take(f.payload, r + t)
  <1>3. /\ x \in Seq(Byte) /\ Len(x) = r /\ \A i \in 1 .. r : x[i] = f.payload[i]
    BY <1>1, <1>2, Taking
  <1>4. /\ y \in Seq(Byte) /\ Len(y) = r + t /\ \A i \in 1 .. r + t : y[i] = f.payload[i]
    BY <1>1, <1>2, Taking
  <1>5. b \in Seq(Byte)
    BY <1>1, <1>2, SoFarTyped
  <1>6. SoFar(acc, f, r) = b \o x /\ SoFar(acc, f, r + t) = b \o y
    BY DEF SoFar
  <1> HIDE DEF b, x, y
  <1>7. x \o p = y
    <2>1. /\ x \o p \in Seq(Byte) /\ Len(x \o p) = r + t
          /\ \A i \in 1 .. r : (x \o p)[i] = x[i]
          /\ \A i \in 1 .. t : (x \o p)[r + i] = p[i]
      BY <1>3, JoinedBytes
    <2>2. ASSUME NEW i \in 1 .. r + t PROVE (x \o p)[i] = y[i]
      <3>1. CASE i <= r
        <4>1. i \in 1 .. r
          BY <3>1
        <4> QED BY <1>3, <1>4, <2>1, <4>1
      <3>2. CASE ~(i <= r)
        <4>1. i - r \in 1 .. t /\ r + (i - r) = i
          BY <3>2
        <4>2. (x \o p)[r + (i - r)] = p[i - r] /\ p[i - r] = f.payload[r + (i - r)]
          BY <2>1, <4>1 DEF Follows
        <4> QED BY <1>4, <4>1, <4>2
      <3> QED BY <3>1, <3>2
    <2> DEFINE z == x \o p
    <2>3. z \in Seq(Byte) /\ Len(z) = Len(y) /\ \A i \in 1 .. Len(z) : z[i] = y[i]
      BY <1>4, <2>1, <2>2
    <2> HIDE DEF z
    <2>4. z = y
      BY <1>4, <2>3, SeqEqual
    <2> QED BY <2>4 DEF z
  <1>8. (b \o x) \o p = b \o (x \o p)
    <2>1. b \in Seq(Byte) /\ x \in Seq(Byte) /\ p \in Seq(Byte)
      BY <1>3, <1>5
    <2> QED BY <2>1, Together, ZenonT(60)
  <1> QED BY <1>6, <1>7, <1>8

\* Text that was rejected on the way is bad text.
LEMMA SunkBad ==
  ASSUME NEW acc \in Acc, NEW f \in ClientFrame, ~Broken(acc, f), NEW r \in Nat,
         r <= Len(f.payload), ~is_control(f.opcode), Whole(acc, f).opcode = TEXT,
         decode(0, SoFar(acc, f, r)) = 1
  PROVE  ~Textual(acc, f)
  <1>1. decode(0, Whole(acc, f).payload) = 1
    <2>1. /\ SoFar(acc, f, r) \in Seq(Byte) /\ Drop(f.payload, r) \in Seq(Byte)
          /\ SoFar(acc, f, r) \o Drop(f.payload, r) = Whole(acc, f).payload
      BY SoFarTyped
    <2>2. decode(0, SoFar(acc, f, r) \o Drop(f.payload, r)) = 1
      BY <2>1, SunkOn
    <2> QED BY <2>1, <2>2
  <1>2. Whole(acc, f).payload \in Seq(Byte)
    BY WholeTyped DEF Message
  <1>3. ~BeginsUtf8(Whole(acc, f).payload)
    BY <1>1, <1>2, NotRejected
  <1> QED BY <1>3 DEF Textual, BadText

\* At the end of a frame nothing else can be wrong with text.
LEMMA EndBad ==
  ASSUME NEW acc \in Acc, NEW f \in ClientFrame, ~Broken(acc, f), ~is_control(f.opcode),
         Whole(acc, f).opcode = TEXT => decode(0, Whole(acc, f).payload) # 1
  PROVE  Textual(acc, f) <=> ~(f.opcode = TEXT /\ f.fin /\ decode(0, Whole(acc, f).payload) # 0)
  <1>1. Whole(acc, f).payload \in Seq(Byte)
    BY WholeTyped DEF Message
  <1>2. Whole(acc, f).opcode = TEXT => BeginsUtf8(Whole(acc, f).payload)
    BY <1>1, NotRejected
  <1>3. f.opcode = TEXT => Whole(acc, f).payload = f.payload /\ Whole(acc, f).opcode = TEXT
    <2>1. TEXT # CONTINUATION
      BY DEF TEXT, CONTINUATION
    <2>2. f.opcode # CONTINUATION =>
            Whole(acc, f).opcode = f.opcode /\ Whole(acc, f).payload = f.payload
      BY WholeTyped
    <2> QED BY <2>1, <2>2
  <1>4. f.opcode = TEXT => (IsUtf8(f.payload) <=> decode(0, Whole(acc, f).payload) = 0)
    <2>1. \A s \in Seq(Byte) : IsUtf8(s) <=> decode(0, s) = 0
      BY Utf8Validated DEF validate, utf8_accept
    <2> QED BY <1>1, <1>3, <2>1
  <1> QED BY <1>2, <1>3, <1>4 DEF Textual, BadText

-----------------------------------------------------------------------------
(* Where reading is in what the client sent.                                *)

\* The frames that were read amount to acc, and that was acted on.
Keeps(acc) ==
  /\ acc \in Acc /\ acc.code = 0
  /\ delivered = acc.messages
  /\ acc.closed <=> m_state # "open"
  /\ m_state # "open" => m_state = "closing" /\ m_was_clean

\* What text was decoded to so far.
Decodes(m) == m.utf8 = (IF m.opcode = TEXT THEN decode(0, m.payload) ELSE 0) /\ m.utf8 # 1

\* The message begun.
Partly(acc) ==
  /\ acc.partial = <<>> <=> m_data_msg = NoMsg
  /\ acc.partial # <<>> =>
       /\ m_data_msg.opcode = acc.partial[1].opcode
       /\ m_data_msg.payload = acc.partial[1].payload
       /\ Decodes(m_data_msg)

\* Between two frames.
AtFrame(acc) ==
  /\ Keeps(acc) /\ Partly(acc)
  /\ m_parse = "HEADER_BASIC" /\ m_bytes_needed = 2
  /\ Ahead(acc, m_buf \o wire)

\* In the frame f: done of its bytes was consumed.
InFrame(acc, f, k, later, done) ==
  /\ Keeps(acc)
  /\ f \in ClientFrame /\ k \in Nat /\ later \in Seq(Byte) /\ done \in Seq(Byte)
  /\ done \o (m_buf \o wire) = Encoded(f, k) \o later
  /\ Ahead(Then(acc, f), later)

InBasic(acc, f, k, done) ==
  /\ m_parse = "HEADER_BASIC" /\ Partly(acc)
  /\ Len(done) = 2 - m_bytes_needed
  /\ \A i \in 1 .. 2 - m_bytes_needed : m_basic_header[i] = Encoded(f, k)[i]

InExtended(acc, f, k, done) ==
  /\ m_parse = "HEADER_EXTENDED" /\ Partly(acc) /\ ~Broken(acc, f)
  /\ m_basic_header = HeadOf(f)
  /\ Len(done) = 2 + m_cursor
  /\ \A i \in 1 .. m_cursor : m_extended_header[i] = Encoded(f, k)[2 + i]

\* The message with r bytes of the payload of f.
Holds(m, acc, f, k, r) ==
  /\ m.opcode = Whole(acc, f).opcode /\ m.payload = SoFar(acc, f, r) /\ Decodes(m)
  /\ KeyAt(m.prepared_key, k, r)

InPayload(acc, f, k, done, r) ==
  /\ m_parse \in {"APPLICATION", "READY"}
  /\ ~Broken(acc, f) /\ Shortest(f) /\ Small(acc, f)
  /\ m_basic_header = HeadOf(f)
  /\ r \in Nat /\ r + m_bytes_needed = Len(f.payload)
  /\ Len(done) + m_bytes_needed = Len(Encoded(f, k))
  /\ m_current_msg = IF is_control(f.opcode) THEN "control" ELSE "data"
  /\ Holds(Current, acc, f, k, r)
  /\ is_control(f.opcode) => Partly(acc)
  /\ m_parse = "READY" =>
       m_bytes_needed = 0 /\ (is_control(f.opcode) \/ f.fin) /\ Textual(acc, f)

Somewhere ==
  \/ \E acc : AtFrame(acc)
  \/ \E acc, f, k, later, done :
       /\ InFrame(acc, f, k, later, done)
       /\ \/ InBasic(acc, f, k, done) \/ InExtended(acc, f, k, done)
          \/ \E r : InPayload(acc, f, k, done, r)

Ended ==
  /\ delivered = meant.messages /\ meant.code # 0
  /\ meant.closed \/ prepared.asked = [opcode |-> CLOSE, payload |-> Bytes(meant.code, 2) \o Reason]

SentInv ==
  /\ pc = "read" => m_buf = <<>> /\ m_bytes_needed # 0 /\ m_parse # "READY"
  /\ pc = "stopped" => Ended
  /\ pc # "stopped" => Somewhere

\* At first reading is before the first frame.
LEMMA SentAtFirst == FramesInit => SentInv
  <1> SUFFICES ASSUME FramesInit PROVE SentInv
    OBVIOUS
  <1>1. /\ m_buf = <<>> /\ m_parse = "HEADER_BASIC" /\ m_bytes_needed = 2
        /\ m_data_msg = NoMsg /\ m_state = "open" /\ pc = "read" /\ delivered = <<>>
    BY DEF FramesInit
  <1>2. Keeps(None)
    BY <1>1, NoneTyped DEF Keeps
  <1>3. Partly(None)
    BY <1>1, NoneTyped DEF Partly
  <1>4. Ahead(None, m_buf \o wire)
    <2>1. FramesTypeOK
      BY FramesInitially DEF FramesInv
    <2>2. <<>> \o wire = wire
      BY <2>1, WithNothing DEF FramesTypeOK
    <2> QED BY <1>1, <2>2, AheadAtFirst
  <1>5. AtFrame(None)
    BY <1>1, <1>2, <1>3, <1>4 DEF AtFrame
  <1> QED BY <1>1, <1>5 DEF SentInv, Somewhere

\* What is to come depends on what was meant only.
LEMMA AheadStays ==
  ASSUME NEW acc, NEW s, Ahead(acc, s), UNCHANGED meant PROVE Ahead(acc, s)'
  <1>1. PICK n, g, a, b, i : Story(n, g, a, b) /\ i \in 0 .. n /\ acc = a[i] /\ s = b[i]
    BY DEF Ahead
  <1>2. Story(n, g, a, b)'
    BY <1>1 DEF Story
  <1> QED BY <1>1, <1>2 DEF Ahead

\* The rest of the state of the parser.
LEMMA KeepsStays ==
  ASSUME NEW acc, Keeps(acc), UNCHANGED conVars PROVE Keeps(acc)'
  BY DEF Keeps, conVars

\* The message begun changes with its state only.
LEMMA PartlyStays ==
  ASSUME NEW acc, Partly(acc), UNCHANGED m_data_msg PROVE Partly(acc)'
  BY DEF Partly, Decodes

\* Bytes that move from the wire to the buffer change nothing.
LEMMA SomewhereStays ==
  ASSUME Somewhere, m_buf' \o wire' = m_buf \o wire,
         UNCHANGED <<meant, m_parse, m_bytes_needed, headerVars, msgVars, conVars>>
  PROVE  Somewhere'
  <1> USE DEF headerVars, msgVars, conVars
  <1>1. ASSUME NEW acc, AtFrame(acc) PROVE Somewhere'
    <2>1. Keeps(acc)' /\ Partly(acc)'
      BY <1>1, KeepsStays, PartlyStays DEF AtFrame
    <2>2. PICK s : s = m_buf \o wire /\ Ahead(acc, s)
      BY <1>1 DEF AtFrame
    <2>3. Ahead(acc, s)' /\ s = (m_buf \o wire)'
      BY <2>2, AheadStays
    <2>4. AtFrame(acc)'
      BY <1>1, <2>1, <2>3 DEF AtFrame
    <2> QED BY <2>4 DEF Somewhere
  <1>2. ASSUME NEW acc, NEW f, NEW k, NEW later, NEW done, InFrame(acc, f, k, later, done)
        PROVE  InFrame(acc, f, k, later, done)'
    <2>1. Keeps(acc)'
      BY <1>2, KeepsStays DEF InFrame
    <2>2. PICK a : a = Then(acc, f) /\ Ahead(a, later)
      BY <1>2 DEF InFrame
    <2>3. Ahead(a, later)'
      BY <2>2, AheadStays
    <2> QED BY <1>2, <2>1, <2>2, <2>3 DEF InFrame
  <1>3. ASSUME NEW acc, NEW f, NEW k, NEW done, InBasic(acc, f, k, done)
        PROVE  InBasic(acc, f, k, done)'
    <2>1. Partly(acc)'
      BY <1>3, PartlyStays DEF InBasic
    <2> QED BY <1>3, <2>1 DEF InBasic
  <1>4. ASSUME NEW acc, NEW f, NEW k, NEW done, InExtended(acc, f, k, done)
        PROVE  InExtended(acc, f, k, done)'
    <2>1. Partly(acc)'
      BY <1>4, PartlyStays DEF InExtended
    <2> QED BY <1>4, <2>1 DEF InExtended
  <1>5. ASSUME NEW acc, NEW f, NEW k, NEW done, NEW r, InPayload(acc, f, k, done, r)
        PROVE  InPayload(acc, f, k, done, r)'
    <2>1. is_control(f.opcode) => Partly(acc)'
      BY <1>5, PartlyStays DEF InPayload
    <2>2. Current' = Current
      BY DEF Current
    <2>3. Holds(Current, acc, f, k, r)'
      BY <1>5, <2>2 DEF InPayload, Holds, Decodes
    <2> QED BY <1>5, <2>1, <2>3 DEF InPayload
  <1> QED BY <1>1, <1>2, <1>3, <1>4, <1>5 DEF Somewhere

\* What is refused is refused where the client's frames say so.
LEMMA EndedThere ==
  ASSUME ConOK, NEW acc, Keeps(acc), NEW code \in Codes, NEW later,
         Ahead(Ends(acc, code), later), Fail(code), UNCHANGED meant
  PROVE  pc' = "stopped" /\ SentInv'
  <1>1. acc \in Acc
    BY DEF Keeps
  <1>2. code \in Nat /\ code # 0
    <2>1. code \in Nat
      BY CodesSendable
    <2>2. code # 0
      BY DEF Codes, protocol_error, internal_endpoint_error, message_too_big, invalid_payload
    <2> QED BY <2>1, <2>2
  <1>3. /\ Ends(acc, code).code = code /\ Ends(acc, code).messages = acc.messages
        /\ Ends(acc, code).closed = acc.closed
    BY <1>1, <1>2, EndsTyped
  <1>4. meant = Ends(acc, code)
    BY <1>2, <1>3, AheadOnly
  <1>5. /\ pc' = "stopped" /\ delivered' = delivered
        /\ m_state = "open" => prepared' = Frame(CLOSE, Bytes(code, 2) \o Reason)
    BY FailKeeps
  <1>6. m_state # "open" <=> meant.closed
    BY <1>3, <1>4 DEF Keeps
  <1>7. m_state = "open" =>
          prepared'.asked = [opcode |-> CLOSE, payload |-> Bytes(meant.code, 2) \o Reason]
    BY <1>3, <1>4, <1>5 DEF Frame
  <1>8. Ended'
    <2>1. delivered' = meant'.messages /\ meant'.code # 0
      BY <1>2, <1>3, <1>4, <1>5 DEF Keeps
    <2>2. meant'.closed \/ prepared'.asked = [opcode |-> CLOSE,
                                              payload |-> Bytes(meant'.code, 2) \o Reason]
      BY <1>6, <1>7
    <2> QED BY <2>1, <2>2 DEF Ended
  <1> QED BY <1>5, <1>8 DEF SentInv

\* Bytes of the buffer were added to done.
Advanced(f, k, later, done) ==
  \E d \in Seq(Byte) : /\ Len(d) = Len(done) + Taken
                       /\ d \o (m_buf' \o wire') = Encoded(f, k) \o later

\* A step takes bytes of the frame.
LEMMA Consumed ==
  ASSUME FramesTypeOK, NEW acc, NEW f, NEW k, NEW later, NEW done,
         InFrame(acc, f, k, later, done), Consume,
         Len(done) + m_bytes_needed <= Len(Encoded(f, k))
  PROVE  /\ Take(m_buf, Taken) \in Seq(Byte) /\ Len(Take(m_buf, Taken)) = Taken /\ Taken \in Nat
         /\ Follows(Take(m_buf, Taken), Encoded(f, k), Len(done), Taken)
         /\ m_buf' \in Seq(Byte) /\ wire' \in Seq(Byte)
         /\ Advanced(f, k, later, done)
  <1> DEFINE e == Encoded(f, k)
             t == Take(m_buf, Taken)
  <1>1. /\ done \in Seq(Byte) /\ m_buf \in Seq(Byte) /\ wire \in Seq(Byte) /\ later \in Seq(Byte)
        /\ e \in Seq(Byte) /\ m_bytes_needed \in Nat /\ done \o (m_buf \o wire) = e \o later
    BY EncodedIs DEF InFrame, FramesTypeOK
  <1>2. PICK n \in Nat : n = Taken /\ n <= Len(m_buf) /\ n <= m_bytes_needed
    BY <1>1, TakenIs
  <1>3. Len(done) + n <= Len(e)
    <2>1. PICK x \in Nat, y \in Nat : x = Len(done) /\ y = Len(e)
      BY <1>1, LenProperties
    <2>2. x + m_bytes_needed <= y
      BY <2>1
    <2> QED BY <1>1, <1>2, <2>1, <2>2
  <1>4. t \in Seq(Byte) /\ Len(t) = n /\ \A i \in 1 .. n : t[i] = m_buf[i]
    <2>1. t = Take(m_buf, n)
      BY <1>2
    <2> QED BY <1>1, <1>2, <2>1, Taking
  <1> HIDE DEF e
  <1>5. Follows(m_buf, e, Len(done), n)
    <2>1. /\ done \in Seq(Byte) /\ m_buf \in Seq(Byte) /\ wire \in Seq(Byte) /\ later \in Seq(Byte)
          /\ e \in Seq(Byte) /\ done \o (m_buf \o wire) = e \o later
          /\ n \in Nat /\ n <= Len(m_buf) /\ Len(done) + n <= Len(e)
      BY <1>1, <1>2, <1>3
    <2> QED BY <2>1, NextBytes
  <1>6. m_buf' = Drop(m_buf, n) /\ wire' = wire
    BY <1>2 DEF Consume
  <1>7. /\ done \o t \in Seq(Byte) /\ Len(done \o t) = Len(done) + n
        /\ (done \o t) \o (m_buf' \o wire') = done \o (m_buf \o wire)
        /\ m_buf' \in Seq(Byte)
    <2>1. /\ done \in Seq(Byte) /\ m_buf \in Seq(Byte) /\ wire \in Seq(Byte)
          /\ n \in Nat /\ n <= Len(m_buf) /\ t = Take(m_buf, n)
      BY <1>1, <1>2
    <2> HIDE DEF t
    <2>2. Drop(m_buf, n) \in Seq(Byte)
      BY <2>1, Dropping
    <2>3. Take(m_buf, n) \in Seq(Byte) /\ Len(Take(m_buf, n)) = n
      BY <2>1, Taking
    <2>4. /\ done \o Take(m_buf, n) \in Seq(Byte)
          /\ Len(done \o Take(m_buf, n)) = Len(done) + n
      BY <2>1, <2>3, JoinedBytes
    <2>5. (done \o Take(m_buf, n)) \o (Drop(m_buf, n) \o wire) = done \o (m_buf \o wire)
      BY <2>1, ReadOn, ZenonT(90)
    <2> QED BY <1>6, <2>1, <2>2, <2>4, <2>5
  <1>8. wire' \in Seq(Byte)
    BY <1>1, <1>6
  <1>9. Follows(t, e, Len(done), n)
    BY <1>4, <1>5 DEF Follows
  <1> QED BY <1>1, <1>2, <1>4, <1>7, <1>8, <1>9 DEF e, Advanced

\* Bytes that were consumed were part of the frame.
LEMMA FrameStays ==
  ASSUME NEW acc, NEW f, NEW k, NEW later, NEW done, InFrame(acc, f, k, later, done),
         Keeps(acc)', UNCHANGED meant, NEW d \in Seq(Byte),
         d \o (m_buf' \o wire') = Encoded(f, k) \o later
  PROVE  InFrame(acc, f, k, later, d)'
  <1>1. PICK a : a = Then(acc, f) /\ Ahead(a, later)
    BY DEF InFrame
  <1>2. Ahead(a, later)'
    BY <1>1, AheadStays
  <1> QED BY <1>1, <1>2 DEF InFrame

\* A frame begins with the first byte after the one before.
LEMMA FrameStarts ==
  ASSUME m_buf \in Seq(Byte), wire \in Seq(Byte), m_buf # <<>>, NEW acc, AtFrame(acc)
  PROVE  \E f, k, later : InFrame(acc, f, k, later, <<>>) /\ InBasic(acc, f, k, <<>>)
  <1> DEFINE rest == m_buf \o wire
  <1>1. rest \in Seq(Byte) /\ <<>> \o rest = rest
    <2>1. rest \in Seq(Byte)
      BY JoinedBytes
    <2> HIDE DEF rest
    <2> QED BY <2>1, WithNothing
  <1>2. rest # <<>>
    <2>1. PICK x \in Nat, y \in Nat : x = Len(m_buf) /\ y = Len(wire) /\ x # 0
      BY LenProperties, EmptySeq
    <2>2. Len(rest) = x + y
      BY <2>1, JoinedBytes
    <2>3. x + y # 0
      BY <2>1
    <2> HIDE DEF rest
    <2> QED BY <2>2, <2>3, EmptySeq
  <1>3. Ahead(acc, rest) /\ Keeps(acc) /\ Partly(acc) /\ m_parse = "HEADER_BASIC"
        /\ m_bytes_needed = 2
    BY DEF AtFrame
  <1>4. PICK f \in ClientFrame, k \in Nat, later \in Seq(Byte) :
          rest = Encoded(f, k) \o later /\ Ahead(Then(acc, f), later)
    <2> HIDE DEF rest
    <2> QED BY <1>2, <1>3, AheadFrame
  <1>5. InFrame(acc, f, k, later, <<>>)
    <2>1. <<>> \in Seq(Byte)
      BY EmptySeq
    <2> QED BY <1>1, <1>3, <1>4, <2>1 DEF InFrame
  <1>6. InBasic(acc, f, k, <<>>)
    <2>1. Len(<<>>) = 0 /\ 2 - m_bytes_needed = 0
      BY <1>3, EmptySeq
    <2> QED BY <1>3, <2>1 DEF InBasic
  <1> QED BY <1>5, <1>6

\* The rest of the step keeps the place.
LEMMA Going == ASSUME pc' = "consume", Somewhere' PROVE SentInv'
  BY DEF SentInv

\* The two bytes of a basic header, in one piece or two.
LEMMA BasicSent == FramesInv /\ SentInv /\ copy_basic_header_bytes => SentInv'
  <1> SUFFICES ASSUME FramesInv, SentInv, copy_basic_header_bytes PROVE SentInv'
    OBVIOUS
  <1> DEFINE b == Take(m_buf, Taken)
             h == Copied(b, m_basic_header, 2 - m_bytes_needed)
  <1>1. /\ pc = "consume" /\ m_parse = "HEADER_BASIC" /\ Consume /\ Looping
        /\ m_basic_header' = h /\ UNCHANGED msgVars /\ UNCHANGED meant
        /\ IF Taken < m_bytes_needed
           THEN Waiting /\ UNCHANGED <<m_parse, m_cursor, conVars, pc>>
           ELSE IF validate_incoming_basic_header(h, m_data_msg = NoMsg)
           THEN /\ m_parse' = "HEADER_EXTENDED" /\ m_cursor' = 0
                /\ m_bytes_needed' = get_header_len(h) - 2
                /\ UNCHANGED <<conVars, pc>>
           ELSE Fail(protocol_error) /\ Waiting /\ UNCHANGED <<m_parse, m_cursor>>
    BY DEF copy_basic_header_bytes, Looping, Consume
  <1>2. /\ FramesTypeOK /\ ConOK /\ m_bytes_needed \in 1 .. 2
    BY <1>1 DEF FramesInv, Parsing
  <1>3. PICK need \in 1 .. 2 : need = m_bytes_needed
    BY <1>2
  <1>4. PICK acc, f, k, later, done :
          InFrame(acc, f, k, later, done) /\ InBasic(acc, f, k, done)
    <2>1. Somewhere
      BY <1>1 DEF SentInv
    <2>2. ASSUME NEW acc, AtFrame(acc)
          PROVE  \E f, k, later, done :
                   InFrame(acc, f, k, later, done) /\ InBasic(acc, f, k, done)
      <3>1. m_buf # <<>>
        BY <1>1, <2>2 DEF Looping, AtFrame
      <3> QED BY <1>2, <2>2, <3>1, FrameStarts DEF FramesTypeOK
    <2>3. \A acc, f, k, done, r : ~InExtended(acc, f, k, done) /\ ~InPayload(acc, f, k, done, r)
      BY <1>1 DEF InExtended, InPayload
    <2> QED BY <2>1, <2>2, <2>3 DEF Somewhere
  <1> DEFINE e == Encoded(f, k)
  <1>5. /\ acc \in Acc /\ acc.code = 0 /\ f \in ClientFrame /\ k \in Nat /\ Keeps(acc)
        /\ Partly(acc) /\ done \in Seq(Byte)
        /\ Len(done) = 2 - need /\ \A i \in 1 .. 2 - need : m_basic_header[i] = e[i]
        /\ Ahead(Then(acc, f), later)
    BY <1>3, <1>4 DEF InFrame, InBasic, Keeps
  <1>6. e \in Seq(Byte) /\ Len(e) >= 2 /\ \A i \in 1 .. 2 : e[i] = HeadOf(f)[i]
    BY <1>5, EncodedIs, HeadFirst
  <1> HIDE DEF e
  <1>7. Len(done) + m_bytes_needed <= Len(e)
    <2>1. Len(done) + m_bytes_needed = 2
      BY <1>3, <1>5
    <2>2. PICK x \in Nat : x = Len(e)
      BY <1>6, LenProperties
    <2> QED BY <1>6, <2>1, <2>2
  <1>8. /\ b \in Seq(Byte) /\ Len(b) = Taken /\ Taken \in Nat
        /\ Follows(b, e, Len(done), Taken)
        /\ \E d \in Seq(Byte) : /\ Len(d) = Len(done) + Taken
                                /\ d \o (m_buf' \o wire') = e \o later
    <2>1. /\ FramesTypeOK /\ InFrame(acc, f, k, later, done) /\ Consume
          /\ Len(done) + m_bytes_needed <= Len(Encoded(f, k))
      BY <1>1, <1>2, <1>4, <1>7 DEF e
    <2>2. /\ Take(m_buf, Taken) \in Seq(Byte) /\ Len(Take(m_buf, Taken)) = Taken /\ Taken \in Nat
      BY <2>1, Consumed
    <2>3. Follows(Take(m_buf, Taken), Encoded(f, k), Len(done), Taken)
      BY <2>1, Consumed
    <2>4. Advanced(f, k, later, done)
      BY <2>1, Consumed
    <2> QED BY <2>2, <2>3, <2>4 DEF e, Advanced
  <1>9. PICK t \in 0 .. need : t = Taken
    <2>1. Taken <= m_bytes_needed
      BY <1>2, TakenIs DEF FramesTypeOK
    <2> QED BY <1>3, <1>8, <2>1
  <1>10. PICK d \in Seq(Byte) : Len(d) = 2 - need + t /\ d \o (m_buf' \o wire') = e \o later
    BY <1>5, <1>8, <1>9
  <1> DEFINE at == 2 - need
  <1>11. \A i \in 1 .. at + t : h[i] = e[i]
    <2> HIDE DEF b
    <2> DEFINE n == 2
               from == 0
    <2>1. at \in Nat /\ at + t <= n /\ n \in Nat /\ from \in Nat /\ from + at = at
          /\ at = Len(done)
      BY <1>3, <1>5, <1>9
    <2>2. m_basic_header \in [1 .. n -> Byte] /\ at + Len(b) <= n /\ b \in Seq(Byte)
      BY <1>2, <1>8, <1>9, <2>1 DEF FramesTypeOK
    <2>3. Follows(m_basic_header, e, from, at)
      BY <1>5 DEF Follows
    <2>4. Follows(b, e, from + at, Len(b))
      BY <1>8, <2>1
    <2>5. Follows(Copied(b, m_basic_header, at), e, from, at + Len(b))
      <3> HIDE DEF at, n, from
      <3> QED BY <2>1, <2>2, <2>3, <2>4, CopiedOn
    <2>6. h = Copied(b, m_basic_header, at)
      BY <1>3 DEF h
    <2> HIDE DEF h
    <2> QED BY <1>8, <1>9, <2>5, <2>6 DEF Follows
  <1>12. h \in [1 .. 2 -> Byte]
    <2>1. b \in Seq(Byte) /\ m_basic_header \in [1 .. 2 -> Byte] /\ 2 \in Nat
      BY <1>2, <1>8 DEF FramesTypeOK
    <2> HIDE DEF b
    <2> QED BY <2>1, CopiedTyped
  <1> HIDE DEF b, h
  <1>13. Partly(acc)'
    BY <1>1, <1>5, PartlyStays DEF msgVars
  <1>14. CASE t < need
    <2>1. m_bytes_needed' = need - t /\ m_parse' = "HEADER_BASIC" /\ pc' = "consume"
          /\ UNCHANGED conVars
      BY <1>1, <1>3, <1>9, <1>14 DEF Waiting
    <2>2. 2 - m_bytes_needed' = at + t
      BY <1>3, <1>9, <2>1
    <2>3. InFrame(acc, f, k, later, d)'
      BY <1>1, <1>4, <1>5, <1>10, <2>1, KeepsStays, FrameStays DEF e
    <2>4. InBasic(acc, f, k, d)'
      <3>1. \A i \in 1 .. 2 - m_bytes_needed' : m_basic_header'[i] = e[i]
        BY <1>1, <1>11, <2>2
      <3>2. Len(d) = 2 - m_bytes_needed'
        BY <1>10, <2>2
      <3> QED BY <1>13, <2>1, <3>1, <3>2 DEF InBasic, e
    <2>5. Somewhere'
      BY <2>3, <2>4 DEF Somewhere
    <2> QED BY <2>1, <2>5, Going
  <1>15. CASE ~(t < need)
    <2>1. t = need /\ at + t = 2 /\ Len(d) = 2
      BY <1>3, <1>9, <1>10, <1>15
    <2>2. h = HeadOf(f)
      <3>1. HeadOf(f) \in Seq(Byte) /\ Len(HeadOf(f)) = 2
        BY <1>5, HeadRead
      <3>2. h \in Seq(Byte) /\ Len(h) = 2
        <4>1. 2 \in Nat
          OBVIOUS
        <4> QED BY <1>12, <4>1, FunIsSeq
      <3>3. \A i \in 1 .. 2 : h[i] = HeadOf(f)[i]
        BY <1>6, <1>11, <2>1
      <3> QED BY <3>1, <3>2, <3>3, SeqEqual
    <2>3. validate_incoming_basic_header(h, m_data_msg = NoMsg) <=> ~Broken(acc, f)
      <3>1. (m_data_msg = NoMsg) = (acc.partial = <<>>)
        BY <1>5 DEF Partly
      <3>2. validate_incoming_basic_header(HeadOf(f), acc.partial = <<>>) <=> ~Broken(acc, f)
        BY <1>5, BrokenRefused
      <3> QED BY <2>2, <3>1, <3>2
    <2>4. CASE ~Broken(acc, f)
      <3>1. /\ m_parse' = "HEADER_EXTENDED" /\ m_cursor' = 0 /\ pc' = "consume"
            /\ UNCHANGED conVars
        BY <1>1, <1>3, <1>9, <1>15, <2>3, <2>4
      <3>2. InFrame(acc, f, k, later, d)'
        BY <1>1, <1>4, <1>5, <1>10, <3>1, KeepsStays, FrameStays DEF e
      <3>3. InExtended(acc, f, k, d)'
        <4>1. Len(d) = 2 + m_cursor' /\ m_basic_header' = HeadOf(f)
          BY <1>1, <2>1, <2>2, <3>1
        <4>2. \A i \in 1 .. m_cursor' : m_extended_header'[i] = e[2 + i]
          BY <3>1
        <4> QED BY <1>13, <2>4, <3>1, <4>1, <4>2 DEF InExtended, e
      <3>4. Somewhere'
        BY <3>2, <3>3 DEF Somewhere
      <3> QED BY <3>1, <3>4, Going
    <2>5. CASE Broken(acc, f)
      <3>1. Fail(protocol_error)
        BY <1>1, <1>3, <1>9, <1>15, <2>3, <2>5
      <3>2. Then(acc, f) = Ends(acc, protocol_error) /\ protocol_error \in Codes
        BY <1>5, <2>5, ThenIs DEF Codes
      <3>3. Ahead(Ends(acc, protocol_error), later)
        BY <1>5, <3>2
      <3> QED BY <1>1, <1>2, <1>5, <3>1, <3>2, <3>3, EndedThere
    <2> QED BY <2>4, <2>5
  <1> QED BY <1>9, <1>14, <1>15

\* A new message, or a new frame of one: nothing of the frame is in it yet.
LEMMA BegunHolds ==
  ASSUME NEW acc \in Acc, NEW f \in ClientFrame, ~Broken(acc, f), NEW k \in Nat,
         f.opcode # CONTINUATION
  PROVE  Holds(msg_metadata(f.opcode, Key(k)), acc, f, k, 0)
  <1> DEFINE m == msg_metadata(f.opcode, Key(k))
  <1>1. f.opcode \in Opcodes
    BY ControlOrData, WholeTyped
  <1>2. /\ m.opcode = f.opcode /\ m.payload = <<>> /\ m.utf8 = 0
        /\ m.prepared_key = prepare_masking_key(Key(k))
    BY <1>1, KeyIs, MsgBegun
  <1>3. \A i \in 1 .. 8 : prepare_masking_key(Key(k))[i] = Key(k)[((i - 1) % 4) + 1]
    BY KeyIs, WordKeyFrom
  <1> HIDE DEF m
  <1>4. m.opcode = Whole(acc, f).opcode
    BY <1>2, WholeTyped
  <1>5. m.payload = SoFar(acc, f, 0)
    BY <1>2, SoFarEnds DEF Base
  <1>6. Decodes(m)
    <2>1. decode(0, <<>>) = 0
      <3>1. 0 \in 0 .. 8 /\ <<>> \in Seq(Byte)
        BY EmptySeq
      <3> QED BY <3>1, DecodeConcat
    <2> QED BY <1>2, <2>1 DEF Decodes
  <1>7. KeyAt(m.prepared_key, k, 0)
    <2>1. \A i \in 1 .. 8 : 0 + (i - 1) = i - 1
      OBVIOUS
    <2> QED BY <1>2, <1>3, <2>1 DEF KeyAt
  <1>8. Holds(m, acc, f, k, 0)
    BY <1>4, <1>5, <1>6, <1>7 DEF Holds
  <1> QED BY <1>8 DEF m

\* A continuation keeps what is there and brings its own key.
LEMMA ContinuedHolds ==
  ASSUME NEW acc \in Acc, NEW f \in ClientFrame, ~Broken(acc, f), NEW k \in Nat,
         f.opcode = CONTINUATION, NEW m \in Metadata,
         m.opcode = acc.partial[1].opcode, m.payload = acc.partial[1].payload, Decodes(m)
  PROVE  Holds([m EXCEPT !.prepared_key = prepare_masking_key(Key(k))], acc, f, k, 0)
  <1> DEFINE w == prepare_masking_key(Key(k))
             n == [m EXCEPT !.prepared_key = w]
  <1>1. w \in WordKey /\ \A i \in 1 .. 8 : w[i] = Key(k)[((i - 1) % 4) + 1]
    BY KeyIs, WordKeyFrom
  <1>2. /\ n.opcode = m.opcode /\ n.payload = m.payload /\ n.utf8 = m.utf8
        /\ n.prepared_key = w
    BY <1>1, Rekeyed DEF WordKey
  <1> HIDE DEF n, w
  <1>3. n.opcode = Whole(acc, f).opcode
    BY <1>2, WholeTyped
  <1>4. n.payload = SoFar(acc, f, 0)
    BY <1>2, SoFarEnds DEF Base
  <1>5. Decodes(n)
    BY <1>2 DEF Decodes
  <1>6. KeyAt(n.prepared_key, k, 0)
    <2>1. \A i \in 1 .. 8 : 0 + (i - 1) = i - 1
      OBVIOUS
    <2> QED BY <1>1, <1>2, <2>1 DEF KeyAt
  <1>7. Holds(n, acc, f, k, 0)
    BY <1>3, <1>4, <1>5, <1>6 DEF Holds
  <1> QED BY <1>7 DEF n, w

\* The limit on messages is the one of the client's frames.
LEMMA SizeAsked ==
  ASSUME NEW acc \in Acc, NEW f \in ClientFrame, ~Broken(acc, f), ~is_control(f.opcode),
         Partly(acc), m_data_msg \in Metadata \cup {NoMsg}
  PROVE  TooBig(Len(f.payload)) <=> ~Small(acc, f)
  <1>1. PICK n \in Nat : n = Len(f.payload)
    BY SentTyped
  <1>2. 0 \in Nat /\ 0 <= n
    OBVIOUS
  <1>3. Base(acc, f) \in Seq(Byte)
    BY <1>1, <1>2, SoFarTyped
  <1>4. Len(Whole(acc, f).payload) = Len(Base(acc, f)) + n
    <2>1. n <= Len(f.payload)
      BY <1>1
    <2>2. Len(SoFar(acc, f, n)) = Len(Base(acc, f)) + n
      BY <2>1, SoFarTyped
    <2> QED BY <1>1, <2>2, SoFarEnds
  <1>5. Len(m_data_msg.payload) = Len(Base(acc, f))
    <2>1. CASE acc.partial = <<>>
      <3>1. m_data_msg = NoMsg /\ f.opcode # CONTINUATION
        BY <2>1, WholeTyped DEF Partly
      <3>2. NoMsg.payload = <<>>
        BY DEF NoMsg
      <3> QED BY <3>1, <3>2 DEF Base
    <2>2. CASE acc.partial # <<>>
      <3>1. m_data_msg.payload = acc.partial[1].payload /\ f.opcode = CONTINUATION
        BY <2>2, WholeTyped DEF Partly
      <3> QED BY <3>1 DEF Base
    <2> QED BY <2>1, <2>2
  <1>6. PICK b \in Nat, x \in Nat : b = Len(Base(acc, f)) /\ x = max_message_size
    BY <1>3, LenProperties, Sizes
  <1>7. TooBig(Len(f.payload)) <=> b + n > x
    BY <1>1, <1>5, <1>6 DEF TooBig
  <1>8. Small(acc, f) <=> b + n <= x
    BY <1>4, <1>6 DEF Small
  <1> QED BY <1>1, <1>6, <1>7, <1>8

\* Size and key, in pieces, and what they lead to.
LEMMA ExtendedSent == FramesInv /\ SentInv /\ copy_extended_header_bytes => SentInv'
  <1> SUFFICES ASSUME FramesInv, SentInv, copy_extended_header_bytes PROVE SentInv'
    OBVIOUS
  <1> DEFINE b == Take(m_buf, Taken)
             x == Copied(b, m_extended_header, m_cursor)
             h == m_basic_header
  <1>1. /\ pc = "consume" /\ m_parse = "HEADER_EXTENDED" /\ Consume /\ Looping
        /\ m_extended_header' = x /\ m_cursor' = m_cursor + Taken /\ UNCHANGED h
        /\ IF Taken < m_bytes_needed
           THEN Waiting /\ UNCHANGED <<m_parse, msgVars, conVars, pc>>
           ELSE IF validate_incoming_extended_header(h, x)
           THEN /\ m_parse' = "APPLICATION" /\ m_bytes_needed' = get_payload_size(h, x)
                /\ BeginPayload(h, x)
           ELSE /\ Fail(internal_endpoint_error) /\ Waiting
                /\ UNCHANGED <<m_parse, msgVars>>
        /\ UNCHANGED meant
    BY DEF copy_extended_header_bytes, Looping, Consume
  <1>2. /\ FramesTypeOK /\ ConOK
        /\ m_cursor + m_bytes_needed = get_header_len(m_basic_header) - 2
        /\ m_bytes_needed \in Nat /\ m_cursor \in 0 .. 12 /\ m_data_msg \in Metadata \cup {NoMsg}
    BY <1>1 DEF FramesInv, Parsing, FramesTypeOK
  <1>3. PICK need \in Nat, at \in 0 .. 12 : need = m_bytes_needed /\ at = m_cursor
    BY <1>2
  <1>4. PICK acc, f, k, later, done :
          InFrame(acc, f, k, later, done) /\ InExtended(acc, f, k, done)
    <2>1. Somewhere
      BY <1>1 DEF SentInv
    <2>2. /\ \A acc : ~AtFrame(acc)
          /\ \A acc, f, k, done, r : ~InBasic(acc, f, k, done) /\ ~InPayload(acc, f, k, done, r)
      BY <1>1 DEF AtFrame, InBasic, InPayload
    <2> QED BY <2>1, <2>2 DEF Somewhere
  <1> DEFINE e == Encoded(f, k)
             o == get_masking_key_offset(HeadOf(f))
  <1>5. /\ acc \in Acc /\ acc.code = 0 /\ f \in ClientFrame /\ k \in Nat /\ Keeps(acc)
        /\ Partly(acc) /\ done \in Seq(Byte) /\ ~Broken(acc, f) /\ h = HeadOf(f)
        /\ Len(done) = 2 + at /\ \A i \in 1 .. at : m_extended_header[i] = e[2 + i]
        /\ Ahead(Then(acc, f), later) /\ f.masked
    BY <1>3, <1>4 DEF InFrame, InExtended, Keeps, Broken
  <1>6. PICK n \in Nat : n = Len(f.payload)
    BY <1>5, SentTyped
  <1>7. /\ get_header_len(HeadOf(f)) = 6 + o /\ Len(e) = 6 + o + n /\ o \in Nat
    <2>1. get_header_len(HeadOf(f)) = 6 + o /\ Len(e) = 6 + o + Len(f.payload)
      BY <1>5, PartsOf
    <2>2. o \in {0, 2, 8}
      BY <1>5, HeadRead, HeaderTyped
    <2> HIDE DEF o, e
    <2>3. o \in Nat
      BY <2>2
    <2> QED BY <1>6, <2>1, <2>3
  <1> HIDE DEF e, o, h
  <1>8. at + need = 4 + o
    <2>1. at + need = (6 + o) - 2
      BY <1>2, <1>3, <1>5, <1>7 DEF h
    <2> QED BY <1>7, <2>1
  <1>9. Len(done) + m_bytes_needed <= Len(e)
    <2>1. 2 + at + need <= 6 + o + n
      BY <1>7, <1>8
    <2> QED BY <1>3, <1>5, <1>7, <2>1
  <1>10. /\ b \in Seq(Byte) /\ Len(b) = Taken /\ Taken \in Nat
         /\ Follows(b, e, Len(done), Taken) /\ Advanced(f, k, later, done)
    <2>1. /\ FramesTypeOK /\ InFrame(acc, f, k, later, done) /\ Consume
          /\ Len(done) + m_bytes_needed <= Len(Encoded(f, k))
      BY <1>1, <1>2, <1>4, <1>9 DEF e
    <2>2. /\ Take(m_buf, Taken) \in Seq(Byte) /\ Len(Take(m_buf, Taken)) = Taken /\ Taken \in Nat
      BY <2>1, Consumed
    <2>3. Follows(Take(m_buf, Taken), Encoded(f, k), Len(done), Taken)
      BY <2>1, Consumed
    <2>4. Advanced(f, k, later, done)
      BY <2>1, Consumed
    <2> QED BY <2>2, <2>3, <2>4 DEF e
  <1>11. PICK t \in 0 .. need : t = Taken
    <2>1. Taken <= m_bytes_needed
      BY <1>2, TakenIs DEF FramesTypeOK
    <2> QED BY <1>3, <1>10, <2>1
  <1>12. PICK d \in Seq(Byte) : Len(d) = 2 + at + t /\ d \o (m_buf' \o wire') = e \o later
    BY <1>5, <1>10, <1>11 DEF Advanced, e
  <1>13. at \in Nat /\ at + t \in 0 .. 12
    <2>1. o \in {0, 2, 8}
      BY <1>5, HeadRead, HeaderTyped DEF o
    <2> QED BY <1>8, <2>1
  <1>14. x \in Extension /\ Follows(x, e, 2, at + t)
    <2> HIDE DEF b
    <2> DEFINE c == 12
               from == 2
    <2>1. at \in Nat /\ at + t <= c /\ c \in Nat /\ from \in Nat /\ from + at = Len(done)
      BY <1>5, <1>13
    <2>2. m_extended_header \in [1 .. c -> Byte] /\ at + Len(b) <= c /\ b \in Seq(Byte)
      BY <1>2, <1>10, <1>11, <2>1 DEF FramesTypeOK
    <2>3. Follows(m_extended_header, e, from, at)
      BY <1>5 DEF Follows
    <2>4. Follows(b, e, from + at, Len(b))
      BY <1>10, <2>1
    <2>5. Follows(Copied(b, m_extended_header, at), e, from, at + Len(b))
      <3> HIDE DEF c, from
      <3> QED BY <2>1, <2>2, <2>3, <2>4, CopiedOn
    <2>6. Copied(b, m_extended_header, at) \in [1 .. c -> Byte]
      <3> HIDE DEF c
      <3> QED BY <2>1, <2>2, CopiedTyped
    <2>7. x = Copied(b, m_extended_header, at)
      BY <1>3 DEF x
    <2> HIDE DEF x
    <2> QED BY <1>10, <1>11, <2>5, <2>6, <2>7 DEF Extension
  <1> HIDE DEF b, x
  <1>15. InFrame(acc, f, k, later, d)' \/ ~UNCHANGED conVars
    BY <1>1, <1>4, <1>5, <1>12, KeepsStays, FrameStays DEF e
  <1>16. CASE t < need
    <2>1. /\ m_parse' = "HEADER_EXTENDED" /\ pc' = "consume" /\ UNCHANGED conVars
          /\ UNCHANGED m_data_msg /\ m_cursor' = at + t
      BY <1>1, <1>3, <1>11, <1>16 DEF msgVars
    <2>2. Partly(acc)'
      BY <1>5, <2>1, PartlyStays
    <2>3. InExtended(acc, f, k, d)'
      <3>1. \A i \in 1 .. m_cursor' : m_extended_header'[i] = e[2 + i]
        BY <1>1, <1>14, <2>1 DEF Follows
      <3>2. Len(d) = 2 + m_cursor'
        BY <1>12, <1>13, <2>1
      <3>3. m_basic_header' = HeadOf(f)
        BY <1>1, <1>5 DEF h
      <3> QED BY <1>5, <2>1, <2>2, <3>1, <3>2, <3>3 DEF InExtended, e
    <2>4. Somewhere'
      BY <1>15, <2>1, <2>3 DEF Somewhere
    <2> QED BY <2>1, <2>4, Going
  <1>17. CASE ~(t < need)
    <2>1. t = need /\ at + t = 4 + o
      BY <1>8, <1>11, <1>17
    <2>2. /\ get_payload_size(h, x) = n /\ get_masking_key(h, x) = Key(k)
          /\ validate_incoming_extended_header(h, x) <=> Shortest(f)
      <3>1. get_header_len(HeadOf(f)) - 2 = 4 + o
        BY <1>7
      <3>2. \A i \in 1 .. get_header_len(HeadOf(f)) - 2 : x[i] = Encoded(f, k)[2 + i]
        BY <1>14, <2>1, <3>1 DEF Follows, e
      <3>3. /\ get_payload_size(HeadOf(f), x) = Len(f.payload)
            /\ get_masking_key(HeadOf(f), x) = Key(k)
            /\ validate_incoming_extended_header(HeadOf(f), x) <=> Shortest(f)
        BY <1>5, <1>14, <3>2, ExtendedRead
      <3> QED BY <1>5, <1>6, <3>3
    <2>3. get_opcode(h) = f.opcode
      BY <1>5, HeadRead
    <2>4. CASE ~Shortest(f)
      <3>1. Fail(internal_endpoint_error)
        BY <1>1, <1>3, <1>11, <1>17, <2>2, <2>4
      <3>2. /\ Then(acc, f) = Ends(acc, internal_endpoint_error)
            /\ internal_endpoint_error \in Codes
        BY <1>5, <2>4, ThenIs DEF Codes
      <3>3. Ahead(Ends(acc, internal_endpoint_error), later)
        BY <1>5, <3>2
      <3> QED BY <1>1, <1>2, <1>5, <3>1, <3>2, <3>3, EndedThere
    <2>5. CASE Shortest(f)
      <3>1. /\ m_parse' = "APPLICATION" /\ m_bytes_needed' = n /\ BeginPayload(h, x)
        BY <1>1, <1>3, <1>11, <1>17, <2>2, <2>5
      <3>2. Len(d) + n = Len(e)
        BY <1>7, <1>12, <2>1
      <3>3. ASSUME UNCHANGED conVars, UNCHANGED pc, Small(acc, f),
                   m_current_msg' = (IF is_control(f.opcode) THEN "control" ELSE "data"),
                   Holds(Current', acc, f, k, 0), is_control(f.opcode) => Partly(acc)'
            PROVE  SentInv'
        <4>1. /\ 0 \in Nat /\ 0 + m_bytes_needed' = Len(f.payload)
              /\ Len(d) + m_bytes_needed' = Len(Encoded(f, k))
              /\ m_basic_header' = HeadOf(f)
          BY <1>1, <1>5, <1>6, <3>1, <3>2 DEF h, e
        <4>2. InPayload(acc, f, k, d, 0)'
          BY <1>5, <2>5, <3>1, <3>3, <4>1 DEF InPayload
        <4>3. Somewhere'
          BY <1>15, <3>3, <4>2 DEF Somewhere
        <4> QED BY <1>1, <3>3, <4>3, Going
      <3>4. CASE is_control(f.opcode)
        <4>1. /\ m_control_msg' = msg_metadata(f.opcode, Key(k)) /\ m_current_msg' = "control"
              /\ UNCHANGED <<m_data_msg, conVars, pc>>
          BY <2>2, <2>3, <3>1, <3>4 DEF BeginPayload
        <4>2. Small(acc, f)
          BY <3>4 DEF Small
        <4>3. Current' = msg_metadata(f.opcode, Key(k))
          BY <4>1 DEF Current
        <4>4. f.opcode # CONTINUATION
          BY <3>4 DEF is_control, CONTINUATION
        <4>5. Holds(Current', acc, f, k, 0)
          BY <1>5, <4>3, <4>4, BegunHolds
        <4>6. Partly(acc)'
          BY <1>5, <4>1, PartlyStays
        <4> QED BY <3>3, <3>4, <4>1, <4>2, <4>5, <4>6
      <3>5. CASE ~is_control(f.opcode) /\ ~Small(acc, f)
        <4>1. TooBig(n)
          BY <1>2, <1>5, <1>6, <3>5, SizeAsked
        <4>2. Fail(message_too_big)
          BY <2>2, <2>3, <3>1, <3>5, <4>1 DEF BeginPayload
        <4>3. Then(acc, f) = Ends(acc, message_too_big) /\ message_too_big \in Codes
          BY <1>5, <2>5, <3>5, ThenIs DEF Codes
        <4>4. Ahead(Ends(acc, message_too_big), later)
          BY <1>5, <4>3
        <4> QED BY <1>1, <1>2, <1>5, <4>2, <4>3, <4>4, EndedThere
      <3>6. CASE ~is_control(f.opcode) /\ Small(acc, f)
        <4>1. ~TooBig(n)
          BY <1>2, <1>5, <1>6, <3>6, SizeAsked
        <4>2. /\ m_data_msg' = IF m_data_msg = NoMsg THEN msg_metadata(f.opcode, Key(k))
                     ELSE [m_data_msg EXCEPT !.prepared_key = prepare_masking_key(Key(k))]
              /\ m_current_msg' = "data" /\ UNCHANGED <<m_control_msg, conVars, pc>>
          BY <2>2, <2>3, <3>1, <3>6, <4>1 DEF BeginPayload
        <4>3. Current' = m_data_msg'
          BY <4>2 DEF Current
        <4>4. CASE acc.partial = <<>>
          <5>1. m_data_msg = NoMsg /\ f.opcode # CONTINUATION
            BY <1>5, <3>6, <4>4, WholeTyped DEF Partly
          <5>2. Holds(Current', acc, f, k, 0)
            BY <1>5, <4>2, <4>3, <5>1, BegunHolds
          <5> QED BY <3>3, <3>6, <4>2, <5>2
        <4>5. CASE acc.partial # <<>>
          <5>3. f.opcode = CONTINUATION
            BY <1>5, <3>6, <4>5, WholeTyped
          <5>1. /\ m_data_msg # NoMsg /\ f.opcode = CONTINUATION /\ m_data_msg \in Metadata
                /\ m_data_msg.opcode = acc.partial[1].opcode
                /\ m_data_msg.payload = acc.partial[1].payload /\ Decodes(m_data_msg)
            BY <1>2, <1>5, <4>5, <5>3 DEF Partly
          <5>2. Holds(Current', acc, f, k, 0)
            BY <1>5, <4>2, <4>3, <5>1, ContinuedHolds
          <5> QED BY <3>3, <3>6, <4>2, <5>2
        <4> QED BY <4>4, <4>5
      <3> QED BY <3>4, <3>5, <3>6
    <2> QED BY <2>4, <2>5
  <1> QED BY <1>11, <1>16, <1>17

\* The message with the next piece of the payload.
LEMMA GrownHolds ==
  ASSUME m_buf \in Seq(Byte), NEW acc \in Acc, NEW f \in ClientFrame, ~Broken(acc, f),
         NEW k \in Nat, NEW r \in Nat, NEW t \in Nat, t <= Len(m_buf), r + t <= Len(f.payload),
         NEW m \in Metadata, Holds(m, acc, f, k, r),
         Follows(Take(m_buf, t), Veiled(f, k), r, t)
  PROVE  /\ Grown(m, t) \in Metadata
         /\ Grown(m, t).utf8 # 1 => Holds(Grown(m, t), acc, f, k, r + t)
         /\ Grown(m, t).utf8 = 1 =>
              Whole(acc, f).opcode = TEXT /\ decode(0, SoFar(acc, f, r + t)) = 1
  <1> DEFINE g == Grown(m, t)
             s == Take(m_buf, t)
             p == word_mask(s, m.prepared_key)
  <1>1. s \in Seq(Byte) /\ Len(s) = t /\ m.prepared_key \in WordKey
    BY Taking DEF Metadata, WordKey
  <1>2. /\ g \in Metadata /\ p \in Seq(Byte) /\ Len(p) = t
        /\ g.opcode = m.opcode /\ g.payload = m.payload \o p
        /\ g.prepared_key = word_mask_circ(m.prepared_key, t)
        /\ g.utf8 = IF m.opcode = TEXT THEN decode(m.utf8, p) ELSE m.utf8
    <2>1. p = Plain(m, t)
      BY DEF Plain
    <2>2. /\ Grown(m, t) \in Metadata
          /\ Plain(m, t) \in Seq(Byte) /\ Len(Plain(m, t)) = t
          /\ Grown(m, t).opcode = m.opcode
          /\ Grown(m, t).payload = m.payload \o Plain(m, t)
          /\ Grown(m, t).prepared_key = word_mask_circ(m.prepared_key, t)
          /\ Grown(m, t).utf8 = IF m.opcode = TEXT THEN decode(m.utf8, Plain(m, t)) ELSE m.utf8
      BY MsgGrown
    <2> HIDE DEF p
    <2> QED BY <2>1, <2>2
  <1>3. /\ m.opcode = Whole(acc, f).opcode /\ m.payload = SoFar(acc, f, r) /\ Decodes(m)
        /\ KeyAt(m.prepared_key, k, r)
    BY DEF Holds
  <1> HIDE DEF g, s
  <1>4. Follows(p, f.payload, r, t) /\ KeyAt(word_mask_circ(m.prepared_key, t), k, r + t)
    <2>1. /\ m.prepared_key \in WordKey /\ s \in Seq(Byte) /\ Len(s) = t
          /\ KeyAt(m.prepared_key, k, r) /\ Follows(s, Veiled(f, k), r, t)
      BY <1>1, <1>3 DEF s
    <2> QED BY <2>1, PieceRead
  <1> HIDE DEF p
  <1>5. SoFar(acc, f, r) \in Seq(Byte) /\ SoFar(acc, f, r) \o p = SoFar(acc, f, r + t)
    <2>1. r <= Len(f.payload)
      <3>1. PICK n \in Nat : n = Len(f.payload)
        BY SentTyped
      <3>2. r <= n
        BY <3>1
      <3> QED BY <3>1, <3>2
    <2>2. SoFar(acc, f, r) \in Seq(Byte)
      BY <2>1, SoFarTyped
    <2>3. SoFar(acc, f, r) \o p = SoFar(acc, f, r + t)
      BY <1>2, <1>4, SoFarGrows
    <2> QED BY <2>2, <2>3
  <1>6. g.opcode = Whole(acc, f).opcode /\ g.payload = SoFar(acc, f, r + t)
    BY <1>2, <1>3, <1>5
  <1>7. g.utf8 = IF g.opcode = TEXT THEN decode(0, g.payload) ELSE 0
    <2>1. decode(0, SoFar(acc, f, r + t)) = decode(decode(0, SoFar(acc, f, r)), p)
      <3>1. 0 \in 0 .. 8
        OBVIOUS
      <3>2. decode(0, SoFar(acc, f, r) \o p) = decode(decode(0, SoFar(acc, f, r)), p)
        BY <1>2, <1>5, <3>1, DecodeConcat
      <3> QED BY <1>5, <3>2
    <2> QED BY <1>2, <1>3, <1>6, <2>1 DEF Decodes
  <1>8. g.utf8 # 1 => Holds(g, acc, f, k, r + t)
    BY <1>2, <1>4, <1>6, <1>7 DEF Holds, Decodes
  <1>9. g.utf8 = 1 => Whole(acc, f).opcode = TEXT /\ decode(0, SoFar(acc, f, r + t)) = 1
    BY <1>6, <1>7
  <1> QED BY <1>2, <1>8, <1>9 DEF g

\* Payload, in pieces, up to the end of the frame.
LEMMA PayloadSent == FramesInv /\ SentInv /\ process_payload_bytes => SentInv'
  <1> SUFFICES ASSUME FramesInv, SentInv, process_payload_bytes PROVE SentInv'
    OBVIOUS
  <1> DEFINE m == Grown(Current, Taken)
             h == m_basic_header
  <1>1. /\ pc = "consume" /\ m_parse = "APPLICATION" /\ Consume /\ Looping
        /\ IF m_current_msg = "control" THEN m_control_msg' = m /\ UNCHANGED m_data_msg
           ELSE m_data_msg' = m /\ UNCHANGED m_control_msg
        /\ IF m.utf8 = utf8_reject
           THEN Fail(invalid_payload) /\ UNCHANGED <<m_parse, m_bytes_needed, headerVars>>
           ELSE IF Taken < m_bytes_needed
           THEN Waiting /\ UNCHANGED <<m_parse, headerVars, conVars, pc>>
           ELSE EndOfFrame(m)
        /\ UNCHANGED m_current_msg /\ UNCHANGED meant
    BY DEF process_payload_bytes, Looping, Consume
  <1>2. /\ FramesTypeOK /\ ConOK /\ m_bytes_needed \in Nat /\ m_buf \in Seq(Byte)
        /\ wire \in Seq(Byte) /\ Current \in Metadata
    <2>1. FramesTypeOK /\ ConOK /\ Current # NoMsg
      BY <1>1 DEF FramesInv, Parsing
    <2> QED BY <2>1 DEF FramesTypeOK, Current
  <1>3. PICK need \in Nat : need = m_bytes_needed
    BY <1>2
  <1>4. PICK acc, f, k, later, done, r :
          InFrame(acc, f, k, later, done) /\ InPayload(acc, f, k, done, r)
    <2>1. Somewhere
      BY <1>1 DEF SentInv
    <2>2. /\ \A acc : ~AtFrame(acc)
          /\ \A acc, f, k, done : ~InBasic(acc, f, k, done) /\ ~InExtended(acc, f, k, done)
      BY <1>1 DEF AtFrame, InBasic, InExtended
    <2> QED BY <2>1, <2>2 DEF Somewhere
  <1> DEFINE e == Encoded(f, k)
             o == get_masking_key_offset(HeadOf(f))
  <1>5. /\ acc \in Acc /\ acc.code = 0 /\ f \in ClientFrame /\ k \in Nat /\ Keeps(acc)
        /\ done \in Seq(Byte) /\ later \in Seq(Byte) /\ ~Broken(acc, f) /\ Shortest(f)
        /\ Small(acc, f) /\ h = HeadOf(f)
        /\ r \in Nat /\ r + need = Len(f.payload) /\ Len(done) + need = Len(e)
        /\ m_current_msg = (IF is_control(f.opcode) THEN "control" ELSE "data")
        /\ Holds(Current, acc, f, k, r) /\ (is_control(f.opcode) => Partly(acc))
        /\ Ahead(Then(acc, f), later)
    BY <1>3, <1>4 DEF InFrame, InPayload, Keeps
  <1>6. PICK n \in Nat : n = Len(f.payload) /\ r + need = n
    BY <1>5, SentTyped
  <1>7. /\ Len(e) = 6 + o + n /\ o \in Nat /\ e \in Seq(Byte)
        /\ \A i \in 1 .. n : e[6 + o + i] = Veiled(f, k)[i]
    <2>1. f.masked
      BY <1>5 DEF Broken
    <2>2. /\ Len(e) = 6 + o + Len(f.payload) /\ e \in Seq(Byte)
          /\ \A i \in 1 .. Len(f.payload) : e[6 + o + i] = Veiled(f, k)[i]
      BY <1>5, <2>1, PartsOf
    <2>3. o \in {0, 2, 8}
      BY <1>5, HeadRead, HeaderTyped
    <2> HIDE DEF o, e
    <2>4. o \in Nat
      BY <2>3
    <2> QED BY <1>6, <2>2, <2>4
  <1> HIDE DEF e, o, h, m
  <1>8. PICK x \in Nat : x = Len(done)
    BY <1>5, LenProperties
  <1>9. x = 6 + o + r /\ Len(done) + m_bytes_needed <= Len(e)
    <2>1. x + need = 6 + o + n
      BY <1>5, <1>7, <1>8
    <2>2. x = 6 + o + r
      <3>1. r + need = n /\ r \in Nat /\ o \in Nat
        BY <1>5, <1>6, <1>7
      <3> QED BY <2>1, <3>1
    <2>3. x + need <= 6 + o + n
      BY <1>7, <2>1
    <2> QED BY <1>3, <1>7, <1>8, <2>2, <2>3
  <1>10. /\ Follows(Take(m_buf, Taken), e, Len(done), Taken)
         /\ Advanced(f, k, later, done) /\ m_buf' \in Seq(Byte) /\ wire' \in Seq(Byte)
    <2>1. /\ FramesTypeOK /\ InFrame(acc, f, k, later, done) /\ Consume
          /\ Len(done) + m_bytes_needed <= Len(Encoded(f, k))
      BY <1>1, <1>2, <1>4, <1>9 DEF e
    <2>2. m_buf' \in Seq(Byte) /\ wire' \in Seq(Byte)
      BY <2>1, Consumed
    <2>3. Follows(Take(m_buf, Taken), Encoded(f, k), Len(done), Taken)
      BY <2>1, Consumed
    <2>4. Advanced(f, k, later, done)
      BY <2>1, Consumed
    <2> QED BY <2>2, <2>3, <2>4 DEF e
  <1>11. PICK t \in 0 .. need : t = Taken /\ t <= Len(m_buf)
    BY <1>2, <1>3, TakenIs
  <1>12. PICK d \in Seq(Byte) : Len(d) = x + t /\ d \o (m_buf' \o wire') = e \o later
    BY <1>8, <1>10, <1>11 DEF Advanced, e
  <1>13. /\ t \in Nat /\ r + t \in Nat /\ r + t <= n /\ (r + t) + (need - t) = n
         /\ (x + t) + (need - t) = Len(e) /\ need - t \in Nat
    <2>1. r \in Nat /\ r + need = n /\ x + need = Len(e) /\ t \in 0 .. need
      BY <1>5, <1>6, <1>8, <1>11
    <2>2. t \in Nat /\ r + t \in Nat /\ r + t <= n /\ (r + t) + (need - t) = n /\ need - t \in Nat
      BY <2>1
    <2>3. (x + t) + (need - t) = x + need
      BY <2>1
    <2> QED BY <2>1, <2>2, <2>3
  <1>14. /\ m \in Metadata
         /\ m.utf8 # 1 => Holds(m, acc, f, k, r + t)
         /\ m.utf8 = 1 => Whole(acc, f).opcode = TEXT /\ decode(0, SoFar(acc, f, r + t)) = 1
    <2>1. Follows(Take(m_buf, t), Veiled(f, k), r, t)
      <3>1. ASSUME NEW i \in 1 .. t PROVE Take(m_buf, t)[i] = Veiled(f, k)[r + i]
        <4>1. Take(m_buf, t)[i] = e[x + i]
          BY <1>8, <1>10, <1>11 DEF Follows
        <4>2. x + i = 6 + o + (r + i) /\ r + i \in 1 .. n
          BY <1>5, <1>6, <1>7, <1>9, <1>11
        <4> QED BY <1>7, <4>1, <4>2
      <3> QED BY <3>1 DEF Follows
    <2>2. t <= Len(m_buf) /\ r + t <= Len(f.payload)
      BY <1>6, <1>11, <1>13
    <2>3. m = Grown(Current, t)
      BY <1>11 DEF m
    <2>4. /\ Grown(Current, t) \in Metadata
          /\ Grown(Current, t).utf8 # 1 => Holds(Grown(Current, t), acc, f, k, r + t)
          /\ Grown(Current, t).utf8 = 1 =>
               Whole(acc, f).opcode = TEXT /\ decode(0, SoFar(acc, f, r + t)) = 1
      BY <1>2, <1>5, <1>13, <2>1, <2>2, GrownHolds
    <2> QED BY <2>3, <2>4
  <1>15. Current' = m
    BY <1>1 DEF Current
  <1>16. is_control(f.opcode) => Partly(acc)' /\ f.fin /\ Textual(acc, f)
    <2> SUFFICES ASSUME is_control(f.opcode) PROVE Partly(acc)' /\ f.fin /\ Textual(acc, f)
      OBVIOUS
    <2>1. UNCHANGED m_data_msg /\ Partly(acc)
      BY <1>1, <1>5
    <2> QED BY <1>5, <2>1, PartlyStays, WholeTyped DEF Textual
  <1>17. ASSUME UNCHANGED conVars PROVE InFrame(acc, f, k, later, d)'
    BY <1>1, <1>4, <1>5, <1>12, <1>17, KeepsStays, FrameStays DEF e
  \* What the message is refused for.
  <1>18. ASSUME Fail(invalid_payload), ~Textual(acc, f) PROVE SentInv'
    <2>1. Then(acc, f) = Ends(acc, invalid_payload) /\ invalid_payload \in Codes
      BY <1>5, <1>18, ThenIs DEF Codes
    <2>2. Ahead(Ends(acc, invalid_payload), later)
      BY <1>5, <2>1
    <2> QED BY <1>1, <1>2, <1>5, <1>18, <2>1, <2>2, EndedThere
  \* What is kept as long as the frame is not over.
  <1>19. ASSUME UNCHANGED conVars, pc' = "consume", m_parse' \in {"APPLICATION", "READY"},
                Waiting, UNCHANGED headerVars, m.utf8 # 1,
                m_parse' = "READY" => t = need /\ f.fin /\ Textual(acc, f)
         PROVE  SentInv'
    <2>1. m_bytes_needed' = need - t /\ m_basic_header' = HeadOf(f)
      BY <1>3, <1>5, <1>11, <1>19 DEF Waiting, headerVars, h
    <2>2. /\ r + t \in Nat /\ (r + t) + m_bytes_needed' = Len(f.payload)
          /\ Len(d) + m_bytes_needed' = Len(Encoded(f, k))
      BY <1>6, <1>12, <1>13, <2>1 DEF e
    <2>3. m_parse' = "READY" =>
            m_bytes_needed' = 0 /\ (is_control(f.opcode) \/ f.fin) /\ Textual(acc, f)
      BY <1>13, <1>19, <2>1
    <2>4. Holds(Current', acc, f, k, r + t)
      BY <1>14, <1>15, <1>19
    <2>5. m_current_msg' = (IF is_control(f.opcode) THEN "control" ELSE "data")
      BY <1>1, <1>5
    <2>6. InPayload(acc, f, k, d, r + t)'
      BY <1>5, <1>16, <1>19, <2>1, <2>2, <2>3, <2>4, <2>5 DEF InPayload
    <2>7. Somewhere'
      BY <1>17, <1>19, <2>6 DEF Somewhere
    <2> QED BY <1>19, <2>7, Going
  <1>20. CASE m.utf8 = 1
    <2>1. Fail(invalid_payload)
      BY <1>1, <1>20 DEF utf8_reject
    <2>2. Whole(acc, f).opcode = TEXT /\ decode(0, SoFar(acc, f, r + t)) = 1
      BY <1>14, <1>20
    <2>3. ~is_control(f.opcode)
      <3>1. ASSUME is_control(f.opcode) PROVE FALSE
        <4>1. f.opcode # CONTINUATION
          BY <3>1 DEF is_control, CONTINUATION
        <4>2. Whole(acc, f).opcode = f.opcode
          BY <1>5, <4>1, WholeTyped
        <4> QED BY <2>2, <3>1, <4>2 DEF is_control, TEXT
      <3> QED BY <3>1
    <2>4. ~Textual(acc, f)
      BY <1>5, <1>6, <1>13, <2>2, <2>3, SunkBad
    <2> QED BY <1>18, <2>1, <2>4
  <1>21. CASE m.utf8 # 1 /\ t < need
    <2>1. Waiting /\ UNCHANGED <<m_parse, headerVars, conVars, pc>>
      BY <1>1, <1>3, <1>11, <1>21 DEF utf8_reject
    <2>2. m_parse' = "APPLICATION" /\ pc' = "consume"
      BY <1>1, <2>1
    <2> QED BY <1>19, <1>21, <2>1, <2>2
  <1>22. CASE m.utf8 # 1 /\ ~(t < need)
    <2>1. EndOfFrame(m)
      BY <1>1, <1>3, <1>11, <1>22 DEF utf8_reject
    <2>2. t = need /\ r + t = n
      BY <1>6, <1>11, <1>22
    <2>3. get_fin(h) = f.fin /\ get_opcode(h) = f.opcode /\ f.fin \in BOOLEAN
      BY <1>5, HeadRead, SentTyped
    <2>4. /\ m.opcode = Whole(acc, f).opcode /\ m.payload = Whole(acc, f).payload /\ Decodes(m)
      <3>1. m.opcode = Whole(acc, f).opcode /\ m.payload = SoFar(acc, f, r + t) /\ Decodes(m)
        BY <1>14, <1>22 DEF Holds
      <3> QED BY <1>5, <1>6, <2>2, <3>1, SoFarEnds
    <2>5. ~is_control(f.opcode) =>
            (Textual(acc, f) <=> ~(f.opcode = TEXT /\ f.fin /\ m.utf8 # 0))
      <3> SUFFICES ASSUME ~is_control(f.opcode)
                   PROVE  Textual(acc, f) <=> ~(f.opcode = TEXT /\ f.fin /\ m.utf8 # 0)
        OBVIOUS
      <3>1. Whole(acc, f).opcode = TEXT =>
              m.utf8 = decode(0, Whole(acc, f).payload) /\ decode(0, Whole(acc, f).payload) # 1
        BY <2>4 DEF Decodes
      <3>2. Textual(acc, f) <=>
              ~(f.opcode = TEXT /\ f.fin /\ decode(0, Whole(acc, f).payload) # 0)
        BY <1>5, <3>1, EndBad
      <3>3. f.opcode = TEXT => Whole(acc, f).opcode = TEXT
        <4>1. TEXT # CONTINUATION
          BY DEF TEXT, CONTINUATION
        <4> QED BY <1>5, <4>1, WholeTyped
      <3> QED BY <3>1, <3>2, <3>3
    <2>6. CASE ~f.fin
      <3>1. reset_headers /\ UNCHANGED <<conVars, pc>>
        BY <2>1, <2>3, <2>6 DEF EndOfFrame, h
      <3>2. ~is_control(f.opcode) /\ Textual(acc, f)
        BY <1>16, <2>5, <2>6
      <3>3. Then(acc, f) = Says(acc, f)
        BY <1>5, <3>2, ThenIs
      <3>4. PICK a : a = Says(acc, f)
        OBVIOUS
      <3>5. /\ a \in Acc /\ a.code = acc.code /\ a.closed = acc.closed
            /\ a.messages = acc.messages /\ a.partial = <<Whole(acc, f)>>
        BY <1>5, <2>6, <3>2, <3>4, SaysTyped
      <3>6. Keeps(a)'
        <4>1. Keeps(acc)'
          BY <1>5, <3>1, KeepsStays
        <4> QED BY <1>5, <3>5, <4>1 DEF Keeps
      <3>7. Partly(a)'
        <4>1. m_data_msg' = m /\ m # NoMsg
          BY <1>1, <1>5, <1>14, <3>2, NoMsgApart
        <4>2. a.partial # <<>> /\ a.partial[1] = Whole(acc, f)
          BY <3>5
        <4> QED BY <2>4, <4>1, <4>2 DEF Partly, Decodes
      <3>8. m_buf' \o wire' = later
        <4>1. Len(d) = Len(e)
          BY <1>12, <1>13, <2>2
        <4> DEFINE w == m_buf' \o wire'
        <4>2. w \in Seq(Byte)
          BY <1>10, JoinedBytes
        <4>3. d \o w = e \o later /\ later \in Seq(Byte) /\ e \in Seq(Byte) /\ d \in Seq(Byte)
          BY <1>5, <1>7, <1>12
        <4> HIDE DEF w
        <4>4. w = later
          BY <4>1, <4>2, <4>3, EqualParts
        <4> QED BY <4>4 DEF w
      <3>9. Ahead(a, later)'
        <4>1. Ahead(a, later)
          BY <1>5, <3>3, <3>4
        <4> QED BY <1>1, <4>1, AheadStays
      <3>10. AtFrame(a)'
        BY <3>1, <3>6, <3>7, <3>8, <3>9 DEF AtFrame, reset_headers
      <3>11. pc' = "consume" /\ Somewhere'
        BY <1>1, <3>1, <3>10 DEF Somewhere
      <3> QED BY <3>11, Going
    <2>7. CASE f.fin /\ f.opcode = TEXT /\ m.utf8 # 0
      <3>1. Fail(invalid_payload)
        BY <2>1, <2>3, <2>7 DEF EndOfFrame, h, utf8_accept
      <3>2. ~is_control(f.opcode)
        BY <2>7 DEF is_control, TEXT
      <3> QED BY <1>18, <2>5, <2>7, <3>1, <3>2
    <2>8. CASE f.fin /\ ~(f.opcode = TEXT /\ m.utf8 # 0)
      <3>1. m_parse' = "READY" /\ Waiting /\ UNCHANGED <<headerVars, conVars, pc>>
        BY <2>1, <2>3, <2>8 DEF EndOfFrame, h, utf8_accept
      <3>2. Textual(acc, f)
        BY <1>16, <2>5, <2>8
      <3> QED BY <1>1, <1>19, <1>22, <2>2, <2>8, <3>1, <3>2
    <2> QED BY <2>3, <2>6, <2>7, <2>8
  <1> QED BY <1>11, <1>20, <1>21, <1>22

\* A message read is the one sent, and is acted on unless a close frame was.
LEMMA MessageSent == FramesInv /\ SentInv /\ get_message => SentInv'
  <1> SUFFICES ASSUME FramesInv, SentInv, get_message PROVE SentInv'
    OBVIOUS
  <1> DEFINE m == Current
  <1>1. /\ pc = "consume" /\ m_parse = "READY" /\ reset_headers
        /\ IF is_control(m.opcode) THEN m_control_msg' = NoMsg /\ UNCHANGED m_data_msg
           ELSE m_data_msg' = NoMsg /\ UNCHANGED m_control_msg
        /\ IF is_control(m.opcode) THEN process_control_frame(m)
           ELSE IF m_state = "open" THEN HandleMessage(m) ELSE UNCHANGED conVars
        /\ pc' = (IF m_buf = <<>> THEN "read" ELSE "consume")
        /\ UNCHANGED <<meant, wire, m_buf>>
    BY DEF get_message
  <1>2. /\ FramesTypeOK /\ ConOK /\ m \in Metadata
        /\ is_control(m.opcode) <=> m_current_msg = "control"
        /\ is_control(m.opcode) =>
             m.opcode \in Controls /\ Len(m.payload) <= payload_size_basic
        /\ ~is_control(m.opcode) => m.opcode \in Opened
    <2>1. FramesTypeOK /\ ConOK
      BY DEF FramesInv
    <2> QED BY <1>1, <2>1, ReadyMessage
  <1>3. PICK acc, f, k, later, done, r :
          InFrame(acc, f, k, later, done) /\ InPayload(acc, f, k, done, r)
    <2>1. Somewhere
      BY <1>1 DEF SentInv
    <2>2. /\ \A acc : ~AtFrame(acc)
          /\ \A acc, f, k, done : ~InBasic(acc, f, k, done) /\ ~InExtended(acc, f, k, done)
      BY <1>1 DEF AtFrame, InBasic, InExtended
    <2> QED BY <2>1, <2>2 DEF Somewhere
  <1> DEFINE e == Encoded(f, k)
             rest == m_buf \o wire
  <1>4. /\ acc \in Acc /\ acc.code = 0 /\ f \in ClientFrame /\ k \in Nat /\ Keeps(acc)
        /\ done \in Seq(Byte) /\ later \in Seq(Byte) /\ ~Broken(acc, f) /\ Shortest(f)
        /\ Small(acc, f) /\ Textual(acc, f) /\ (is_control(f.opcode) \/ f.fin)
        /\ m_bytes_needed = 0 /\ r \in Nat /\ r + m_bytes_needed = Len(f.payload)
        /\ Len(done) + m_bytes_needed = Len(e) /\ done \o rest = e \o later
        /\ m_current_msg = (IF is_control(f.opcode) THEN "control" ELSE "data")
        /\ Holds(m, acc, f, k, r) /\ (is_control(f.opcode) => Partly(acc))
        /\ Ahead(Then(acc, f), later)
    BY <1>1, <1>3 DEF InFrame, InPayload, Keeps
  <1>5. is_control(m.opcode) <=> is_control(f.opcode)
    BY <1>2, <1>4
  <1>6. r = Len(f.payload) /\ Len(done) = Len(e)
    <2>1. PICK x \in Nat, y \in Nat : x = Len(f.payload) /\ y = Len(done)
      BY <1>4, SentTyped, LenProperties
    <2>2. r = x /\ y = Len(e)
      <3>1. r + 0 = x /\ y + 0 = Len(e)
        BY <1>4, <2>1
      <3> QED BY <1>4, <3>1
    <2> QED BY <2>1, <2>2
  <1>7. rest = later
    <2>1. rest \in Seq(Byte)
      BY <1>2, JoinedBytes DEF FramesTypeOK
    <2>2. e \in Seq(Byte)
      BY <1>4, EncodedIs
    <2> HIDE DEF rest, e
    <2> QED BY <1>4, <1>6, <2>1, <2>2, EqualParts
  <1> HIDE DEF e, m
  <1>8. Kept(m) = Whole(acc, f) /\ m.opcode = Whole(acc, f).opcode
    <2>1. Kept(m) \in Message /\ Kept(m).opcode = m.opcode /\ Kept(m).payload = m.payload
      BY <1>2, KeptTyped
    <2>2. Whole(acc, f) \in Message
      BY <1>4, WholeTyped
    <2>3. m.opcode = Whole(acc, f).opcode /\ m.payload = SoFar(acc, f, r)
      BY <1>4 DEF Holds
    <2>4. SoFar(acc, f, r) = Whole(acc, f).payload
      BY <1>4, <1>6, SoFarEnds
    <2>5. \A x \in Message, y \in Message :
            x.opcode = y.opcode /\ x.payload = y.payload => x = y
      BY DEF Message
    <2> QED BY <2>1, <2>2, <2>3, <2>4, <2>5
  <1>9. PICK a : a = Says(acc, f) /\ Ahead(a, later)
    BY <1>4, ThenIs
  <1>10. /\ a \in Acc /\ a.code = 0
         /\ is_control(f.opcode) =>
              a.partial = acc.partial /\ a.closed = (acc.closed \/ f.opcode = CLOSE)
         /\ ~is_control(f.opcode) => a.closed = acc.closed /\ a.partial = <<>>
         /\ a.messages = IF acc.closed THEN acc.messages
                         ELSE Append(acc.messages, Whole(acc, f))
    BY <1>4, <1>9, SaysTyped
  <1>11. Keeps(a)' /\ Partly(a)'
    <2>1. CASE is_control(f.opcode)
      <3>1. process_control_frame(m) /\ UNCHANGED m_data_msg
        BY <1>1, <1>5, <2>1 DEF m
      <3>2. Acting(m)
        BY <1>2, <1>5, <2>1, <3>1, ControlActed DEF m
      <3>3. m.opcode = CLOSE <=> f.opcode = CLOSE
        <4>1. f.opcode # CONTINUATION
          BY <2>1 DEF is_control, CONTINUATION
        <4> QED BY <1>4, <1>8, <4>1, WholeTyped
      <3>4. CASE m_state = "open"
        <4>1. ~acc.closed /\ delivered = acc.messages
          BY <1>4, <3>4 DEF Keeps
        <4>2. /\ delivered' = Append(delivered, Kept(m))
              /\ m.opcode = CLOSE => m_state' = "closing" /\ m_was_clean'
              /\ m.opcode # CLOSE => m_state' = "open"
          BY <3>2, <3>4 DEF Acting
        <4>3. Keeps(a)'
          BY <1>8, <1>10, <2>1, <3>3, <4>1, <4>2 DEF Keeps
        <4> QED BY <1>4, <1>10, <2>1, <3>1, <4>3 DEF Partly, Decodes
      <3>5. CASE m_state # "open"
        <4>1. acc.closed /\ delivered = acc.messages /\ m_state = "closing" /\ m_was_clean
          BY <1>4, <3>5 DEF Keeps
        <4>2. m_state' = "closing" /\ m_was_clean' /\ delivered' = delivered
          BY <3>2, <3>5, <4>1 DEF Acting
        <4>3. Keeps(a)'
          BY <1>10, <2>1, <4>1, <4>2 DEF Keeps
        <4> QED BY <1>4, <1>10, <2>1, <3>1, <4>3 DEF Partly, Decodes
      <3> QED BY <3>4, <3>5
    <2>2. CASE ~is_control(f.opcode)
      <3>1. m_data_msg' = NoMsg
        BY <1>1, <1>5, <2>2 DEF m
      <3>2. Partly(a)'
        BY <1>10, <2>2, <3>1 DEF Partly
      <3>3. CASE m_state = "open"
        <4>1. ~acc.closed /\ delivered = acc.messages
          BY <1>4, <3>3 DEF Keeps
        <4>2. HandleMessage(m) /\ m.opcode \in Opened
          BY <1>1, <1>2, <1>5, <2>2, <3>3 DEF m
        <4>3. delivered' = Append(delivered, Kept(m)) /\ UNCHANGED <<m_state, m_was_clean>>
          BY <1>2, <3>3, <4>2, MessageActed DEF m
        <4>4. Keeps(a)'
          BY <1>8, <1>10, <2>2, <3>3, <4>1, <4>3 DEF Keeps
        <4> QED BY <3>2, <4>4
      <3>4. CASE m_state # "open"
        <4>1. /\ acc.closed /\ delivered = acc.messages /\ m_state = "closing" /\ m_was_clean
          BY <1>4, <3>4 DEF Keeps
        <4>2. UNCHANGED conVars
          BY <1>1, <1>5, <2>2, <3>4 DEF m
        <4>3. Keeps(a)'
          BY <1>10, <2>2, <4>1, <4>2 DEF Keeps, conVars
        <4> QED BY <3>2, <4>3
      <3> QED BY <3>3, <3>4
    <2> QED BY <2>1, <2>2
  <1>12. Ahead(a, later)' /\ later = (m_buf \o wire)'
    BY <1>1, <1>7, <1>9, AheadStays
  <1>13. AtFrame(a)'
    BY <1>1, <1>11, <1>12 DEF AtFrame, reset_headers
  <1>14. Somewhere'
    BY <1>13 DEF Somewhere
  <1>15. m_parse' # "READY" /\ m_bytes_needed' # 0
    BY <1>1 DEF reset_headers
  <1>16. pc' \in {"read", "consume"} /\ (pc' = "read" => m_buf' = <<>>)
    BY <1>1
  <1> QED BY <1>14, <1>15, <1>16 DEF SentInv

\* No step loses the place.
LEMMA SentStep == FramesInv /\ SentInv /\ [FramesNext]_frVars => SentInv'
  <1> SUFFICES ASSUME FramesInv, SentInv, [FramesNext]_frVars PROVE SentInv'
    OBVIOUS
  <1>1. m_buf \in Seq(Byte) /\ wire \in Seq(Byte) /\ m_bytes_needed \in Nat
    BY DEF FramesInv, FramesTypeOK
  <1>2. CASE handle_read_frame
    <2>1. /\ pc = "read" /\ pc' = "consume"
          /\ UNCHANGED <<meant, m_parse, m_bytes_needed, headerVars, msgVars, conVars>>
      BY <1>2 DEF handle_read_frame
    <2>2. m_buf = <<>> /\ Somewhere
      BY <2>1 DEF SentInv
    <2>3. PICK n \in Reads : /\ m_buf' = Take(wire, MinOf(n, Len(wire)))
                             /\ wire' = Drop(wire, MinOf(n, Len(wire)))
      BY <1>2 DEF handle_read_frame
    <2>4. MinOf(n, Len(wire)) \in Nat /\ MinOf(n, Len(wire)) <= Len(wire)
      <3>1. PICK l \in Nat : l = Len(wire)
        BY <1>1, LenProperties
      <3>2. n \in Nat
        BY WsFramesAssumption
      <3> QED BY <3>1, <3>2 DEF MinOf
    <2>5. m_buf' \o wire' = wire
      BY <1>1, <2>3, <2>4, TakenDropped
    <2>6. m_buf \o wire = wire
      BY <1>1, <2>2, WithNothing
    <2>7. Somewhere'
      BY <2>1, <2>2, <2>5, <2>6, SomewhereStays
    <2> QED BY <2>1, <2>7, Going
  <1>3. CASE copy_basic_header_bytes
    BY <1>3, BasicSent
  <1>4. CASE copy_extended_header_bytes
    BY <1>4, ExtendedSent
  <1>5. CASE process_payload_bytes
    BY <1>5, PayloadSent
  <1>6. CASE get_message
    BY <1>6, MessageSent
  <1>7. CASE read_frame
    <2>1. /\ pc = "consume" /\ pc' = "read" /\ m_parse # "READY" /\ m_buf = <<>>
          /\ m_bytes_needed > 0 /\ UNCHANGED <<m_buf, wire>>
          /\ UNCHANGED <<meant, m_parse, m_bytes_needed, headerVars, msgVars, conVars>>
      BY <1>7 DEF read_frame
    <2>2. Somewhere'
      BY <2>1, SomewhereStays DEF SentInv
    <2>3. m_bytes_needed' # 0
      BY <1>1, <2>1
    <2> QED BY <2>1, <2>2, <2>3 DEF SentInv
  <1>8. CASE Rest \/ UNCHANGED frVars
    <2>1. UNCHANGED frVars
      BY <1>8 DEF Rest
    <2>2. /\ UNCHANGED <<pc, m_buf, wire, prepared, delivered>>
          /\ UNCHANGED <<meant, m_parse, m_bytes_needed, headerVars, msgVars, conVars>>
      BY <2>1 DEF frVars, conVars
    <2>3. pc # "stopped" => Somewhere'
      BY <2>2, SomewhereStays DEF SentInv
    <2>4. pc = "stopped" => Ended'
      BY <2>2 DEF SentInv, Ended
    <2> QED BY <2>2, <2>3, <2>4 DEF SentInv
  <1> QED BY <1>2, <1>3, <1>4, <1>5, <1>6, <1>7, <1>8 DEF FramesNext

\* While reading goes on, what was acted on is a part of what the client sent.
LEMMA SomewherePart ==
  ASSUME Somewhere PROVE IsPrefix(delivered, meant.messages)
  <1>1. ASSUME NEW acc, AtFrame(acc) PROVE IsPrefix(delivered, meant.messages)
    <2>1. delivered = acc.messages /\ Ahead(acc, m_buf \o wire)
      BY <1>1 DEF AtFrame, Keeps
    <2> QED BY <2>1, AheadOnly
  <1>2. ASSUME NEW acc, NEW f, NEW k, NEW later, NEW done, InFrame(acc, f, k, later, done)
        PROVE  IsPrefix(delivered, meant.messages)
    <2>1. /\ delivered = acc.messages /\ acc \in Acc /\ f \in ClientFrame
          /\ Ahead(Then(acc, f), later)
      BY <1>2 DEF InFrame, Keeps
    <2>2. IsPrefix(acc.messages, Then(acc, f).messages) /\ Then(acc, f) \in Acc
      BY <2>1, ThenTyped
    <2>3. IsPrefix(Then(acc, f).messages, meant.messages) /\ meant \in Acc
      BY <2>1, AheadOnly, AheadTyped
    <2>4. /\ acc.messages \in Seq(Message) /\ Then(acc, f).messages \in Seq(Message)
          /\ meant.messages \in Seq(Message)
      BY <2>1, <2>2, <2>3 DEF Acc
    <2>5. IsPrefix(acc.messages, meant.messages)
      BY <2>2, <2>3, <2>4, PrefixOfPrefix
    <2> QED BY <2>1, <2>5
  <1> QED BY <1>1, <1>2 DEF Somewhere

\* In a frame, bytes of it are still to come.
LEMMA MoreToCome ==
  ASSUME FramesInv, pc # "stopped", NEW acc, NEW f, NEW k, NEW later, NEW done,
         InFrame(acc, f, k, later, done), m_bytes_needed # 0,
         InBasic(acc, f, k, done) \/ InExtended(acc, f, k, done)
           \/ \E r : InPayload(acc, f, k, done, r)
  PROVE  m_buf \o wire # <<>>
  <1> DEFINE e == Encoded(f, k)
  <1>1. /\ f \in ClientFrame /\ k \in Nat /\ later \in Seq(Byte) /\ done \in Seq(Byte)
        /\ done \o (m_buf \o wire) = e \o later /\ e \in Seq(Byte)
    BY EncodedIs DEF InFrame
  <1>2. PICK need \in Nat : need = m_bytes_needed /\ need # 0
    BY DEF FramesInv, FramesTypeOK
  <1>3. PICK x \in Nat, y \in Nat : x = Len(done) /\ y = Len(e)
    BY <1>1, LenProperties
  <1> HIDE DEF e
  <1>4. x < y
    <2>1. CASE InBasic(acc, f, k, done)
      <3>1. y >= 2
        BY <1>1, <1>3, HeadFirst DEF e
      <3>2. x = 2 - need
        BY <1>2, <1>3, <2>1 DEF InBasic
      <3> QED BY <1>2, <3>1, <3>2
    <2>2. CASE InExtended(acc, f, k, done)
      <3>1. /\ m_parse = "HEADER_EXTENDED" /\ m_basic_header = HeadOf(f) /\ ~Broken(acc, f)
            /\ x = 2 + m_cursor
        BY <1>3, <2>2 DEF InExtended
      <3>2. m_cursor \in 0 .. 12 /\ m_cursor + m_bytes_needed = get_header_len(HeadOf(f)) - 2
        BY <3>1 DEF FramesInv, FramesTypeOK, Parsing
      <3> DEFINE o == get_masking_key_offset(HeadOf(f))
      <3>3. get_header_len(HeadOf(f)) = 6 + o /\ y = 6 + o + Len(f.payload) /\ o \in {0, 2, 8}
        <4>1. f.masked
          BY <3>1 DEF Broken
        <4>2. get_header_len(HeadOf(f)) = 6 + o /\ Len(e) = 6 + o + Len(f.payload)
          BY <1>1, <4>1, PartsOf DEF e
        <4>3. o \in {0, 2, 8}
          BY <1>1, HeadRead, HeaderTyped
        <4> QED BY <1>3, <4>2, <4>3
      <3> HIDE DEF o
      <3>4. PICK n \in Nat : n = Len(f.payload)
        BY <1>1, SentTyped
      <3>5. m_cursor + need = 4 + o /\ y = 6 + o + n
        <4>1. m_cursor + need = (6 + o) - 2
          BY <1>2, <3>2, <3>3
        <4> QED BY <3>3, <3>4, <4>1
      <3>6. PICK c \in Nat : c = m_cursor
        BY <3>2
      <3>7. x = 2 + c /\ c + need = 4 + o /\ o \in Nat /\ n \in Nat /\ need > 0
        BY <1>2, <3>1, <3>3, <3>4, <3>5, <3>6
      <3>8. 2 + c < 6 + o
        BY <3>7
      <3>9. 6 + o <= y
        BY <3>5, <3>7
      <3> QED BY <1>3, <3>7, <3>8, <3>9
    <2>3. CASE \E r : InPayload(acc, f, k, done, r)
      <3>1. Len(done) + m_bytes_needed = Len(e)
        BY <2>3 DEF InPayload, e
      <3>2. x + need = y
        BY <1>2, <1>3, <3>1
      <3> QED BY <1>2, <3>2
    <2> QED BY <2>1, <2>2, <2>3
  <1>5. ASSUME m_buf \o wire = <<>> PROVE FALSE
    <2>1. done \o <<>> = e \o later
      BY <1>1, <1>5
    <2>2. Len(e) <= Len(done)
      BY <1>1, <2>1, AllRead
    <2> QED BY <1>3, <1>4, <2>2
  <1> QED BY <1>5

\* What the place says of the messages acted on.
LEMMA SentImplies == FramesInv /\ SentInv => AsSent
  <1> SUFFICES ASSUME FramesInv, SentInv PROVE AsSent
    OBVIOUS
  <1>1. ASSUME pc = "stopped" PROVE AsSent
    <2>1. Ended
      BY <1>1 DEF SentInv
    <2>2. delivered \in Seq(Message)
      BY DEF FramesInv, FramesTypeOK
    <2>3. IsPrefix(delivered, meant.messages)
      BY <2>1, <2>2, PrefixItself DEF Ended
    <2> QED BY <1>1, <2>1, <2>3 DEF AsSent, Ended
  <1>2. ASSUME pc # "stopped" PROVE AsSent
    <2>1. Somewhere
      BY <1>2 DEF SentInv
    <2>2. IsPrefix(delivered, meant.messages)
      BY <2>1, SomewherePart
    <2>3. ASSUME pc = "read", wire = <<>> PROVE delivered = meant.messages /\ meant.code = 0
      <3>1. m_buf = <<>> /\ m_bytes_needed # 0
        BY <2>3 DEF SentInv
      <3>2. m_buf \o wire = <<>>
        BY <2>3, <3>1, WithNothing, EmptySeq
      <3>3. PICK acc : AtFrame(acc)
        BY <1>2, <2>1, <3>1, <3>2, MoreToCome DEF Somewhere
      <3>4. Ahead(acc, <<>>) /\ delivered = acc.messages /\ acc.code = 0
        BY <3>2, <3>3 DEF AtFrame, Keeps
      <3>5. acc = meant
        BY <3>4, AheadFrame
      <3> QED BY <3>4, <3>5
    <2> QED BY <1>2, <2>2, <2>3 DEF AsSent
  <1> QED BY <1>1, <1>2

\* However the stream is cut into reads, the messages acted on are those the client
\* sent, in order and no others, up to the first frame the protocol forbids, which the
\* close code then names.
THEOREM AsSentHeld == FramesSpec => []AsSent
  <1>1. FramesSpec => []SentInv
    <2>1. FramesInit => SentInv
      BY SentAtFirst
    <2>2. FramesInv /\ SentInv /\ [FramesNext]_frVars => SentInv'
      BY SentStep
    <2>3. FramesSpec => []FramesInv
      BY FramesInvariant
    <2> QED BY <2>1, <2>2, <2>3, PTL DEF FramesSpec
  <1>2. FramesInv /\ SentInv => AsSent
    BY SentImplies
  <1>3. FramesSpec => []FramesInv
    BY FramesInvariant
  <1> QED BY <1>1, <1>2, <1>3, PTL
=============================================================================
