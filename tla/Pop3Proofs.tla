----------------------------- MODULE Pop3Proofs ------------------------------
(* The sniffer of Pop3 reports the pairs of USER and PASS that a client    *)
(* sends, for every way its bytes are cut and every size of the line.      *)
EXTENDS Pop3, DataProofs

-----------------------------------------------------------------------------
(* Lists of places.                                                        *)

(* What a list of places is made of.                                       *)
LEMMA PlacesDef ==
  ASSUME NEW S, NEW n \in Nat
  PROVE  \E f : /\ f \in [0 .. n -> Seq(1 .. n)]
                /\ f[0] = <<>>
                /\ \A i \in 1 .. n : f[i] = IF i \in S THEN Append(f[i - 1], i)
                                                       ELSE f[i - 1]
                /\ Places(S, n) = f[n]
<1> DEFINE X == Seq(1 .. n)
           g == [i \in 1 .. n |-> [s \in X |-> IF i \in S THEN Append(s, i) ELSE s]]
           body(h) == [i \in 0 .. n |->
                        IF i = 0 THEN <<>>
                        ELSE IF i \in S THEN Append(h[i - 1], i) ELSE h[i - 1]]
           upto == CHOOSE h : h = body(h)
<1>0. \A i \in 1 .. n, s \in X : Append(s, i) \in X
  OBVIOUS
<1>1. Steps(n, X, g)
  <2> HIDE DEF X
  <2>1. \A i \in 1 .. n : [s \in X |-> IF i \in S THEN Append(s, i) ELSE s] \in [X -> X]
    BY <1>0
  <2> QED
    BY <2>1 DEF Steps
<1>2. <<>> \in X
  OBVIOUS
<1>3. PICK f : Iterates(f, n, X, <<>>, g)
  <2> HIDE DEF X, g
  <2> QED
    BY <1>1, <1>2, RecursionExists
<1> HIDE DEF X
<1>12. f \in [0 .. n -> X] /\ f[0] = <<>> /\ \A i \in 1 .. n : f[i] = g[i][f[i - 1]]
  BY <1>3 DEF Iterates
<1>13. \A i \in 1 .. n : f[i] = IF i \in S THEN Append(f[i - 1], i) ELSE f[i - 1]
  <2> TAKE i \in 1 .. n
  <2>1. i - 1 \in 0 .. n
    OBVIOUS
  <2>2. f[i - 1] \in X
    BY <1>12, <2>1
  <2> QED
    BY <1>12, <2>2
<1>4. f = body(f)
  <2>1. \A i \in 0 .. n : f[i] = IF i = 0 THEN <<>>
                                ELSE IF i \in S THEN Append(f[i - 1], i) ELSE f[i - 1]
    <3> TAKE i \in 0 .. n
    <3>1. CASE i = 0
      BY <1>12, <3>1
    <3>2. CASE i # 0
      <4>1. i \in 1 .. n
        BY <3>2
      <4> QED
        BY <1>13, <3>2, <4>1
    <3> QED
      BY <3>1, <3>2
  <2>2. f = [i \in 0 .. n |-> f[i]]
    BY <1>12
  <2> QED
    BY <2>1, <2>2
<1>5. upto = body(upto)
  <2> HIDE DEF body
  <2> QED
    BY <1>4
<1>6. \A i \in 0 .. n : upto[i] = IF i = 0 THEN <<>>
                                  ELSE IF i \in S THEN Append(upto[i - 1], i)
                                                  ELSE upto[i - 1]
  <2> HIDE DEF upto
  <2> QED
    BY <1>5
<1>7. Places(S, n) = upto[n]
  BY Zenon DEF Places
<1> HIDE DEF upto
<1> DEFINE P == {i \in 0 .. n : upto[i] = f[i]}
<1>8. 0 \in P
  BY <1>12, <1>6
<1>9. ASSUME NEW i \in 0 .. n - 1, i \in P PROVE i + 1 \in P
  <2>1. i + 1 \in 1 .. n /\ i + 1 \in 0 .. n /\ (i + 1) - 1 = i /\ i + 1 # 0
    OBVIOUS
  <2>3. f[i + 1] = IF i + 1 \in S THEN Append(f[i], i + 1) ELSE f[i]
    BY <1>13, <2>1
  <2>4. upto[i + 1] = IF i + 1 \in S THEN Append(upto[i], i + 1) ELSE upto[i]
    BY <1>6, <2>1
  <2> QED
    BY <1>9, <2>1, <2>3, <2>4
<1>10. \A i \in 0 .. n : i \in P
  <2> HIDE DEF P
  <2> QED
    BY <1>8, <1>9, Induction
<1>11. Places(S, n) = f[n]
  BY <1>7, <1>10
<1> QED
  BY <1>11, <1>12, <1>13 DEF X

(* Two lists that agree up to n, or that differ in how far they go.        *)
LEMMA PlacesStep ==
  ASSUME NEW S, NEW T, NEW n \in Nat, \A i \in 1 .. n : i \in S <=> i \in T
  PROVE  /\ Places(S, 0) = <<>> /\ Places(S, n) \in Seq(1 .. n)
         /\ Places(T, n + 1) = IF n + 1 \in T THEN Append(Places(S, n), n + 1)
                                              ELSE Places(S, n)
<1>1. PICK f : /\ f \in [0 .. n -> Seq(1 .. n)]
               /\ f[0] = <<>>
               /\ \A i \in 1 .. n : f[i] = IF i \in S THEN Append(f[i - 1], i)
                                                      ELSE f[i - 1]
               /\ Places(S, n) = f[n]
  BY PlacesDef
<1>2. n + 1 \in Nat
  OBVIOUS
<1>3. PICK h : /\ h \in [0 .. n + 1 -> Seq(1 .. n + 1)]
               /\ h[0] = <<>>
               /\ \A i \in 1 .. n + 1 : h[i] = IF i \in T THEN Append(h[i - 1], i)
                                                          ELSE h[i - 1]
               /\ Places(T, n + 1) = h[n + 1]
  BY <1>2, PlacesDef
<1> DEFINE P == {i \in 0 .. n : f[i] = h[i]}
<1>4. 0 \in P
  BY <1>1, <1>3
<1>5. ASSUME NEW i \in 0 .. n - 1, i \in P PROVE i + 1 \in P
  <2>1. i + 1 \in 1 .. n /\ i + 1 \in 0 .. n /\ (i + 1) - 1 = i /\ i + 1 \in 1 .. n + 1
    OBVIOUS
  <2>2. f[i + 1] = IF i + 1 \in S THEN Append(f[i], i + 1) ELSE f[i]
    BY <1>1, <2>1
  <2>3. h[i + 1] = IF i + 1 \in T THEN Append(h[i], i + 1) ELSE h[i]
    BY <1>3, <2>1
  <2> QED
    BY <1>5, <2>1, <2>2, <2>3
<1>6. \A i \in 0 .. n : i \in P
  <2> HIDE DEF P
  <2> QED
    BY <1>4, <1>5, Induction
<1>7. f[n] = h[n]
  BY <1>6
<1>8. h[n + 1] = IF n + 1 \in T THEN Append(h[n], n + 1) ELSE h[n]
  <2>1. n + 1 \in 1 .. n + 1 /\ (n + 1) - 1 = n
    OBVIOUS
  <2> QED
    BY <1>3, <2>1
<1>9. Places(S, 0) = <<>>
  <2>1. 0 \in Nat
    OBVIOUS
  <2> QED
    BY <2>1, PlacesDef
<1>10. Places(S, n) \in Seq(1 .. n)
  BY <1>1
<1> QED
  BY <1>1, <1>3, <1>7, <1>8, <1>9, <1>10
-----------------------------------------------------------------------------
(* The lines of what a client sends.                                       *)

\* What q has behind its last LF.
Pending(q) == SubSeq(q, EndOf(Ends(q), Len(Ends(q))) + 1, Len(q))

(* A byte at the end leaves what is before it.                             *)
LEMMA SubSeqOfAppend ==
  ASSUME NEW q \in Seq(Nat), NEW c \in Nat, NEW a \in Nat \ {0}, NEW b \in Int,
         b <= Len(q)
  PROVE  /\ SubSeq(Append(q, c), a, b) = SubSeq(q, a, b)
         /\ SubSeq(q, a, b) \in Seq(Nat)
<1>1. \A i \in a .. b : i \in 1 .. Len(q)
  OBVIOUS
<1>2. \A i \in 1 .. Len(q) : Append(q, c)[i] = q[i] /\ q[i] \in Nat
  OBVIOUS
<1> QED
  BY <1>1, <1>2

(* What a sequence with one element more is.                               *)
LEMMA AppendIs ==
  ASSUME NEW T, NEW s \in Seq(T), NEW x \in T, NEW y,
         DOMAIN y = 1 .. Len(s) + 1, y = [n \in DOMAIN y |-> y[n]],
         \A n \in 1 .. Len(s) : y[n] = s[n], y[Len(s) + 1] = x
  PROVE  y = Append(s, x)
<1>1. Len(s) \in Nat /\ \A n \in 1 .. Len(s) : s[n] \in T
  OBVIOUS
<1>2. \A n \in 1 .. Len(s) + 1 : n \in 1 .. Len(s) \/ n = Len(s) + 1
  BY <1>1
<1>3. \A n \in 1 .. Len(s) + 1 : y[n] \in T
  BY <1>1, <1>2
<1>4. y \in Seq(T) /\ Len(y) = Len(s) + 1
  BY <1>1, <1>3, SeqDef
<1>5. /\ Append(s, x) \in Seq(T) /\ Len(Append(s, x)) = Len(s) + 1
      /\ \A n \in 1 .. Len(s) : Append(s, x)[n] = s[n]
      /\ Append(s, x)[Len(s) + 1] = x
  BY <1>1, AppendProperties
<1>6. \A n \in 1 .. Len(y) : y[n] = Append(s, x)[n]
  BY <1>2, <1>4, <1>5
<1> QED
  BY <1>4, <1>5, <1>6, SeqEqual

(* A byte at the end belongs to what ends there.                           *)
LEMMA SubSeqGrows ==
  ASSUME NEW q \in Seq(Nat), NEW c \in Nat, NEW a \in 1 .. Len(q) + 1
  PROVE  SubSeq(Append(q, c), a, Len(q) + 1) = Append(SubSeq(q, a, Len(q)), c)
<1>1. PICK m \in Nat : m = Len(q) - a + 1
  OBVIOUS
<1>2. PICK x : x = SubSeq(q, a, Len(q))
  OBVIOUS
<1>3. PICK y : y = SubSeq(Append(q, c), a, Len(q) + 1)
  OBVIOUS
<1>4. Len(q) \in Nat /\ a \in Nat /\ a >= 1 /\ a <= Len(q) + 1
  OBVIOUS
<1>5. x = [i \in 1 .. m |-> q[a + i - 1]]
  BY <1>1, <1>2, <1>4
<1>6. y = [i \in 1 .. m + 1 |-> Append(q, c)[a + i - 1]]
  <2>1. Len(q) + 1 - a + 1 = m + 1
    BY <1>1, <1>4
  <2> QED
    BY <1>3, <1>4, <2>1
<1>7. \A i \in 1 .. m : a + i - 1 \in 1 .. Len(q)
  BY <1>1, <1>4
<1>8. a + (m + 1) - 1 = Len(q) + 1 /\ m + 1 \in 1 .. m + 1
  BY <1>1, <1>4
<1>9. \A i \in 1 .. Len(q) : Append(q, c)[i] = q[i] /\ q[i] \in Nat
  OBVIOUS
<1>10. x \in Seq(Nat) /\ Len(x) = m
  BY <1>2, <1>5, <1>7, <1>9, SubSeqOfAppend
<1>11. Append(q, c)[Len(q) + 1] = c
  OBVIOUS
<1>12. DOMAIN y = 1 .. Len(x) + 1 /\ y = [i \in DOMAIN y |-> y[i]]
  BY <1>6, <1>10
<1>13. \A i \in 1 .. Len(x) : y[i] = x[i]
  BY <1>5, <1>6, <1>7, <1>9, <1>10
<1>14. y[Len(x) + 1] = c
  BY <1>6, <1>8, <1>10, <1>11
<1>15. y = Append(x, c)
  BY <1>10, <1>12, <1>13, <1>14, AppendIs
<1> QED
  BY <1>2, <1>3, <1>15

LEMMA EndsStep ==
  ASSUME NEW q \in Seq(Nat), NEW c \in Nat
  PROVE  /\ Ends(q) \in Seq(1 .. Len(q))
         /\ Ends(Append(q, c)) = IF c = LF THEN Append(Ends(q), Len(q) + 1) ELSE Ends(q)
<1> DEFINE S == {i \in 1 .. Len(q) : q[i] = LF}
           r == Append(q, c)
           T == {i \in 1 .. Len(r) : r[i] = LF}
<1>1. Len(q) \in Nat /\ Len(r) = Len(q) + 1 /\ r[Len(q) + 1] = c
  OBVIOUS
<1>2. \A i \in 1 .. Len(q) : i \in S <=> i \in T
  OBVIOUS
<1>3. Len(q) + 1 \in T <=> c = LF
  BY <1>1
<1>4. Ends(q) = Places(S, Len(q)) /\ Ends(r) = Places(T, Len(q) + 1)
  BY <1>1 DEF Ends
<1> HIDE DEF S, T, r
<1>5. /\ Places(S, Len(q)) \in Seq(1 .. Len(q))
      /\ Places(T, Len(q) + 1) = IF Len(q) + 1 \in T
                                 THEN Append(Places(S, Len(q)), Len(q) + 1)
                                 ELSE Places(S, Len(q))
  BY <1>1, <1>2, PlacesStep
<1>6. Ends(r) = IF c = LF THEN Append(Ends(q), Len(q) + 1) ELSE Ends(q)
  BY <1>3, <1>4, <1>5
<1> QED
  BY <1>4, <1>5, <1>6 DEF r

(* A command is a string of bytes.                                         *)
LEMMA AsCommandIsSeq ==
  ASSUME NEW l \in Seq(Nat)
  PROVE  AsCommand(l) \in Seq(Nat)
<1> DEFINE bare == IF l # <<>> /\ Last(l) = CR THEN Front(l) ELSE l
<1>1. bare \in Seq(Nat)
  BY DEF Front
<1>2. CString(bare) \in Seq(Nat)
  <2> HIDE DEF bare
  <2> QED
    BY <1>1, CStringIsSeq
<1> QED
  BY <1>2 DEF AsCommand

(* A byte ends the last line, or belongs to it.                            *)
LEMMA CommandsStep ==
  ASSUME NEW q \in Seq(Nat), NEW c \in Nat
  PROVE  /\ Commands(q) \in Seq(Seq(Nat)) /\ Pending(q) \in Seq(Nat)
         /\ c = LF => /\ Commands(Append(q, c)) =
                           Append(Commands(q), AsCommand(Pending(q)))
                      /\ Pending(Append(q, c)) = <<>>
         /\ c # LF => /\ Commands(Append(q, c)) = Commands(q)
                      /\ Pending(Append(q, c)) = Append(Pending(q), c)
<1>1. PICK e : e = Ends(q)
  OBVIOUS
<1>2. PICK r : r = Append(q, c)
  OBVIOUS
<1>3. PICK d : d = Ends(r)
  OBVIOUS
<1>4. e \in Seq(1 .. Len(q)) /\ d = IF c = LF THEN Append(e, Len(q) + 1) ELSE e
  BY <1>1, <1>2, <1>3, EndsStep
<1>5. Len(q) \in Nat /\ Len(r) = Len(q) + 1 /\ Len(e) \in Nat
  BY <1>2, <1>4
<1>6. \A n \in 0 .. Len(e) : EndOf(e, n) \in 0 .. Len(q) /\ EndOf(d, n) = EndOf(e, n)
  <2> TAKE n \in 0 .. Len(e)
  <2>1. n # 0 => e[n] \in 1 .. Len(q) /\ d[n] = e[n]
    <3> HAVE n # 0
    <3>1. n \in 1 .. Len(e)
      BY <1>5
    <3>2. e[n] \in 1 .. Len(q)
      BY <1>4, <3>1, ElementOfSeq
    <3>3. CASE c = LF
      <4>1. Len(q) + 1 \in Nat /\ e \in Seq(Nat)
        BY <1>4, <1>5
      <4>2. Append(e, Len(q) + 1)[n] = e[n]
        BY <3>1, <4>1, AppendProperties
      <4> QED
        BY <1>4, <3>2, <3>3, <4>2
    <3>4. CASE c # LF
      BY <1>4, <3>2, <3>4
    <3> QED
      BY <3>3, <3>4
  <2> QED
    BY <1>5, <2>1 DEF EndOf
<1> DEFINE raw(n) == SubSeq(q, EndOf(e, n - 1) + 1, EndOf(e, n) - 1)
<1>7. \A n \in 1 .. Len(e) :
        /\ raw(n) \in Seq(Nat)
        /\ SubSeq(r, EndOf(d, n - 1) + 1, EndOf(d, n) - 1) = raw(n)
  <2> TAKE n \in 1 .. Len(e)
  <2>1. n - 1 \in 0 .. Len(e) /\ n \in 0 .. Len(e)
    BY <1>5
  <2>2. PICK u : u = EndOf(e, n - 1)
    OBVIOUS
  <2>3. PICK v : v = EndOf(e, n)
    OBVIOUS
  <2>4. /\ u \in 0 .. Len(q) /\ EndOf(d, n - 1) = u
        /\ v \in 0 .. Len(q) /\ EndOf(d, n) = v
    BY <1>6, <2>1, <2>2, <2>3
  <2>5. u + 1 \in Nat \ {0} /\ v - 1 \in Int /\ v - 1 <= Len(q)
    BY <1>5, <2>4
  <2>6. /\ SubSeq(r, u + 1, v - 1) = SubSeq(q, u + 1, v - 1)
        /\ SubSeq(q, u + 1, v - 1) \in Seq(Nat)
    BY <1>2, <2>5, SubSeqOfAppend
  <2> QED
    BY <2>2, <2>3, <2>4, <2>6
<1>8. PICK a \in Nat \ {0} : /\ a = EndOf(e, Len(e)) + 1 /\ a = EndOf(d, Len(e)) + 1
                             /\ a <= Len(q) + 1
  <2>1. PICK u : u = EndOf(e, Len(e))
    OBVIOUS
  <2>2. u \in 0 .. Len(q) /\ EndOf(d, Len(e)) = u
    <3>1. Len(e) \in 0 .. Len(e)
      BY <1>5
    <3> QED
      BY <1>6, <2>1, <3>1
  <2>3. u + 1 \in Nat \ {0} /\ u + 1 <= Len(q) + 1
    BY <1>5, <2>2
  <2> QED
    BY <2>1, <2>2, <2>3
<1>9. Pending(q) = SubSeq(q, a, Len(q)) /\ Pending(q) \in Seq(Nat)
  BY <1>1, <1>5, <1>8, SubSeqOfAppend DEF Pending
<1>10. Commands(q) = [n \in 1 .. Len(e) |-> AsCommand(raw(n))]
  BY <1>1 DEF Commands
<1>11. Commands(r) = [n \in 1 .. Len(d) |->
                        AsCommand(SubSeq(r, EndOf(d, n - 1) + 1, EndOf(d, n) - 1))]
  BY <1>3 DEF Commands
<1>12. \A n \in 1 .. Len(e) : AsCommand(raw(n)) \in Seq(Nat)
  <2> HIDE DEF raw
  <2> QED
    BY <1>7, AsCommandIsSeq
<1>13. Commands(q) \in Seq(Seq(Nat)) /\ Len(Commands(q)) = Len(e)
  <2> HIDE DEF raw
  <2> QED
    BY <1>5, <1>10, <1>12
<1>14. CASE c = LF
  <2>1. Len(d) = Len(e) + 1 /\ EndOf(d, Len(e) + 1) = Len(q) + 1
    BY <1>4, <1>5, <1>14 DEF EndOf
  <2>2. SubSeq(r, a, Len(q)) = SubSeq(q, a, Len(q))
    <3>1. Len(q) \in Int /\ Len(q) <= Len(q)
      BY <1>5
    <3> QED
      BY <1>2, <3>1, SubSeqOfAppend
  <2>3. AsCommand(SubSeq(r, EndOf(d, Len(e) + 1 - 1) + 1, EndOf(d, Len(e) + 1) - 1)) =
          AsCommand(Pending(q))
    <3>1. Len(e) + 1 - 1 = Len(e) /\ Len(q) + 1 - 1 = Len(q)
      BY <1>5
    <3>2. EndOf(d, Len(e) + 1 - 1) + 1 = a
      BY <1>8, <3>1
    <3>3. EndOf(d, Len(e) + 1) - 1 = Len(q)
      BY <2>1, <3>1
    <3>4. SubSeq(r, EndOf(d, Len(e) + 1 - 1) + 1, EndOf(d, Len(e) + 1) - 1) = Pending(q)
      BY <1>9, <2>2, <3>2, <3>3, Zenon
    <3> QED
      BY <3>4, Zenon
  <2>4. AsCommand(Pending(q)) \in Seq(Nat)
    BY <1>9, AsCommandIsSeq
  <2>5. Commands(r) = Append(Commands(q), AsCommand(Pending(q)))
    <3>1. PICK x \in Seq(Nat) : x = AsCommand(Pending(q))
      BY <2>4
    <3>2. PICK cs \in Seq(Seq(Nat)) : cs = Commands(q)
      BY <1>13
    <3>3. Len(cs) = Len(e)
      BY <1>13, <3>2
    <3> DEFINE of(n) == AsCommand(SubSeq(r, EndOf(d, n - 1) + 1, EndOf(d, n) - 1))
    <3>4. \A n \in 1 .. Len(e) : of(n) = cs[n]
      <4> TAKE n \in 1 .. Len(e)
      <4>1. of(n) = AsCommand(raw(n))
        BY <1>7, Zenon
      <4> QED
        BY <1>10, <3>2, <4>1
    <3>5. of(Len(e) + 1) = x
      BY <2>3, <3>1
    <3>6. Commands(r) = [n \in 1 .. Len(cs) + 1 |-> of(n)]
      BY <1>11, <2>1, <3>3
    <3> HIDE DEF of
    <3>7. \A n \in 1 .. Len(cs) : of(n) = cs[n]
      BY <3>3, <3>4
    <3>8. of(Len(cs) + 1) = x
      BY <3>3, <3>5
    <3>9. PICK y : y = [n \in 1 .. Len(cs) + 1 |-> of(n)]
      OBVIOUS
    <3>10. y = Append(cs, x)
      <4>1. DOMAIN y = 1 .. Len(cs) + 1 /\ y = [n \in DOMAIN y |-> y[n]]
        BY <3>9
      <4>2. /\ \A n \in 1 .. Len(cs) : n \in 1 .. Len(cs) + 1
            /\ Len(cs) + 1 \in 1 .. Len(cs) + 1
        OBVIOUS
      <4>3. \A n \in 1 .. Len(cs) : y[n] = cs[n]
        BY <3>7, <3>9, <4>2
      <4>4. y[Len(cs) + 1] = x
        BY <3>8, <3>9, <4>2
      <4> QED
        BY <4>1, <4>3, <4>4, AppendIs
    <3> QED
      BY <3>1, <3>2, <3>6, <3>9, <3>10
  <2>6. Pending(r) = <<>>
    <3>1. Pending(r) = SubSeq(r, Len(q) + 2, Len(q) + 1)
      BY <1>3, <1>5, <2>1 DEF Pending
    <3> QED
      BY <1>5, <3>1
  <2> QED
    BY <1>2, <1>9, <1>13, <1>14, <2>5, <2>6
<1>15. CASE c # LF
  <2>1. d = e
    BY <1>4, <1>15
  <2>2. Commands(r) = Commands(q)
    <3>1. \A n \in 1 .. Len(e) :
            AsCommand(SubSeq(r, EndOf(d, n - 1) + 1, EndOf(d, n) - 1)) = AsCommand(raw(n))
      BY <1>7, Zenon
    <3> DEFINE of(n) == AsCommand(SubSeq(r, EndOf(d, n - 1) + 1, EndOf(d, n) - 1))
               as(n) == AsCommand(raw(n))
    <3>2. Commands(r) = [n \in 1 .. Len(e) |-> of(n)]
      BY <1>11, <2>1
    <3>3. Commands(q) = [n \in 1 .. Len(e) |-> as(n)]
      BY <1>10
    <3>4. \A n \in 1 .. Len(e) : of(n) = as(n)
      BY <3>1
    <3> HIDE DEF of, as
    <3> QED
      BY <3>2, <3>3, <3>4
  <2>3. Pending(r) = SubSeq(Append(q, c), a, Len(q) + 1)
    BY <1>2, <1>3, <1>5, <1>8, <2>1 DEF Pending
  <2>4. SubSeq(Append(q, c), a, Len(q) + 1) = Append(SubSeq(q, a, Len(q)), c)
    <3>1. a \in 1 .. Len(q) + 1
      BY <1>5, <1>8
    <3> QED
      BY <3>1, SubSeqGrows
  <2> QED
    BY <1>2, <1>9, <1>13, <1>15, <2>2, <2>3, <2>4
<1> QED
  BY <1>14, <1>15
-----------------------------------------------------------------------------
(* The pairs in a list of commands.                                        *)

(* No command is a USER and a PASS.                                        *)
LEMMA PrefixesDiffer ==
  ASSUME NEW f
  PROVE  ~(HasPrefix(f, USER_PREFIX) /\ HasPrefix(f, PASS_PREFIX))
<1> SUFFICES ASSUME HasPrefix(f, USER_PREFIX), HasPrefix(f, PASS_PREFIX) PROVE FALSE
  OBVIOUS
<1>1. PICK i \in 1 .. Len(USER_PREFIX) : tolower(USER_PREFIX[i]) # tolower(PASS_PREFIX[i])
  BY Pop3Assumption
<1>2. i \in 1 .. Len(PASS_PREFIX)
  BY Pop3Assumption
<1>3. tolower(f[i]) = tolower(USER_PREFIX[i]) /\ tolower(f[i]) = tolower(PASS_PREFIX[i])
  BY <1>1, <1>2 DEF HasPrefix
<1> QED
  BY <1>1, <1>3

\* What the next command does to the users that wait for a password.
NextUsers(commands, x) ==
  IF HasPrefix(x, USER_PREFIX) THEN {Len(commands) + 1}
  ELSE IF HasPrefix(x, PASS_PREFIX) THEN {}
       ELSE UserBefore(commands, Len(commands) + 1)

LEMMA UserBeforeStep ==
  ASSUME NEW cs \in Seq(Seq(Nat)), NEW x \in Seq(Nat)
  PROVE  /\ \A n \in 1 .. Len(cs) + 1 : UserBefore(Append(cs, x), n) = UserBefore(cs, n)
         /\ UserBefore(Append(cs, x), Len(cs) + 2) = NextUsers(cs, x)
<1>1. PICK k \in Nat : k = Len(cs)
  OBVIOUS
<1>2. PICK r : r = Append(cs, x)
  OBVIOUS
<1>3. (\A n \in 1 .. k : r[n] = cs[n]) /\ r[k + 1] = x
  BY <1>1, <1>2
<1>4. \A n \in 1 .. k + 1 : UserBefore(r, n) = UserBefore(cs, n)
  <2> TAKE n \in 1 .. k + 1
  <2>1. \A m \in 1 .. n - 1 : m \in 1 .. k /\ \A j \in m + 1 .. n - 1 : j \in 1 .. k
    OBVIOUS
  <2>2. \A m \in 1 .. n - 1 : r[m] = cs[m] /\ \A j \in m + 1 .. n - 1 : r[j] = cs[j]
    BY <1>3, <2>1
  <2> QED
    BY <2>2 DEF UserBefore
<1>5. \A m \in 1 .. k + 2 - 1 : m = k + 1 \/ m \in 1 .. k + 1 - 1
  OBVIOUS
<1>6. UserBefore(r, k + 2) = NextUsers(cs, x)
  <2>1. CASE HasPrefix(x, USER_PREFIX)
    <3>1. k + 1 \in UserBefore(r, k + 2)
      BY <1>3, <2>1 DEF UserBefore
    <3>2. ASSUME NEW m \in UserBefore(r, k + 2) PROVE m = k + 1
      <4> SUFFICES ASSUME m # k + 1 PROVE FALSE
        OBVIOUS
      <4>1. m \in 1 .. k /\ k + 1 \in m + 1 .. k + 2 - 1
        BY <1>5 DEF UserBefore
      <4>2. ~HasPrefix(r[k + 1], USER_PREFIX)
        BY <4>1 DEF UserBefore
      <4> QED
        BY <1>3, <2>1, <4>2
    <3>3. UserBefore(r, k + 2) = {k + 1}
      BY <3>1, <3>2
    <3> QED
      BY <1>1, <2>1, <3>3 DEF NextUsers
  <2>2. CASE ~HasPrefix(x, USER_PREFIX) /\ HasPrefix(x, PASS_PREFIX)
    <3>1. ASSUME NEW m \in UserBefore(r, k + 2) PROVE FALSE
      <4>1. m # k + 1
        BY <1>3, <2>2 DEF UserBefore
      <4>2. m \in 1 .. k /\ k + 1 \in m + 1 .. k + 2 - 1
        BY <1>5, <4>1 DEF UserBefore
      <4>3. ~HasPrefix(r[k + 1], PASS_PREFIX)
        BY <4>2 DEF UserBefore
      <4> QED
        BY <1>3, <2>2, <4>3
    <3>2. UserBefore(r, k + 2) = {}
      BY <3>1
    <3> QED
      BY <2>2, <3>2 DEF NextUsers
  <2>3. CASE ~HasPrefix(x, USER_PREFIX) /\ ~HasPrefix(x, PASS_PREFIX)
    <3>1. ASSUME NEW m \in UserBefore(r, k + 2) PROVE m \in UserBefore(cs, k + 1)
      <4>1. m # k + 1
        BY <1>3, <2>3 DEF UserBefore
      <4>2. m \in 1 .. k + 1 - 1 /\ m \in 1 .. k
        BY <1>5, <4>1 DEF UserBefore
      <4>3. \A j \in m + 1 .. k + 1 - 1 : j \in m + 1 .. k + 2 - 1 /\ j \in 1 .. k
        BY <4>2
      <4>4. /\ HasPrefix(r[m], USER_PREFIX)
            /\ \A j \in m + 1 .. k + 2 - 1 : /\ ~HasPrefix(r[j], USER_PREFIX)
                                             /\ ~HasPrefix(r[j], PASS_PREFIX)
        BY DEF UserBefore
      <4> QED
        BY <1>3, <4>2, <4>3, <4>4 DEF UserBefore
    <3>2. ASSUME NEW m \in UserBefore(cs, k + 1) PROVE m \in UserBefore(r, k + 2)
      <4>1. /\ m \in 1 .. k /\ HasPrefix(cs[m], USER_PREFIX)
            /\ \A j \in m + 1 .. k + 1 - 1 : /\ ~HasPrefix(cs[j], USER_PREFIX)
                                             /\ ~HasPrefix(cs[j], PASS_PREFIX)
        BY DEF UserBefore
      <4>2. m \in 1 .. k + 2 - 1
        BY <4>1
      <4>3. \A j \in m + 1 .. k + 2 - 1 :
              j = k + 1 \/ (j \in m + 1 .. k + 1 - 1 /\ j \in 1 .. k)
        BY <4>1
      <4>4. \A j \in m + 1 .. k + 2 - 1 : /\ ~HasPrefix(r[j], USER_PREFIX)
                                          /\ ~HasPrefix(r[j], PASS_PREFIX)
        BY <1>3, <2>3, <4>1, <4>3
      <4> QED
        BY <1>3, <4>1, <4>2, <4>4 DEF UserBefore
    <3>3. UserBefore(r, k + 2) = UserBefore(cs, k + 1)
      BY <3>1, <3>2
    <3> QED
      BY <1>1, <2>3, <3>3 DEF NextUsers
  <2> QED
    BY <2>1, <2>2, <2>3
<1> QED
  BY <1>1, <1>2, <1>4, <1>6

\* Where a list of commands has a PASS that answers a USER.
Answers(commands) ==
  Places({n \in 1 .. Len(commands) : IsAnswer(commands, n)}, Len(commands))

LEMMA PairsDef ==
  ASSUME NEW cs \in Seq(Seq(Nat))
  PROVE  /\ Answers(cs) \in Seq(1 .. Len(cs))
         /\ PairsOf(cs) = [i \in 1 .. Len(Answers(cs)) |-> PairAt(cs, Answers(cs)[i])]
<1>1. Len(cs) \in Nat
  OBVIOUS
<1> DEFINE S == {n \in 1 .. Len(cs) : IsAnswer(cs, n)}
<1>2. Places(S, Len(cs)) \in Seq(1 .. Len(cs))
  <2> HIDE DEF S
  <2> QED
    BY <1>1, PlacesStep
<1> QED
  BY <1>2 DEF Answers, PairsOf

(* Only places that answer are listed.                                     *)
LEMMA PlacesAreIn ==
  ASSUME NEW S, NEW n \in Nat
  PROVE  \A i \in 1 .. Len(Places(S, n)) : Places(S, n)[i] \in S
<1>1. PICK f : /\ f \in [0 .. n -> Seq(1 .. n)]
               /\ f[0] = <<>>
               /\ \A i \in 1 .. n : f[i] = IF i \in S THEN Append(f[i - 1], i)
                                                      ELSE f[i - 1]
               /\ Places(S, n) = f[n]
  BY PlacesDef
<1> DEFINE P == {i \in 0 .. n : \A j \in 1 .. Len(f[i]) : f[i][j] \in S}
<1>2. 0 \in P
  BY <1>1
<1>3. ASSUME NEW i \in 0 .. n - 1, i \in P PROVE i + 1 \in P
  <2>1. i + 1 \in 1 .. n /\ i + 1 \in 0 .. n /\ (i + 1) - 1 = i /\ i \in 0 .. n
    OBVIOUS
  <2>2. f[i + 1] = IF i + 1 \in S THEN Append(f[i], i + 1) ELSE f[i]
    BY <1>1, <2>1
  <2>3. PICK s \in Seq(1 .. n) : s = f[i]
    BY <1>1, <2>1
  <2>4. \A j \in 1 .. Len(s) : s[j] \in S
    BY <1>3, <2>3
  <2>5. CASE i + 1 \in S
    <3>1. PICK t : t = Append(s, i + 1)
      OBVIOUS
    <3>2. /\ Len(t) = Len(s) + 1 /\ t[Len(s) + 1] = i + 1
          /\ \A j \in 1 .. Len(s) : t[j] = s[j]
      BY <2>1, <3>1
    <3>3. \A j \in 1 .. Len(t) : j \in 1 .. Len(s) \/ j = Len(s) + 1
      BY <3>2
    <3>4. \A j \in 1 .. Len(t) : t[j] \in S
      BY <2>4, <2>5, <3>2, <3>3
    <3> QED
      BY <2>1, <2>2, <2>3, <2>5, <3>1, <3>4
  <2>6. CASE i + 1 \notin S
    BY <2>1, <2>2, <2>3, <2>4, <2>6
  <2> QED
    BY <2>5, <2>6
<1>4. \A i \in 0 .. n : i \in P
  <2> HIDE DEF P
  <2> QED
    BY <1>2, <1>3, Induction
<1>5. n \in P
  BY <1>4
<1> QED
  BY <1>1, <1>5

\* The credentials that the next command, a PASS, completes.
NextPair(commands, x) ==
  LET m == CHOOSE m \in UserBefore(commands, Len(commands) + 1) : TRUE
  IN  <<Truncated(Behind(commands[m], USER_PREFIX), USER_SIZE), Behind(x, PASS_PREFIX)>>

(* Credentials are two strings of bytes.                                   *)
LEMMA PairIsSeqs ==
  ASSUME NEW u \in Seq(Nat), NEW x \in Seq(Nat)
  PROVE  <<Truncated(Behind(u, USER_PREFIX), USER_SIZE), Behind(x, PASS_PREFIX)>>
           \in Seq(Nat) \X Seq(Nat)
<1>1. USER_SIZE \in Nat /\ Len(USER_PREFIX) \in Nat /\ Len(PASS_PREFIX) \in Nat
  BY Pop3Assumption
<1>2. PICK b : b = Behind(u, USER_PREFIX)
  OBVIOUS
<1>3. b \in Seq(Nat) /\ Behind(x, PASS_PREFIX) \in Seq(Nat)
  <2>1. ASSUME NEW f \in Seq(Nat), NEW n \in Nat PROVE SubSeq(f, n + 1, Len(f)) \in Seq(Nat)
    <3>1. \A i \in n + 1 .. Len(f) : f[i] \in Nat
      OBVIOUS
    <3>2. n + 1 \in Int /\ Len(f) \in Int
      OBVIOUS
    <3> QED
      BY <3>1, <3>2, SubSeqProperties
  <2> QED
    BY <1>1, <1>2, <2>1 DEF Behind
<1>4. Truncated(b, USER_SIZE) \in Seq(Nat)
  <2>1. Len(b) < USER_SIZE \/ \A i \in 1 .. USER_SIZE - 1 : b[i] \in Nat
    BY <1>1, <1>3
  <2>2. ~(Len(b) < USER_SIZE) => SubSeq(b, 1, USER_SIZE - 1) \in Seq(Nat)
    BY <1>1, <1>3, <2>1, SubSeqProperties
  <2> QED
    BY <1>3, <2>2 DEF Truncated
<1> QED
  BY <1>2, <1>3, <1>4

(* A PASS that answers a USER completes a pair, nothing else does.         *)
LEMMA PairsStep ==
  ASSUME NEW cs \in Seq(Seq(Nat)), NEW x \in Seq(Nat)
  PROVE  /\ PairsOf(cs) \in Seq(Seq(Nat) \X Seq(Nat))
         /\ PairsOf(Append(cs, x)) =
              IF HasPrefix(x, PASS_PREFIX) /\ UserBefore(cs, Len(cs) + 1) # {}
              THEN Append(PairsOf(cs), NextPair(cs, x))
              ELSE PairsOf(cs)
         /\ UserBefore(cs, Len(cs) + 1) # {} => NextPair(cs, x) \in Seq(Nat) \X Seq(Nat)
<1>1. PICK k \in Nat : k = Len(cs)
  OBVIOUS
<1>2. PICK r \in Seq(Seq(Nat)) : r = Append(cs, x)
  BY AppendProperties
<1>3. (\A n \in 1 .. k : r[n] = cs[n]) /\ r[k + 1] = x /\ Len(r) = k + 1
  BY <1>1, <1>2
<1>4. \A n \in 1 .. k + 1 : UserBefore(r, n) = UserBefore(cs, n)
  BY <1>1, <1>2, UserBeforeStep
<1> DEFINE S == {n \in 1 .. Len(cs) : IsAnswer(cs, n)}
           T == {n \in 1 .. Len(r) : IsAnswer(r, n)}
<1>5. \A n \in 1 .. k : n \in S <=> n \in T
  BY <1>1, <1>3, <1>4 DEF IsAnswer
<1>6. k + 1 \in T <=> HasPrefix(x, PASS_PREFIX) /\ UserBefore(cs, k + 1) # {}
  BY <1>3, <1>4 DEF IsAnswer
<1>7. PICK a : a = Answers(cs)
  OBVIOUS
<1>8. PICK b : b = Answers(r)
  OBVIOUS
<1>9. /\ a = Places(S, k) /\ a \in Seq(1 .. k)
      /\ b = IF k + 1 \in T THEN Append(a, k + 1) ELSE a
      /\ \A i \in 1 .. Len(a) : a[i] \in S
  <2>1. a = Places(S, k) /\ b = Places(T, k + 1)
    BY <1>1, <1>3, <1>7, <1>8 DEF Answers
  <2> HIDE DEF S, T
  <2>2. \A i \in 1 .. Len(Places(S, k)) : Places(S, k)[i] \in S
    BY PlacesAreIn
  <2>3. /\ Places(S, k) \in Seq(1 .. k)
        /\ Places(T, k + 1) = IF k + 1 \in T THEN Append(Places(S, k), k + 1)
                                             ELSE Places(S, k)
    BY <1>5, PlacesStep
  <2> QED
    BY <2>1, <2>2, <2>3
<1>10. /\ PairsOf(cs) = [i \in 1 .. Len(a) |-> PairAt(cs, a[i])]
       /\ PairsOf(r) = [i \in 1 .. Len(b) |-> PairAt(r, b[i])]
  BY <1>7, <1>8, PairsDef
<1>11. \A n \in 1 .. k + 1 :
         UserBefore(cs, n) # {} =>
           /\ (CHOOSE m \in UserBefore(cs, n) : TRUE) \in 1 .. n - 1
           /\ (CHOOSE m \in UserBefore(cs, n) : TRUE) \in 1 .. k
  <2> TAKE n \in 1 .. k + 1
  <2>1. UserBefore(cs, n) \subseteq 1 .. n - 1
    BY DEF UserBefore
  <2>2. \A m \in 1 .. n - 1 : m \in 1 .. k
    OBVIOUS
  <2> QED
    BY <2>1, <2>2
<1>12. \A i \in 1 .. Len(a) :
         PairAt(r, a[i]) = PairAt(cs, a[i]) /\ PairAt(cs, a[i]) \in Seq(Nat) \X Seq(Nat)
  <2> TAKE i \in 1 .. Len(a)
  <2>1. PICK n : n = a[i]
    OBVIOUS
  <2>2. n \in 1 .. k /\ n \in 1 .. k + 1 /\ UserBefore(cs, n) # {}
    <3>1. n \in S
      BY <1>9, <2>1
    <3>2. n \in 1 .. k /\ IsAnswer(cs, n)
      BY <1>1, <3>1
    <3>3. n \in 1 .. k + 1
      BY <3>2
    <3> QED
      BY <3>2, <3>3 DEF IsAnswer
  <2>3. PICK m : m = CHOOSE j \in UserBefore(cs, n) : TRUE
    OBVIOUS
  <2>4. m \in 1 .. k
    BY <1>11, <2>2, <2>3
  <2>5. r[m] = cs[m] /\ r[n] = cs[n] /\ cs[m] \in Seq(Nat) /\ cs[n] \in Seq(Nat)
    BY <1>1, <1>3, <2>2, <2>4
  <2>6. /\ PairAt(cs, n) = <<Truncated(Behind(cs[m], USER_PREFIX), USER_SIZE),
                             Behind(cs[n], PASS_PREFIX)>>
        /\ PairAt(r, n) = <<Truncated(Behind(r[m], USER_PREFIX), USER_SIZE),
                            Behind(r[n], PASS_PREFIX)>>
    BY <1>4, <2>2, <2>3 DEF PairAt
  <2> QED
    BY <2>1, <2>5, <2>6, PairIsSeqs
<1>13. PairsOf(cs) \in Seq(Seq(Nat) \X Seq(Nat)) /\ Len(PairsOf(cs)) = Len(a)
  <2>1. Len(a) \in Nat
    BY <1>9
  <2> QED
    BY <1>10, <1>12, <2>1
<1>14. UserBefore(cs, k + 1) # {} => NextPair(cs, x) \in Seq(Nat) \X Seq(Nat)
  <2> HAVE UserBefore(cs, k + 1) # {}
  <2>1. PICK m : m = CHOOSE j \in UserBefore(cs, k + 1) : TRUE
    OBVIOUS
  <2>2. m \in 1 .. k /\ cs[m] \in Seq(Nat)
    <3>1. k + 1 \in 1 .. k + 1 /\ UserBefore(cs, k + 1) # {}
      OBVIOUS
    <3>2. m \in 1 .. k
      BY <1>11, <2>1, <3>1
    <3> QED
      BY <1>1, <3>2, ElementOfSeq
  <2>3. NextPair(cs, x) = <<Truncated(Behind(cs[m], USER_PREFIX), USER_SIZE),
                            Behind(x, PASS_PREFIX)>>
    BY <1>1, <2>1 DEF NextPair
  <2> QED
    BY <2>2, <2>3, PairIsSeqs
<1>15. CASE k + 1 \in T
  <2> HIDE DEF S, T
  <2>1. b = Append(a, k + 1) /\ Len(b) = Len(a) + 1 /\ b[Len(a) + 1] = k + 1
        /\ \A i \in 1 .. Len(a) : b[i] = a[i]
    BY <1>9, <1>15
  <2>2. UserBefore(cs, k + 1) # {} /\ HasPrefix(x, PASS_PREFIX)
    BY <1>6, <1>15
  <2>3. PairAt(r, k + 1) = NextPair(cs, x)
    <3>1. PICK m : m = CHOOSE j \in UserBefore(cs, k + 1) : TRUE
      OBVIOUS
    <3>2. m \in 1 .. k /\ r[m] = cs[m]
      BY <1>3, <1>11, <2>2, <3>1
    <3>3. PairAt(r, k + 1) = <<Truncated(Behind(r[m], USER_PREFIX), USER_SIZE),
                               Behind(r[k + 1], PASS_PREFIX)>>
      <4>1. UserBefore(r, k + 1) = UserBefore(cs, k + 1)
        BY <1>4
      <4>2. m = CHOOSE j \in UserBefore(r, k + 1) : TRUE
        BY <3>1, <4>1
      <4> QED
        BY <4>2 DEF PairAt
    <3>4. NextPair(cs, x) = <<Truncated(Behind(cs[m], USER_PREFIX), USER_SIZE),
                              Behind(x, PASS_PREFIX)>>
      BY <1>1, <3>1 DEF NextPair
    <3> QED
      BY <1>3, <3>2, <3>3, <3>4
  <2>4. PICK y : y = PairsOf(r)
    OBVIOUS
  <2>5. PICK s \in Seq(Seq(Nat) \X Seq(Nat)) : s = PairsOf(cs)
    BY <1>13
  <2>6. Len(s) = Len(a) /\ Len(a) \in Nat
    BY <1>9, <1>13, <2>5
  <2>7. DOMAIN y = 1 .. Len(s) + 1 /\ y = [i \in DOMAIN y |-> y[i]]
    BY <1>10, <2>1, <2>4, <2>6
  <2>8. \A i \in 1 .. Len(s) : y[i] = s[i]
    <3> TAKE i \in 1 .. Len(s)
    <3>1. i \in 1 .. Len(a) /\ i \in 1 .. Len(b) /\ b[i] = a[i]
      BY <2>1, <2>6
    <3>2. y[i] = PairAt(r, a[i]) /\ s[i] = PairAt(cs, a[i])
      BY <1>10, <2>4, <2>5, <3>1
    <3> QED
      BY <1>12, <3>1, <3>2
  <2>9. y[Len(s) + 1] = NextPair(cs, x)
    BY <1>10, <2>1, <2>3, <2>4, <2>6
  <2>10. NextPair(cs, x) \in Seq(Nat) \X Seq(Nat)
    BY <1>14, <2>2
  <2>11. y = Append(s, NextPair(cs, x))
    BY <2>7, <2>8, <2>9, <2>10, AppendIs
  <2> QED
    BY <1>1, <1>2, <1>13, <1>14, <2>2, <2>4, <2>5, <2>11
<1>16. CASE k + 1 \notin T
  <2> HIDE DEF S, T
  <2>1. b = a
    BY <1>9, <1>16
  <2>2. PairsOf(r) = PairsOf(cs)
    <3> DEFINE of(i) == PairAt(r, a[i])
               as(i) == PairAt(cs, a[i])
    <3>1. /\ PairsOf(r) = [i \in 1 .. Len(a) |-> of(i)]
          /\ PairsOf(cs) = [i \in 1 .. Len(a) |-> as(i)]
      BY <1>10, <2>1
    <3>2. \A i \in 1 .. Len(a) : of(i) = as(i)
      BY <1>12
    <3> HIDE DEF of, as
    <3> QED
      BY <3>1, <3>2
  <2>3. ~(HasPrefix(x, PASS_PREFIX) /\ UserBefore(cs, k + 1) # {})
    BY <1>6, <1>16
  <2> QED
    BY <1>1, <1>2, <1>13, <1>14, <2>2, <2>3
<1> QED
  BY <1>15, <1>16
-----------------------------------------------------------------------------
(* The sniffer.                                                            *)

SnifferOK ==
  [line : Seq(Nat), overflow : BOOLEAN, user : Seq(Nat), have_user : BOOLEAN,
   reported : Seq(Seq(Nat) \X Seq(Nat))]

\* The sniffer s has seen the commands.
Knows(s, commands) ==
  LET users == UserBefore(commands, Len(commands) + 1)
  IN  /\ s.have_user <=> users # {}
      /\ \A m \in users :
           s.user = Truncated(Behind(commands[m], USER_PREFIX), USER_SIZE)
      /\ s.reported = PairsOf(commands)

\* The sniffer s has been fed q: its line is what q has behind its last LF,
\* unless that is too long.
Sniffs(s, q) ==
  /\ s \in SnifferOK /\ Len(s.line) < LINE_SIZE
  /\ s.overflow <=> Len(Pending(q)) >= LINE_SIZE
  /\ ~s.overflow => s.line = Pending(q)
  /\ Knows(s, Commands(q))

(* What process_line leaves of the sniffer.                                *)
LEMMA ProcessKeeps ==
  ASSUME NEW cs \in Seq(Seq(Nat)), NEW x \in Seq(Nat), NEW s \in SnifferOK, Knows(s, cs)
  PROVE  /\ process_line(s, x) \in SnifferOK
         /\ Knows(process_line(s, x), Append(cs, x))
<1>1. PICK k \in Nat : k = Len(cs)
  OBVIOUS
<1>2. PICK r : r = Append(cs, x)
  OBVIOUS
<1>3. (\A n \in 1 .. k : r[n] = cs[n]) /\ r[k + 1] = x /\ Len(r) = k + 1
  BY <1>1, <1>2
<1>4. PICK W : W = UserBefore(cs, k + 1)
  OBVIOUS
<1>5. PICK V : V = UserBefore(r, Len(r) + 1)
  OBVIOUS
<1>6. V = NextUsers(cs, x)
  <2>1. Len(r) + 1 = Len(cs) + 2
    BY <1>1, <1>3
  <2> QED
    BY <1>2, <1>5, <2>1, UserBeforeStep
<1>7. \A m \in W : m \in 1 .. k
  BY <1>4 DEF UserBefore
<1>8. /\ s.have_user <=> W # {}
      /\ s.reported = PairsOf(cs)
      /\ \A m \in W : s.user = Truncated(Behind(cs[m], USER_PREFIX), USER_SIZE)
  BY <1>1, <1>4 DEF Knows
<1>9. PICK t : t = process_line(s, x)
  OBVIOUS
<1> SUFFICES /\ t \in SnifferOK /\ (t.have_user <=> V # {}) /\ t.reported = PairsOf(r)
             /\ \A m \in V : t.user = Truncated(Behind(r[m], USER_PREFIX), USER_SIZE)
  BY <1>2, <1>5, <1>9 DEF Knows
<1>10. /\ PairsOf(cs) \in Seq(Seq(Nat) \X Seq(Nat))
       /\ PairsOf(r) = IF HasPrefix(x, PASS_PREFIX) /\ W # {}
                       THEN Append(PairsOf(cs), NextPair(cs, x)) ELSE PairsOf(cs)
       /\ W # {} => NextPair(cs, x) \in Seq(Nat) \X Seq(Nat)
  BY <1>1, <1>2, <1>4, PairsStep
<1>11. CASE HasPrefix(x, USER_PREFIX)
  <2>1. ~HasPrefix(x, PASS_PREFIX)
    BY <1>11, PrefixesDiffer
  <2>2. PICK u : u = Truncated(Behind(x, USER_PREFIX), USER_SIZE)
    OBVIOUS
  <2>3. u \in Seq(Nat)
    BY <2>2, PairIsSeqs
  <2>4. t = [s EXCEPT !.user = u, !.have_user = TRUE]
    BY <1>9, <1>11, <2>2 DEF process_line
  <2>5. t \in SnifferOK /\ t.have_user = TRUE /\ t.user = u /\ t.reported = s.reported
    BY <2>3, <2>4 DEF SnifferOK
  <2>6. V = {k + 1}
    BY <1>1, <1>6, <1>11 DEF NextUsers
  <2> QED
    BY <1>3, <1>8, <1>10, <2>1, <2>2, <2>5, <2>6
<1>12. CASE ~HasPrefix(x, USER_PREFIX) /\ HasPrefix(x, PASS_PREFIX)
  <2>1. V = {}
    BY <1>6, <1>12 DEF NextUsers
  <2>2. CASE W # {}
    <3>1. PICK m : m = CHOOSE j \in W : TRUE
      OBVIOUS
    <3>2. m \in W
      BY <2>2, <3>1
    <3>3. NextPair(cs, x) = <<s.user, Behind(x, PASS_PREFIX)>>
      BY <1>1, <1>4, <1>8, <3>1, <3>2 DEF NextPair
    <3>4. s.have_user
      BY <1>8, <2>2
    <3>5. t = [s EXCEPT !.reported = Append(s.reported, <<s.user, Behind(x, PASS_PREFIX)>>),
                        !.have_user = FALSE]
      BY <1>9, <1>12, <3>4 DEF process_line
    <3>6. t = [s EXCEPT !.reported = PairsOf(r), !.have_user = FALSE]
      BY <1>8, <1>10, <1>12, <2>2, <3>3, <3>5
    <3>7. PairsOf(r) \in Seq(Seq(Nat) \X Seq(Nat))
      <4>1. PICK y : y = NextPair(cs, x)
        OBVIOUS
      <4>2. PICK l : l = PairsOf(cs)
        OBVIOUS
      <4>3. Append(l, y) \in Seq(Seq(Nat) \X Seq(Nat))
        BY <1>10, <2>2, <4>1, <4>2, AppendProperties
      <4> QED
        BY <1>10, <1>12, <2>2, <4>1, <4>2, <4>3
    <3>8. PICK l \in Seq(Seq(Nat) \X Seq(Nat)) : l = PairsOf(r)
      BY <3>7
    <3>9. t \in SnifferOK /\ t.reported = l /\ t.have_user = FALSE
      BY <3>6, <3>8 DEF SnifferOK
    <3> QED
      BY <2>1, <3>8, <3>9
  <2>3. CASE W = {}
    <3>1. ~s.have_user
      BY <1>8, <2>3
    <3>2. t = s
      BY <1>9, <1>12, <3>1 DEF process_line
    <3> QED
      BY <1>8, <1>10, <2>1, <2>3, <3>2
  <2> QED
    BY <2>2, <2>3
<1>13. CASE ~HasPrefix(x, USER_PREFIX) /\ ~HasPrefix(x, PASS_PREFIX)
  <2>1. t = s
    BY <1>9, <1>13 DEF process_line
  <2>2. V = W
    BY <1>1, <1>4, <1>6, <1>13 DEF NextUsers
  <2>3. \A m \in V : t.user = Truncated(Behind(r[m], USER_PREFIX), USER_SIZE)
    BY <1>3, <1>7, <1>8, <2>1, <2>2
  <2> QED
    BY <1>8, <1>10, <1>13, <2>1, <2>2, <2>3
<1> QED
  BY <1>11, <1>12, <1>13

(* A line that is no command changes nothing.                              *)
LEMMA NoCommand ==
  ASSUME NEW s
  PROVE  process_line(s, <<>>) = s
<1>1. Len(USER_PREFIX) \in Nat /\ Len(USER_PREFIX) # 0 /\ Len(PASS_PREFIX) = Len(USER_PREFIX)
  <2>1. PICK i \in 1 .. Len(USER_PREFIX) : TRUE
    BY Pop3Assumption
  <2> QED
    BY <2>1, Pop3Assumption
<1>2. ~HasPrefix(<<>>, USER_PREFIX) /\ ~HasPrefix(<<>>, PASS_PREFIX)
  BY <1>1 DEF HasPrefix
<1> QED
  BY <1>2 DEF process_line

(* A byte makes the sniffer of q one of q with the byte.                   *)
LEMMA FeedKeeps ==
  ASSUME NEW q \in Seq(Nat), NEW c \in Nat, NEW s, Sniffs(s, q)
  PROVE  Sniffs(FeedByte(s, c), Append(q, c))
<1>1. PICK r : r = Append(q, c)
  OBVIOUS
<1>2. PICK cs \in Seq(Seq(Nat)) : cs = Commands(q)
  BY CommandsStep
<1>3. PICK l \in Seq(Nat) : l = Pending(q)
  BY CommandsStep
<1>4. /\ s \in SnifferOK /\ Len(s.line) < LINE_SIZE
      /\ s.overflow <=> Len(l) >= LINE_SIZE
      /\ ~s.overflow => s.line = l
      /\ Knows(s, cs)
  BY <1>2, <1>3 DEF Sniffs
<1>5. LINE_SIZE \in Nat \ {0}
  BY Pop3Assumption
<1>6. CASE c = LF
  <2>1. PICK x \in Seq(Nat) : x = AsCommand(l)
    BY AsCommandIsSeq
  <2>2. Commands(r) = Append(cs, x) /\ Pending(r) = <<>>
    BY <1>1, <1>2, <1>3, <1>6, <2>1, CommandsStep
  <2>3. PICK t : t = process_line(s, x)
    OBVIOUS
  <2>4. t \in SnifferOK /\ Knows(t, Append(cs, x))
    BY <1>4, <2>3, ProcessKeeps
  <2>5. FeedByte(s, c) = [t EXCEPT !.line = <<>>, !.overflow = FALSE]
    <3> DEFINE end == Len(s.line) - IF s.line # <<>> /\ Last(s.line) = CR THEN 1 ELSE 0
               done == IF s.overflow THEN s
                       ELSE process_line(s, CString(SubSeq(s.line, 1, end)))
    <3>1. done = t
      <4>1. CASE s.overflow
        <5>1. x = <<>>
          BY <1>4, <2>1, <4>1 DEF AsCommand
        <5> QED
          BY <2>3, <4>1, <5>1, NoCommand
      <4>2. CASE ~s.overflow
        <5>1. s.line = l /\ ~(Len(l) >= LINE_SIZE)
          BY <1>4, <4>2
        <5>2. SubSeq(l, 1, Len(l)) = l
          OBVIOUS
        <5>3. SubSeq(s.line, 1, end) = IF l # <<>> /\ Last(l) = CR THEN Front(l) ELSE l
          <6>1. CASE l # <<>> /\ Last(l) = CR
            <7>1. end = Len(l) - 1
              BY <5>1, <6>1
            <7> QED
              BY <5>1, <6>1, <7>1 DEF Front
          <6>2. CASE ~(l # <<>> /\ Last(l) = CR)
            <7>1. end = Len(l)
              BY <5>1, <6>2
            <7> QED
              BY <5>1, <5>2, <6>2, <7>1
          <6> QED
            BY <6>1, <6>2
        <5>4. CString(SubSeq(s.line, 1, end)) = x
          <6> HIDE DEF end
          <6> QED
            BY <2>1, <5>1, <5>3 DEF AsCommand
        <5> HIDE DEF end
        <5> QED
          BY <2>3, <4>2, <5>4
      <4> QED
        BY <1>4, <4>1, <4>2 DEF SnifferOK
    <3>2. EndOfLine(s) = [done EXCEPT !.line = <<>>, !.overflow = FALSE]
      BY Zenon DEF EndOfLine
    <3>3. FeedByte(s, c) = EndOfLine(s)
      BY <1>6 DEF FeedByte
    <3> HIDE DEF done
    <3> QED
      BY <3>1, <3>2, <3>3
  <2>6. PICK f : f = FeedByte(s, c)
    OBVIOUS
  <2>7. /\ f \in SnifferOK /\ f.line = <<>> /\ f.overflow = FALSE
        /\ f.have_user = t.have_user /\ f.user = t.user /\ f.reported = t.reported
    <3>1. PICK e \in Seq(Nat) : e = <<>>
      BY EmptySeq
    <3>2. f = [t EXCEPT !.line = e, !.overflow = FALSE]
      BY <2>5, <2>6, <3>1
    <3>3. /\ f \in SnifferOK /\ f.line = e /\ f.overflow = FALSE
          /\ f.have_user = t.have_user /\ f.user = t.user /\ f.reported = t.reported
      BY <2>4, <3>2 DEF SnifferOK
    <3> QED
      BY <3>1, <3>3
  <2>8. Knows(f, Append(cs, x))
    BY <2>4, <2>7 DEF Knows
  <2> QED
    <3>1. Len(f.line) = 0 /\ Len(Pending(r)) = 0
      BY <2>2, <2>7
    <3>2. Len(f.line) < LINE_SIZE /\ ~(Len(Pending(r)) >= LINE_SIZE)
      BY <1>5, <3>1
    <3> QED
      BY <1>1, <2>2, <2>6, <2>7, <2>8, <3>2 DEF Sniffs
<1>7. CASE c # LF
  <2>1. Commands(r) = cs /\ Pending(r) = Append(l, c)
    BY <1>1, <1>2, <1>3, <1>7, CommandsStep
  <2>2. Len(Append(l, c)) = Len(l) + 1 /\ Len(l) \in Nat
    OBVIOUS
  <2>3. PICK f : f = FeedByte(s, c)
    OBVIOUS
  <2>4. CASE s.overflow
    <3>1. f = s
      BY <1>7, <2>3, <2>4 DEF FeedByte
    <3>2. (s.overflow <=> Len(Append(l, c)) >= LINE_SIZE)
      BY <1>4, <1>5, <2>2, <2>4
    <3> QED
      BY <1>1, <1>4, <2>1, <2>3, <2>4, <3>1, <3>2 DEF Sniffs
  <2>5. CASE ~s.overflow /\ Len(l) < LINE_SIZE - 1
    <3>1. f = [s EXCEPT !.line = Append(l, c)]
      BY <1>4, <1>7, <2>3, <2>5 DEF FeedByte, PutByte
    <3>2. /\ f \in SnifferOK /\ f.line = Append(l, c) /\ f.overflow = s.overflow
          /\ f.have_user = s.have_user /\ f.user = s.user /\ f.reported = s.reported
      <4>1. PICK e \in Seq(Nat) : e = Append(l, c)
        BY AppendProperties
      <4>2. f = [s EXCEPT !.line = e]
        BY <3>1, <4>1
      <4>3. /\ f \in SnifferOK /\ f.line = e /\ f.overflow = s.overflow
            /\ f.have_user = s.have_user /\ f.user = s.user /\ f.reported = s.reported
        BY <1>4, <4>2 DEF SnifferOK
      <4> QED
        BY <4>1, <4>3
    <3>3. Knows(f, cs)
      BY <1>4, <3>2 DEF Knows
    <3>4. (s.overflow <=> Len(Append(l, c)) >= LINE_SIZE) /\ Len(Append(l, c)) < LINE_SIZE
      BY <1>4, <1>5, <2>2, <2>5
    <3> QED
      BY <1>1, <2>1, <2>3, <3>2, <3>3, <3>4 DEF Sniffs
  <2>6. CASE ~s.overflow /\ ~(Len(l) < LINE_SIZE - 1)
    <3>1. f = [s EXCEPT !.overflow = TRUE]
      BY <1>4, <1>7, <2>3, <2>6 DEF FeedByte, PutByte
    <3>2. /\ f \in SnifferOK /\ f.line = s.line /\ f.overflow = TRUE
          /\ f.have_user = s.have_user /\ f.user = s.user /\ f.reported = s.reported
      BY <1>4, <3>1 DEF SnifferOK
    <3>3. Knows(f, cs)
      BY <1>4, <3>2 DEF Knows
    <3>4. Len(Append(l, c)) >= LINE_SIZE
      BY <1>4, <1>5, <2>2, <2>6
    <3> QED
      BY <1>1, <1>4, <2>1, <2>3, <3>2, <3>3, <3>4 DEF Sniffs
  <2> QED
    BY <2>4, <2>5, <2>6
<1> QED
  BY <1>6, <1>7

(* A prefix with the element that follows is the next prefix.              *)
LEMMA NextPrefix ==
  ASSUME NEW q \in Seq(Nat), NEW d \in Seq(Nat), NEW i \in 0 .. Len(d) - 1
  PROVE  q \o SubSeq(d, 1, i + 1) = Append(q \o SubSeq(d, 1, i), d[i + 1])
<1>1. i \in Nat /\ i + 1 \in 1 .. Len(d) /\ d[i + 1] \in Nat /\ Len(q) \in Nat
  OBVIOUS
<1>2. PICK a : a = SubSeq(d, 1, i)
  OBVIOUS
<1>3. PICK b : b = SubSeq(d, 1, i + 1)
  OBVIOUS
<1>4. /\ a \in Seq(Nat) /\ Len(a) = i /\ \A j \in 1 .. i : a[j] = d[j]
      /\ b \in Seq(Nat) /\ Len(b) = i + 1 /\ \A j \in 1 .. i + 1 : b[j] = d[j]
  BY <1>1, <1>2, <1>3
<1>5. PICK y : y = q \o b
  OBVIOUS
<1>6. PICK s : s = q \o a
  OBVIOUS
<1>7. /\ s \in Seq(Nat) /\ Len(s) = Len(q) + i
      /\ \A j \in 1 .. Len(s) : s[j] = IF j <= Len(q) THEN q[j] ELSE a[j - Len(q)]
  BY <1>4, <1>6, ConcatProperties
<1>8. /\ y \in Seq(Nat) /\ Len(y) = Len(q) + (i + 1)
      /\ \A j \in 1 .. Len(y) : y[j] = IF j <= Len(q) THEN q[j] ELSE b[j - Len(q)]
  BY <1>4, <1>5, ConcatProperties
<1>9. Len(y) = Len(s) + 1
  BY <1>1, <1>7, <1>8
<1>10. DOMAIN y = 1 .. Len(s) + 1 /\ y = [n \in DOMAIN y |-> y[n]]
  BY <1>8, <1>9
<1>11. \A j \in 1 .. Len(s) : y[j] = s[j]
  <2> TAKE j \in 1 .. Len(s)
  <2>1. PICK m \in Nat : m = Len(q)
    BY <1>1
  <2>2. j \in Nat /\ 1 <= j /\ j <= m + i
    BY <1>7, <2>1
  <2>3. j \in 1 .. m + (i + 1)
    BY ONLY <2>2, i \in Nat, m \in Nat
  <2>4. y[j] = IF j <= m THEN q[j] ELSE b[j - m]
    BY <1>8, <2>1, <2>3
  <2>5. s[j] = IF j <= m THEN q[j] ELSE a[j - m]
    BY <1>7, <2>1
  <2>6. CASE j <= m
    BY <2>4, <2>5, <2>6
  <2>7. CASE ~(j <= m)
    <3>1. j - m \in 1 .. i /\ j - m \in 1 .. i + 1
      BY ONLY <2>2, <2>7, i \in Nat, m \in Nat
    <3> QED
      BY <1>4, <2>4, <2>5, <2>7, <3>1
  <2> QED
    BY <2>6, <2>7
<1>12. y[Len(s) + 1] = d[i + 1]
  <2>1. /\ Len(s) + 1 \in 1 .. Len(y) /\ ~(Len(s) + 1 <= Len(q))
        /\ Len(s) + 1 - Len(q) = i + 1
    <3>1. PICK m \in Nat : m = Len(q)
      BY <1>1
    <3>2. Len(s) = m + i /\ Len(y) = m + i + 1
      BY <1>7, <1>9, <3>1
    <3>3. /\ m + i + 1 \in 1 .. m + i + 1 /\ ~(m + i + 1 <= m)
          /\ m + i + 1 - m = i + 1
      BY ONLY i \in Nat, m \in Nat
    <3> QED
      BY <3>1, <3>2, <3>3
  <2>2. y[Len(s) + 1] = b[i + 1]
    BY <1>8, <2>1
  <2> QED
    BY <1>1, <1>4, <2>2
<1>13. y = Append(s, d[i + 1])
  BY <1>1, <1>7, <1>10, <1>11, <1>12, AppendIs
<1> QED
  BY <1>2, <1>3, <1>5, <1>6, <1>13

(* The loop over a chunk makes the sniffer of q one of q with the chunk.   *)
LEMMA FedKeeps ==
  ASSUME NEW q \in Seq(Nat), NEW data \in Seq(Nat), NEW s, Sniffs(s, q)
  PROVE  Sniffs(Fed(s, data), q \o data)
<1>1. PICK n \in Nat : n = Len(data)
  OBVIOUS
<1> DEFINE X == {x \in SnifferOK : \E z \in Seq(Nat) : Sniffs(x, z)}
           g == [i \in 1 .. n |-> [x \in X |-> FeedByte(x, data[i])]]
           body(h) == [i \in 0 .. Len(data) |->
                         IF i = 0 THEN s ELSE FeedByte(h[i - 1], data[i])]
           after == CHOOSE h : h = body(h)
<1>2. \A i \in 1 .. n : data[i] \in Nat
  BY <1>1
<1>3. \A i \in 1 .. n, x \in X : FeedByte(x, data[i]) \in X
  <2> TAKE i \in 1 .. n, x \in X
  <2>1. PICK z \in Seq(Nat) : Sniffs(x, z)
    OBVIOUS
  <2>2. Sniffs(FeedByte(x, data[i]), Append(z, data[i])) /\ Append(z, data[i]) \in Seq(Nat)
    BY <1>2, <2>1, FeedKeeps
  <2> QED
    BY <2>2 DEF Sniffs
<1>4. s \in X
  BY DEF Sniffs
<1> HIDE DEF X
<1>5. Steps(n, X, g)
  <2>1. \A i \in 1 .. n : [x \in X |-> FeedByte(x, data[i])] \in [X -> X]
    BY <1>3
  <2> QED
    BY <2>1 DEF Steps
<1>6. PICK f : Iterates(f, n, X, s, g)
  <2> HIDE DEF g
  <2> QED
    BY <1>4, <1>5, RecursionExists
<1>7. f \in [0 .. n -> X] /\ f[0] = s /\ \A i \in 1 .. n : f[i] = g[i][f[i - 1]]
  BY <1>6 DEF Iterates
<1>8. \A i \in 1 .. n : f[i] = FeedByte(f[i - 1], data[i])
  <2> TAKE i \in 1 .. n
  <2>1. i - 1 \in 0 .. n
    OBVIOUS
  <2>2. f[i - 1] \in X
    BY <1>7, <2>1
  <2> QED
    BY <1>7, <2>2
<1>9. f = body(f)
  <2>1. \A i \in 0 .. n : f[i] = IF i = 0 THEN s ELSE FeedByte(f[i - 1], data[i])
    <3> TAKE i \in 0 .. n
    <3>1. CASE i = 0
      BY <1>7, <3>1
    <3>2. CASE i # 0
      <4>1. i \in 1 .. n
        BY <3>2
      <4> QED
        BY <1>8, <3>2, <4>1
    <3> QED
      BY <3>1, <3>2
  <2>2. f = [i \in 0 .. n |-> f[i]]
    BY <1>7
  <2> QED
    BY <1>1, <2>1, <2>2
<1>10. after = body(after)
  <2> HIDE DEF body
  <2> QED
    BY <1>9
<1>11. Fed(s, data) = after[Len(data)]
  BY Zenon DEF Fed
<1> HIDE DEF after
<1>12. \A i \in 0 .. n : after[i] = IF i = 0 THEN s ELSE FeedByte(after[i - 1], data[i])
  BY <1>1, <1>10
<1> DEFINE P == {i \in 0 .. n : Sniffs(after[i], q \o SubSeq(data, 1, i))}
<1>13. 0 \in P
  <2>1. after[0] = s
    BY <1>12
  <2>2. q \o SubSeq(data, 1, 0) = q
    BY SubSeqEmpty
  <2>3. Sniffs(after[0], q \o SubSeq(data, 1, 0))
    BY <2>1, <2>2, Zenon
  <2>4. 0 \in 0 .. n
    OBVIOUS
  <2> QED
    BY <2>3, <2>4, Zenon
<1>14. ASSUME NEW i \in 0 .. n - 1, i \in P PROVE i + 1 \in P
  <2>1. i + 1 \in 1 .. n /\ i + 1 \in 0 .. n /\ (i + 1) - 1 = i /\ i + 1 # 0
    OBVIOUS
  <2>2. after[i + 1] = FeedByte(after[i], data[i + 1])
    BY <1>12, <2>1
  <2>3. PICK z : z = q \o SubSeq(data, 1, i)
    OBVIOUS
  <2>4. z \in Seq(Nat)
    <3>1. i \in 0 .. Len(data)
      BY <1>1
    <3> QED
      BY <2>3, <3>1, CutSeq, ConcatProperties
  <2>5. Sniffs(FeedByte(after[i], data[i + 1]), Append(z, data[i + 1]))
    BY <1>2, <1>14, <2>1, <2>3, <2>4, FeedKeeps
  <2>6. q \o SubSeq(data, 1, i + 1) = Append(z, data[i + 1])
    BY <1>1, <2>3, NextPrefix
  <2> QED
    BY <2>1, <2>2, <2>5, <2>6
<1>15. \A i \in 0 .. n : i \in P
  <2> HIDE DEF P
  <2> QED
    BY <1>13, <1>14, Induction
<1>16. Sniffs(after[n], q \o SubSeq(data, 1, n))
  BY <1>15
<1>17. SubSeq(data, 1, n) = data
  BY <1>1
<1> QED
  BY <1>1, <1>11, <1>16, <1>17

-----------------------------------------------------------------------------
(* The connections.                                                        *)

\* The sniffer of the connection has been fed what its client sent.
Pop3Inv == fed \in Seq(Nat) /\ Sniffs(Sniffer, fed)

LEMMA Pop3InitHolds ==
  ASSUME NEW l, l = pop3_sniffer_init(Cleared)
  PROVE  Sniffs([line |-> l.line, overflow |-> l.overflow, user |-> l.user,
                 have_user |-> l.have_user, reported |-> <<>>], <<>>)
<1>1. l = Cleared
  BY DEF pop3_sniffer_init, Cleared
<1>2. PICK s : s = [line |-> <<>>, overflow |-> FALSE, user |-> <<>>,
                    have_user |-> FALSE, reported |-> <<>>]
  OBVIOUS
<1>3. s \in SnifferOK
  <2>1. <<>> \in Seq(Nat) /\ <<>> \in Seq(Seq(Nat) \X Seq(Nat))
    BY EmptySeq
  <2> QED
    BY <1>2, <2>1 DEF SnifferOK
<1>4. LINE_SIZE \in Nat \ {0}
  BY Pop3Assumption
<1>5. \A S : Places(S, 0) = <<>>
  <2>1. 0 \in Nat
    OBVIOUS
  <2> QED
    BY <2>1, PlacesStep
<1>6. Ends(<<>>) = <<>>
  BY <1>5 DEF Ends
<1>7. Commands(<<>>) = <<>>
  BY <1>6 DEF Commands
<1>8. Pending(<<>>) = <<>>
  BY <1>6 DEF Pending, EndOf
<1>9. UserBefore(<<>>, Len(<<>>) + 1) = {}
  BY DEF UserBefore
<1>10. PairsOf(<<>>) = <<>>
  BY <1>5 DEF PairsOf
<1>11. Knows(s, <<>>)
  BY <1>2, <1>9, <1>10 DEF Knows
<1>12. Len(s.line) = 0 /\ Len(Pending(<<>>)) = 0 /\ s.line = <<>> /\ s.overflow = FALSE
  BY <1>2, <1>8
<1>13. Len(s.line) < LINE_SIZE /\ ~(Len(Pending(<<>>)) >= LINE_SIZE)
  BY <1>4, <1>12
<1>14. Sniffs(s, <<>>)
  BY <1>3, <1>7, <1>8, <1>11, <1>12, <1>13 DEF Sniffs
<1>15. [line |-> l.line, overflow |-> l.overflow, user |-> l.user,
        have_user |-> l.have_user, reported |-> <<>>] = s
  <2>1. l.line = <<>> /\ l.overflow = FALSE /\ l.user = <<>> /\ l.have_user = FALSE
    BY <1>1 DEF Cleared
  <2> QED
    BY <1>2, <2>1
<1> QED
  BY <1>14, <1>15, Zenon

LEMMA Pop3Steps ==
  ASSUME Pop3Inv, [Pop3Next]_vars
  PROVE  Pop3Inv'
<1>1. CASE copy_read
  <2>1. PICK data \in Chunks : pop3_sniffer_feed(data) /\ fed' = fed \o data
    BY <1>1 DEF copy_read
  <2>2. data \in Seq(Nat) /\ fed \in Seq(Nat) /\ Sniffs(Sniffer, fed)
    BY <2>1, Pop3Assumption DEF Pop3Inv
  <2>3. PICK f : f = Fed(Sniffer, data)
    OBVIOUS
  <2>4. Sniffs(f, fed \o data)
    BY <2>2, <2>3, FedKeeps
  <2>5. /\ p' = [line |-> f.line, overflow |-> f.overflow, user |-> f.user,
                 have_user |-> f.have_user]
        /\ pairs' = f.reported
    BY <2>1, <2>3 DEF pop3_sniffer_feed
  <2>6. Sniffer' = f
    <3>1. Sniffer' = [line |-> f.line, overflow |-> f.overflow, user |-> f.user,
                      have_user |-> f.have_user, reported |-> f.reported]
      BY <2>5 DEF Sniffer
    <3>2. f \in SnifferOK
      BY <2>4 DEF Sniffs
    <3> QED
      BY <3>1, <3>2 DEF SnifferOK
  <2>7. fed' \in Seq(Nat)
    BY <2>1, <2>2, ConcatProperties
  <2> QED
    BY <2>1, <2>4, <2>6, <2>7 DEF Pop3Inv, Sniffs, Knows
<1>2. CASE socks5_new
  BY <1>2, Pop3InitHolds, EmptySeq DEF socks5_new, Pop3Inv, Sniffer
<1>3. CASE UNCHANGED vars
  BY <1>3 DEF Pop3Inv, Sniffer, vars, Sniffs, Knows
<1> QED
  BY <1>1, <1>2, <1>3 DEF Pop3Next

(* The sniffer of pop3.c always stands where the bytes of this connection  *)
(* have led: pop3_sniffer_feed carries the line, whether it is too long,   *)
(* and the user of the last USER from chunk to chunk, and socks5_new       *)
(* leaves nothing of the connection that had the memory before.            *)
THEOREM Pop3Invariant == Pop3Spec => []Pop3Inv
<1>1. Pop3Init => Pop3Inv
  BY Pop3InitHolds, EmptySeq DEF Pop3Init, Pop3Inv, Sniffer
<1>2. Pop3Inv /\ [Pop3Next]_vars => Pop3Inv'
  BY Pop3Steps
<1> QED
  BY <1>1, <1>2, PTL DEF Pop3Spec

(* However recv cuts what copy_read feeds it, pop3_sniffer_feed has        *)
(* reported exactly the pairs of USER and PASS in those lines, in order.   *)
THEOREM Pop3Reports == Pop3Spec => []PairsAreThoseSent
<1>1. Pop3Inv => PairsAreThoseSent
  BY DEF Pop3Inv, Sniffs, Knows, Sniffer, PairsAreThoseSent
<1> QED
  BY <1>1, Pop3Invariant, PTL
=============================================================================
